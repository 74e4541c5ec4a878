SPECIFICATION MappingSpec
CONSTANT SampleSize = 1
INVARIANT BytesLand
CHECK_DEADLOCK FALSE
