---------------------------- MODULE ColumnMapping ----------------------------
(***************************************************************************)
(* One field of the records of one table or collection on its way between   *)
(* two engines: the reader's canonical type for it (sampled for Mongo,      *)
(* declared for SQL), the column the DDL gives that type, the mapper's      *)
(* coercion of each value, the writer's encoding and what the destination   *)
(* does with it.                                                            *)
(*                                                                         *)
(* A value is a meaning (is) in a JavaScript shape (as); renderings as text *)
(* or JSON keep the meaning.  Meanings stand for ranges: small fits 32      *)
(* bits, wide 53, huge neither; exact has more than ten decimal places.     *)
(* How the drivers shape values and what the databases accept is external.  *)
(***************************************************************************)
EXTENDS Integers, FiniteSets

CONSTANT SampleSize    \* documents $sample returns, at most

ASSUME ColumnMappingAssumption == SampleSize \in Nat \ {0}

VARIABLES
    route,    \* engines the run reads from and writes to
    naming,   \* is the name of the field, of the table, one the DDL rewrites?
    sample,   \* values of the field in the sampled documents
    column,   \* the inferred column: {} or {[type, nullable]}
    source,   \* the value read last: {} or {value}
    cell,     \* what the mapper made of it
    outcome,  \* what the destination holds of it
    stage

mappingVars == <<route, naming, sample, column, source, cell, outcome, stage>>

V(meaning, shape) == [is |-> meaning, as |-> shape]
Nothing == V("nothing", "null")
Absent == V("nothing", "undefined")
Rejected == V("rejected", "error")

MongoValues ==
    {Nothing, Absent, V("text", "string"), V("small", "number"), V("wide", "number"),
     V("huge", "Long"), V("fraction", "number"), V("exact", "Decimal128"),
     V("true", "boolean"), V("false", "boolean"), V("instant", "Date"),
     V("id", "ObjectId"), V("bytes", "Binary"), V("object", "object"), V("list", "array")}

Routes == {[from |-> "mongo", to |-> "postgres"], [from |-> "mongo", to |-> "mysql"],
           [from |-> "postgres", to |-> "mongo"], [from |-> "postgres", to |-> "mysql"],
           [from |-> "mysql", to |-> "mongo"], [from |-> "mysql", to |-> "postgres"]}

\* A declared column: its canonical type, and the meanings with the shapes the driver gives.
PostgresColumns ==
    {[type |-> "int", holds |-> {V("small", "number")}],
     [type |-> "long", holds |-> {V(m, "string") : m \in {"small", "wide", "huge"}}],
     [type |-> "double", holds |-> {V("small", "number"), V("fraction", "number")}],
     [type |-> "decimal", holds |-> {V("small", "string"), V("exact", "string")}],
     [type |-> "boolean", holds |-> {V("true", "boolean"), V("false", "boolean")}],
     [type |-> "string", holds |-> {V("text", "string")}],
     [type |-> "uuid", holds |-> {V("text", "string")}],
     [type |-> "jsonb", holds |-> {V("object", "object"), V("text", "string")}],
     [type |-> "array", holds |-> {V("list", "array")}],
     [type |-> "binary", holds |-> {V("bytes", "Buffer")}],
     [type |-> "timestamp", holds |-> {V("instant", "Date")}]}

\* mysql2 returns BIGINT as a number.  TINYINT(1) is taken for a boolean and may hold any byte.
MysqlColumns ==
    {[type |-> "int", holds |-> {V("small", "number")}],
     [type |-> "long", holds |-> {V("small", "number"), V("wide", "number"), V("huge", "rounded")}],
     [type |-> "double", holds |-> {V("small", "number"), V("fraction", "number")}],
     [type |-> "decimal", holds |-> {V("small", "string"), V("exact", "string")}],
     [type |-> "boolean", holds |-> {V("true", "number"), V("false", "number"), V("small", "number")}],
     [type |-> "string", holds |-> {V("text", "string")}],
     [type |-> "json", holds |-> {V("object", "object"), V("text", "string")}],
     [type |-> "binary", holds |-> {V("bytes", "Buffer")}],
     [type |-> "timestamp", holds |-> {V("instant", "Date")}]}

Declared(engine) == IF engine = "postgres" THEN PostgresColumns ELSE MysqlColumns

-----------------------------------------------------------------------------
(* Inference.                                                                *)

canonicalBsonType(v) ==
    CASE v.as \in {"null", "undefined"} -> "null"
      [] v.as = "array" -> "array"
      [] v.as = "Date" -> "timestamp"
      [] v.as = "ObjectId" -> "objectid"
      [] v.as = "Decimal128" -> "decimal"
      [] v.as = "Long" -> "long"
      [] v.as = "Binary" -> "binary"
      [] v.as = "object" -> "jsonb"
      [] v.as = "number" -> IF v.is = "fraction" THEN "double" ELSE "int"
      [] v.as = "boolean" -> "boolean"
      [] OTHER -> "string"

\* Types among the documents that have the field.
Observed(values) == {canonicalBsonType(v) : v \in values \ {Absent}}

\* A plausible slip: the first type seen wins.
ResolveMutant(types) ==
    IF types \ {"null"} = {} THEN "null" ELSE CHOOSE t \in types : t # "null"

Resolve(types) ==
    CASE types \ {"null"} = {} -> "null"
      [] Cardinality(types \ {"null"}) = 1 -> CHOOSE t \in types : t # "null"
      [] OTHER -> "mixed"

\* A field no sampled document has gets no column.
SampledColumn(values) ==
    {[type |-> Resolve(types), nullable |-> Absent \in values \/ "null" \in types] :
        types \in {Observed(values)} \ {{}}}

-----------------------------------------------------------------------------
(* What the mappers make of a value, by canonical type.                      *)

Tolerant == {"string", "mixed", "null", "unknown"}
Json(v) == V(v.is, "json")
Truth(v) == V(IF v.is = "false" THEN "false" ELSE "true", "boolean")

\* toString() of a plain object or an array is no rendering of it.
Text(v) == V(IF v.as \in {"object", "array"} THEN "objectObject" ELSE v.is, "string")

\* Number(x), parseFloat(x): beyond 53 bits, and for long decimals, the nearest double.
Number(v) ==
    CASE v.is \in {"huge", "exact"} -> V(v.is, "rounded")
      [] v.is \in {"small", "wide", "fraction"} -> V(v.is, "number")
      [] OTHER -> V("nan", "number")

\* Math.trunc(x), parseInt(x).
Trunc(v) == IF v.is \in {"fraction", "exact"} THEN V("truncated", "number") ELSE Number(v)

\* new Date(x): of a number some instant, of a string that is no date an Invalid Date.
DateOf(v) ==
    CASE v.as = "Date" -> v
      [] v.as = "number" -> V("someInstant", "Date")
      [] v.as = "string" -> V("nan", "Date")
      [] OTHER -> Nothing

MongoToPostgres(type, v) ==
    CASE type \in Tolerant -> IF v.as \in {"string", "number", "boolean"} THEN Text(v) ELSE Json(v)
      [] type \in {"int", "long"} -> IF v.as = "number" THEN v ELSE Text(v)
      [] type = "double" -> IF v.as = "Date" THEN V("milliseconds", "number") ELSE v
      [] type \in {"decimal", "objectid"} -> Text(v)
      [] type = "boolean" -> Truth(v)
      [] type = "timestamp" -> IF v.as = "string" THEN v ELSE DateOf(v)
      [] type = "binary" -> IF v.as = "Binary" THEN V(v.is, "Buffer") ELSE Json(v)
      [] OTHER -> Json(v)

MongoToMysql(type, v) ==
    IF v.as = "ObjectId" THEN Text(v) ELSE
    CASE type \in Tolerant -> IF v.as \in {"string", "number", "boolean"} THEN Text(v) ELSE Json(v)
      [] type = "objectid" -> Text(v)
      [] type = "int" -> Trunc(v)
      [] type = "long" -> IF v.as = "number" THEN v ELSE Trunc(v)
      [] type = "double" -> Number(v)
      [] type = "decimal" -> Text(v)
      [] type = "boolean" -> Truth(v)
      [] type = "timestamp" -> DateOf(v)
      [] type = "binary" -> IF v.as = "Binary" THEN V(v.is, "Buffer") ELSE V("textBytes", "Buffer")
      [] OTHER -> IF v.as = "string" THEN v ELSE Json(v)

PostgresToMongo(type, v) ==
    CASE type = "long" -> IF v.is = "small" THEN V("small", "number") ELSE V(v.is, "Long")
      [] type = "decimal" -> V(v.is, "Decimal128")
      [] type = "binary" -> V(v.is, "Binary")
      [] OTHER -> v

MysqlToMongo(type, v) ==
    CASE type = "boolean" -> Truth(v)
      [] type = "long" -> IF v.as = "rounded" THEN v ELSE V(v.is, "Long")
      [] type = "decimal" -> V(v.is, "Decimal128")
      [] OTHER -> v

PostgresToMysql(type, v) ==
    CASE type = "boolean" -> Truth(v)
      [] type \in {"int", "long", "double"} -> IF v.as = "number" THEN v ELSE Number(v)
      [] type \in {"jsonb", "array"} -> IF v.as = "string" THEN v ELSE Json(v)
      [] OTHER -> v

MysqlToPostgres(type, v) ==
    CASE type = "boolean" -> Truth(v)
      [] type = "json" -> IF v.as = "string" THEN v ELSE Json(v)
      [] OTHER -> v

\* null and undefined become null before any type is looked at.
Coerce(from, to, type, v) ==
    IF v.is = "nothing" THEN Nothing ELSE
    CASE from = "mongo" -> IF to = "postgres" THEN MongoToPostgres(type, v) ELSE MongoToMysql(type, v)
      [] from = "postgres" -> IF to = "mongo" THEN PostgresToMongo(type, v) ELSE PostgresToMysql(type, v)
      [] OTHER -> IF to = "mongo" THEN MysqlToMongo(type, v) ELSE MysqlToPostgres(type, v)

\* The writers look a column up under the name the DDL gave it.  The mappers from Mongo file
\* the value under that name, those between SQL engines under the source's.
FiledUnder(from, to, rewritten) ==
    IF rewritten /\ from # "mongo" /\ to # "mongo" THEN "sourceName" ELSE "columnName"

LookedUp(from, to, rewritten, v) ==
    IF FiledUnder(from, to, rewritten) = "columnName" THEN v ELSE Nothing

-----------------------------------------------------------------------------
(* Encoding, and what the destination stores.                                *)

\* An Invalid Date is written as NULL.  encodeField writes two backslashes and an x for a
\* Buffer, which COPY's escaping doubles: bytea's input finds an escaped backslash, and the
\* digits as text.
Encode(to, v) ==
    CASE v.as \in {"object", "array", "Long", "Decimal128"} /\ to # "mongo" -> Json(v)
      [] v = V("nan", "Date") -> Nothing
      [] v.as = "Buffer" /\ to = "postgres" -> V("digits", "string")
      [] OTHER -> v

Numbers == {"small", "wide", "huge", "fraction", "exact", "truncated", "milliseconds"}

\* What a column accepts: the cast of the text (Postgres) or value (MySQL, strict mode).
Fits(to, type, v) ==
    CASE type \in Tolerant \cup {"uuid", "binary"} -> TRUE
      [] type = "objectid" -> v.is # "instant"
      [] type = "int" -> v.is \in {"small", "truncated"} /\ v.as # "json"
      [] type = "long" -> \/ v.is \in {"small", "wide", "huge", "truncated"} /\ v.as # "json"
                          \/ to = "mysql" /\ v.is = "fraction"
      [] type \in {"double", "decimal"} -> v.is \in Numbers /\ v.as # "json"
      [] type = "boolean" -> v.is \in {"true", "false"}
      [] type = "timestamp" -> v.as = "Date"
      [] OTHER -> v.as # "string"

\* A double keeps 53 bits, MySQL's DECIMAL(65,10) ten places, its BIGINT no fraction.
Kept(to, type, v) ==
    CASE v.as = "rounded" -> V("rounded", v.as)
      [] to # "mongo" /\ type = "double" /\ v.is \in {"huge", "exact"} -> V("rounded", v.as)
      [] to = "mysql" /\ type = "decimal" /\ v.is = "exact" -> V("rounded", v.as)
      [] to = "mysql" /\ type = "long" /\ v.is = "fraction" -> V("truncated", v.as)
      [] OTHER -> v

Store(to, col, v) ==
    IF to # "mongo" /\ v.is = "nothing" THEN IF col.nullable THEN Nothing ELSE Rejected
    ELSE IF to # "mongo" /\ ~Fits(to, col.type, v) THEN Rejected
    ELSE Kept(to, col.type, v)

-----------------------------------------------------------------------------
MappingInit ==
    /\ route \in Routes
    /\ naming \in [field : BOOLEAN, table : BOOLEAN]
    /\ sample = {} /\ column = {} /\ source = {} /\ cell = {} /\ outcome = {}
    /\ stage = "infer"

\* sampleMongoCollection.
InferSampled ==
    /\ stage = "infer" /\ route.from = "mongo"
    /\ \E values \in SUBSET MongoValues :
         /\ Cardinality(values) \in 1..SampleSize
         /\ sample' = values
         /\ column' = SampledColumn(values)
    /\ stage' = "read"
    /\ UNCHANGED <<route, naming, source, cell, outcome>>

\* inferSchema of the SQL readers.
InferDeclared ==
    /\ stage = "infer" /\ route.from # "mongo"
    /\ \E c \in Declared(route.from), nullable \in BOOLEAN :
         /\ sample' = c.holds \cup (IF nullable THEN {Nothing} ELSE {})
         /\ column' = {[type |-> c.type, nullable |-> nullable]}
    /\ stage' = "read"
    /\ UNCHANGED <<route, naming, source, cell, outcome>>

\* The next record: any document of the collection, any value the declared column admits.
ReadRecord ==
    /\ stage = "read"
    /\ \E v \in IF route.from = "mongo" THEN MongoValues ELSE sample : source' = {v}
    /\ cell' = {} /\ outcome' = {}
    /\ stage' = "map"
    /\ UNCHANGED <<route, naming, sample, column>>

\* mapRecord walks the schema's columns: a field without one is dropped.
MapRecord ==
    /\ stage = "map"
    /\ cell' = {Coerce(route.from, route.to, c.type, v) : c \in column, v \in source}
    /\ stage' = "write"
    /\ UNCHANGED <<route, naming, sample, column, source, outcome>>

\* writeBatch with this record.  CREATE TABLE rewrites the table's name, COPY and INSERT do not.
WriteRecord ==
    /\ stage = "write"
    /\ outcome' =
         IF naming.table /\ route.to # "mongo" THEN {Rejected}
         ELSE {Store(route.to, c, Encode(route.to, LookedUp(route.from, route.to, naming.field, v))) :
                  c \in column, v \in cell}
    /\ stage' = "read"
    /\ UNCHANGED <<route, naming, sample, column, source, cell>>

-----------------------------------------------------------------------------
MappingNext == InferSampled \/ InferDeclared \/ ReadRecord \/ MapRecord \/ WriteRecord
MappingSpec == MappingInit /\ [][MappingNext]_mappingVars

MappingTypeOK ==
    /\ route \in Routes /\ naming \in [field : BOOLEAN, table : BOOLEAN]
    /\ stage \in {"infer", "read", "map", "write"}
    /\ \A c \in column : c.nullable \in BOOLEAN
    /\ \A part \in {column, source, cell, outcome} : IsFiniteSet(part) /\ Cardinality(part) <= 1

Held == IF outcome = {} THEN Nothing ELSE CHOOSE o \in outcome : TRUE
Sampled(v) == route.from = "mongo" => canonicalBsonType(v) \in Observed(sample)
BetweenSql == route.from # "mongo" /\ route.to # "mongo"

\* What a column of the right type still loses.
NarrowedOf(type, v) ==
    \/ v.is = "bytes" /\ route.to = "postgres"
    \/ v.is = "huge" /\ "mysql" \in {route.from, route.to}
    \/ v.is = "exact" /\ route.to = "mysql"
    \/ v.is = "small" /\ type = "boolean" /\ route.from = "mysql"
    \/ naming.field /\ BetweenSql

\* What it refuses: integers between 32 and 53 bits, which the sampler calls int, and JSON
\* strings, which the mappers between SQL engines take for JSON text.
RefusedOf(type, v) ==
    \/ naming.table
    \/ v.is = "wide" /\ type = "int"
    \/ v.is = "text" /\ type \in {"json", "jsonb"} /\ BetweenSql
    \/ naming.field /\ BetweenSql

\* A record that was read is held by the destination as it was, or refused and counted, or
\* altered for a named cause: the sample had no such type (and then only a column of a scalar
\* type alters it, or there is no column), or it is one of the narrowings and refusals above.
\* An absent or null field is refused only if every sampled document had it, and only a field
\* that no sampled document had is dropped.
ColumnKeepsValues ==
  /\ stage # "infer" /\ column = {} => sample = {Absent}
  /\ stage = "read" => \A v \in source : \A c \in column :
        \/ Held.is = v.is
        \/ /\ v.is = "nothing" /\ Held = Rejected
           /\ naming.table \/ sample \cap {Nothing, Absent} = {}
        \/ Sampled(v) /\ (IF Held = Rejected THEN RefusedOf(c.type, v) ELSE NarrowedOf(c.type, v))
        \/ /\ ~Sampled(v) /\ v.is # "nothing"
           /\ IF Held = Rejected THEN naming.table \/ c.type \notin Tolerant
              ELSE c.type \notin Tolerant \cup {"jsonb", "array"}

\* "Buffers -> Postgres bytea hex literal: \xDEADBEEF" (postgres.writer.ts:287): what COPY
\* stored for a byte string is that byte string.
BytesLand ==
    stage = "read" /\ outcome # {} /\ Held # Rejected =>
        \A v \in source : v.is = "bytes" /\ cell = {V("bytes", "Buffer")} => Held.is = "bytes"

=============================================================================
