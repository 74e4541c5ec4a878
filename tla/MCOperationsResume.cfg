SPECIFICATION Spec
CONSTANTS
    r1 = r1  q1 = q1  a1 = a1  a2 = a2  d1 = d1  t1 = t1  t2 = t2
    Scenes = {"pivot"}
    Schedules = {"hourly", "daily", "never"}
    CronValid = {"hourly", "daily"}
    Keep = 1
    MaxRuns = 3
    Requests = {q1}
    RestoreRequests = {r1}
    MaxBreaks = 1
    Parts = 2
    MaxExportFaults = 1
    MaxExportCrashes = 2
    Databases = {"db1", "db2"}
    MaxLegacyFaults = 1
    MaxLegacyCrashes = 2
    Dbs = {d1}
    NoDb = NoDb
    Actors = {a1, a2}
    Backfill = Backfill
    MaxConnections = 2
    MaxMirrorFaults = 1
    Rounds = 4
    MaxQueries = 2
    Tenants = {t1, t2}
    NoTenant = NoTenant
    MemoTtl = 2
    MaxRedisFaults = 2
    u1 = u1  u2 = u2  x1 = x1  p1 = p1  p2 = p2  m1 = m1  m2 = m2
    Users = {u1, u2}
    Profiles = {p1, p2}
    NoProfile = NoProfile
    Strangers = {x1}
    Emails = {m1, m2}
    Tables = 2
    Scoped = {1}
    MaxImports = 2
    MaxImportFaults = 1
    MaxLive = 1
    g1 = g1  g2 = g2  g3 = g3  o1 = o1  o2 = o2
    Owners = {o1, o2}
    Pages = {g1, g2, g3}
    OwnerOf <- MCOwnerOf
    Prefix <- MCPrefix
    Titles = {"one", "two"}
    Limit = 1
    Ports = 2
    MaxSubmits = 3
    c1 = c1  c2 = c2
    Servers = {c1, c2}
    MongoServers = {c1}
    Selection = 1
    MaxTicks = 3
    MaxOutages = 2
INVARIANT ImportAlwaysResumes
CHECK_DEADLOCK FALSE
