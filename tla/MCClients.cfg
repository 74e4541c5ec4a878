SPECIFICATION ClientsSpec
CONSTANTS
    Scenes = {"sdk", "browser", "wizard", "alerts", "rules", "pool"}
    a = a  b = b
    r1 = r1  r2 = r2
    w1 = w1  w2 = w2  w3 = w3
    app = app  worker = worker
    Readers = {r1, r2}
    Writers = {w1, w2, w3}
    Clients = {app, worker}
    ClientOf <- MCClientOf
    Query <- MCQuery
    Statement <- MCStatement
    All = all
    None = none
    MaxFailures = 1
    x = x  y = y
    d1 = d1  d2 = d2  d3 = d3
    p1 = p1  p2 = p2
    Tables = {a, b}
    Columns = {x, y}
    Rows = {d1, d2, d3}
    Places = {p1, p2}
    HasColumns <- MCHasColumns
    Nobody = nobody
    Kinds = {"nosql", "sql"}
    MaxClicks = 4
    MaxOthers = 2
    mongo = mongo  pg = pg
    Conns = {mongo, pg}
    NoConn = noconn
    Engine <- MCEngine
    Names = {"shop", "public"}
    NoName = ""
    Public = "public"
    MaxChoices = 4
    MaxJobs = 2
    MaxDrops = 1
    e1 = e1  e2 = e2  f1 = f1  f2 = f2  c1 = c1
    Evaluators = {e1, e2}
    Duration = 1
    Cooldown = 2
    MaxMinute = 4
    MaxPatches = 1
    MaxAborts = 1
    Tabs = {e1, e2}
    RuleIds = {1}
    Fields = {f1, f2}
    MaxPanelClicks = 3
    MongoConns = {c1}
    PoolUsers = {e1, e2}
    SnapshotTtl = 1
    MaxClock = 2
    MaxClients = 2
    MaxTroubles = 1
INVARIANT ReadsFresh
INVARIANT EditsStay
INVARIANT JobIsWhatWasShown
INVARIANT EndIsShown
INVARIANT AlertStatusMatchesEvents
INVARIANT EditsKept
INVARIANT ClientsAccounted
INVARIANT SnapshotHonest
CHECK_DEADLOCK FALSE
