--------------------------- MODULE MetricsScrape ---------------------------
(***************************************************************************)
(* GET /metrics: the Prometheus scrape of metrics.service.ts (MongoDB) and  *)
(* sql-metrics.service.ts (Postgres, MySQL), which dials every connection   *)
(* with a client of its own, while connections come and go, their servers   *)
(* fail, and the monitor page updates the same samples.                     *)
(*                                                                         *)
(* A sample is the time at which it was read.  A server is up, down, or     *)
(* stalled: it accepts connections and does not answer.                     *)
(***************************************************************************)
EXTENDS Integers, FiniteSets

CONSTANTS
    Servers,         \* connections
    MongoServers,    \* those of MongoDB servers
    Selection,       \* serverSelectionTimeoutMS and connect timeouts, in ticks
    MaxTicks,        \* bound on the ticks
    MaxOutages       \* bound on the changes of a server's health

ASSUME MetricsScrapeAssumption ==
    /\ MongoServers \subseteq Servers /\ IsFiniteSet(Servers)
    /\ Selection \in Nat \ {0} /\ MaxTicks \in Nat /\ MaxOutages \in Nat

VARIABLES
    known,     \* connections that have a row
    state,     \* up, down or stalled
    gauge,     \* the exported sample: [read, by]
    own,       \* connections whose scrape has a client open
    scrape,    \* [pc, began, step]; step: none, dial, status or done per connection
    ticks, outages,
    troubled   \* history: connections that were not there and well throughout the scrape

scrapeVars == <<known, state, gauge, own, scrape, ticks, outages, troubled>>

ScrapeInit ==
    /\ known \in SUBSET Servers
    /\ state = [c \in Servers |-> "up"]
    /\ gauge = [c \in Servers |-> [read |-> 0, by |-> "nobody"]]
    /\ own = {}
    /\ scrape = [pc |-> "idle", began |-> 0, step |-> [c \in Servers |-> "none"]]
    /\ ticks = 0 /\ outages = 0 /\ troubled = {}

Collecting == {c \in Servers : scrape.step[c] \in {"dial", "status"}}
StepTo(c, s) == scrape' = [scrape EXCEPT !.step[c] = s]

\* Both collectors list their connections and start on all of them.
ScrapeBegin ==
    /\ scrape.pc = "idle"
    /\ scrape' = [pc |-> "collect", began |-> ticks,
                  step |-> [c \in Servers |-> IF c \in known THEN "dial" ELSE "none"]]
    /\ own' = known \cap MongoServers
    /\ troubled' = {c \in Servers : state[c] # "up"}
    /\ UNCHANGED <<known, state, gauge, ticks, outages>>

MongoDialled(c) ==
    /\ scrape.step[c] = "dial" /\ state[c] # "down"
    /\ c \in MongoServers
    /\ StepTo(c, "status")
    /\ UNCHANGED <<known, state, gauge, own, ticks, outages, troubled>>

\* The SQL collector reads the row again before it dials.
SqlDialled(c) ==
    /\ scrape.step[c] = "dial" /\ state[c] # "down"
    /\ c \notin MongoServers /\ c \in known
    /\ own' = own \cup {c}
    /\ StepTo(c, "status")
    /\ UNCHANGED <<known, state, gauge, ticks, outages, troubled>>

\* The server answers every question, the samples are set and the client is closed.
Sampled(c) ==
    /\ scrape.step[c] = "status" /\ state[c] = "up"
    /\ gauge' = [gauge EXCEPT ![c] = [read |-> ticks, by |-> "scrape"]]
    /\ own' = own \ {c}
    /\ StepTo(c, "done")
    /\ UNCHANGED <<known, state, ticks, outages, troubled>>

MongoStatus(c) == c \in MongoServers /\ Sampled(c)
SqlStatus(c) == c \notin MongoServers /\ Sampled(c)

Failing(c) ==
    \/ state[c] = "down"
    \/ scrape.step[c] = "dial" /\ c \notin MongoServers /\ c \notin known

ScrapeFailsMutant(c) ==
    /\ c \in Collecting /\ Failing(c)
    /\ scrape' = [scrape EXCEPT !.step = [d \in Servers |-> "done"]]
    /\ own' = own \ {c}
    /\ UNCHANGED <<known, state, gauge, ticks, outages, troubled>>

\* collectOne catches what went wrong and closes its client: the samples of before stay.
ScrapeFails(c) ==
    /\ c \in Collecting /\ Failing(c)
    /\ own' = own \ {c}
    /\ StepTo(c, "done")
    /\ UNCHANGED <<known, state, gauge, ticks, outages, troubled>>

ScrapeEnd ==
    /\ scrape.pc = "collect" /\ Collecting = {}
    /\ scrape' = [scrape EXCEPT !.pc = "idle"]
    /\ UNCHANGED <<known, state, gauge, own, ticks, outages, troubled>>

\* updateFromSnapshot: the monitor page has polled a snapshot, which may be a cached one.
Viewed(c) ==
    /\ c \in known \cap MongoServers
    /\ \E t \in 0..ticks : gauge' = [gauge EXCEPT ![c] = [read |-> t, by |-> "view"]]
    /\ UNCHANGED <<known, state, own, scrape, ticks, outages, troubled>>

KnownChanges(c) ==
    /\ known' = IF c \in known THEN known \ {c} ELSE known \cup {c}
    /\ troubled' = troubled \cup {c}
    /\ UNCHANGED <<state, gauge, own, scrape, ticks, outages>>

Outage(c) ==
    /\ outages < MaxOutages /\ outages' = outages + 1
    /\ \E h \in {"up", "down", "stalled"} \ {state[c]} : state' = [state EXCEPT ![c] = h]
    /\ troubled' = troubled \cup {c}
    /\ UNCHANGED <<known, gauge, own, scrape, ticks>>

\* Time passes, but not past the timeout of a dial, nor past that of a server that answers.
ScrapeTick ==
    /\ ticks < MaxTicks /\ ticks' = ticks + 1
    /\ ticks - scrape.began >= Selection =>
         \A c \in Collecting : scrape.step[c] = "status" /\ state[c] = "stalled"
    /\ UNCHANGED <<known, state, gauge, own, scrape, outages, troubled>>

ScrapeNext ==
    \/ \E c \in Servers : \/ MongoDialled(c) \/ SqlDialled(c) \/ MongoStatus(c) \/ SqlStatus(c)
                          \/ ScrapeFails(c) \/ Viewed(c) \/ KnownChanges(c) \/ Outage(c)
    \/ ScrapeBegin \/ ScrapeEnd \/ ScrapeTick

-----------------------------------------------------------------------------
ScrapeTypeOK ==
    /\ known \subseteq Servers /\ own \subseteq Servers
    /\ state \in [Servers -> {"up", "down", "stalled"}]
    /\ gauge \in [Servers -> [read : 0..MaxTicks, by : {"nobody", "scrape", "view"}]]
    /\ scrape.step \in [Servers -> {"none", "dial", "status", "done"}]

\* One server in trouble does not cost the others their metrics: while a scrape lasts longer
\* than a dial may take, some server has accepted a connection and does not answer; when it
\* ends, the sample of every server that was well throughout is of this scrape or of a viewed
\* snapshot; and no client of it is left open (metrics.service.ts:48-70, 75-79).
ScrapeSparesHealthy ==
    /\ Collecting # {} /\ ticks - scrape.began > Selection =>
         \E c \in Collecting : scrape.step[c] = "status" /\ c \in troubled
    /\ \A c \in Servers \ troubled : scrape.step[c] = "done" =>
         gauge[c].by = "view" \/ gauge[c].read >= scrape.began
    /\ own \subseteq Collecting

=============================================================================
