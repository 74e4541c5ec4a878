------------------------------ MODULE RedisAcl ------------------------------
(***************************************************************************)
(* The per-database users of the shared Redis: ensureAclProvisioned of      *)
(* redisCreds.js behind its memo, the cache-config route that calls it, the *)
(* sweep of index.js that re-asserts every user at boot and every ten       *)
(* minutes, and the database's deletion, which leaves the user.             *)
(***************************************************************************)
EXTENDS Integers, FiniteSets

CONSTANTS
    Tenants,          \* the databases
    NoTenant,
    MemoTtl,          \* ACL_PROVISION_TTL_MS, in ticks
    MaxRedisFaults    \* bound on restarts of Redis and failing commands

ASSUME RedisAclAssumption ==
    NoTenant \notin Tenants /\ MemoTtl \in Nat \ {0} /\ MaxRedisFaults \in Nat

VARIABLES
    activeRows,       \* tenants whose row is active
    aclUsers,         \* users Redis knows; it forgets them when it restarts
    memo,             \* ticks left of each tenant's memo, 0: none
    setting,          \* SETUSER calls under way: <<tenant, who asked>>
    sweep,            \* the healer: [todo, on, ok]
    redisFaults,
    healed            \* history: what the last sweep vouched for, until Redis restarts

aclVars == <<activeRows, aclUsers, memo, setting, sweep, redisFaults, healed>>

NoSweep == [todo |-> {}, on |-> NoTenant, ok |-> {}]

Askers == {"request", "sweep"}

AclInit ==
    /\ activeRows \in SUBSET Tenants
    /\ aclUsers = {}
    /\ memo = [t \in Tenants |-> 0]
    /\ setting = {}
    /\ sweep = NoSweep
    /\ redisFaults = 0 /\ healed = {}

RedisFault == redisFaults < MaxRedisFaults /\ redisFaults' = redisFaults + 1

\* A request of GET /cache-config with the right password: a memo answers, a call under
\* way is joined, else SETUSER is sent.
CacheConfig(t) ==
    /\ t \in activeRows /\ memo[t] = 0
    /\ \A by \in Askers : <<t, by>> \notin setting
    /\ setting' = setting \cup {<<t, "request">>}
    /\ UNCHANGED <<activeRows, aclUsers, memo, sweep, redisFaults, healed>>

Resumes(t, by, ok) ==
    IF by = "sweep" THEN [sweep EXCEPT !.on = NoTenant, !.ok = @ \cup ok] ELSE sweep

\* SETUSER's answer: the user exists and the memo is set; the healer goes on.
AclSet(t, by) ==
    /\ <<t, by>> \in setting
    /\ setting' = setting \ {<<t, by>>}
    /\ aclUsers' = aclUsers \cup {t}
    /\ memo' = [memo EXCEPT ![t] = MemoTtl]
    /\ sweep' = Resumes(t, by, {t})
    /\ UNCHANGED <<activeRows, redisFaults, healed>>

\* Redis is down, or the answer is lost: nothing is memoised, the sweep counts a failure.
AclFail(t, by) ==
    /\ <<t, by>> \in setting
    /\ RedisFault
    /\ setting' = setting \ {<<t, by>>}
    /\ aclUsers' \in {aclUsers, aclUsers \cup {t}}
    /\ sweep' = Resumes(t, by, {})
    /\ UNCHANGED <<activeRows, memo, healed>>

SweepBegin ==
    /\ sweep = NoSweep /\ activeRows # {}
    /\ sweep' = [NoSweep EXCEPT !.todo = activeRows]
    /\ UNCHANGED <<activeRows, aclUsers, memo, setting, redisFaults, healed>>

SweepTenantMutant ==
    /\ sweep.on = NoTenant
    /\ \E t \in sweep.todo :
         IF memo[t] > 0
           THEN /\ sweep' = [sweep EXCEPT !.todo = @ \ {t}, !.ok = @ \cup {t}]
                /\ UNCHANGED setting
           ELSE /\ sweep' = [sweep EXCEPT !.todo = @ \ {t}, !.on = t]
                /\ setting' = setting \cup {<<t, "sweep">>}
    /\ UNCHANGED <<activeRows, aclUsers, memo, redisFaults, healed>>

\* The memo and the registration of a call under way are dropped, and SETUSER is sent.
SweepTenant ==
    /\ sweep.on = NoTenant
    /\ \E t \in sweep.todo :
         /\ sweep' = [sweep EXCEPT !.todo = @ \ {t}, !.on = t]
         /\ memo' = [memo EXCEPT ![t] = 0]
         /\ setting' = setting \cup {<<t, "sweep">>}
    /\ UNCHANGED <<activeRows, aclUsers, redisFaults, healed>>

SweepEnd ==
    /\ sweep # NoSweep /\ sweep.todo = {} /\ sweep.on = NoTenant
    /\ healed' = sweep.ok
    /\ sweep' = NoSweep
    /\ UNCHANGED <<activeRows, aclUsers, memo, setting, redisFaults>>

RedisRestart ==
    /\ RedisFault
    /\ aclUsers' = {} /\ healed' = {}
    /\ sweep' = [sweep EXCEPT !.ok = {}]
    /\ UNCHANGED <<activeRows, memo, setting>>

MemoTick ==
    /\ \E t \in Tenants : memo[t] > 0
    /\ memo' = [t \in Tenants |-> IF memo[t] = 0 THEN 0 ELSE memo[t] - 1]
    /\ UNCHANGED <<activeRows, aclUsers, setting, sweep, redisFaults, healed>>

\* A database is created, or deleted: its memo goes with it, its user stays in Redis.
RowChanges(t) ==
    /\ activeRows' = IF t \in activeRows THEN activeRows \ {t} ELSE activeRows \cup {t}
    /\ memo' = [memo EXCEPT ![t] = 0]
    /\ UNCHANGED <<aclUsers, setting, sweep, redisFaults, healed>>

AclNext ==
    \/ \E t \in Tenants : CacheConfig(t) \/ RowChanges(t)
    \/ \E t \in Tenants, by \in Askers : AclSet(t, by) \/ AclFail(t, by)
    \/ SweepBegin \/ SweepTenant \/ SweepEnd \/ RedisRestart \/ MemoTick

-----------------------------------------------------------------------------
AclTypeOK ==
    /\ activeRows \subseteq Tenants /\ aclUsers \subseteq Tenants /\ setting \subseteq Tenants \X Askers
    /\ memo \in [Tenants -> 0..MemoTtl] /\ healed \subseteq Tenants
    /\ sweep.todo \subseteq Tenants /\ sweep.on \in Tenants \cup {NoTenant}
    /\ sweep.ok \subseteq Tenants

\* What a sweep vouches for is there: unless Redis restarts again, every database whose
\* turn in the last sweep did not fail has its user, also one whose memo was set before
\* Redis forgot it (index.js:140: the memo must not make the healer skip it).
AclHealed == healed \subseteq aclUsers

=============================================================================
