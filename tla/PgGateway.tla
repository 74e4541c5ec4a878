------------------------------ MODULE PgGateway ------------------------------
(***************************************************************************)
(* services/pgGateway.js: one client's connection to the shared Postgres    *)
(* port, from the bytes of its startup negotiation to the pipe to the       *)
(* container that its user name routes to.                                  *)
(*                                                                         *)
(* The client sends the packets of its script; a packet is two units, its   *)
(* length and its body.  Units arrive in chunks of any size.                *)
(***************************************************************************)
EXTENDS Integers, Sequences

CONSTANTS
    Rounds,       \* packets handleConnection reads at most: 4
    MaxQueries    \* packets the client sends after its startup message

ASSUME PgGatewayAssumption == Rounds \in Nat \ {0} /\ MaxQueries \in Nat

VARIABLES
    script,       \* the packets the client sends, in order
    patient,      \* the client awaits the answer to a negotiation packet
    secure,       \* the gateway has a TLS certificate
    put,          \* units the client has sent
    got,          \* units that reached the gateway
    taken,        \* units its reader handed out
    round,        \* packets read
    answered,     \* negotiation packets answered
    phase,        \* read, route, dial, piped, refused, closed
    upstream      \* units written to the container, in order

gatewayVars == <<script, patient, secure, put, got, taken, round, answered, phase, upstream>>

Negotiations == {"ssl", "gss"}
Queries == [i \in 1..MaxQueries |-> "query"]
Openings == {<<>>, <<"ssl">>, <<"gss">>, <<"gss", "ssl">>, <<"ssl", "gss">>,
             [i \in 1..Rounds |-> "gss"]}
Units == 2 * Len(script)
PacketOf(u) == script[(u + 1) \div 2]

GatewayInit ==
    /\ script \in {o \o <<m>> \o Queries : o \in Openings, m \in {"startup", "cancel", "junk"}}
    /\ patient \in BOOLEAN /\ secure \in BOOLEAN
    /\ put = 0 /\ got = 0 /\ taken = 0 /\ round = 0 /\ answered = 0
    /\ phase = "read"
    /\ upstream = <<>>

Asked == {u \in 1..put : u % 2 = 0 /\ PacketOf(u) \in Negotiations}

\* The client sends its next unit, a patient one not before its request was answered.
ClientSends ==
    /\ phase # "closed" /\ put < Units
    /\ patient => \A u \in Asked : u <= 2 * answered
    /\ put' = put + 1
    /\ UNCHANGED <<script, patient, secure, got, taken, round, answered, phase, upstream>>

\* createReader: a chunk is appended to the buffer, also while nothing is being read.
Chunk ==
    /\ phase \in {"read", "route", "dial"} /\ got < put
    /\ got' \in (got + 1)..put
    /\ UNCHANGED <<script, patient, secure, put, taken, round, answered, phase, upstream>>

\* socket.pipe(upstream).
Forward ==
    /\ phase = "piped" /\ got < put
    /\ got' \in (got + 1)..put
    /\ upstream' = upstream \o [i \in 1..(got' - got) |-> got + i]
    /\ UNCHANGED <<script, patient, secure, put, taken, round, answered, phase>>

\* readPacket and the branches of handleConnection. An upgrade to TLS is refused when
\* bytes were sent ahead of its answer; the bytes after it are a new reader's.
Negotiate ==
    /\ phase = "read" /\ got >= taken + 2
    /\ round' = round + 1 /\ taken' = taken + 2
    /\ LET p == PacketOf(taken + 1)
           ahead == p = "ssl" /\ secure /\ got > taken + 2
           goesOn == p \in Negotiations /\ ~ahead IN
       /\ phase' = IF round >= Rounds THEN "closed"
                   ELSE IF goesOn THEN (IF round + 1 = Rounds THEN "closed" ELSE "read")
                   ELSE IF p = "startup" THEN "route" ELSE "closed"
       /\ answered' = IF goesOn THEN answered + 1 ELSE answered
    /\ UNCHANGED <<script, patient, secure, put, got, upstream>>

\* resolveRoute: the container, nobody by that user name (a miss is cached as well), or
\* a failing lookup.
Resolve ==
    /\ phase = "route"
    /\ phase' \in {"dial", "refused", "closed"}
    /\ UNCHANGED <<script, patient, secure, put, got, taken, round, answered, upstream>>

ConnectMutant ==
    /\ phase = "dial"
    /\ phase' = "piped"
    /\ upstream' = <<taken - 1, taken>>
    /\ UNCHANGED <<script, patient, secure, put, got, taken, round, answered>>

\* The container accepts: the startup message and what came after it are replayed, and
\* the sockets are piped.
Connect ==
    /\ phase = "dial"
    /\ phase' = "piped"
    /\ upstream' = <<taken - 1, taken>> \o [i \in 1..(got - taken) |-> taken + i]
    /\ UNCHANGED <<script, patient, secure, put, got, taken, round, answered>>

\* It does not, or breaks off: the client gets an error message and its end.
UpstreamError ==
    /\ phase \in {"dial", "piped"}
    /\ phase' = "refused"
    /\ UNCHANGED <<script, patient, secure, put, got, taken, round, answered, upstream>>

\* The client or the container goes, or the handshake is idle for HANDSHAKE_TIMEOUT_MS.
HangUp ==
    /\ phase # "closed"
    /\ phase' = "closed"
    /\ UNCHANGED <<script, patient, secure, put, got, taken, round, answered, upstream>>

GatewayNext ==
    \/ ClientSends \/ Chunk \/ Forward \/ Negotiate \/ Resolve \/ Connect
    \/ UpstreamError \/ HangUp

-----------------------------------------------------------------------------
GatewayTypeOK ==
    /\ put \in 0..Units /\ got \in 0..put /\ taken \in 0..got
    /\ round \in 0..Rounds /\ answered \in 0..Rounds
    /\ phase \in {"read", "route", "dial", "piped", "refused", "closed"}
    /\ upstream \in Seq(1..Units)

-----------------------------------------------------------------------------
(* The gateway as a channel from the client to the container.                *)

GatewaySpec == GatewayInit /\ [][GatewayNext]_gatewayVars

\* Where the client's startup message begins; past its last unit, if it sends none.
Message == CHOOSE n \in 1..Len(script) :
              /\ script[n] \notin Negotiations
              /\ \A k \in 1..(n - 1) : script[k] \in Negotiations
First == IF script[Message] = "startup" THEN 2 * Message - 1 ELSE Units + 1

Pipe == INSTANCE Channel WITH
            sent <- IF put < First THEN 0 ELSE put - First + 1,
            delivered <- [i \in 1..Len(upstream) |-> upstream[i] - First + 1],
            over <- phase \in {"refused", "closed"}

\* The gateway is such a channel: the container receives the client's startup message first
\* and after it every unit the client sends, once and in order, however the chunks fall
\* into the lookup of the route and the dialling (pgGateway.js:217-225), and none of the
\* negotiation.
PipesInOrder == Pipe!Spec

=============================================================================
