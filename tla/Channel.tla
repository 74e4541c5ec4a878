------------------------------- MODULE Channel -------------------------------
(***************************************************************************)
(* What a gateway promises the two ends of a connection: the units one end  *)
(* sends are numbered, and the other end receives them from the first on,   *)
(* each once and in order, as many at a time as it pleases the gateway,     *)
(* until the connection is over.                                            *)
(***************************************************************************)
EXTENDS Naturals, Sequences

VARIABLES
    sent,         \* units sent
    delivered,    \* the units received, in order
    over          \* nothing is delivered any more

channelVars == <<sent, delivered, over>>

Init == sent = 0 /\ delivered = <<>> /\ over = FALSE

Send == /\ sent' = sent + 1
        /\ UNCHANGED <<delivered, over>>

Deliver == /\ ~over
           /\ \E n \in (Len(delivered) + 1)..sent : delivered' = [i \in 1..n |-> i]
           /\ UNCHANGED <<sent, over>>

End == /\ ~over /\ over' = TRUE
       /\ UNCHANGED <<sent, delivered>>

Next == Send \/ Deliver \/ End

Spec == Init /\ [][Next]_channelVars

=============================================================================
