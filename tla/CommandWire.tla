---------------------------- MODULE CommandWire -----------------------------
(***************************************************************************)
(* What a command channel with several writers promises: every command is  *)
(* written once or lost, and it overtakes fewer of the older ones than     *)
(* there are writers.  One writer keeps the order of the commands.         *)
(***************************************************************************)
EXTENDS Naturals, Sequences, FiniteSets

VARIABLES
    issued,     \* number of commands issued; the n-th command is n
    pending,    \* issued, neither written nor lost
    written,    \* the commands the device was sent
    writers     \* number of writers

vars == <<issued, pending, written, writers>>

Init == issued = 0 /\ pending = {} /\ written = <<>> /\ writers = 0

AddWriter ==
    /\ writers' = writers + 1
    /\ UNCHANGED <<issued, pending, written>>

Issue ==
    /\ issued' = issued + 1
    /\ pending' = pending \cup {issued'}
    /\ UNCHANGED <<written, writers>>

\* Each of the other writers may have one older command in hand.
InHand(n) == Cardinality({m \in pending : m < n}) < writers

Deliver(n) ==
    /\ n \in pending /\ InHand(n)
    /\ pending' = pending \ {n}
    /\ written' = Append(written, n)
    /\ UNCHANGED <<issued, writers>>

Lose(n) ==
    /\ n \in pending /\ InHand(n)
    /\ pending' = pending \ {n}
    /\ UNCHANGED <<issued, written, writers>>

Next == AddWriter \/ Issue \/ \E n \in pending : Deliver(n) \/ Lose(n)

Spec == Init /\ [][Next]_vars
=============================================================================
