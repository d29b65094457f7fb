----------------------------- MODULE Connection -----------------------------
(***************************************************************************)
(* What the client relies on of a connection to the device: messages are   *)
(* queued up to a bound and only while the connection is up, its loss is   *)
(* reported by one token, and it is not used again after that.             *)
(***************************************************************************)
EXTENDS Naturals

CONSTANT MessageCap     \* capacity of the message channel

VARIABLES
    state,      \* "unused", "up", "down" (lost) or "closed"
    queued,     \* messages nobody took yet
    token       \* the loss was reported and nobody took the report

vars == <<state, queued, token>>

Init == state = "unused" /\ queued = 0 /\ token = FALSE

\* Messages come in while the connection is set up, and it may be lost by then.
Open ==
    /\ state = "unused"
    /\ queued' \in 0..MessageCap
    /\ \/ state' = "up" /\ UNCHANGED token
       \/ state' = "down" /\ token' = TRUE

Queue ==
    /\ state = "up" /\ queued < MessageCap
    /\ queued' = queued + 1
    /\ UNCHANGED <<state, token>>

TakeMessage ==
    /\ queued > 0
    /\ queued' = queued - 1
    /\ UNCHANGED <<state, token>>

Break ==
    /\ state = "up"
    /\ state' = "down" /\ token' = TRUE
    /\ UNCHANGED queued

TakeToken ==
    /\ token
    /\ token' = FALSE
    /\ UNCHANGED <<state, queued>>

\* Closing may be taken for a loss.
Close ==
    /\ state \in {"up", "down"}
    /\ state' = "closed"
    /\ UNCHANGED queued
    /\ UNCHANGED token \/ (state = "up" /\ token' = TRUE)

Next == Open \/ Queue \/ TakeMessage \/ Break \/ TakeToken \/ Close

Spec == Init /\ [][Next]_vars
=============================================================================
