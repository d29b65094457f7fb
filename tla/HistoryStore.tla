---------------------------- MODULE HistoryStore ----------------------------
(***************************************************************************)
(* What a conversation store promises: messages are added in memory, a     *)
(* save makes durable what is in memory at that moment, and a restart      *)
(* begins with the last save.  A save never takes the file back.           *)
(***************************************************************************)
EXTENDS Naturals

VARIABLES
    up,      \* the process runs
    mem,     \* number of messages in memory
    disk     \* number of messages a restart would find

vars == <<up, mem, disk>>

Init == up = TRUE /\ mem = 0 /\ disk = 0

Add ==
    /\ up
    /\ mem' = mem + 1
    /\ UNCHANGED <<up, disk>>

Save ==
    /\ up
    /\ disk' = mem
    /\ UNCHANGED <<up, mem>>

Crash ==
    /\ up
    /\ up' = FALSE /\ mem' = 0
    /\ UNCHANGED disk

Restart ==
    /\ ~up
    /\ up' = TRUE
    /\ mem' = disk
    /\ UNCHANGED disk

Next == Add \/ Save \/ Crash \/ Restart

Spec == Init /\ [][Next]_vars
=============================================================================
