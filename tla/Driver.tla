------------------------------- MODULE Driver -------------------------------
(***************************************************************************)
(* The process from start to end: main sets up one component after the     *)
(* other (cmd/ai-assistant-driver), the shutdown manager runs the          *)
(* functions it was given when the context is cancelled                    *)
(* (internal/shutdown), and the controller goroutine answers questions     *)
(* (ThinkingPhase) until it sees that context.                             *)
(***************************************************************************)
EXTENDS ThinkingPhase

VARIABLES
    main,           \* where main is
    funcs,          \* Manager.funcs, after stop and done
    cancelled,      \* the context is cancelled
    manager,        \* what the manager still has to do: read the list, or the functions
    done,           \* the done channel is closed
    closed,         \* what was closed, in this order
    controller      \* "off", "running" or "stopped"

managerVars == <<funcs, manager, done, closed>>
driverVars == <<main, cancelled, managerVars, controller>>
vars == <<thinkingVars, driverVars>>

Closer == {"client", "stt", "http"}
\* What main creates before it adds the function that closes it.
Added == [addClient |-> "client", addSTT |-> "stt", addHTTP |-> "http"]
Adding == DOMAIN Added

Init ==
    /\ ThinkingInit
    /\ main = "connect" /\ cancelled = FALSE /\ controller = "off"
    /\ funcs = <<>> /\ manager = <<"read">> /\ done = FALSE /\ closed = <<>>

-----------------------------------------------------------------------------
(* main *)

\* Each step of the set-up succeeds or fails; connecting is tried until it does or the
\* context is cancelled.  The model, the synthesizer and the history cannot fail.
SetUp ==
    /\ \/ main = "connect" /\ main' = "addClient"
       \/ main = "newSTT" /\ main' = "addSTT"
       \/ main = "startHTTP" /\ main' = "addHTTP"
       \/ main \in {"connect", "newSTT", "startHTTP"} /\ main' = "failed"
    /\ UNCHANGED <<cancelled, managerVars, controller, thinkingVars>>

\* Add appends without the lock; until it is over, a reader may see it half done.
Add ==
    /\ main \in Adding
    /\ funcs' = Append(funcs, Added[main])
    /\ main' = [addClient |-> "newSTT", addSTT |-> "startHTTP", addHTTP |-> "run"][main]
    /\ UNCHANGED <<cancelled, manager, done, closed, controller, thinkingVars>>

StartController ==
    /\ main = "run"
    /\ controller' = "running"
    /\ main' = "wait"
    /\ UNCHANGED <<cancelled, managerVars, thinkingVars>>

\* Mutant: a failed set-up waits for a signal.
WaitAfterFailure ==
    /\ main = "failed"
    /\ main' = "wait"
    /\ UNCHANGED <<cancelled, managerVars, controller, thinkingVars>>

CancelAfterFailure ==
    /\ main = "failed"
    /\ cancelled' = TRUE
    /\ main' = "wait"
    /\ UNCHANGED <<managerVars, controller, thinkingVars>>

\* The end of main is the end of the process, whatever the others are doing.
MainEnds ==
    /\ main = "wait" /\ done
    /\ main' = "exited"
    /\ UNCHANGED <<cancelled, managerVars, controller, thinkingVars>>

-----------------------------------------------------------------------------
(* The shutdown manager *)

Signal ==
    /\ ~cancelled
    /\ cancelled' = TRUE
    /\ UNCHANGED <<main, managerVars, controller, thinkingVars>>

\* Mutant: the functions are taken from the end, as deferred calls are.
ReadFuncsReversed ==
    /\ manager = <<"read">> /\ cancelled
    /\ manager' = [i \in 1..Len(funcs) |-> funcs[Len(funcs) + 1 - i]] \o <<"done">>
    /\ UNCHANGED <<main, cancelled, funcs, done, closed, controller, thinkingVars>>

\* The list is read while an Add may be under way: then it is the old one, the new one,
\* or, when the slice moves, the old array with the new length.
ReadFuncs ==
    /\ manager = <<"read">> /\ cancelled
    /\ \/ manager' = <<"done">> \o funcs
       \/ /\ main \in Adding
          /\ manager' = <<"done">> \o Append(funcs, Added[main])
       \/ /\ main \in {"addClient", "addHTTP"}
          /\ manager' = <<"done">> \o funcs \o <<"garbage">>
    /\ UNCHANGED <<main, cancelled, funcs, done, closed, controller, thinkingVars>>

\* What lies behind the old array is called as a function.
CallGarbage ==
    /\ manager # <<>> /\ Head(manager) = "garbage"
    /\ main' = "crashed"
    /\ UNCHANGED <<cancelled, managerVars, controller, thinkingVars>>

CloseDone ==
    /\ manager # <<>> /\ Head(manager) = "done"
    /\ done' = TRUE
    /\ manager' = Tail(manager)
    /\ UNCHANGED <<main, cancelled, funcs, closed, controller, thinkingVars>>

CloseNext ==
    /\ manager # <<>> /\ Head(manager) \in Closer
    /\ closed' = Append(closed, Head(manager))
    /\ manager' = Tail(manager)
    /\ UNCHANGED <<main, cancelled, funcs, done, controller, thinkingVars>>

-----------------------------------------------------------------------------
(* The controller goroutine *)

Turn ==
    /\ controller = "running"
    /\ Think
    /\ UNCHANGED driverVars

Stop ==
    /\ controller = "running" /\ stage = "idle" /\ cancelled
    /\ controller' = "stopped"
    /\ UNCHANGED <<main, cancelled, managerVars, thinkingVars>>

Router == RouterForgets /\ UNCHANGED driverVars

-----------------------------------------------------------------------------
MainStep == SetUp \/ Add \/ StartController \/ CancelAfterFailure \/ MainEnds
ManagerStep == ReadFuncs \/ CloseDone \/ CloseNext \/ CallGarbage

ended == main \in {"exited", "crashed"} \/ stage = "panicked"

Next == ~ended /\ (MainStep \/ Signal \/ ManagerStep \/ Turn \/ Stop \/ Router)

(***************************************************************************)
(* Fairness.  A goroutine that can run does, and a request with a time     *)
(* limit returns.  Connecting may be tried for ever (the device may be     *)
(* away) until the context is cancelled; nothing is assumed about signals, *)
(* questions, the router, and what the model chooses.                      *)
(***************************************************************************)
Fairness ==
    /\ WF_vars(~ended /\ (main # "connect" \/ cancelled) /\ MainStep)
    /\ WF_vars(~ended /\ ManagerStep)
    /\ WF_vars(~ended /\ controller = "running" /\
               (ChatReturns \/ BeginRouterCall \/ RunOther) /\ UNCHANGED driverVars)

FairSpec == Init /\ [][Next]_vars /\ Fairness

-----------------------------------------------------------------------------
(* Properties *)

Main == {"connect", "newSTT", "startHTTP", "failed", "run", "wait", "exited", "crashed"}
        \cup Adding

\* Every variable has its type; nothing is closed, or waits to be, that was never made.
TypeOK ==
    /\ ThinkingTypeOK
    /\ main \in Main /\ cancelled \in BOOLEAN /\ done \in BOOLEAN
    /\ funcs \in Seq(Closer) /\ closed \in Seq(Closer)
    /\ manager \in Seq(Closer \cup {"read", "done", "garbage"})
    /\ controller \in {"off", "running", "stopped"}

\* Whatever happens during the set-up, and although functions are added while the list is
\* read (shutdown.go 33-52), the device is closed first, then the transcriber, then the
\* server, each once, and main may leave before any of them.
ClosedInOrder ==
    /\ \E n \in 0..3 : closed = SubSeq(<<"client", "stt", "http">>, 1, n)
    /\ closed # <<>> => done

\* main returns after a signal or a failed set-up (main.go 20-95), also while a tool waits
\* for a router that never answers.
MainReturns == (cancelled \/ main = "failed") ~> ended

\* The assumptions thinking.go makes: the router and the weather service answer, and a
\* model that is asked again and again gives an answer at last.
ToolsReturn == WF_vars(Turn /\ (RouterReturns \/ GetWeather))
ModelAnswers == SF_vars(Turn /\ ChatEnds)

\* A question is answered, however many rounds of tools it takes and whatever they give
\* (thinking.go 42-58); without these assumptions the controller goroutine stays here.
TurnReturns == ToolsReturn /\ ModelAnswers => (stage # "idle" ~> stage = "idle" \/ ended)
=============================================================================
