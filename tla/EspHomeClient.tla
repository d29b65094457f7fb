--------------------------- MODULE EspHomeClient ----------------------------
(***************************************************************************)
(* The ESPHome client (internal/esphome/client.go) across connections: the *)
(* set-up, the reconnection handler, and for every connection a goroutine  *)
(* that handles its messages and one that handles commands.                *)
(*                                                                         *)
(* Connect, SubscribeVoiceAssistant, processCommand and Close hold the     *)
(* mutex from beginning to end, so each is one step.  handleMessages reads *)
(* the esphomeClient field without the mutex; its goroutines, and those of *)
(* handleCommands, are named after the connection they were started with   *)
(* and outlive it: they end when the client is closed.                     *)
(*                                                                         *)
(* Commands are numbered; messages and events are only counted.            *)
(***************************************************************************)
EXTENDS Naturals, Sequences, FiniteSets

CONSTANTS
    Conns,          \* bound: connections (ESPHomeClient values) made
    None,           \* nil
    CommandCap,     \* capacities of the channels (client.go 111-114,
    EventCap,       \* esphome_client.go 76)
    MessageCap,
    MaxCommands,    \* bound: commands the controller issues
    MaxMessages     \* bound: messages the device sends

ASSUME ConnsAssumption == IsFiniteSet(Conns)
ASSUME NoneAssumption == None \notin Conns
ASSUME CapAssumption == {CommandCap, EventCap, MessageCap} \subseteq Nat \ {0}
ASSUME BoundAssumption == {MaxCommands, MaxMessages} \subseteq Nat

VARIABLES
    esphomeClient, connected, closed,   \* fields of Client
    cancelled,      \* the context is done
    setup,          \* the reconnection handler is not started yet
    rh,             \* where connectToESPHome, then the reconnection handler, is
    link,           \* state of each connection
    lost,           \* the connections with a token in their disconnected channel
    subscribed,     \* the connections the voice assistant was subscribed on
    messages, received, \* length of each message channel; messages received so far
    handler, source,    \* where each handleMessages goroutine is, and its channel
    commander, taken,   \* where each handleCommands goroutine is, and its command
    events,         \* length of the event channel
    commandChannel, issued, written,
    panicked

clientVars == <<esphomeClient, connected, closed>>
rhVars == <<cancelled, setup, rh>>
linkVars == <<link, lost, subscribed>>
messageVars == <<messages, received, handler, source, events>>
commandVars == <<commander, taken, commandChannel, issued, written>>
vars == <<clientVars, rhVars, linkVars, messageVars, commandVars, panicked>>

NoCommand == 0

Init ==
    /\ esphomeClient = None /\ connected = FALSE /\ closed = FALSE
    /\ cancelled = FALSE /\ setup = TRUE /\ rh = "check"
    /\ link = [c \in Conns |-> "unused"] /\ lost = {} /\ subscribed = {}
    /\ messages = [c \in Conns |-> 0] /\ received = 0
    /\ handler = [c \in Conns |-> "none"] /\ source = [c \in Conns |-> None]
    /\ commander = [c \in Conns |-> "none"] /\ taken = [c \in Conns |-> NoCommand]
    /\ events = 0
    /\ commandChannel = <<>> /\ issued = 0 /\ written = <<>>
    /\ panicked = FALSE

Unused == {c \in Conns : link[c] = "unused"}

-----------------------------------------------------------------------------
(* connectToESPHome and the reconnection handler *)

\* ConnectWithRetry looks at the context before each attempt and while it waits.
CheckContext ==
    /\ rh = "check"
    /\ rh' = IF cancelled THEN "ended" ELSE "dial"
    /\ UNCHANGED <<clientVars, cancelled, setup, linkVars, messageVars, commandVars, panicked>>

ConnectFails ==
    /\ rh = "dial"
    /\ rh' = "check"
    /\ UNCHANGED <<clientVars, cancelled, setup, linkVars, messageVars, commandVars, panicked>>

\* Mutants: the goroutines are started once, and a reconnection does not subscribe.
ConnectStartsOnce(c) ==
    /\ rh = "dial" /\ ~connected /\ link[c] = "unused"
    /\ esphomeClient' = c /\ connected' = TRUE
    /\ link' = [link EXCEPT ![c] = "up"]
    /\ IF setup
       THEN /\ handler' = [handler EXCEPT ![c] = "loop"]
            /\ commander' = [commander EXCEPT ![c] = "wait"]
       ELSE UNCHANGED <<handler, commander>>
    /\ rh' = "subscribe"
    /\ UNCHANGED <<closed, cancelled, setup, lost, subscribed, messages, received, source,
                   events, taken, commandChannel, issued, written, panicked>>

ConnectForgetsSubscribe(c) ==
    /\ rh = "dial" /\ ~connected /\ link[c] = "unused"
    /\ esphomeClient' = c /\ connected' = TRUE
    /\ link' = [link EXCEPT ![c] = "up"]
    /\ handler' = [handler EXCEPT ![c] = "loop"]
    /\ commander' = [commander EXCEPT ![c] = "wait"]
    /\ rh' = IF setup THEN "subscribe" ELSE "wait"
    /\ UNCHANGED <<closed, cancelled, setup, lost, subscribed, messages, received, source,
                   events, taken, commandChannel, issued, written, panicked>>

\* Connect dials, says hello, asks for the entities and their states, and starts the
\* goroutines; it does not look at closed.  (The handler resets connected before it calls.)
Connect(c) ==
    /\ rh = "dial" /\ ~connected /\ link[c] = "unused"
    /\ esphomeClient' = c /\ connected' = TRUE
    /\ link' = [link EXCEPT ![c] = "up"]
    /\ handler' = [handler EXCEPT ![c] = "loop"]
    /\ commander' = [commander EXCEPT ![c] = "wait"]
    /\ rh' = "subscribe"
    /\ UNCHANGED <<closed, cancelled, setup, lost, subscribed, messages, received, source,
                   events, taken, commandChannel, issued, written, panicked>>

SubscribeVoiceAssistant ==
    /\ rh = "subscribe" /\ connected /\ esphomeClient # None
    /\ subscribed' = subscribed \cup {esphomeClient}
    /\ rh' = "wait"
    /\ setup' = FALSE
    /\ UNCHANGED <<clientVars, cancelled, link, lost, messageVars, commandVars, panicked>>

\* ErrNotConnected, or a write fails.  The set-up closes the client; the handler ends and
\* is not started again.
SubscribeFails ==
    /\ rh = "subscribe"
    /\ rh' = IF setup THEN "failed" ELSE "ended"
    /\ UNCHANGED <<clientVars, cancelled, setup, linkVars, messageVars, commandVars, panicked>>

\* Mutant: connected is not reset, so Connect finds nothing to do.
ConnectionLostStaysConnected ==
    /\ rh = "wait" /\ esphomeClient \in lost
    /\ lost' = lost \ {esphomeClient}
    /\ esphomeClient' = None
    /\ rh' = "check"
    /\ UNCHANGED <<connected, closed, cancelled, setup, link, subscribed, messageVars,
                   commandVars, panicked>>

\* The old ESPHomeClient is dropped and not closed.
ConnectionLost ==
    /\ rh = "wait" /\ esphomeClient \in lost
    /\ lost' = lost \ {esphomeClient}
    /\ esphomeClient' = None /\ connected' = FALSE
    /\ rh' = "check"
    /\ UNCHANGED <<closed, cancelled, setup, link, subscribed, messageVars, commandVars,
                   panicked>>

HandlerEnds ==
    /\ rh = "wait" /\ cancelled
    /\ rh' = "ended"
    /\ UNCHANGED <<clientVars, cancelled, setup, linkVars, messageVars, commandVars, panicked>>

-----------------------------------------------------------------------------
(* handleMessages *)

\* The channel of the connection there is now, not of the one the goroutine is for.
SelectMessages(g) ==
    /\ handler[g] = "loop"
    /\ IF esphomeClient = None
       THEN panicked' = TRUE /\ UNCHANGED <<handler, source>>
       ELSE /\ handler' = [handler EXCEPT ![g] = "wait"]
            /\ source' = [source EXCEPT ![g] = esphomeClient]
            /\ UNCHANGED panicked
    /\ UNCHANGED <<clientVars, rhVars, linkVars, messages, received, events, commandVars>>

TakeMessage(g) ==
    /\ handler[g] = "wait" /\ messages[source[g]] > 0
    /\ messages' = [messages EXCEPT ![source[g]] = @ - 1]
    /\ handler' = [handler EXCEPT ![g] = "handle"]
    /\ UNCHANGED <<clientVars, rhVars, linkVars, received, source, events, commandVars, panicked>>

\* A closed message channel yields nil, which is ignored.
TakeNil(g) ==
    /\ handler[g] = "wait"
    /\ messages[source[g]] = 0 /\ link[source[g]] = "closed"
    /\ handler' = [handler EXCEPT ![g] = "loop"]
    /\ UNCHANGED <<clientVars, rhVars, linkVars, messages, received, source, events,
                   commandVars, panicked>>

\* Mutant: the goroutine ends with its connection and not with the client.
StopWithConnection(g) ==
    /\ handler[g] = "wait" /\ link[source[g]] = "closed"
    /\ handler' = [handler EXCEPT ![g] = "done"]
    /\ UNCHANGED <<clientVars, rhVars, linkVars, messages, received, source, events,
                   commandVars, panicked>>

StopMessages(g) ==
    /\ handler[g] = "wait" /\ closed
    /\ handler' = [handler EXCEPT ![g] = "done"]
    /\ UNCHANGED <<clientVars, rhVars, linkVars, messages, received, source, events,
                   commandVars, panicked>>

\* An event that does not fit is dropped.
QueueEvent == events' = IF events < EventCap THEN events + 1 ELSE events

\* A message that becomes an event; sending on the closed channel panics.
HandleEvent(g) ==
    /\ handler[g] = "handle"
    /\ IF closed
       THEN panicked' = TRUE /\ UNCHANGED <<handler, events>>
       ELSE /\ QueueEvent
            /\ handler' = [handler EXCEPT ![g] = "loop"]
            /\ UNCHANGED panicked
    /\ UNCHANGED <<clientVars, rhVars, linkVars, messages, received, source, commandVars>>

\* A start request is answered first, on the connection there is now: there may be none,
\* and it may be closed.
HandleStartRequest(g) ==
    /\ handler[g] = "handle"
    /\ IF esphomeClient = None THEN TRUE ELSE link[esphomeClient] = "closed"
    /\ panicked' = TRUE
    /\ UNCHANGED <<clientVars, rhVars, linkVars, messageVars, commandVars>>

\* A message that becomes none, or a start request whose answer cannot be written.
HandleOther(g) ==
    /\ handler[g] = "handle"
    /\ handler' = [handler EXCEPT ![g] = "loop"]
    /\ UNCHANGED <<clientVars, rhVars, linkVars, messages, received, source, events,
                   commandVars, panicked>>

-----------------------------------------------------------------------------
(* handleCommands *)

TakeCommand(g) ==
    /\ commander[g] = "wait" /\ commandChannel # <<>>
    /\ taken' = [taken EXCEPT ![g] = Head(commandChannel)]
    /\ commandChannel' = Tail(commandChannel)
    /\ commander' = [commander EXCEPT ![g] = "process"]
    /\ UNCHANGED <<clientVars, rhVars, linkVars, messageVars, issued, written, panicked>>

\* Mutant: a command that cannot be written is queued again.
ProcessCommandRetries(g) ==
    /\ commander[g] = "process"
    /\ \/ /\ connected /\ esphomeClient # None /\ link[esphomeClient] = "up"
          /\ written' = Append(written, taken[g])
          /\ UNCHANGED commandChannel
       \/ /\ Len(commandChannel) < CommandCap
          /\ commandChannel' = Append(commandChannel, taken[g])
          /\ UNCHANGED written
    /\ taken' = [taken EXCEPT ![g] = NoCommand]
    /\ commander' = [commander EXCEPT ![g] = "wait"]
    /\ UNCHANGED <<clientVars, rhVars, linkVars, messageVars, issued, panicked>>

\* A command is written on the connection there is, or lost: there is none, or the write
\* fails and the error is logged.
ProcessCommand(g) ==
    /\ commander[g] = "process"
    /\ \/ /\ connected /\ esphomeClient # None /\ link[esphomeClient] = "up"
          /\ written' = Append(written, taken[g])
       \/ UNCHANGED written
    /\ taken' = [taken EXCEPT ![g] = NoCommand]
    /\ commander' = [commander EXCEPT ![g] = "wait"]
    /\ UNCHANGED <<clientVars, rhVars, linkVars, messageVars, commandChannel, issued, panicked>>

StopCommands(g) ==
    /\ commander[g] = "wait" /\ closed
    /\ commander' = [commander EXCEPT ![g] = "done"]
    /\ UNCHANGED <<clientVars, rhVars, linkVars, messageVars, taken, commandChannel, issued,
                   written, panicked>>

-----------------------------------------------------------------------------
(* Close, by the shutdown function or the failed set-up.  ESPHomeClient.Close     *)
(* waits for the read loop, which may report a lost connection when it ends.     *)

\* Mutant: Close does not look whether it ran already.
CloseAgain ==
    /\ rh = "failed" \/ (cancelled /\ ~setup)
    /\ closed' = TRUE
    /\ connected' = FALSE
    /\ IF esphomeClient = None THEN UNCHANGED <<link, lost>>
       ELSE /\ link' = [link EXCEPT ![esphomeClient] = "closed"]
            /\ lost' \in {lost, lost \cup {esphomeClient}}
    /\ UNCHANGED <<esphomeClient, rhVars, subscribed, messageVars, commandVars, panicked>>

Close ==
    /\ ~closed
    /\ rh = "failed" \/ (cancelled /\ ~setup)
    /\ closed' = TRUE
    /\ connected' = FALSE
    /\ IF esphomeClient = None THEN UNCHANGED <<link, lost>>
       ELSE /\ link' = [link EXCEPT ![esphomeClient] = "closed"]
            /\ lost' \in {lost, lost \cup {esphomeClient}}
    /\ UNCHANGED <<esphomeClient, rhVars, subscribed, messageVars, commandVars, panicked>>

-----------------------------------------------------------------------------
(* The device, the network, the controller and the signal *)

\* The read loop puts a message on the channel of its connection, or drops it.
DeviceSends(c) ==
    /\ link[c] = "up" /\ received < MaxMessages
    /\ received' = received + 1
    /\ messages' = [messages EXCEPT ![c] = IF @ < MessageCap THEN @ + 1 ELSE @]
    /\ UNCHANGED <<clientVars, rhVars, linkVars, handler, source, events, commandVars, panicked>>

\* The read loop ends and leaves a token.
LinkBreaks(c) ==
    /\ link[c] = "up"
    /\ link' = [link EXCEPT ![c] = "down"]
    /\ lost' = lost \cup {c}
    /\ UNCHANGED <<clientVars, rhVars, subscribed, messageVars, commandVars, panicked>>

ControllerIssues ==
    /\ issued < MaxCommands /\ Len(commandChannel) < CommandCap
    /\ issued' = issued + 1
    /\ commandChannel' = Append(commandChannel, issued')
    /\ UNCHANGED <<clientVars, rhVars, linkVars, messageVars, commander, taken, written,
                   panicked>>

ControllerReceives ==
    /\ events > 0
    /\ events' = events - 1
    /\ UNCHANGED <<clientVars, rhVars, linkVars, messages, received, handler, source,
                   commandVars, panicked>>

Cancel ==
    /\ ~cancelled
    /\ cancelled' = TRUE
    /\ UNCHANGED <<clientVars, setup, rh, linkVars, messageVars, commandVars, panicked>>

-----------------------------------------------------------------------------
Reconnection ==
    \/ CheckContext \/ ConnectFails \/ SubscribeVoiceAssistant \/ SubscribeFails
    \/ ConnectionLost \/ HandlerEnds
    \/ \E c \in Conns : Connect(c)

HandleMessage(g) == HandleEvent(g) \/ HandleStartRequest(g) \/ HandleOther(g)

HandleMessages(g) ==
    SelectMessages(g) \/ TakeMessage(g) \/ TakeNil(g) \/ StopMessages(g) \/ HandleMessage(g)

HandleCommands(g) == TakeCommand(g) \/ ProcessCommand(g) \/ StopCommands(g)

World ==
    \/ \E c \in Conns : DeviceSends(c) \/ LinkBreaks(c)
    \/ ControllerIssues \/ ControllerReceives \/ Cancel

\* A panic in any goroutine ends the process.
Next ==
    /\ ~panicked
    /\ \/ Reconnection \/ Close \/ World
       \/ \E g \in Conns : HandleMessages(g) \/ HandleCommands(g)

Spec == Init /\ [][Next]_vars

(***************************************************************************)
(* Fairness.  A goroutine that can run does; select picks among the ready  *)
(* cases at random, so a closed stop channel is not passed over for ever;  *)
(* a device that can be reached lets some attempt to connect succeed.      *)
(***************************************************************************)
Fairness ==
    /\ WF_vars(~panicked /\ CheckContext)
    /\ WF_vars(~panicked /\ (ConnectFails \/ \E c \in Conns : Connect(c)))
    /\ SF_vars(~panicked /\ \E c \in Conns : Connect(c))
    /\ WF_vars(~panicked /\ (SubscribeVoiceAssistant \/ SubscribeFails))
    /\ WF_vars(~panicked /\ (ConnectionLost \/ HandlerEnds))
    /\ \A g \in Conns :
         /\ WF_vars(~panicked /\ HandleMessages(g))
         /\ SF_vars(~panicked /\ StopMessages(g))
         /\ WF_vars(~panicked /\ HandleCommands(g))
         /\ SF_vars(~panicked /\ StopCommands(g))

FairSpec == Spec /\ Fairness

-----------------------------------------------------------------------------
(* Properties *)

\* The types of the variables; the channels respect their capacities.
TypeOK ==
    /\ esphomeClient \in Conns \cup {None}
    /\ {connected, closed, cancelled, setup, panicked} \subseteq BOOLEAN
    /\ rh \in {"check", "dial", "subscribe", "wait", "failed", "ended"}
    /\ link \in [Conns -> {"unused", "up", "down", "closed"}]
    /\ lost \subseteq Conns /\ subscribed \subseteq Conns
    /\ messages \in [Conns -> 0..MessageCap] /\ received \in 0..MaxMessages
    /\ handler \in [Conns -> {"none", "loop", "wait", "handle", "done"}]
    /\ source \in [Conns -> Conns \cup {None}]
    /\ \A g \in Conns : handler[g] = "wait" => source[g] \in Conns
    /\ commander \in [Conns -> {"none", "wait", "process", "done"}]
    /\ taken \in [Conns -> 0..MaxCommands]
    /\ events \in 0..EventCap
    /\ commandChannel \in Seq(1..MaxCommands) /\ Len(commandChannel) <= CommandCap
    /\ issued \in 0..MaxCommands
    /\ written \in Seq(1..MaxCommands)

\* However often the link was lost, the connection in service has a goroutine of its own
\* that reads its messages or is about to, and one that takes commands (client.go 159-164).
LinkIsServed ==
    connected =>
        /\ esphomeClient # None
        /\ handler[esphomeClient] = "loop"
           \/ handler[esphomeClient] = "handle"
           \/ (handler[esphomeClient] = "wait" /\ source[esphomeClient] = esphomeClient)
           \/ closed
        /\ commander[esphomeClient] \in {"wait", "process"} \/ closed

\* When the reconnection handler waits again, the voice assistant was subscribed on the
\* connection it waits for (client.go 223-227).
LinkIsSubscribed == rh = "wait" => esphomeClient \in subscribed

\* The commands in the channel and in the hands of the goroutines.
Pending ==
    {commandChannel[i] : i \in 1..Len(commandChannel)}
        \cup ({taken[g] : g \in Conns} \ {NoCommand})
Writers == {g \in Conns : commander[g] # "none"}
Wire == INSTANCE CommandWire WITH pending <- Pending, writers <- Cardinality(Writers)

\* Each command the controller sends on the channel reaches the device at most once, and
\* overtakes fewer commands than there were connections, because the goroutines of lost
\* ones take commands too; the commands of the first connection keep their order.  The
\* client implements CommandWire (client.go 465-474).
CommandOrder == Wire!Spec

\* What one connection is to the client, which implements Connection for each: it takes
\* messages only from a connection that was made, finds one report of its loss, and closes
\* a connection at most once, however many there are (client.go 205-231, 265-289, 640-661).
Link(c) == INSTANCE Connection WITH state <- link[c], queued <- messages[c],
                                    token <- c \in lost
ConnectionsUsed ==
    /\ \A c \in Conns : Link(c)!Init
    /\ [][\A c \in Conns : [Link(c)!Next]_(Link(c)!vars)]_<<link, messages, lost>>

\* A lost link is replaced, unless the process ends, the subscription fails or the bound
\* on connections is met (client.go 205-231).
Reconnects ==
    rh = "check" ~> rh \in {"wait", "failed", "ended"} \/ panicked \/ Unused = {}

\* After Close every goroutine started by any Connect ends, also those of connections
\* dropped long before (client.go 236, 468, 643).
GoroutinesEnd ==
    closed ~> panicked \/ \A g \in Conns :
                handler[g] \in {"none", "done"} /\ commander[g] \in {"none", "done"}
=============================================================================
