-------------------------- MODULE EspHomeTransport --------------------------
(***************************************************************************)
(* One connection to the device (internal/esphome/esphome_client.go): the  *)
(* caller that connects and says hello, the read loop, and Close, which    *)
(* waits for the read loop.                                                *)
(*                                                                         *)
(* The caller is Client.Connect, which closes the connection again when a  *)
(* step after the handshake fails; later Client.Close may.  The messages   *)
(* of the device are its answer to hello, pings, those the driver knows    *)
(* (other), those it does not (unknown) and those it cannot decode         *)
(* (garbled).  A ping is answered through the conn field, which Close sets *)
(* to nil.                                                                 *)
(***************************************************************************)
EXTENDS Naturals, Sequences

CONSTANTS
    MessageCap,     \* capacity of msgChan (esphome_client.go 76)
    MaxSent         \* bound: messages the device sends

ASSUME MessageCapAssumption == MessageCap \in Nat \ {0}
ASSUME MaxSentAssumption == MaxSent \in Nat

Message == {"helloResponse", "ping", "other", "unknown", "garbled"}

VARIABLES
    caller,         \* where Connect is
    pending,        \* a response channel is registered for helloResponse
    response,       \* the response is in that channel
    reader, msg,    \* where the read loop is, and the message it has read
    msgChan,        \* the messages in msgChan
    disconnected,   \* the token in the disconnected channel
    close,          \* where Close is
    asked, answered,    \* hello was written; the device answered it
    peer,           \* the other end is still there
    wire, sent,     \* messages on the way; how many the device sent
    panicked

callerVars == <<caller, pending>>
readerVars == <<reader, msg>>
deviceVars == <<asked, answered, peer, wire, sent>>
vars == <<callerVars, response, readerVars, msgChan, disconnected, close, deviceVars, panicked>>

NoMessage == "none"

Init ==
    /\ caller = "dial" /\ pending = FALSE /\ response = FALSE
    /\ reader = "none" /\ msg = NoMessage
    /\ msgChan = <<>> /\ disconnected = FALSE
    /\ close = "open"
    /\ asked = FALSE /\ answered = FALSE /\ peer = TRUE
    /\ wire = <<>> /\ sent = 0
    /\ panicked = FALSE

\* What the steps of Close have done so far.
stopped == close \in {"stopped", "connClosed", "readerGone", "closed"}
connClosed == close \in {"connClosed", "readerGone", "closed"}
msgChanClosed == close = "closed"

-----------------------------------------------------------------------------
(* Connect, Hello, ListEntities, SubscribeStates *)

\* Nobody closes a connection whose dial or handshake failed: it has no read loop.
Dial ==
    /\ caller = "dial"
    /\ \/ caller' = "hello" /\ reader' = "loop"
       \/ caller' = "refused" /\ UNCHANGED reader
    /\ UNCHANGED <<pending, response, msg, msgChan, disconnected, close, deviceVars, panicked>>

\* sendAndWaitForResponse writes first ...
WriteHello ==
    /\ caller = "hello"
    /\ \/ caller' = "register" /\ asked' = TRUE
       \/ caller' = "failed" /\ UNCHANGED asked
    /\ UNCHANGED <<pending, response, readerVars, msgChan, disconnected, close, answered, peer,
                   wire, sent, panicked>>

\* ... and registers the response channel then.
Register ==
    /\ caller = "register"
    /\ pending' = TRUE
    /\ caller' = "await"
    /\ UNCHANGED <<response, readerVars, msgChan, disconnected, close, deviceVars, panicked>>

ReceiveResponse ==
    /\ caller = "await" /\ response
    /\ response' = FALSE
    /\ pending' = FALSE
    /\ caller' = "entities"
    /\ UNCHANGED <<readerVars, msgChan, disconnected, close, deviceVars, panicked>>

\* Mutant: a timeout is ignored, as Login's caller would.
TimeoutIgnored ==
    /\ caller = "await"
    /\ pending' = FALSE
    /\ caller' = "entities"
    /\ UNCHANGED <<response, readerVars, msgChan, disconnected, close, deviceVars, panicked>>

Timeout ==
    /\ caller = "await"
    /\ pending' = FALSE
    /\ caller' = "failed"
    /\ UNCHANGED <<response, readerVars, msgChan, disconnected, close, deviceVars, panicked>>

\* ListEntities and SubscribeStates are written; nobody waits for an answer.
WriteRequests ==
    /\ caller = "entities"
    /\ caller' \in {"connected", "failed"}
    /\ UNCHANGED <<pending, response, readerVars, msgChan, disconnected, close, deviceVars,
                   panicked>>

-----------------------------------------------------------------------------
(* readLoop *)

CheckStop ==
    /\ reader = "loop"
    /\ reader' = IF stopped THEN "ended" ELSE "read"
    /\ UNCHANGED <<callerVars, response, msg, msgChan, disconnected, close, deviceVars, panicked>>

\* A message may come out of the buffer although the connection is closed.
ReadMessage ==
    /\ reader = "read" /\ wire # <<>> /\ Head(wire) # "garbled"
    /\ msg' = Head(wire)
    /\ wire' = Tail(wire)
    /\ reader' = "route"
    /\ UNCHANGED <<callerVars, response, msgChan, disconnected, close, asked, answered, peer,
                   sent, panicked>>

\* Either end closed the connection, or the next message cannot be decoded.
ReadError == ~peer \/ connClosed \/ (wire # <<>> /\ Head(wire) = "garbled")

\* Mutant: a connection closed by the device is not reported.
ReadFailsQuietly ==
    /\ reader = "read"
    /\ ReadError
    /\ disconnected' = (peer \/ disconnected)
    /\ reader' = "ended"
    /\ UNCHANGED <<callerVars, response, msg, msgChan, close, deviceVars, panicked>>

ReadFails ==
    /\ reader = "read"
    /\ ReadError
    /\ disconnected' = TRUE
    /\ reader' = "ended"
    /\ UNCHANGED <<callerVars, response, msg, msgChan, close, deviceVars, panicked>>

\* A ping is answered at once, without looking at the result of the write.
AnswerPing ==
    /\ reader = "route" /\ msg = "ping"
    /\ IF connClosed
       THEN panicked' = TRUE /\ UNCHANGED readerVars
       ELSE /\ reader' = "loop" /\ msg' = NoMessage
            /\ UNCHANGED panicked
    /\ UNCHANGED <<callerVars, response, msgChan, disconnected, close, deviceVars>>

\* readRawMessage gives nil for a type it does not know, and routeMessage leaves it.
SkipUnknown ==
    /\ reader = "route" /\ msg = "unknown"
    /\ reader' = "loop" /\ msg' = NoMessage
    /\ UNCHANGED <<callerVars, response, msgChan, disconnected, close, deviceVars, panicked>>

\* routeMessage looks the response channel up, and uses it without the lock.
Route ==
    /\ reader = "route" /\ msg \notin {"ping", "unknown"}
    /\ reader' = IF msg = "helloResponse" /\ pending THEN "respond" ELSE "deliver"
    /\ UNCHANGED <<callerVars, response, msg, msgChan, disconnected, close, deviceVars, panicked>>

\* The channel holds one response; the caller may have left meanwhile.
Respond ==
    /\ reader = "respond"
    /\ response' = TRUE
    /\ reader' = "loop" /\ msg' = NoMessage
    /\ UNCHANGED <<callerVars, msgChan, disconnected, close, deviceVars, panicked>>

\* Mutant: the read loop waits for room in the channel.
DeliverBlocking ==
    /\ reader = "deliver" /\ Len(msgChan) < MessageCap
    /\ msgChan' = Append(msgChan, msg)
    /\ reader' = "loop" /\ msg' = NoMessage
    /\ UNCHANGED <<callerVars, response, disconnected, close, deviceVars, panicked>>

\* Mutant: the message is queued whether or not there is room.
DeliverUnbounded ==
    /\ reader = "deliver"
    /\ msgChan' = Append(msgChan, msg)
    /\ reader' = "loop" /\ msg' = NoMessage
    /\ UNCHANGED <<callerVars, response, disconnected, close, deviceVars, panicked>>

\* A message that does not fit is dropped, and one that does may be when Close has begun.
Deliver ==
    /\ reader = "deliver"
    /\ \/ Len(msgChan) < MessageCap /\ msgChan' = Append(msgChan, msg)
       \/ (Len(msgChan) = MessageCap \/ stopped) /\ UNCHANGED msgChan
    /\ reader' = "loop" /\ msg' = NoMessage
    /\ UNCHANGED <<callerVars, response, disconnected, close, deviceVars, panicked>>

-----------------------------------------------------------------------------
(* Close *)

\* By Connect after a failure, or by Client.Close.  The stop channel is closed.
CloseBegins ==
    /\ close = "open" /\ caller \in {"failed", "connected"}
    /\ close' = "stopped"
    /\ UNCHANGED <<callerVars, response, readerVars, msgChan, disconnected, deviceVars, panicked>>

CloseConn ==
    /\ close = "stopped"
    /\ close' = "connClosed"
    /\ UNCHANGED <<callerVars, response, readerVars, msgChan, disconnected, deviceVars, panicked>>

\* Mutant: Close does not wait for the read loop.
CloseWithoutWait ==
    /\ close = "connClosed"
    /\ close' = "readerGone"
    /\ UNCHANGED <<callerVars, response, readerVars, msgChan, disconnected, deviceVars, panicked>>

CloseWait ==
    /\ close = "connClosed" /\ reader \in {"none", "ended"}
    /\ close' = "readerGone"
    /\ UNCHANGED <<callerVars, response, readerVars, msgChan, disconnected, deviceVars, panicked>>

CloseMsgChan ==
    /\ close = "readerGone"
    /\ close' = "closed"
    /\ UNCHANGED <<callerVars, response, readerVars, msgChan, disconnected, deviceVars, panicked>>

-----------------------------------------------------------------------------
(* The device, the network, and the goroutine that handles messages *)

DeviceSends(m) ==
    /\ peer /\ reader # "none" /\ sent < MaxSent
    /\ m = "helloResponse" => asked /\ ~answered
    /\ answered' = (answered \/ m = "helloResponse")
    /\ wire' = Append(wire, m)
    /\ sent' = sent + 1
    /\ UNCHANGED <<callerVars, response, readerVars, msgChan, disconnected, close, asked, peer,
                   panicked>>

PeerGone ==
    /\ peer
    /\ peer' = FALSE
    /\ UNCHANGED <<callerVars, response, readerVars, msgChan, disconnected, close, asked,
                   answered, wire, sent, panicked>>

\* handleMessages is started when Connect succeeded.
TakeMessage ==
    /\ caller = "connected" /\ msgChan # <<>>
    /\ msgChan' = Tail(msgChan)
    /\ UNCHANGED <<callerVars, response, readerVars, disconnected, close, deviceVars, panicked>>

-----------------------------------------------------------------------------
Call == Dial \/ WriteHello \/ Register \/ ReceiveResponse \/ Timeout \/ WriteRequests

ReadLoop ==
    CheckStop \/ ReadMessage \/ ReadFails \/ AnswerPing \/ SkipUnknown \/ Route \/ Respond
    \/ Deliver

Close == CloseBegins \/ CloseConn \/ CloseWait \/ CloseMsgChan

Device == PeerGone \/ \E m \in Message : DeviceSends(m)

Next == ~panicked /\ (Call \/ ReadLoop \/ Close \/ Device \/ TakeMessage)

Spec == Init /\ [][Next]_vars

\* The goroutines run; nothing is assumed about the device or the consumer.
FairSpec ==
    Spec /\ WF_vars(~panicked /\ Call) /\ WF_vars(~panicked /\ ReadLoop)
         /\ WF_vars(~panicked /\ (CloseConn \/ CloseWait \/ CloseMsgChan))

-----------------------------------------------------------------------------
(* Properties *)

\* The types of the variables; the message channel respects its capacity.
TypeOK ==
    /\ caller \in {"dial", "refused", "hello", "register", "await", "entities", "connected", "failed"}
    /\ reader \in {"none", "loop", "read", "route", "respond", "deliver", "ended"}
    /\ {pending, response, disconnected, asked, answered, peer, panicked} \subseteq BOOLEAN
    /\ msg \in Message \cup {NoMessage}
    /\ msgChan \in Seq(Message) /\ Len(msgChan) <= MessageCap
    /\ close \in {"open", "stopped", "connClosed", "readerGone", "closed"}
    /\ wire \in Seq(Message) /\ sent \in 0..MaxSent

\* No message is sent on msgChan after Close closed it, wherever the read loop was when
\* Close began (esphome_client.go 290-295, 540-542).
NoSendAfterClose == msgChanClosed => reader \in {"none", "ended"}

\* Connect succeeds only on a connection on which the device has answered, whatever the
\* order of answer, registration and timeout (esphome_client.go 352-382).
ConnectedWasAnswered == caller \in {"entities", "connected"} => answered

\* The connection as the client sees it once Connect succeeded: lost when the read loop has
\* reported it.
Seen == caller = "connected"
Link == INSTANCE Connection WITH
    state <- IF ~Seen THEN "unused" ELSE IF close = "closed" THEN "closed"
             ELSE IF disconnected THEN "down" ELSE "up",
    queued <- IF Seen THEN Len(msgChan) ELSE 0,
    token <- Seen /\ disconnected

\* What the client relies on: after the loss was reported or Close returned nothing more is
\* put on the channel, there is one report, and the channel never holds more than its
\* capacity: the transport implements Connection (esphome_client.go 83-144, 289-296, 512-545).
IsConnection == Link!Spec

\* Close returns, with any number of messages on the way and nobody to take them
\* (esphome_client.go 540).
CloseReturns == close # "open" ~> close = "closed" \/ panicked

\* The device going away always leaves the token that the reconnection handler waits for,
\* unless the connection is closed meanwhile (esphome_client.go 135-138).
LossReported ==
    caller = "connected" /\ ~peer ~> disconnected \/ close # "open" \/ panicked
=============================================================================
