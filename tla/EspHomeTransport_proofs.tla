----------------------- MODULE EspHomeTransport_proofs -----------------------
(***************************************************************************)
(* The safety properties of EspHomeTransport, for every capacity of the    *)
(* message channel and any number of messages, and that it implements what *)
(* Connection promises its user.                                           *)
(***************************************************************************)
EXTENDS EspHomeTransport, SequenceTheorems, TLAPS

\* Whatever shows the answer to hello, the device has answered: the answer on the way, the
\* one in the hands of the read loop, the one in the response channel, and a caller that
\* went on.  The read loop has a message while it works on one.
AnswerInv ==
    /\ \A i \in 1..Len(wire) : wire[i] = "helloResponse" => answered
    /\ msg = "helloResponse" => answered
    /\ reader = "respond" => msg = "helloResponse"
    /\ reader \in {"route", "deliver"} => msg \in Message
    /\ response => answered
    /\ ConnectedWasAnswered

\* A read loop never ends silently under a connection in use: what LossReported waits for
\* is there as soon as the loop is gone (esphome_client.go 120-144).
EndIsReported == reader = "ended" => disconnected \/ close # "open"

\* Close begins when the caller is done, so no read loop is started after it, and goes on
\* when the read loop has ended.  Only a read loop that ended has reported a loss, and it
\* ends without a report only when Close has begun.
CloseInv ==
    /\ close # "open" => caller \in {"failed", "connected"}
    /\ close \in {"readerGone", "closed"} => reader \in {"none", "ended"}
    /\ caller = "dial" => reader = "none"
    /\ disconnected => reader = "ended"
    /\ EndIsReported

IInv == TypeOK /\ AnswerInv /\ CloseInv

-----------------------------------------------------------------------------
(* Sequences of messages *)

\* Taking the first message keeps the type and shortens the sequence by one.
LEMMA TakeFirst ==
    ASSUME NEW q \in Seq(Message), q # <<>>
    PROVE  /\ Head(q) \in Message /\ Head(q) = q[1]
           /\ Tail(q) \in Seq(Message)
           /\ Len(Tail(q)) = Len(q) - 1
           /\ \A i \in 1..Len(Tail(q)) : Tail(q)[i] = q[i + 1]
           /\ Len(q) \in Nat /\ Len(q) > 0
BY HeadTailProperties, EmptySeq, LenProperties

\* A message put at the end is the last, and the others stay where they are.
LEMMA PutLast ==
    ASSUME NEW q \in Seq(Message), NEW m \in Message
    PROVE  /\ Append(q, m) \in Seq(Message)
           /\ Len(Append(q, m)) = Len(q) + 1
           /\ \A i \in 1..Len(q) : Append(q, m)[i] = q[i]
           /\ Append(q, m)[Len(q) + 1] = m
           /\ Len(q) \in Nat
BY AppendProperties, LenProperties

-----------------------------------------------------------------------------
(* The inductive invariant *)

\* The initial state satisfies the inductive invariant.
LEMMA InitInv == Init => IInv
<1> SUFFICES ASSUME Init PROVE IInv
    OBVIOUS
<1>1. <<>> \in Seq(Message) /\ Len(<<>>) = 0
    BY EmptySeq
<1>2. TypeOK
  <2>1. msgChan \in Seq(Message) /\ Len(msgChan) <= MessageCap /\ wire \in Seq(Message)
      BY <1>1, MessageCapAssumption DEF Init
  <2>2. sent \in 0..MaxSent
      BY MaxSentAssumption DEF Init
  <2>3. QED
      BY <2>1, <2>2 DEF Init, TypeOK
<1>3. AnswerInv
    BY <1>1 DEF Init, AnswerInv, ConnectedWasAnswered, NoMessage
<1>4. CloseInv
    BY DEF Init, CloseInv, EndIsReported
<1>5. QED
    BY <1>2, <1>3, <1>4 DEF IInv

\* Connect and its requests keep the inductive invariant.
LEMMA CallInv == IInv /\ Call => IInv'
<1> SUFFICES ASSUME IInv, Call PROVE IInv'
    OBVIOUS
<1> USE DEF IInv, TypeOK, AnswerInv, CloseInv, EndIsReported, ConnectedWasAnswered, readerVars,
            deviceVars
<1>1. CASE Dial
    BY <1>1 DEF Dial
<1>2. CASE WriteHello
    BY <1>2 DEF WriteHello
<1>3. CASE Register
    BY <1>3 DEF Register
<1>4. CASE ReceiveResponse
    BY <1>4 DEF ReceiveResponse
<1>5. CASE Timeout
    BY <1>5 DEF Timeout
<1>6. CASE WriteRequests
    BY <1>6 DEF WriteRequests
<1>7. QED
    BY <1>1, <1>2, <1>3, <1>4, <1>5, <1>6 DEF Call

\* The read loop keeps the inductive invariant.
LEMMA ReadLoopInv == IInv /\ ReadLoop => IInv'
<1> SUFFICES ASSUME IInv, ReadLoop PROVE IInv'
    OBVIOUS
<1> USE DEF IInv, TypeOK, AnswerInv, CloseInv, EndIsReported, stopped, ConnectedWasAnswered,
            callerVars, readerVars, deviceVars
<1>1. CASE CheckStop
    BY <1>1 DEF CheckStop
<1>2. CASE ReadMessage
  <2>1. wire \in Seq(Message) /\ wire # <<>>
        /\ msg' = Head(wire) /\ wire' = Tail(wire) /\ reader' = "route" /\ answered' = answered
      BY <1>2 DEF ReadMessage
  <2>2. Head(wire) = "helloResponse" => answered
      BY <2>1, TakeFirst
  <2>3. \A i \in 1..Len(Tail(wire)) : i + 1 \in 1..Len(wire) /\ Tail(wire)[i] = wire[i + 1]
      BY <2>1, TakeFirst
  <2>4. (\A i \in 1..Len(wire) : wire[i] = "helloResponse" => answered)'
      BY <2>1, <2>3
  <2>5. TypeOK'
      BY <1>2, <2>1, TakeFirst DEF ReadMessage
  <2>6. AnswerInv' /\ CloseInv'
      BY <1>2, <2>1, <2>2, <2>4 DEF ReadMessage
  <2>7. QED
      BY <2>5, <2>6
<1>3. CASE ReadFails
    BY <1>3 DEF ReadFails
<1>4. CASE AnswerPing
    BY <1>4 DEF AnswerPing, NoMessage
<1>5. CASE SkipUnknown
    BY <1>5 DEF SkipUnknown, NoMessage
<1>6. CASE Route
    BY <1>6 DEF Route
<1>7. CASE Respond
    BY <1>7 DEF Respond, NoMessage
<1>8. CASE Deliver
  <2>1. reader = "deliver" /\ reader' = "loop" /\ msg' = NoMessage
        /\ UNCHANGED <<callerVars, response, disconnected, close, deviceVars, panicked>>
      BY <1>8 DEF Deliver
  <2>2. (msgChan \in Seq(Message) /\ Len(msgChan) <= MessageCap)'
    <3>1. msg \in Message
        BY <2>1
    <3>2. CASE msgChan' = Append(msgChan, msg) /\ Len(msgChan) < MessageCap
        BY <3>1, <3>2, PutLast, MessageCapAssumption
    <3>3. CASE UNCHANGED msgChan
        BY <3>3
    <3>4. QED
        BY <1>8, <3>2, <3>3 DEF Deliver
  <2>3. QED
      BY <2>1, <2>2 DEF NoMessage
<1>9. QED
    BY <1>1, <1>2, <1>3, <1>4, <1>5, <1>6, <1>7, <1>8 DEF ReadLoop

\* Close keeps the inductive invariant.
LEMMA CloseKeepsInv == IInv /\ Close => IInv'
<1> SUFFICES ASSUME IInv, Close PROVE IInv'
    OBVIOUS
<1> USE DEF IInv, TypeOK, AnswerInv, CloseInv, EndIsReported, ConnectedWasAnswered,
            callerVars, readerVars, deviceVars
<1>1. CASE CloseBegins
    BY <1>1 DEF CloseBegins
<1>2. CASE CloseConn
    BY <1>2 DEF CloseConn
<1>3. CASE CloseWait
    BY <1>3 DEF CloseWait
<1>4. CASE CloseMsgChan
    BY <1>4 DEF CloseMsgChan
<1>5. QED
    BY <1>1, <1>2, <1>3, <1>4 DEF Close

\* The device, the network and the consumer keep the inductive invariant.
LEMMA EnvironmentInv == IInv /\ (Device \/ TakeMessage) => IInv'
<1> SUFFICES ASSUME IInv, Device \/ TakeMessage PROVE IInv'
    OBVIOUS
<1> USE DEF IInv, TypeOK, AnswerInv, CloseInv, EndIsReported, ConnectedWasAnswered,
            callerVars, readerVars, deviceVars
<1>1. CASE PeerGone
    BY <1>1 DEF PeerGone
<1>2. ASSUME NEW m \in Message, DeviceSends(m) PROVE IInv'
  <2>1. wire \in Seq(Message) /\ wire' = Append(wire, m)
        /\ answered' = (answered \/ m = "helloResponse")
        /\ UNCHANGED <<callerVars, response, readerVars, msgChan, close, disconnected>>
      BY <1>2 DEF DeviceSends
  <2>2. \A i \in 1..Len(wire') : i \in 1..Len(wire) \/ i = Len(wire) + 1
      BY <2>1, PutLast
  <2>3. ASSUME NEW i \in 1..Len(wire'), wire'[i] = "helloResponse" PROVE answered'
      BY <2>1, <2>2, <2>3, PutLast
  <2>4. (wire \in Seq(Message) /\ sent \in 0..MaxSent)'
      BY <1>2, <2>1, PutLast, MaxSentAssumption DEF DeviceSends
  <2>5. TypeOK'
      BY <1>2, <2>1, <2>4 DEF DeviceSends
  <2>6. AnswerInv'
      BY <2>1, <2>3
  <2>7. CloseInv'
      BY <2>1
  <2>8. QED
      BY <2>5, <2>6, <2>7
<1>3. CASE TakeMessage
  <2>1. (msgChan \in Seq(Message) /\ Len(msgChan) <= MessageCap)'
      BY <1>3, TakeFirst, MessageCapAssumption DEF TakeMessage
  <2>2. QED
      BY <1>3, <2>1 DEF TakeMessage
<1>4. QED
    BY <1>1, <1>2, <1>3 DEF Device

\* The inductive invariant holds in every reachable state: what the answer, the read loop,
\* the caller and Close know of each other (esphome_client.go 83-144, 264-296, 352-382,
\* 512-545).
THEOREM InvariantHolds == Spec => []IInv
<1>1. IInv /\ [Next]_vars => IInv'
  <2> SUFFICES ASSUME IInv, [Next]_vars PROVE IInv'
      OBVIOUS
  <2>1. CASE Next
      BY <2>1, CallInv, ReadLoopInv, CloseKeepsInv, EnvironmentInv DEF Next
  <2>2. CASE UNCHANGED vars
      BY <2>2 DEF vars, callerVars, readerVars, deviceVars, IInv, TypeOK, AnswerInv, CloseInv,
                  EndIsReported, ConnectedWasAnswered
  <2>3. QED
      BY <2>1, <2>2
<1>2. QED
    BY InitInv, <1>1, PTL DEF Spec

\* Every variable keeps its type and the message channel its capacity, for any capacity.
THEOREM TypeCorrect == Spec => []TypeOK
<1>1. IInv => TypeOK
    BY DEF IInv
<1>2. QED
    BY <1>1, InvariantHolds, PTL

\* The read loop never sends on the message channel after Close closed it
\* (esphome_client.go 290-295, 540-542), wherever it was when Close began.
THEOREM NeverSendsAfterClose == Spec => []NoSendAfterClose
<1>1. IInv => NoSendAfterClose
    BY DEF IInv, CloseInv, NoSendAfterClose, msgChanClosed
<1>2. QED
    BY <1>1, InvariantHolds, PTL

\* Connect only succeeds on a connection whose device has answered hello
\* (esphome_client.go 352-382), in whatever order answer, registration and timeout come.
THEOREM ConnectedMeansAnswered == Spec => []ConnectedWasAnswered
<1>1. IInv => ConnectedWasAnswered
    BY DEF IInv, AnswerInv
<1>2. QED
    BY <1>1, InvariantHolds, PTL

\* As long as nobody closes the connection the end of its read loop is never silent
\* (esphome_client.go 120-144).
THEOREM EndIsAlwaysReported == Spec => []EndIsReported
<1>1. IInv => EndIsReported
    BY DEF IInv, CloseInv
<1>2. QED
    BY <1>1, InvariantHolds, PTL

-----------------------------------------------------------------------------
(* The transport implements Connection *)

\* Nothing the client sees changes.
LEMMA StepUnseen ==
    ASSUME UNCHANGED <<caller, msgChan, disconnected>>, close' = "closed" <=> close = "closed"
    PROVE  UNCHANGED Link!vars
BY DEF Link!vars, Seen

\* While the caller is not done, the client sees nothing.
LEMMA CallIsLink == IInv /\ Call => Link!Next \/ UNCHANGED Link!vars
<1> SUFFICES ASSUME IInv, Call PROVE Link!Next \/ UNCHANGED Link!vars
    OBVIOUS
<1>1. ~Seen /\ UNCHANGED <<msgChan, disconnected, close>>
    BY DEF Call, Dial, WriteHello, Register, ReceiveResponse, Timeout, WriteRequests, Seen
<1>2. CASE ~Seen'
    BY <1>1, <1>2 DEF Link!vars
<1>3. CASE Seen'
  <2>1. caller = "entities" /\ close = "open"
      BY <1>3 DEF Seen, Call, Dial, WriteHello, Register, ReceiveResponse, Timeout, WriteRequests,
                  IInv, CloseInv, TypeOK
  <2>2. Len(msgChan) \in 0..MessageCap
      BY MessageCapAssumption, LenProperties DEF IInv, TypeOK
  <2>3. CASE disconnected
      BY <1>1, <1>3, <2>1, <2>2, <2>3 DEF Link!Next, Link!Open
  <2>4. CASE ~disconnected
      BY <1>1, <1>3, <2>1, <2>2, <2>4 DEF Link!Next, Link!Open
  <2>5. QED
      BY <2>3, <2>4
<1>4. QED
    BY <1>2, <1>3

\* The read loop is running, so that the loss was not reported and Close has not returned.
LEMMA ReadLoopIsLink == IInv /\ ReadLoop => Link!Next \/ UNCHANGED Link!vars
<1> SUFFICES ASSUME IInv, ReadLoop PROVE Link!Next \/ UNCHANGED Link!vars
    OBVIOUS
<1>1. ~disconnected /\ close # "closed" /\ UNCHANGED <<caller, close>>
    BY DEF IInv, TypeOK, CloseInv, ReadLoop, CheckStop, ReadMessage, ReadFails, AnswerPing, SkipUnknown,
           Route, Respond, Deliver, callerVars
<1>2. CASE UNCHANGED <<msgChan, disconnected>>
    BY <1>1, <1>2, StepUnseen
<1>3. CASE ~Seen
    BY <1>1, <1>3 DEF Seen, Link!vars
<1>4. CASE Seen /\ ReadFails
  <2>1. Seen' /\ disconnected' /\ disconnected' = TRUE /\ msgChan' = msgChan
      BY <1>1, <1>4 DEF ReadFails, Seen
  <2>2. Link!Break
      BY <1>1, <1>4, <2>1 DEF Link!Break
  <2>3. QED
      BY <2>2 DEF Link!Next
<1>5. CASE Seen /\ Deliver /\ msgChan' # msgChan
  <2>1. Seen' /\ Len(msgChan) < MessageCap /\ msgChan' = Append(msgChan, msg)
        /\ disconnected' = disconnected
      BY <1>1, <1>5 DEF Deliver, Seen
  <2>2. msg \in Message /\ msgChan \in Seq(Message)
      BY <1>5 DEF Deliver, IInv, AnswerInv, TypeOK
  <2>3. Len(msgChan') = Len(msgChan) + 1
      BY <2>1, <2>2, PutLast
  <2>4. Link!Queue
      BY <1>1, <1>5, <2>1, <2>3 DEF Link!Queue
  <2>5. QED
      BY <2>4 DEF Link!Next
<1>6. QED
    BY <1>2, <1>3, <1>4, <1>5
       DEF ReadLoop, CheckStop, ReadMessage, ReadFails, AnswerPing, SkipUnknown, Route, Respond,
           Deliver

\* Its last step closes the connection, unless Connect failed.
LEMMA CloseIsLink == IInv /\ Close => Link!Next \/ UNCHANGED Link!vars
<1> SUFFICES ASSUME IInv, Close PROVE Link!Next \/ UNCHANGED Link!vars
    OBVIOUS
<1>1. UNCHANGED <<caller, msgChan, disconnected>> /\ close # "closed"
    BY DEF Close, CloseBegins, CloseConn, CloseWait, CloseMsgChan, callerVars
<1>2. CASE close' # "closed" \/ ~Seen
    BY <1>1, <1>2 DEF Link!vars, Seen
<1>3. CASE close' = "closed" /\ Seen
  <2>1. Seen'
      BY <1>1, <1>3 DEF Seen
  <2>2. Link!Close
      BY <1>1, <1>3, <2>1 DEF Link!Close
  <2>3. QED
      BY <2>2 DEF Link!Next
<1>4. QED
    BY <1>2, <1>3

\* The message goroutine takes a message.
LEMMA TakeIsLink == IInv /\ TakeMessage => Link!Next
<1> SUFFICES ASSUME IInv, TakeMessage PROVE Link!Next
    OBVIOUS
<1>1. /\ Seen /\ Seen' /\ msgChan # <<>> /\ msgChan' = Tail(msgChan) /\ msgChan \in Seq(Message)
      /\ UNCHANGED <<close, disconnected>>
    BY DEF TakeMessage, Seen, callerVars, IInv, TypeOK
<1>2. Len(msgChan') = Len(msgChan) - 1 /\ Len(msgChan) > 0
    BY <1>1, TakeFirst
<1>3. Link!TakeMessage
    BY <1>1, <1>2 DEF Link!TakeMessage
<1>4. QED
    BY <1>3 DEF Link!Next

\* The transport implements Connection: nothing is queued after the loss was reported or Close
\* returned, and the loss is reported once (esphome_client.go 120-144, 289-296, 512-545).
THEOREM ImplementsConnection == Spec => IsConnection
<1>1. Init => Link!Init
    BY DEF Init, Link!Init, Seen
<1>2. IInv /\ [Next]_vars => [Link!Next]_(Link!vars)
  <2> SUFFICES ASSUME IInv, [Next]_vars PROVE Link!Next \/ UNCHANGED Link!vars
      OBVIOUS
  <2>1. CASE Device
      BY <2>1, StepUnseen DEF Device, PeerGone, DeviceSends, callerVars
  <2>2. CASE UNCHANGED vars
      BY <2>2, StepUnseen DEF vars, callerVars
  <2>3. QED
      BY <2>1, <2>2, CallIsLink, ReadLoopIsLink, CloseIsLink, TakeIsLink DEF Next
<1>3. QED
    BY <1>1, <1>2, InvariantHolds, PTL DEF Spec, IsConnection, Link!Spec
=============================================================================
