------------------------ MODULE EspHomeClient_proofs ------------------------
(***************************************************************************)
(* Theorems about EspHomeClient, for any finite number of connections, any *)
(* number of commands and messages and any capacities: the connection in   *)
(* service is served and subscribed, the client implements CommandWire     *)
(* whatever the number of connections, no command is written twice, and    *)
(* each connection is used as Connection says.                             *)
(***************************************************************************)
EXTENDS EspHomeClient, Integers, FiniteSetTheorems, SequenceTheorems, TLAPS

-----------------------------------------------------------------------------
(* The inductive invariant *)

\* A goroutine has a command exactly while it writes it, and only connections that were
\* made have goroutines.
CommanderInv ==
    \A g \in Conns :
        /\ taken[g] # NoCommand <=> commander[g] = "process"
        /\ commander[g] # "none" => link[g] # "unused"

IInv == TypeOK /\ CommanderInv /\ LinkIsServed /\ LinkIsSubscribed

-----------------------------------------------------------------------------
(* Lemmas about queues *)

LEMMA HeadTail ==
    ASSUME NEW S, NEW q \in Seq(S), q # <<>>
    PROVE  Head(q) \in S /\ Tail(q) \in Seq(S) /\ Len(Tail(q)) = Len(q) - 1 /\ Len(q) > 0
OBVIOUS

LEMMA Appended ==
    ASSUME NEW S, NEW q \in Seq(S), NEW x \in S
    PROVE  Append(q, x) \in Seq(S) /\ Len(Append(q, x)) = Len(q) + 1
OBVIOUS

-----------------------------------------------------------------------------
(* The invariant holds *)

LEMMA InitInv == Init => IInv
<1> SUFFICES ASSUME Init PROVE IInv
  OBVIOUS
<1>1. TypeOK
  <2>1. /\ 0 \in 0..EventCap /\ 0 \in 0..MessageCap /\ 0 \in 0..MaxCommands /\ 0 \in 0..MaxMessages
        /\ 0 <= CommandCap
    BY CapAssumption, BoundAssumption
  <2>2. commandChannel = <<>> /\ written = <<>> /\ Len(commandChannel) = 0
    BY DEF Init
  <2>3. commandChannel \in Seq(1..MaxCommands) /\ written \in Seq(1..MaxCommands)
    BY <2>2
  <2> QED BY <2>1, <2>2, <2>3 DEF Init, TypeOK, NoCommand
<1>2. CommanderInv /\ LinkIsServed /\ LinkIsSubscribed
  BY DEF Init, CommanderInv, LinkIsServed, LinkIsSubscribed
<1> QED BY <1>1, <1>2 DEF IInv

LEMMA ReconnectionInv == IInv /\ Reconnection => IInv'
<1> SUFFICES ASSUME IInv, Reconnection PROVE IInv'
  OBVIOUS
<1> USE DEF IInv
<1>1. CASE CheckContext \/ ConnectFails \/ SubscribeFails \/ HandlerEnds
  <2>1. /\ rh' \in {"check", "dial", "failed", "ended"}
        /\ UNCHANGED <<clientVars, cancelled, setup, linkVars, messageVars, commandVars, panicked>>
    BY <1>1 DEF CheckContext, ConnectFails, SubscribeFails, HandlerEnds
  <2> QED BY <2>1 DEF TypeOK, CommanderInv, LinkIsServed, LinkIsSubscribed, clientVars, linkVars,
                     messageVars, commandVars
<1>2. CASE SubscribeVoiceAssistant
  <2>1. TypeOK'
    BY <1>2 DEF SubscribeVoiceAssistant, TypeOK, clientVars, messageVars, commandVars
  <2>2. CommanderInv' /\ LinkIsServed' /\ LinkIsSubscribed'
    BY <1>2 DEF SubscribeVoiceAssistant, CommanderInv, LinkIsServed, LinkIsSubscribed,
                clientVars, messageVars, commandVars
  <2> QED BY <2>1, <2>2
<1>3. CASE ConnectionLost
  <2>1. TypeOK'
    BY <1>3 DEF ConnectionLost, TypeOK, messageVars, commandVars
  <2>2. CommanderInv' /\ LinkIsServed' /\ LinkIsSubscribed'
    BY <1>3 DEF ConnectionLost, CommanderInv, LinkIsServed, LinkIsSubscribed, messageVars,
                commandVars
  <2> QED BY <2>1, <2>2
<1>4. ASSUME NEW c \in Conns, Connect(c) PROVE IInv'
  <2>1. TypeOK'
    BY <1>4 DEF Connect, TypeOK
  <2>2. CommanderInv'
    BY <1>4 DEF Connect, TypeOK, CommanderInv
  <2>3. LinkIsServed' /\ LinkIsSubscribed'
    BY <1>4, NoneAssumption DEF Connect, TypeOK, LinkIsServed, LinkIsSubscribed
  <2> QED BY <2>1, <2>2, <2>3
<1> QED BY <1>1, <1>2, <1>3, <1>4 DEF Reconnection

LEMMA HandleMessagesInv == IInv /\ (\E g \in Conns : HandleMessages(g)) => IInv'
<1> SUFFICES ASSUME IInv, NEW g \in Conns, HandleMessages(g) PROVE IInv'
  OBVIOUS
<1> USE DEF IInv
<1>1. UNCHANGED <<clientVars, rhVars, linkVars, received, commandVars>>
  BY DEF HandleMessages, SelectMessages, TakeMessage, TakeNil, StopMessages, HandleMessage,
         HandleEvent, HandleStartRequest, HandleOther, messageVars
<1>2. CommanderInv' /\ LinkIsSubscribed'
  BY <1>1 DEF CommanderInv, LinkIsSubscribed, clientVars, rhVars, linkVars, commandVars
<1>3. CASE SelectMessages(g)
  <2>1. TypeOK'
    BY <1>1, <1>3 DEF SelectMessages, TypeOK, clientVars, rhVars, linkVars, commandVars
  <2>2. LinkIsServed'
    BY <1>1, <1>3 DEF SelectMessages, TypeOK, LinkIsServed, clientVars, commandVars
  <2> QED BY <1>2, <2>1, <2>2
<1>4. CASE TakeMessage(g)
  <2>1. messages' \in [Conns -> 0..MessageCap]
    BY <1>4, CapAssumption DEF TakeMessage, TypeOK
  <2>2. TypeOK'
    BY <1>1, <1>4, <2>1 DEF TakeMessage, TypeOK, clientVars, rhVars, linkVars, commandVars
  <2>3. LinkIsServed'
    BY <1>1, <1>4 DEF TakeMessage, TypeOK, LinkIsServed, clientVars, commandVars
  <2> QED BY <1>2, <2>2, <2>3
<1>5. CASE TakeNil(g) \/ StopMessages(g) \/ HandleOther(g)
  <2>1. TypeOK'
    BY <1>1, <1>5 DEF TakeNil, StopMessages, HandleOther, TypeOK, clientVars, rhVars, linkVars,
                      commandVars
  <2>2. LinkIsServed'
    BY <1>1, <1>5 DEF TakeNil, StopMessages, HandleOther, TypeOK, LinkIsServed, clientVars,
                      commandVars
  <2> QED BY <1>2, <2>1, <2>2
<1>6. CASE HandleEvent(g)
  <2>1. events' \in 0..EventCap
    BY <1>6, CapAssumption DEF HandleEvent, QueueEvent, TypeOK
  <2>2. TypeOK'
    BY <1>1, <1>6, <2>1 DEF HandleEvent, TypeOK, clientVars, rhVars, linkVars, commandVars
  <2>3. LinkIsServed'
    BY <1>1, <1>6 DEF HandleEvent, TypeOK, LinkIsServed, clientVars, commandVars
  <2> QED BY <1>2, <2>2, <2>3
<1>7. CASE HandleStartRequest(g)
  BY <1>1, <1>2, <1>7 DEF HandleStartRequest, TypeOK, LinkIsServed, clientVars, rhVars, linkVars,
                    messageVars, commandVars
<1> QED BY <1>3, <1>4, <1>5, <1>6, <1>7 DEF HandleMessages, HandleMessage

LEMMA HandleCommandsInv == IInv /\ (\E g \in Conns : HandleCommands(g)) => IInv'
<1> SUFFICES ASSUME IInv, NEW g \in Conns, HandleCommands(g) PROVE IInv'
  OBVIOUS
<1> USE DEF IInv
<1>1. UNCHANGED <<clientVars, rhVars, linkVars, messageVars, issued, panicked>>
  BY DEF HandleCommands, TakeCommand, ProcessCommand, StopCommands
<1>2. LinkIsSubscribed'
  BY <1>1 DEF LinkIsSubscribed, clientVars, rhVars, linkVars
<1>3. CASE TakeCommand(g)
  <2>1. /\ commandChannel' \in Seq(1..MaxCommands) /\ Len(commandChannel') <= CommandCap
        /\ taken'[g] \in 1..MaxCommands
        /\ taken' \in [Conns -> 0..MaxCommands]
    <3>1. Head(commandChannel) \in 1..MaxCommands /\ Tail(commandChannel) \in Seq(1..MaxCommands)
          /\ Len(Tail(commandChannel)) <= CommandCap
      <4>1. commandChannel \in Seq(1..MaxCommands) /\ Len(commandChannel) <= CommandCap
            /\ commandChannel # <<>> /\ CommandCap \in Nat
        BY <1>3, CapAssumption DEF TakeCommand, TypeOK
      <4>2. /\ Head(commandChannel) \in 1..MaxCommands
            /\ Tail(commandChannel) \in Seq(1..MaxCommands)
            /\ Len(Tail(commandChannel)) = Len(commandChannel) - 1
        BY <4>1, HeadTail
      <4>3. Len(commandChannel) \in Nat
        BY <4>1
      <4> QED BY <4>1, <4>2, <4>3
    <3> QED BY <1>3, <3>1 DEF TakeCommand, TypeOK
  <2>2. commander' = [commander EXCEPT ![g] = "process"] /\ written' = written
    BY <1>3 DEF TakeCommand
  <2>3. TypeOK'
    BY <1>1, <2>1, <2>2 DEF TypeOK, clientVars, rhVars, linkVars, messageVars
  <2>4. CommanderInv'
    BY <1>1, <1>3, <2>1, <2>2 DEF TakeCommand, CommanderInv, TypeOK, linkVars, NoCommand
  <2>5. LinkIsServed'
    BY <1>1, <2>2 DEF LinkIsServed, TypeOK, clientVars, messageVars
  <2> QED BY <1>2, <2>3, <2>4, <2>5
<1>4. CASE ProcessCommand(g)
  <2>1. taken[g] \in 1..MaxCommands
    BY <1>4 DEF ProcessCommand, CommanderInv, TypeOK, NoCommand
  <2>2. written' \in Seq(1..MaxCommands)
    <3>1. written \in Seq(1..MaxCommands) /\ written' \in {written, Append(written, taken[g])}
      BY <1>4 DEF ProcessCommand, TypeOK
    <3> QED BY <2>1, <3>1, Appended
  <2>3. /\ commander' = [commander EXCEPT ![g] = "wait"] /\ commandChannel' = commandChannel
        /\ taken' = [taken EXCEPT ![g] = NoCommand] /\ commander[g] = "process"
    BY <1>4 DEF ProcessCommand
  <2>4. TypeOK'
    BY <1>1, <2>2, <2>3, BoundAssumption DEF TypeOK, clientVars, rhVars, linkVars, messageVars, NoCommand
  <2>5. CommanderInv'
    BY <1>1, <2>3 DEF CommanderInv, TypeOK, linkVars
  <2>6. LinkIsServed'
    BY <1>1, <2>3 DEF LinkIsServed, TypeOK, clientVars, messageVars
  <2> QED BY <1>2, <2>4, <2>5, <2>6
<1>5. CASE StopCommands(g)
  <2>1. TypeOK'
    BY <1>1, <1>5 DEF StopCommands, TypeOK, clientVars, rhVars, linkVars, messageVars
  <2>2. CommanderInv' /\ LinkIsServed'
    BY <1>1, <1>5 DEF StopCommands, CommanderInv, LinkIsServed, TypeOK, clientVars, linkVars,
                      messageVars
  <2> QED BY <1>2, <2>1, <2>2
<1> QED BY <1>3, <1>4, <1>5 DEF HandleCommands

LEMMA CloseInv == IInv /\ Close => IInv'
<1> SUFFICES ASSUME IInv, Close PROVE IInv'
  OBVIOUS
<1> USE DEF IInv
<1>1. TypeOK'
  BY DEF Close, TypeOK, rhVars, messageVars, commandVars
<1>2. CommanderInv' /\ LinkIsServed' /\ LinkIsSubscribed'
  BY DEF Close, TypeOK, CommanderInv, LinkIsServed, LinkIsSubscribed, rhVars, messageVars,
         commandVars
<1> QED BY <1>1, <1>2

LEMMA WorldInv == IInv /\ World => IInv'
<1> SUFFICES ASSUME IInv, World PROVE IInv'
  OBVIOUS
<1> USE DEF IInv
<1>1. ASSUME NEW c \in Conns, DeviceSends(c) PROVE IInv'
  <2>1. messages' \in [Conns -> 0..MessageCap] /\ received' \in 0..MaxMessages
    BY <1>1, CapAssumption, BoundAssumption DEF DeviceSends, TypeOK
  <2> QED BY <1>1, <2>1 DEF DeviceSends, TypeOK, CommanderInv, LinkIsServed, LinkIsSubscribed,
                 clientVars, rhVars, linkVars, commandVars
<1>2. ASSUME NEW c \in Conns, LinkBreaks(c) PROVE IInv'
  BY <1>2 DEF LinkBreaks, TypeOK, CommanderInv, LinkIsServed, LinkIsSubscribed, clientVars,
              rhVars, messageVars, commandVars
<1>3. CASE ControllerIssues
  <2>1. issued' \in 1..MaxCommands
    BY <1>3, BoundAssumption DEF ControllerIssues, TypeOK
  <2>2. commandChannel' \in Seq(1..MaxCommands) /\ Len(commandChannel') <= CommandCap
    BY <1>3, <2>1, Appended, CapAssumption DEF ControllerIssues, TypeOK
  <2>3. UNCHANGED <<clientVars, rhVars, linkVars, messageVars, commander, taken, written, panicked>>
    BY <1>3 DEF ControllerIssues
  <2> QED BY <2>1, <2>2, <2>3 DEF TypeOK, CommanderInv, LinkIsServed, LinkIsSubscribed, clientVars,
                 rhVars, linkVars, messageVars
<1>4. CASE ControllerReceives
  <2>1. events' \in 0..EventCap
    BY <1>4, CapAssumption DEF ControllerReceives, TypeOK
  <2> QED BY <1>4, <2>1 DEF ControllerReceives, TypeOK, CommanderInv, LinkIsServed,
                 LinkIsSubscribed, clientVars, rhVars, linkVars, commandVars
<1>5. CASE Cancel
  BY <1>5 DEF Cancel, TypeOK, CommanderInv, LinkIsServed, LinkIsSubscribed, clientVars, linkVars,
              messageVars, commandVars
<1> QED BY <1>1, <1>2, <1>3, <1>4, <1>5 DEF World

\* The inductive invariant of the client across its connections.
THEOREM InvariantHolds == Spec => []IInv
<1>1. IInv /\ [Next]_vars => IInv'
  <2> SUFFICES ASSUME IInv, [Next]_vars PROVE IInv'
    OBVIOUS
  <2>1. CASE UNCHANGED vars
    BY <2>1 DEF IInv, TypeOK, CommanderInv, LinkIsServed, LinkIsSubscribed, vars, clientVars,
                rhVars, linkVars, messageVars, commandVars
  <2> QED BY <2>1, ReconnectionInv, HandleMessagesInv, HandleCommandsInv, CloseInv, WorldInv
             DEF Next
<1> QED BY <1>1, InitInv, PTL DEF Spec

\* Every variable has its type and every channel its capacity (client.go 111-114).
THEOREM TypeCorrect == Spec => []TypeOK
<1>1. IInv => TypeOK
  BY DEF IInv
<1> QED BY <1>1, InvariantHolds, PTL

\* The connection in service has its own goroutines for messages and for commands, however
\* many connections there were before (client.go 159-164).
THEOREM LinkIsAlwaysServed == Spec => []LinkIsServed
<1>1. IInv => LinkIsServed
  BY DEF IInv
<1> QED BY <1>1, InvariantHolds, PTL

\* The voice assistant was subscribed on the connection that is waited for (client.go 223-227).
THEOREM LinkIsAlwaysSubscribed == Spec => []LinkIsSubscribed
<1>1. IInv => LinkIsSubscribed
  BY DEF IInv
<1> QED BY <1>1, InvariantHolds, PTL
-----------------------------------------------------------------------------
(* The order of the commands *)

\* Commands lie in the channel in the order they were issued, a goroutine has in hand one
\* that is older than all of them, and no two goroutines have the same.
OrderInv ==
    /\ \A i, j \in 1..Len(commandChannel) : i < j => commandChannel[i] < commandChannel[j]
    /\ \A i \in 1..Len(commandChannel) : commandChannel[i] <= issued
    /\ \A g \in Conns : taken[g] <= issued
    /\ \A g \in Conns, i \in 1..Len(commandChannel) : taken[g] < commandChannel[i]
    /\ \A g, h \in Conns : taken[g] = taken[h] /\ taken[g] # NoCommand => g = h

\* A command that was written is neither in the channel nor in a hand.
WrittenInv ==
    \A i \in 1..Len(written) :
        /\ written[i] <= issued
        /\ \A j \in 1..Len(commandChannel) : commandChannel[j] # written[i]
        /\ \A g \in Conns : taken[g] # written[i]

\* No command is written twice.
NoCommandTwice == \A i, j \in 1..Len(written) : written[i] = written[j] => i = j

LEMMA Numbers ==
    ASSUME TypeOK
    PROVE  /\ commandChannel \in Seq(1..MaxCommands) /\ Len(commandChannel) \in Nat
           /\ \A i \in 1..Len(commandChannel) : commandChannel[i] \in Nat /\ commandChannel[i] >= 1
           /\ \A g \in Conns : taken[g] \in Nat
           /\ written \in Seq(1..MaxCommands) /\ Len(written) \in Nat
           /\ \A i \in 1..Len(written) : written[i] \in Nat /\ written[i] >= 1
           /\ issued \in Nat
<1>1. MaxCommands \in Nat
  BY BoundAssumption
<1>2. commandChannel \in Seq(1..MaxCommands) /\ written \in Seq(1..MaxCommands)
  BY DEF TypeOK
<1>3. \A i \in 1..Len(commandChannel) : commandChannel[i] \in 1..MaxCommands
  BY <1>2, ElementOfSeq
<1>4. \A i \in 1..Len(written) : written[i] \in 1..MaxCommands
  BY <1>2, ElementOfSeq
<1>5. Len(commandChannel) \in Nat /\ Len(written) \in Nat
  BY <1>2, LenProperties
<1>6. (\A g \in Conns : taken[g] \in 0..MaxCommands) /\ issued \in 0..MaxCommands
  BY DEF TypeOK
<1> QED BY <1>1, <1>2, <1>3, <1>4, <1>5, <1>6

LEMMA QueueSteps ==
    ASSUME NEW S, NEW q \in Seq(S)
    PROVE  /\ Len(q) \in Nat
           /\ \A x \in S : /\ Len(Append(q, x)) = Len(q) + 1
                           /\ Append(q, x)[Len(q) + 1] = x
                           /\ \A i \in 1..Len(q) : Append(q, x)[i] = q[i]
           /\ q # <<>> => /\ Len(q) >= 1 /\ Len(Tail(q)) = Len(q) - 1
                          /\ Head(q) = q[1]
                          /\ \A i \in 1..Len(Tail(q)) : Tail(q)[i] = q[i + 1]
BY AppendProperties, HeadTailProperties, LenProperties, EmptySeq

\* The steps that touch commands or goroutines; the others leave them alone.
LEMMA CommandSteps ==
    ASSUME IInv, [Next]_vars
    PROVE  \/ ControllerIssues
           \/ \E g \in Conns : TakeCommand(g) \/ ProcessCommand(g)
           \/ \E c \in Conns : Connect(c)
           \/ UNCHANGED <<taken, commandChannel, issued, written>> /\ Writers' = Writers
<1> DEFINE Same == UNCHANGED <<taken, commandChannel, issued, written>> /\ Writers' = Writers
<1>1. CASE UNCHANGED commandVars
  BY <1>1 DEF commandVars, Writers
<1>2. CASE Reconnection
  <2>1. UNCHANGED commandVars \/ \E c \in Conns : Connect(c)
    BY <1>2 DEF Reconnection, CheckContext, ConnectFails, SubscribeVoiceAssistant, SubscribeFails,
       ConnectionLost, HandlerEnds
  <2> QED BY <1>1, <2>1
<1>3. CASE Close
  BY <1>1, <1>3 DEF Close
<1>4. CASE World
  <2>1. ControllerIssues \/ UNCHANGED commandVars
    BY <1>4 DEF World, DeviceSends, LinkBreaks, ControllerReceives, Cancel
  <2> QED BY <1>1, <2>1
<1>5. ASSUME NEW g \in Conns, HandleMessages(g) PROVE UNCHANGED commandVars
  BY <1>5 DEF HandleMessages, SelectMessages, TakeMessage, TakeNil, StopMessages, HandleMessage,
       HandleEvent, HandleStartRequest, HandleOther
<1>6. ASSUME NEW g \in Conns, StopCommands(g) PROVE Same
  <2>1. commander \in [Conns -> {"none", "wait", "process", "done"}]
    BY DEF IInv, TypeOK
  <2>2. \A h \in Conns : commander'[h] # "none" <=> commander[h] # "none"
    BY <1>6, <2>1 DEF StopCommands
  <2> QED BY <1>6, <2>2 DEF StopCommands, Writers
<1>7. CASE UNCHANGED vars
  BY <1>1, <1>7 DEF vars
<1> QED BY <1>1, <1>2, <1>3, <1>4, <1>5, <1>6, <1>7 DEF Next, HandleCommands

\* Issuing puts the newest command at the end.
LEMMA IssueOrder ==
    ASSUME IInv, OrderInv, WrittenInv, ControllerIssues
    PROVE  OrderInv' /\ WrittenInv'
<1> DEFINE q == commandChannel
           n == issued + 1
<1>1. TypeOK /\ issued \in Nat /\ n \in 1..MaxCommands
  <2>1. issued \in 0..MaxCommands /\ issued < MaxCommands /\ MaxCommands \in Nat
    BY BoundAssumption DEF IInv, TypeOK, ControllerIssues
  <2> QED BY <2>1 DEF IInv
<1>2. /\ q' = Append(q, n) /\ issued' = n /\ taken' = taken /\ written' = written
  BY DEF ControllerIssues
<1>3. /\ Len(q) \in Nat /\ Len(q') = Len(q) + 1 /\ q'[Len(q) + 1] = n
      /\ \A i \in 1..Len(q) : q'[i] = q[i]
  BY <1>1, <1>2, Numbers, QueueSteps
<1>4. \A i \in 1..Len(q') : i \in 1..Len(q) \/ i = Len(q) + 1
  BY <1>3
<1>5. /\ \A i \in 1..Len(q) : q[i] \in Nat /\ q[i] < n
      /\ \A g \in Conns : taken[g] \in Nat /\ taken[g] < n
      /\ \A i \in 1..Len(written) : written[i] \in Nat /\ written[i] < n
  BY <1>1, Numbers DEF OrderInv, WrittenInv
<1> HIDE DEF q, n
<1>6. \A i, j \in 1..Len(q') : i < j => q'[i] < q'[j]
  <2> SUFFICES ASSUME NEW i \in 1..Len(q'), NEW j \in 1..Len(q'), i < j PROVE q'[i] < q'[j]
    OBVIOUS
  <2>1. i \in 1..Len(q)
    BY <1>3, <1>4
  <2>2. CASE j \in 1..Len(q)
    BY <1>3, <2>1, <2>2 DEF OrderInv, q
  <2>3. CASE j = Len(q) + 1
    BY <1>3, <1>5, <2>1, <2>3
  <2> QED BY <1>4, <2>2, <2>3
<1>7. \A i \in 1..Len(q') : q'[i] <= n
  BY <1>1, <1>3, <1>4, <1>5
<1>8. \A g \in Conns : taken[g] <= n /\ \A i \in 1..Len(q') : taken[g] < q'[i]
  BY <1>1, <1>3, <1>4, <1>5 DEF OrderInv, q
<1>9. \A i \in 1..Len(written) : written[i] <= n /\ \A j \in 1..Len(q') : q'[j] # written[i]
  BY <1>1, <1>3, <1>4, <1>5 DEF WrittenInv, q
<1>10. OrderInv'
  BY <1>2, <1>6, <1>7, <1>8 DEF OrderInv, q
<1>11. WrittenInv'
  BY <1>2, <1>9 DEF WrittenInv, q
<1> QED BY <1>10, <1>11

\* The oldest command goes from the channel into a hand that was empty.
LEMMA TakeOrder ==
    ASSUME IInv, OrderInv, WrittenInv, NEW g \in Conns, TakeCommand(g)
    PROVE  OrderInv' /\ WrittenInv' /\ Pending' = Pending
<1> DEFINE q == commandChannel
<1>1. TypeOK /\ CommanderInv
  BY DEF IInv
<1>2. /\ q # <<>> /\ q' = Tail(q) /\ taken' = [taken EXCEPT ![g] = Head(q)]
      /\ issued' = issued /\ written' = written /\ taken[g] = NoCommand
      /\ taken \in [Conns -> 0..MaxCommands]
  BY <1>1 DEF TakeCommand, CommanderInv, TypeOK
<1>3. /\ Len(q) \in Nat /\ Len(q) >= 1 /\ Len(q') = Len(q) - 1 /\ Head(q) = q[1]
      /\ \A i \in 1..Len(q') : q'[i] = q[i + 1]
  BY <1>1, <1>2, Numbers, QueueSteps
<1>4. \A h \in Conns : h # g => taken'[h] = taken[h]
  BY <1>2
<1>5. taken'[g] = q[1]
  BY <1>2, <1>3
<1>6. /\ \A i \in 1..Len(q) : q[i] \in Nat /\ q[i] >= 1 /\ q[i] <= issued
      /\ \A h \in Conns : taken[h] \in Nat /\ taken[h] <= issued
                          /\ \A i \in 1..Len(q) : taken[h] < q[i]
      /\ \A i, j \in 1..Len(q) : i < j => q[i] < q[j]
      /\ issued \in Nat
  BY <1>1, Numbers DEF OrderInv
<1> HIDE DEF q
<1>7. 1 \in 1..Len(q) /\ \A i \in 1..Len(q') : i + 1 \in 1..Len(q) /\ i + 1 > 1
  BY <1>3
<1>8. OrderInv'
  <2>1. ASSUME NEW i \in 1..Len(q'), NEW j \in 1..Len(q'), i < j PROVE q'[i] < q'[j]
    <3>1. /\ i + 1 \in 1..Len(q) /\ j + 1 \in 1..Len(q) /\ i + 1 < j + 1
          /\ q'[i] = q[i + 1] /\ q'[j] = q[j + 1]
      BY <1>3, <1>7, <2>1
    <3>2. q[i + 1] < q[j + 1]
      BY <1>6, <3>1
    <3> QED BY <3>1, <3>2
  <2>2. \A i \in 1..Len(q') : q'[i] <= issued
    BY <1>3, <1>6, <1>7
  <2>3. \A h \in Conns : taken'[h] <= issued
    BY <1>4, <1>5, <1>6, <1>7
  <2>4. ASSUME NEW h \in Conns, NEW i \in 1..Len(q') PROVE taken'[h] < q'[i]
    <3>1. q'[i] = q[i + 1] /\ i + 1 \in 1..Len(q) /\ 1 < i + 1
      BY <1>3, <1>7
    <3>2. CASE h = g
      <4>1. q[1] < q[i + 1]
        BY <1>6, <1>7, <3>1
      <4> QED BY <1>5, <3>1, <3>2, <4>1
    <3>3. CASE h # g
      BY <1>4, <1>6, <3>1, <3>3
    <3> QED BY <3>2, <3>3
  <2>5. ASSUME NEW a \in Conns, NEW b \in Conns, taken'[a] = taken'[b], taken'[a] # NoCommand
        PROVE  a = b
    <3>1. \A h \in Conns : h # g => taken'[h] < taken'[g]
      BY <1>4, <1>5, <1>6, <1>7
    <3>2. \A h \in Conns : taken'[h] \in Nat
      BY <1>4, <1>5, <1>6, <1>7
    <3>3. CASE a = g \/ b = g
      BY <2>5, <3>1, <3>2, <3>3
    <3>4. CASE a # g /\ b # g
      BY <1>4, <2>5, <3>4 DEF OrderInv
    <3> QED BY <3>3, <3>4
  <2> QED BY <1>2, <2>1, <2>2, <2>3, <2>4, <2>5 DEF OrderInv, q
<1>9. WrittenInv'
  <2> SUFFICES ASSUME NEW i \in 1..Len(written)
               PROVE  /\ written[i] <= issued
                      /\ \A j \in 1..Len(q') : q'[j] # written[i]
                      /\ \A h \in Conns : taken'[h] # written[i]
    BY <1>2 DEF WrittenInv, q
  <2>1. /\ written[i] <= issued
        /\ \A j \in 1..Len(q) : q[j] # written[i]
        /\ \A h \in Conns : taken[h] # written[i]
    BY DEF WrittenInv, q
  <2>2. \A j \in 1..Len(q') : q'[j] # written[i]
    BY <1>3, <1>7, <2>1
  <2>3. \A h \in Conns : taken'[h] # written[i]
    BY <1>4, <1>5, <1>7, <2>1
  <2> QED BY <2>1, <2>2, <2>3
<1>10. Pending' = Pending
  <2> DEFINE C == {q[i] : i \in 1..Len(q)}
             D == {q'[i] : i \in 1..Len(q')}
             H == {taken[h] : h \in Conns} \ {NoCommand}
             K == {taken'[h] : h \in Conns} \ {NoCommand}
  <2>1. ASSUME NEW m \in C PROVE m \in D \cup K
    <3>1. PICK i \in 1..Len(q) : m = q[i]
      OBVIOUS
    <3>2. CASE i = 1
      <4>1. m = taken'[g] /\ m # NoCommand
        BY <1>5, <1>6, <3>1, <3>2 DEF NoCommand
      <4> QED BY <4>1
    <3>3. CASE i # 1
      <4>1. i - 1 \in 1..Len(q') /\ (i - 1) + 1 = i
        BY <1>3, <3>3
      <4>2. m = q'[i - 1]
        BY <1>3, <3>1, <4>1
      <4> QED BY <4>1, <4>2
    <3> QED BY <3>2, <3>3
  <2>2. ASSUME NEW m \in H PROVE m \in K
    <3>1. PICK h \in Conns : m = taken[h] /\ m # NoCommand
      OBVIOUS
    <3>2. h # g
      BY <1>2, <3>1
    <3>3. m = taken'[h]
      BY <1>4, <3>1, <3>2
    <3> QED BY <3>1, <3>3
  <2>3. ASSUME NEW m \in D PROVE m \in C
    <3>1. PICK i \in 1..Len(q') : m = q'[i]
      OBVIOUS
    <3>2. i + 1 \in 1..Len(q) /\ m = q[i + 1]
      BY <1>3, <1>7, <3>1
    <3> QED BY <3>2
  <2>4. ASSUME NEW m \in K PROVE m \in C \cup H
    <3>1. PICK h \in Conns : m = taken'[h] /\ m # NoCommand
      OBVIOUS
    <3>2. CASE h = g
      <4>1. m = q[1]
        BY <1>5, <3>1, <3>2
      <4> QED BY <1>7, <4>1
    <3>3. CASE h # g
      <4>1. m = taken[h]
        BY <1>4, <3>1, <3>3
      <4> QED BY <3>1, <4>1
    <3> QED BY <3>2, <3>3
  <2>5. C \cup H = D \cup K
    <3> HIDE DEF C, D, H, K
    <3> QED BY <2>1, <2>2, <2>3, <2>4
  <2> QED BY <2>5 DEF Pending, q
<1> QED BY <1>8, <1>9, <1>10

\* The command in a hand is written or lost, and in neither case pending any more.
LEMMA ProcessOrder ==
    ASSUME IInv, OrderInv, WrittenInv, NEW g \in Conns, ProcessCommand(g)
    PROVE  OrderInv' /\ WrittenInv' /\ Pending' = Pending \ {taken[g]} /\ taken[g] \in Pending
<1>1. TypeOK /\ CommanderInv
  BY DEF IInv
<1>2. /\ taken' = [taken EXCEPT ![g] = NoCommand] /\ taken[g] # NoCommand
      /\ taken \in [Conns -> 0..MaxCommands]
      /\ commandChannel' = commandChannel /\ issued' = issued
      /\ written' = written \/ written' = Append(written, taken[g])
  BY <1>1 DEF ProcessCommand, CommanderInv, TypeOK
<1>3. /\ taken'[g] = NoCommand
      /\ \A h \in Conns : h # g => taken'[h] = taken[h]
  BY <1>2
<1>4. /\ taken[g] \in 1..MaxCommands /\ taken[g] <= issued
      /\ \A i \in 1..Len(commandChannel) : commandChannel[i] # taken[g]
      /\ \A h \in Conns : h # g => taken[h] # taken[g]
  <2>1. taken[g] \in Nat /\ taken[g] \in 0..MaxCommands
    BY <1>1, <1>2, Numbers
  <2>2. \A i \in 1..Len(commandChannel) : taken[g] < commandChannel[i] /\ commandChannel[i] \in Nat
    BY <1>1, Numbers DEF OrderInv
  <2>3. \A h \in Conns : h # g => taken[h] # taken[g]
    BY <1>2 DEF OrderInv
  <2>4. taken[g] <= issued
    BY DEF OrderInv
  <2>5. taken[g] \in 1..MaxCommands
    BY <1>2, <2>1, BoundAssumption DEF NoCommand
  <2>6. \A i \in 1..Len(commandChannel) : commandChannel[i] # taken[g]
    BY <2>1, <2>2
  <2> QED BY <2>3, <2>4, <2>5, <2>6
<1>5. OrderInv'
  <2>1. \A h \in Conns :
          /\ taken'[h] <= issued
          /\ \A i \in 1..Len(commandChannel) : taken'[h] < commandChannel[i]
    <3> SUFFICES ASSUME NEW h \in Conns
                 PROVE  /\ taken'[h] <= issued
                        /\ \A i \in 1..Len(commandChannel) : taken'[h] < commandChannel[i]
      OBVIOUS
    <3>1. CASE h = g
      BY <1>1, <1>3, <3>1, Numbers DEF NoCommand
    <3>2. CASE h # g
      BY <1>3, <3>2 DEF OrderInv
    <3> QED BY <3>1, <3>2
  <2>2. \A a, b \in Conns : taken'[a] = taken'[b] /\ taken'[a] # NoCommand => a = b
    BY <1>3 DEF OrderInv
  <2> QED BY <1>2, <2>1, <2>2 DEF OrderInv
<1>6. WrittenInv'
  <2>1. \A h \in Conns : taken'[h] # taken[g]
    BY <1>2, <1>3, <1>4
  <2>2. ASSUME NEW i \in 1..Len(written)
        PROVE  /\ written[i] <= issued
               /\ \A j \in 1..Len(commandChannel) : commandChannel[j] # written[i]
               /\ \A h \in Conns : taken'[h] # written[i]
    <3>1. written[i] <= issued /\ \A j \in 1..Len(commandChannel) : commandChannel[j] # written[i]
      BY DEF WrittenInv
    <3>2. \A h \in Conns : taken[h] # written[i]
      BY DEF WrittenInv
    <3>3. written[i] # NoCommand
      BY <1>1, Numbers DEF NoCommand
    <3> QED BY <1>3, <3>1, <3>2, <3>3
  <2>3. CASE written' = written
    BY <1>2, <2>2, <2>3 DEF WrittenInv
  <2>4. CASE written' = Append(written, taken[g])
    <3>1. /\ Len(written) \in Nat /\ Len(written') = Len(written) + 1
          /\ written'[Len(written) + 1] = taken[g]
          /\ \A i \in 1..Len(written) : written'[i] = written[i]
      BY <1>1, <1>4, <2>4, Numbers, QueueSteps
    <3>2. \A i \in 1..Len(written') : i \in 1..Len(written) \/ i = Len(written) + 1
      BY <3>1
    <3> SUFFICES ASSUME NEW i \in 1..Len(written')
                 PROVE  /\ written'[i] <= issued
                        /\ \A j \in 1..Len(commandChannel) : commandChannel[j] # written'[i]
                        /\ \A h \in Conns : taken'[h] # written'[i]
      BY <1>2 DEF WrittenInv
    <3>3. CASE i \in 1..Len(written)
      BY <2>2, <3>1, <3>3
    <3>4. CASE i = Len(written) + 1
      BY <1>4, <2>1, <3>1, <3>4
    <3> QED BY <3>2, <3>3, <3>4
  <2> QED BY <1>2, <2>3, <2>4
<1>7. Pending' = Pending \ {taken[g]}
  <2> DEFINE C == {commandChannel[i] : i \in 1..Len(commandChannel)}
             H == {taken[h] : h \in Conns} \ {NoCommand}
             K == {taken'[h] : h \in Conns} \ {NoCommand}
  <2>1. taken[g] \notin C
    BY <1>4
  <2>2. K = H \ {taken[g]}
    <3>1. ASSUME NEW m \in K PROVE m \in H \ {taken[g]}
      <4>1. PICK h \in Conns : m = taken'[h] /\ m # NoCommand
        OBVIOUS
      <4>2. h # g /\ m = taken[h]
        BY <1>3, <4>1
      <4> QED BY <1>4, <4>1, <4>2
    <3>2. ASSUME NEW m \in H, m # taken[g] PROVE m \in K
      <4>1. PICK h \in Conns : m = taken[h] /\ m # NoCommand
        OBVIOUS
      <4>2. m = taken'[h]
        BY <1>3, <3>2, <4>1
      <4> QED BY <4>1, <4>2
    <3> HIDE DEF H, K
    <3> QED BY <3>1, <3>2
  <2>3. (C \cup K) = (C \cup H) \ {taken[g]}
    <3> HIDE DEF C, H, K
    <3> QED BY <2>1, <2>2
  <2> QED BY <1>2, <2>3 DEF Pending
<1>8. taken[g] \in Pending
  BY <1>2 DEF Pending
<1> QED BY <1>5, <1>6, <1>7, <1>8

\* Connecting touches no command.
LEMMA ConnectOrder ==
    ASSUME NEW c \in Conns, Connect(c)
    PROVE  UNCHANGED <<taken, commandChannel, issued, written>>
BY DEF Connect

LEMMA StepOrder ==
    ASSUME IInv, OrderInv, WrittenInv, [Next]_vars
    PROVE  OrderInv' /\ WrittenInv'
<1>1. CASE UNCHANGED <<taken, commandChannel, issued, written>>
  BY <1>1 DEF OrderInv, WrittenInv
<1> QED BY <1>1, CommandSteps, ConnectOrder, IssueOrder, TakeOrder, ProcessOrder

LEMMA InitOrder == Init => OrderInv /\ WrittenInv /\ NoCommandTwice
<1> SUFFICES ASSUME Init PROVE OrderInv /\ WrittenInv /\ NoCommandTwice
  OBVIOUS
<1>1. Len(commandChannel) = 0 /\ Len(written) = 0 /\ issued = 0 /\ \A g \in Conns : taken[g] = 0
  BY EmptySeq DEF Init, NoCommand
<1> QED BY <1>1 DEF OrderInv, WrittenInv, NoCommandTwice, NoCommand

\* The commands that were not written yet are in order, and none was written before.
THEOREM OrderHolds == Spec => [](IInv /\ OrderInv /\ WrittenInv)
<1>1. (IInv /\ OrderInv /\ WrittenInv) /\ [Next]_vars /\ IInv' => (IInv /\ OrderInv /\ WrittenInv)'
  BY StepOrder
<1> QED BY <1>1, InitInv, InitOrder, InvariantHolds, PTL DEF Spec

\* Writing keeps the commands written apart.
LEMMA StepTwice ==
    ASSUME IInv, OrderInv, WrittenInv, NoCommandTwice, [Next]_vars
    PROVE  NoCommandTwice'
<1>1. CASE written' = written
  BY <1>1 DEF NoCommandTwice
<1>2. ASSUME NEW g \in Conns, ProcessCommand(g) PROVE NoCommandTwice'
  <2>1. written' = written \/ written' = Append(written, taken[g])
    BY <1>2 DEF ProcessCommand
  <2>2. CASE written' = Append(written, taken[g])
    <3>1. taken[g] \in 1..MaxCommands
      BY <1>2 DEF ProcessCommand, IInv, TypeOK, CommanderInv, NoCommand
    <3>2. /\ Len(written) \in Nat /\ Len(written') = Len(written) + 1
          /\ written'[Len(written) + 1] = taken[g]
          /\ \A i \in 1..Len(written) : written'[i] = written[i]
      BY <2>2, <3>1, Numbers, QueueSteps DEF IInv
    <3>3. \A i \in 1..Len(written') : i \in 1..Len(written) \/ i = Len(written) + 1
      BY <3>2
    <3>4. \A i \in 1..Len(written) : written[i] # taken[g]
      BY DEF WrittenInv
    <3> SUFFICES ASSUME NEW i \in 1..Len(written'), NEW j \in 1..Len(written'),
                        written'[i] = written'[j]
                 PROVE  i = j
      BY DEF NoCommandTwice
    <3>5. CASE i \in 1..Len(written) /\ j \in 1..Len(written)
      BY <3>2, <3>5 DEF NoCommandTwice
    <3>6. CASE i = Len(written) + 1 \/ j = Len(written) + 1
      BY <3>2, <3>3, <3>4, <3>6
    <3> QED BY <3>3, <3>5, <3>6
  <2> QED BY <1>1, <2>1, <2>2
<1>3. ASSUME NEW g \in Conns, TakeCommand(g) PROVE written' = written
  BY <1>3 DEF TakeCommand
<1>4. ControllerIssues => written' = written
  BY DEF ControllerIssues
<1> QED BY <1>1, <1>2, <1>3, <1>4, CommandSteps, ConnectOrder

\* However many connections there were and however many goroutines compete for the
\* channel, the device is sent no command twice (client.go 465-474).
THEOREM EachCommandOnce == Spec => []NoCommandTwice
<1>1. NoCommandTwice /\ (IInv /\ OrderInv /\ WrittenInv) /\ [Next]_vars => NoCommandTwice'
  BY StepTwice
<1> QED BY <1>1, InitOrder, OrderHolds, PTL DEF Spec
-----------------------------------------------------------------------------
(* The client implements CommandWire *)

\* What is older than a command in a hand is in the hand of another goroutine, so there
\* are fewer such commands than goroutines.
LEMMA OlderInHand ==
    ASSUME IInv, OrderInv, NEW g \in Conns, taken[g] # NoCommand
    PROVE  Cardinality({m \in Pending : m < taken[g]}) < Cardinality(Writers)
<1> DEFINE Older == {m \in Pending : m < taken[g]}
           Others == Writers \ {g}
           f == [m \in Older |-> CHOOSE h \in Conns : taken[h] = m]
<1>1. IsFiniteSet(Writers) /\ Cardinality(Writers) \in Nat
  <2>1. Writers \in SUBSET Conns
    BY DEF Writers
  <2>2. IsFiniteSet(Writers)
    BY <2>1, ConnsAssumption, FS_Subset
  <2> QED BY <2>2, FS_CardinalityType
<1>2. g \in Writers
  BY DEF IInv, CommanderInv, Writers
<1>3. IsFiniteSet(Others) /\ Cardinality(Others) = Cardinality(Writers) - 1
  BY <1>1, <1>2, FS_RemoveElement
<1>4. ASSUME NEW m \in Older
      PROVE  \E h \in Conns : taken[h] = m /\ m # NoCommand
  <2>1. m \in Pending /\ m < taken[g]
    OBVIOUS
  <2>2. \A i \in 1..Len(commandChannel) : commandChannel[i] # m
    <3>1. \A i \in 1..Len(commandChannel) : taken[g] < commandChannel[i]
      BY DEF OrderInv
    <3>2. (\A i \in 1..Len(commandChannel) : commandChannel[i] \in Nat) /\ taken[g] \in Nat
      BY Numbers DEF IInv
    <3> QED BY <2>1, <3>1, <3>2
  <2> QED BY <2>1, <2>2 DEF Pending
<1>5. \A m \in Older : f[m] \in Conns /\ taken[f[m]] = m /\ m # NoCommand
  <2> SUFFICES ASSUME NEW m \in Older PROVE f[m] \in Conns /\ taken[f[m]] = m /\ m # NoCommand
    OBVIOUS
  <2>1. \E h \in Conns : taken[h] = m
    BY <1>4
  <2>2. f[m] = CHOOSE h \in Conns : taken[h] = m
    OBVIOUS
  <2> QED BY <1>4, <2>1, <2>2
<1>6. \A m \in Older : m < taken[g]
  OBVIOUS
<1>7. f = [m \in Older |-> f[m]]
  OBVIOUS
<1> HIDE DEF f, Older
<1>8. f \in Injection(Older, Others)
  <2>1. ASSUME NEW m \in Older PROVE f[m] \in Others
    <3>1. f[m] # g
      <4>1. taken[g] \in Nat
        BY Numbers DEF IInv
      <4> QED BY <1>5, <1>6, <4>1
    <3>2. f[m] \in Writers
      BY <1>5 DEF IInv, CommanderInv, Writers
    <3> QED BY <3>1, <3>2
  <2>2. f \in [Older -> Others]
    BY <1>7, <2>1
  <2>3. \A a, b \in Older : f[a] = f[b] => a = b
    BY <1>5
  <2> QED BY <2>2, <2>3 DEF Injection, IsInjective
<1>9. IsFiniteSet(Older) /\ Cardinality(Older) <= Cardinality(Others)
  BY <1>3, <1>8, FS_Injection
<1>10. Cardinality(Older) \in Nat /\ Cardinality(Others) \in Nat
  BY <1>3, <1>9, FS_CardinalityType
<1> HIDE DEF Others
<1>11. Cardinality(Older) < Cardinality(Writers)
  BY <1>1, <1>3, <1>9, <1>10
<1> QED BY <1>11 DEF Older

\* A goroutine that takes or processes a command is still one.
LEMMA CommandersStay ==
    ASSUME IInv, NEW g \in Conns, TakeCommand(g) \/ ProcessCommand(g)
    PROVE  Writers' = Writers
<1>1. commander \in [Conns -> {"none", "wait", "process", "done"}]
  BY DEF IInv, TypeOK
<1>2. \A h \in Conns : commander'[h] # "none" <=> commander[h] # "none"
  BY <1>1 DEF TakeCommand, ProcessCommand
<1> QED BY <1>2 DEF Writers

\* Taking a command from the channel does not show.
LEMMA TakeCommandWire ==
    ASSUME IInv, OrderInv, WrittenInv, NEW g \in Conns, TakeCommand(g)
    PROVE  UNCHANGED Wire!vars
<1>1. Pending' = Pending /\ Writers' = Writers
  BY TakeOrder, CommandersStay
<1>2. issued' = issued /\ written' = written
  BY DEF TakeCommand
<1> QED BY <1>1, <1>2 DEF Wire!vars

\* A command in a hand is written or lost, and at most the other hands have older ones.
LEMMA ProcessCommandWire ==
    ASSUME IInv, OrderInv, WrittenInv, NEW g \in Conns, ProcessCommand(g)
    PROVE  Wire!Next
<1>1. Pending' = Pending \ {taken[g]} /\ taken[g] \in Pending /\ Writers' = Writers
  BY ProcessOrder, CommandersStay
<1>2. taken[g] # NoCommand
  BY DEF ProcessCommand, IInv, CommanderInv
<1>3. Cardinality({m \in Pending : m < taken[g]}) < Cardinality(Writers)
  BY <1>2, OlderInHand
<1>4. issued' = issued /\ (written' = Append(written, taken[g]) \/ written' = written)
  BY DEF ProcessCommand
<1>5. Wire!InHand(taken[g])
  BY <1>3 DEF Wire!InHand, Wire!Cardinality, Cardinality
<1>6. CASE written' = Append(written, taken[g])
  BY <1>1, <1>4, <1>5, <1>6 DEF Wire!Deliver, Wire!Next
<1>7. CASE written' = written
  BY <1>1, <1>4, <1>5, <1>7 DEF Wire!Lose, Wire!Next
<1> QED BY <1>4, <1>6, <1>7

\* A command that is issued is pending.
LEMMA IssueWire == ASSUME IInv, ControllerIssues PROVE Wire!Issue
<1> DEFINE q == commandChannel
           H == {taken[h] : h \in Conns} \ {NoCommand}
<1>1. issued' \in 1..MaxCommands
  BY BoundAssumption DEF ControllerIssues, IInv, TypeOK
<1>2. q' = Append(q, issued') /\ taken' = taken /\ issued' = issued + 1 /\ written' = written
      /\ commander' = commander
  BY DEF ControllerIssues
<1>3. /\ Len(q) \in Nat /\ Len(q') = Len(q) + 1 /\ q'[Len(q) + 1] = issued'
      /\ \A i \in 1..Len(q) : q'[i] = q[i]
  BY <1>1, <1>2, Numbers, QueueSteps DEF IInv
<1> HIDE DEF q
<1>4. {q'[i] : i \in 1..Len(q')} = {q[i] : i \in 1..Len(q)} \cup {issued'}
  <2>1. \A i \in 1..Len(q') : i \in 1..Len(q) \/ i = Len(q) + 1
    BY <1>3
  <2>2. Len(q) + 1 \in 1..Len(q') /\ \A i \in 1..Len(q) : i \in 1..Len(q')
    BY <1>3
  <2> QED BY <1>3, <2>1, <2>2
<1>5. Pending' = Pending \cup {issued'}
  <2>1. Pending = {q[i] : i \in 1..Len(q)} \cup H
    BY DEF Pending, q
  <2>2. Pending' = {q'[i] : i \in 1..Len(q')} \cup H
    BY <1>2 DEF Pending, q
  <2> HIDE DEF H
  <2> QED BY <1>4, <2>1, <2>2
<1>6. Writers' = Writers
  BY <1>2 DEF Writers
<1> QED BY <1>2, <1>5, <1>6 DEF Wire!Issue

\* A connection brings another goroutine.
LEMMA ConnectWire == ASSUME IInv, NEW c \in Conns, Connect(c) PROVE Wire!AddWriter
<1>1. commander[c] = "none" /\ commander \in [Conns -> {"none", "wait", "process", "done"}]
  BY DEF Connect, IInv, TypeOK, CommanderInv
<1>2. commander' = [commander EXCEPT ![c] = "wait"]
  BY DEF Connect
<1>3. Writers' = Writers \cup {c} /\ c \notin Writers
  BY <1>1, <1>2 DEF Writers
<1>4. IsFiniteSet(Writers)
  <2>1. Writers \in SUBSET Conns
    BY DEF Writers
  <2> QED BY <2>1, ConnsAssumption, FS_Subset
<1>5. Cardinality(Writers') = Cardinality(Writers) + 1
  BY <1>3, <1>4, FS_AddElement
<1>6. Pending' = Pending /\ issued' = issued /\ written' = written
  BY DEF Connect, Pending
<1> QED BY <1>5, <1>6 DEF Wire!AddWriter

LEMMA StepWire ==
    IInv /\ OrderInv /\ WrittenInv /\ [Next]_vars => [Wire!Next]_(Wire!vars)
<1> SUFFICES ASSUME IInv, OrderInv, WrittenInv, [Next]_vars PROVE [Wire!Next]_(Wire!vars)
  OBVIOUS
<1>1. CASE ControllerIssues
  BY <1>1, IssueWire DEF Wire!Next
<1>2. ASSUME NEW g \in Conns, TakeCommand(g) \/ ProcessCommand(g) PROVE [Wire!Next]_(Wire!vars)
  BY <1>2, TakeCommandWire, ProcessCommandWire
<1>3. ASSUME NEW c \in Conns, Connect(c) PROVE Wire!Next
  BY <1>3, ConnectWire DEF Wire!Next
<1>4. CASE UNCHANGED <<taken, commandChannel, issued, written>> /\ Writers' = Writers
  <2>1. Pending' = Pending
    BY <1>4 DEF Pending
  <2> QED BY <1>4, <2>1 DEF Wire!vars
<1> QED BY <1>1, <1>2, <1>3, <1>4, CommandSteps

LEMMA InitWire == Init => Wire!Init
<1> SUFFICES ASSUME Init PROVE Wire!Init
  OBVIOUS
<1>1. Len(commandChannel) = 0 /\ \A g \in Conns : taken[g] = NoCommand
  BY EmptySeq DEF Init
<1>2. Pending = {}
  BY <1>1 DEF Pending
<1>3. Writers = {}
  BY DEF Init, Writers
<1> QED BY <1>2, <1>3, FS_EmptySet DEF Init, Wire!Init

\* The client implements CommandWire: whatever the number of connections, each command
\* reaches the device at most once and overtakes fewer than there are goroutines; on the
\* first connection the order is kept (client.go 465-474).
THEOREM ImplementsWire == Spec => CommandOrder
<1>1. (IInv /\ OrderInv /\ WrittenInv) /\ [Next]_vars => [Wire!Next]_(Wire!vars)
  BY StepWire
<1> QED BY <1>1, InitWire, OrderHolds, PTL DEF Spec, CommandOrder, Wire!Spec

-----------------------------------------------------------------------------
(* Every connection is used as one *)

\* The connection the client has is one that was made, and if it is lost the client has
\* not yet been told; only Close closes one, and it runs once.
UseInv ==
    /\ esphomeClient # None =>
         /\ link[esphomeClient] # "unused"
         /\ ~closed /\ link[esphomeClient] = "down" => esphomeClient \in lost
    /\ ~closed => \A c \in Conns : link[c] # "closed"

\* The steps that touch connections or the fields of the client.
LEMMA LinkSteps ==
    ASSUME [Next]_vars
    PROVE  \/ \E c \in Conns : Connect(c) \/ DeviceSends(c) \/ LinkBreaks(c) \/ TakeMessage(c)
           \/ ConnectionLost \/ Close
           \/ UNCHANGED <<esphomeClient, closed, link, messages, lost>>
<1> DEFINE Same == UNCHANGED <<esphomeClient, closed, link, messages, lost>>
<1>1. CASE Reconnection
  <2>1. (\E c \in Conns : Connect(c)) \/ ConnectionLost \/ Same
    BY <1>1 DEF Reconnection, CheckContext, ConnectFails, SubscribeVoiceAssistant, SubscribeFails,
       HandlerEnds, clientVars, linkVars, messageVars
  <2> QED BY <2>1
<1>2. CASE World
  <2>1. (\E c \in Conns : DeviceSends(c) \/ LinkBreaks(c)) \/ Same
    BY <1>2 DEF World, ControllerIssues, ControllerReceives, Cancel, clientVars, linkVars,
       messageVars
  <2> QED BY <2>1
<1>3. ASSUME NEW g \in Conns, HandleMessages(g) PROVE TakeMessage(g) \/ Same
  BY <1>3 DEF HandleMessages, SelectMessages, TakeNil, StopMessages, HandleMessage,
       HandleEvent, HandleStartRequest, HandleOther, clientVars, linkVars, messageVars
<1>4. ASSUME NEW g \in Conns, HandleCommands(g) PROVE Same
  BY <1>4 DEF HandleCommands, TakeCommand, ProcessCommand, StopCommands, clientVars, linkVars,
       messageVars
<1>5. CASE UNCHANGED vars
  BY <1>5 DEF vars, clientVars, linkVars, messageVars
<1> QED BY <1>1, <1>2, <1>3, <1>4, <1>5 DEF Next

LEMMA StepUse == IInv /\ UseInv /\ [Next]_vars => UseInv'
<1> SUFFICES ASSUME IInv, UseInv, [Next]_vars PROVE UseInv'
  OBVIOUS
<1>1. /\ esphomeClient \in Conns \cup {None}
      /\ link \in [Conns -> {"unused", "up", "down", "closed"}]
      /\ lost \subseteq Conns
  BY DEF IInv, TypeOK
<1>2. ASSUME NEW c \in Conns, Connect(c) PROVE UseInv'
  BY <1>1, <1>2, NoneAssumption DEF Connect, UseInv
<1>3. ASSUME NEW c \in Conns, DeviceSends(c) \/ TakeMessage(c) PROVE UseInv'
  BY <1>3 DEF DeviceSends, TakeMessage, UseInv, clientVars, linkVars
<1>4. ASSUME NEW c \in Conns, LinkBreaks(c) PROVE UseInv'
  BY <1>1, <1>4 DEF LinkBreaks, UseInv, clientVars
<1>5. CASE ConnectionLost
  BY <1>1, <1>5 DEF ConnectionLost, UseInv
<1>6. CASE Close
  BY <1>1, <1>6 DEF Close, UseInv
<1>7. CASE UNCHANGED <<esphomeClient, closed, link, messages, lost>>
  BY <1>7 DEF UseInv
<1> QED BY <1>2, <1>3, <1>4, <1>5, <1>6, <1>7, LinkSteps

\* Each step of the client is one of the connection or leaves it alone.
LEMMA StepLink ==
    ASSUME IInv, UseInv, [Next]_vars, NEW d \in Conns
    PROVE  [Link(d)!Next]_(Link(d)!vars)
<1>1. /\ esphomeClient \in Conns \cup {None}
      /\ link \in [Conns -> {"unused", "up", "down", "closed"}]
      /\ messages \in [Conns -> 0..MessageCap] /\ MessageCap \in Nat
      /\ lost \subseteq Conns
  BY CapAssumption DEF IInv, TypeOK
<1>2. ASSUME link'[d] = link[d], messages'[d] = messages[d], (d \in lost)' = (d \in lost)
      PROVE  UNCHANGED Link(d)!vars
  BY <1>2 DEF Link!vars
<1>3. ASSUME NEW c \in Conns, Connect(c) PROVE [Link(d)!Next]_(Link(d)!vars)
  <2>1. messages' = messages /\ lost' = lost /\ link[c] = "unused"
        /\ link' = [link EXCEPT ![c] = "up"]
    BY <1>3 DEF Connect
  <2>2. CASE d = c
    <3>1. link[d] = "unused" /\ link'[d] = "up" /\ messages'[d] \in 0..MessageCap
      BY <1>1, <2>1, <2>2
    <3>2. Link(d)!Open
      BY <2>1, <3>1 DEF Link!Open
    <3> QED BY <3>2 DEF Link!Next
  <2>3. CASE d # c
    BY <1>1, <1>2, <2>1, <2>3
  <2> QED BY <2>2, <2>3
<1>4. ASSUME NEW c \in Conns, DeviceSends(c) PROVE [Link(d)!Next]_(Link(d)!vars)
  <2>1. link' = link /\ lost' = lost /\ link[c] = "up"
        /\ messages' = [messages EXCEPT ![c] = IF @ < MessageCap THEN @ + 1 ELSE @]
    BY <1>4 DEF DeviceSends, linkVars
  <2>2. CASE d = c /\ messages[d] < MessageCap
    <3>1. messages'[d] = messages[d] + 1
      BY <1>1, <2>1, <2>2
    <3>2. Link(d)!Queue
      BY <2>1, <2>2, <3>1 DEF Link!Queue
    <3> QED BY <3>2 DEF Link!Next
  <2>3. CASE ~(d = c /\ messages[d] < MessageCap)
    <3>1. messages'[d] = messages[d]
      BY <1>1, <2>1, <2>3
    <3> QED BY <1>2, <2>1, <3>1
  <2> QED BY <2>2, <2>3
<1>5. ASSUME NEW c \in Conns, LinkBreaks(c) PROVE [Link(d)!Next]_(Link(d)!vars)
  <2>1. messages' = messages /\ lost' = lost \cup {c} /\ link[c] = "up"
        /\ link' = [link EXCEPT ![c] = "down"]
    BY <1>5 DEF LinkBreaks, messageVars
  <2>2. CASE d = c
    <3>1. link[d] = "up" /\ link'[d] = "down" /\ (d \in lost)' = TRUE
      BY <1>1, <2>1, <2>2
    <3>2. Link(d)!Break
      BY <2>1, <3>1 DEF Link!Break
    <3> QED BY <3>2 DEF Link!Next
  <2>3. CASE d # c
    <3>1. link'[d] = link[d] /\ messages'[d] = messages[d] /\ (d \in lost)' = (d \in lost)
      BY <1>1, <2>1, <2>3
    <3> QED BY <1>2, <3>1
  <2> QED BY <2>2, <2>3
<1>6. ASSUME NEW g \in Conns, TakeMessage(g) PROVE [Link(d)!Next]_(Link(d)!vars)
  <2>1. link' = link /\ lost' = lost /\ messages[source[g]] > 0 /\ source[g] \in Conns
        /\ messages' = [messages EXCEPT ![source[g]] = @ - 1]
    BY <1>6 DEF TakeMessage, linkVars, IInv, TypeOK
  <2>2. CASE d = source[g]
    <3>1. messages[d] > 0 /\ messages'[d] = messages[d] - 1
      BY <1>1, <2>1, <2>2
    <3>2. Link(d)!TakeMessage
      BY <2>1, <3>1 DEF Link!TakeMessage
    <3> QED BY <3>2 DEF Link!Next
  <2>3. CASE d # source[g]
    BY <1>1, <1>2, <2>1, <2>3
  <2> QED BY <2>2, <2>3
<1>7. CASE ConnectionLost
  <2>1. messages' = messages /\ link' = link /\ lost' = lost \ {esphomeClient}
        /\ esphomeClient \in lost
    BY <1>7 DEF ConnectionLost, messageVars
  <2>2. CASE d = esphomeClient
    <3>1. (d \in lost) = TRUE /\ (d \in lost)' = FALSE
      BY <2>1, <2>2
    <3>2. Link(d)!TakeToken
      BY <2>1, <3>1 DEF Link!TakeToken
    <3> QED BY <3>2 DEF Link!Next
  <2>3. CASE d # esphomeClient
    <3>1. (d \in lost)' = (d \in lost)
      BY <2>1, <2>3
    <3> QED BY <1>2, <2>1, <3>1
  <2> QED BY <2>2, <2>3
<1>8. CASE Close
  <2>1. messages' = messages /\ ~closed
    BY <1>8 DEF Close, messageVars
  <2>2. CASE esphomeClient = None
    BY <1>2, <1>8, <2>1, <2>2 DEF Close
  <2>3. CASE esphomeClient # None
    <3>1. link' = [link EXCEPT ![esphomeClient] = "closed"] /\ esphomeClient \in Conns
          /\ lost' \in {lost, lost \cup {esphomeClient}}
      BY <1>1, <1>8, <2>3 DEF Close
    <3>2. CASE d = esphomeClient
      <4>1. link[d] \in {"up", "down"} /\ (link[d] = "down" => d \in lost) /\ link'[d] = "closed"
        BY <1>1, <2>1, <2>3, <3>1, <3>2 DEF UseInv
      <4>2. (d \in lost)' = (d \in lost) \/ (link[d] = "up" /\ (d \in lost)' = TRUE)
        BY <1>1, <3>1, <3>2, <4>1
      <4>3. Link(d)!Close
        BY <2>1, <4>1, <4>2 DEF Link!Close
      <4> QED BY <4>3 DEF Link!Next
    <3>3. CASE d # esphomeClient
      <4>1. link'[d] = link[d] /\ messages'[d] = messages[d] /\ (d \in lost)' = (d \in lost)
        BY <1>1, <2>1, <3>1, <3>3
      <4> QED BY <1>2, <4>1
    <3> QED BY <3>2, <3>3
  <2> QED BY <2>2, <2>3
<1>9. CASE UNCHANGED <<esphomeClient, closed, link, messages, lost>>
  BY <1>2, <1>9
<1> QED BY <1>3, <1>4, <1>5, <1>6, <1>7, <1>8, <1>9, LinkSteps

LEMMA InitLink == Init => UseInv /\ \A c \in Conns : Link(c)!Init
<1> SUFFICES ASSUME Init PROVE UseInv /\ \A c \in Conns : Link(c)!Init
  OBVIOUS
<1>1. UseInv
  BY DEF Init, UseInv
<1>2. ASSUME NEW c \in Conns PROVE Link(c)!Init
  BY DEF Init, Link!Init
<1> QED BY <1>1, <1>2

\* Whatever becomes of the other connections, each is to the client what Connection says:
\* opened once, its messages taken one by one, its loss learned from one token, closed at
\* most once (client.go 205-231, 265-289, 640-661).
THEOREM UsesConnections == Spec => ConnectionsUsed
<1> DEFINE Step == \A c \in Conns : [Link(c)!Next]_(Link(c)!vars)
<1>1. Init => \A c \in Conns : Link(c)!Init
  BY InitLink
<1>2. UseInv /\ IInv /\ [Next]_vars => UseInv' /\ [Step]_<<link, messages, lost>>
  BY StepUse, StepLink
<1>3. Init => UseInv
  BY InitLink
<1> HIDE DEF Step
<1>4. Spec => [][Step]_<<link, messages, lost>>
  BY <1>2, <1>3, InvariantHolds, PTL DEF Spec
<1>5. Spec => \A c \in Conns : Link(c)!Init
  BY <1>1 DEF Spec
<1> QED BY <1>4, <1>5 DEF ConnectionsUsed, Step

\* While the client is not closed, the loss of the connection it has leaves a token the
\* reconnection handler still finds, so no loss is forgotten however often it reconnects
\* (client.go 205-216).
LossIsWaiting ==
    esphomeClient # None /\ ~closed /\ link[esphomeClient] = "down" => esphomeClient \in lost

THEOREM LossAlwaysWaits == Spec => []LossIsWaiting
<1>1. UseInv /\ IInv /\ [Next]_vars => UseInv'
  BY StepUse
<1>2. UseInv => LossIsWaiting
  BY DEF UseInv, LossIsWaiting
<1>3. Init => UseInv
  BY InitLink
<1> QED BY <1>1, <1>2, <1>3, InvariantHolds, PTL DEF Spec
=============================================================================
