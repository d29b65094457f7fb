---------------------------- MODULE Driver_proofs ----------------------------
(***************************************************************************)
(* Theorems about Driver, for any number of tool calls in a message and    *)
(* with or without an ARP table: what a request to the model holds, what a *)
(* failure of the router means, and the order in which things are closed.  *)
(***************************************************************************)
EXTENDS Driver, TLAPS

-----------------------------------------------------------------------------
(* The inductive invariant *)

\* A tool runs only while a call is left.
CallsInv == stage = "tools" => toolCalls # <<>>

\* A token, and a request that only follows on a login, prove that a login was answered.
RouterInv ==
    /\ token # "none" => granted
    /\ rpc \in {"relogin", "devices"} => granted
    /\ RouterFailureExplained

\* Results are in the context, or wait for the end of the round to get there; a conversation
\* with a history has its question in the context from the first request on.
QuestionInv ==
    /\ stage = "chat" => executed \subseteq context.results
    /\ stage = "tools" => executed \subseteq context.results \cup results
    /\ stage # "idle" /\ remembered => context.question

ThinkingInv == ThinkingTypeOK /\ CallsInv /\ RouterInv /\ QuestionInv

\* What main adds, and how much of it there is at each step of the set-up.
List == <<"client", "stt", "http">>
Prefix(n) == [i \in 1..n |-> List[i]]
Count == [connect |-> 0, addClient |-> 0, newSTT |-> 1, addSTT |-> 1,
          startHTTP |-> 2, addHTTP |-> 2, run |-> 3]

FuncsInv == \E n \in 0..3 : funcs = Prefix(n) /\ (main \in DOMAIN Count => n = Count[main])

\* What is left of the first n functions when k of them have run, with g words of garbage.
Rest(k, n, g) == [i \in 1..(n - k + g) |-> IF i <= n - k THEN List[k + i] ELSE "garbage"]

ShutdownInv ==
    \/ manager = <<"read">> /\ closed = <<>> /\ ~done
    \/ /\ closed = <<>> /\ ~done
       /\ \E n \in 0..3, g \in 0..1 : manager = <<"done">> \o Rest(0, n, g)
    \/ /\ done
       /\ \E k, n \in 0..3, g \in 0..1 : k <= n /\ closed = Prefix(k) /\ manager = Rest(k, n, g)

DriverTypeOK ==
    /\ main \in Main /\ cancelled \in BOOLEAN /\ done \in BOOLEAN
    /\ controller \in {"off", "running", "stopped"}

IInv == ThinkingInv /\ DriverTypeOK /\ FuncsInv /\ ShutdownInv

-----------------------------------------------------------------------------
(* The tool loop *)

\* A result that is noted keeps the types and the calls that are left.
LEMMA ReturnKeepsTypes ==
    ASSUME NEW result \in Result, ThinkingTypeOK, stage = "tools", toolCalls # <<>>,
           Return(result)
    PROVE  /\ stage' \in {"chat", "tools"}
           /\ context' \in [question : BOOLEAN, results : SUBSET Result]
           /\ prompt' \in BOOLEAN
           /\ toolCalls' \in Seq(Tool) /\ Len(toolCalls') <= MaxCalls
           /\ results' \subseteq Result /\ executed' \subseteq Result
           /\ CallsInv'
<1>1. Len(toolCalls) \in Nat /\ Len(toolCalls) # 0 /\ MaxCalls \in Nat
  BY MaxCallsAssumption DEF ThinkingTypeOK
<1>2. Tail(toolCalls) \in Seq(Tool) /\ Len(Tail(toolCalls)) = Len(toolCalls) - 1
  BY DEF ThinkingTypeOK
<1>3. context \in [question : BOOLEAN, results : SUBSET Result] /\ results \subseteq Result
  BY DEF ThinkingTypeOK
<1>4. CASE Len(toolCalls) = 1
  <2>1. context' = [context EXCEPT !.results = @ \cup (results \cup {result})]
        /\ stage' = "chat" /\ prompt' = FALSE /\ results' = {}
    BY <1>4 DEF Return, WithResults
  <2>2. context' \in [question : BOOLEAN, results : SUBSET Result]
    BY <1>3, <2>1
  <2>3. /\ toolCalls' = Tail(toolCalls) /\ executed' = executed \cup {result}
        /\ executed \subseteq Result
    BY DEF Return, ThinkingTypeOK
  <2>4. Len(toolCalls') = 0 /\ Len(toolCalls') <= MaxCalls /\ toolCalls' \in Seq(Tool)
    BY <1>1, <1>2, <1>4, <2>3
  <2>5. prompt' \in BOOLEAN /\ CallsInv'
    BY <2>1 DEF CallsInv
  <2>6. results' \subseteq Result /\ executed' \subseteq Result
    BY <2>1, <2>3
  <2> QED BY <2>1, <2>2, <2>4, <2>5, <2>6
<1>5. CASE Len(toolCalls) # 1
  <2>1. /\ toolCalls' = Tail(toolCalls) /\ executed' = executed \cup {result}
        /\ results' = results \cup {result} /\ UNCHANGED <<context, prompt, stage>>
        /\ executed \subseteq Result /\ prompt \in BOOLEAN /\ Len(toolCalls) <= MaxCalls
    BY <1>5 DEF Return, ThinkingTypeOK
  <2>2. Len(toolCalls') # 0 /\ Len(toolCalls') <= MaxCalls /\ toolCalls' \in Seq(Tool)
    BY <1>1, <1>2, <1>5, <2>1
  <2>3. toolCalls' # <<>>
    BY <2>2
  <2> QED BY <1>3, <2>1, <2>2, <2>3 DEF CallsInv
<1> QED BY <1>4, <1>5

\* The result of a call is in the context when the model is asked again.
LEMMA ReturnKeepsResults ==
    ASSUME NEW result \in Result, ThinkingTypeOK, QuestionInv, stage = "tools",
           remembered' = remembered, Return(result)
    PROVE  QuestionInv'
<1>1. context \in [question : BOOLEAN, results : SUBSET Result]
  BY DEF ThinkingTypeOK
<1>2. CASE Len(toolCalls) = 1
  <2>1. context' = [context EXCEPT !.results = @ \cup (results \cup {result})]
        /\ stage' = "chat" /\ executed' = executed \cup {result}
    BY <1>2 DEF Return, WithResults
  <2>2. context'.results = context.results \cup (results \cup {result})
        /\ context'.question = context.question
    BY <1>1, <2>1
  <2> QED BY <2>1, <2>2 DEF QuestionInv
<1>3. CASE Len(toolCalls) # 1
  BY <1>3 DEF Return, QuestionInv
<1> QED BY <1>2, <1>3

\* Only a router that answered before, or one without an ARP table, fails.
LEMMA FailureHasCause ==
    ASSUME RouterInv, CallReturns("failed")
    PROVE  granted \/ ~ArpTable
BY DEF RouterInv, CallReturns, LoginFails, Devices, Sections, ArpOutcomes, LocalOutcomes,
       SectionOutcomes

LEMMA CallReturnsLeaves ==
    ASSUME NEW outcome, CallReturns(outcome)
    PROVE  rpc' = "none" /\ UNCHANGED <<token, granted>>
BY DEF CallReturns, LoginFails, Devices, Sections

\* What a call brings, by how it returned.
LEMMA RouterCallReturnsCases ==
    ASSUME RouterCallReturns
    PROVE  /\ stage = "tools" /\ rpc' = "none"
           /\ UNCHANGED <<token, granted, remembered, located>>
           /\ \/ \E result \in Result \ {"no devices"} : Return(result)
              \/ CallReturns("failed") /\ Return("no devices")
              \/ Panic
<1>1. rpc' = "none" /\ UNCHANGED <<token, granted>>
  BY CallReturnsLeaves DEF RouterCallReturns
<1>2. CASE CallReturns("ok") /\ Return(IF Head(toolCalls) = "get_router_clients" THEN "devices"
                                       ELSE "other")
  <2> DEFINE r == IF Head(toolCalls) = "get_router_clients" THEN "devices" ELSE "other"
  <2>1. r \in Result \ {"no devices"} /\ Return(r)
    BY <1>2 DEF Result
  <2> QED BY <1>1, <2>1 DEF RouterCallReturns
<1> QED BY <1>1, <1>2 DEF RouterCallReturns

-----------------------------------------------------------------------------
\* Every step of the tool loop keeps what is known of it.
LEMMA ThinkKeepsInv ==
    ASSUME ThinkingInv, Think
    PROVE  ThinkingInv'
<1> USE DEF ThinkingInv
<1>1. CASE Ask
  <2>1. ThinkingTypeOK' /\ CallsInv' /\ RouterInv'
    BY <1>1 DEF Ask, ThinkingTypeOK, RouterTypeOK, CallsInv, RouterInv, RouterFailureExplained,
                routerVars, GetContext, Stage
  <2>2. QuestionInv'
    BY <1>1 DEF Ask, QuestionInv, GetContext
  <2> QED BY <2>1, <2>2
<1>2. CASE ChatEnds
  BY <1>2 DEF ChatEnds, NoContext, ThinkingTypeOK, RouterTypeOK, CallsInv, RouterInv,
              RouterFailureExplained, QuestionInv, routerVars, Stage
<1>3. CASE ModelCallsTools
  <2>1. PICK n \in 1..MaxCalls : toolCalls' \in [1..n -> Tool]
    BY <1>3 DEF ModelCallsTools
  <2>2. toolCalls' \in Seq(Tool) /\ Len(toolCalls') = n /\ toolCalls' # <<>>
    BY <2>1, MaxCallsAssumption
  <2>3. Len(toolCalls') <= MaxCalls
    BY <2>1, <2>2, MaxCallsAssumption
  <2> QED BY <1>3, <2>2, <2>3 DEF ModelCallsTools, ThinkingTypeOK, RouterTypeOK, CallsInv,
             RouterInv, RouterFailureExplained, QuestionInv, routerVars, Stage
<1>4. CASE BeginRouterCall
  <2>1. PICK tool \in RouterTool : Calling(tool) /\ CallRouter(tool)
    BY <1>4 DEF BeginRouterCall
  <2>2. RouterTypeOK' /\ RouterInv'
    BY <1>4, <2>1 DEF BeginRouterCall, CallRouter, RouterTypeOK, RouterInv, Rpc, Logins, Token,
       RouterFailureExplained, ThinkingTypeOK, callVars, RouterTool
  <2> QED BY <1>4, <2>2 DEF BeginRouterCall, ThinkingTypeOK, CallsInv, QuestionInv, callVars
<1>5. CASE RouterLogin
  <2>1. RouterTypeOK' /\ RouterInv'
    BY <1>5 DEF RouterLogin, LoginAnswered, RouterTypeOK, RouterInv, Rpc, Logins, Token,
       RouterFailureExplained, ThinkingTypeOK, callVars
  <2> QED BY <1>5, <2>1 DEF RouterLogin, ThinkingTypeOK, CallsInv, QuestionInv, callVars
<1>6. CASE RouterCallReturns
  <2>1. /\ stage = "tools" /\ rpc' = "none"
        /\ UNCHANGED <<token, granted, remembered, located>>
        /\ \/ \E result \in Result \ {"no devices"} : Return(result)
           \/ CallReturns("failed") /\ Return("no devices")
           \/ Panic
    BY <1>6, RouterCallReturnsCases
  <2>2. toolCalls # <<>> /\ "no devices" \in Result
    BY <2>1 DEF CallsInv, Result
  <2>3. CASE \E result \in Result \ {"no devices"} : Return(result)
    <3>1. PICK result \in Result \ {"no devices"} : Return(result)
      BY <2>3
    <3>2. ThinkingTypeOK' /\ CallsInv'
      BY <2>1, <2>2, <3>1, ReturnKeepsTypes DEF ThinkingTypeOK, RouterTypeOK, Rpc, Stage
    <3>3. QuestionInv'
      BY <2>1, <3>1, ReturnKeepsResults
    <3>4. RouterInv'
      BY <2>1, <3>1 DEF RouterInv, RouterFailureExplained, Return
    <3> QED BY <3>2, <3>3, <3>4
  <2>4. CASE CallReturns("failed") /\ Return("no devices")
    <3>1. ThinkingTypeOK' /\ CallsInv'
      BY <2>1, <2>2, <2>4, ReturnKeepsTypes DEF ThinkingTypeOK, RouterTypeOK, Rpc, Stage
    <3>2. QuestionInv'
      BY <2>1, <2>2, <2>4, ReturnKeepsResults
    <3>3. granted \/ ~ArpTable
      BY <2>4, FailureHasCause
    <3>4. RouterInv'
      BY <2>1, <3>3 DEF RouterInv, RouterFailureExplained
    <3> QED BY <3>1, <3>2, <3>4
  <2>5. CASE Panic
    BY <2>1, <2>5 DEF Panic, ThinkingTypeOK, RouterTypeOK, Rpc, Stage, CallsInv, QuestionInv,
       RouterInv, RouterFailureExplained, callVars
  <2> QED BY <2>1, <2>3, <2>4, <2>5
<1>7. CASE GetWeather \/ RunOther
  <2>1. /\ stage = "tools" /\ toolCalls # <<>> /\ "other" \in Result
        /\ UNCHANGED <<token, rpc, granted, remembered>> /\ located' \in BOOLEAN
        /\ Return("other") \/ Panic
    BY <1>7 DEF GetWeather, RunOther, Calling, CallsInv, Result, routerVars, ThinkingTypeOK
  <2>2. CASE Return("other")
    <3>1. ThinkingTypeOK' /\ CallsInv'
      BY <2>1, <2>2, ReturnKeepsTypes DEF ThinkingTypeOK, RouterTypeOK, Stage
    <3>2. QuestionInv'
      BY <2>1, <2>2, ReturnKeepsResults
    <3>3. RouterInv'
      BY <2>1, <2>2 DEF RouterInv, RouterFailureExplained, Return
    <3> QED BY <3>1, <3>2, <3>3
  <2>3. CASE Panic
    BY <2>1, <2>3 DEF Panic, ThinkingTypeOK, RouterTypeOK, Stage, CallsInv, QuestionInv,
       RouterInv, RouterFailureExplained, callVars
  <2> QED BY <2>1, <2>2, <2>3
<1> QED BY <1>1, <1>2, <1>3, <1>4, <1>5, <1>6, <1>7 DEF Think, ChatReturns, RouterReturns

LEMMA RouterKeepsInv ==
    ASSUME ThinkingInv, RouterForgets
    PROVE  ThinkingInv'
BY DEF ThinkingInv, RouterForgets, TokenExpires, ThinkingTypeOK, RouterTypeOK, Token, CallsInv,
       RouterInv, RouterFailureExplained, QuestionInv, callVars

\* What thinking does not touch keeps what is known of it.
LEMMA ThinkingUnchanged ==
    ASSUME ThinkingInv, UNCHANGED thinkingVars
    PROVE  ThinkingInv'
BY DEF ThinkingInv, thinkingVars, callVars, routerVars, ThinkingTypeOK, RouterTypeOK, CallsInv,
       RouterInv, RouterFailureExplained, QuestionInv

-----------------------------------------------------------------------------
(* The cleanup functions *)

LEMMA PrefixGrows ==
    ASSUME NEW n \in 0..2
    PROVE  Append(Prefix(n), List[n + 1]) = Prefix(n + 1)
BY DEF Prefix, List

LEMMA FirstOfAll ==
    ASSUME NEW n \in 0..3
    PROVE  Prefix(n) = Rest(0, n, 0) /\ Prefix(n) \o <<"garbage">> = Rest(0, n, 1)
BY DEF Prefix, Rest, List

LEMMA AddKeepsInv ==
    ASSUME DriverTypeOK, FuncsInv, Add
    PROVE  FuncsInv' /\ main' \in Main
<1>1. PICK n \in 0..3 : funcs = Prefix(n) /\ (main \in DOMAIN Count => n = Count[main])
  BY DEF FuncsInv
<1>2. /\ n \in 0..2 /\ Added[main] = List[n + 1] /\ main' \in Main
      /\ main' \in DOMAIN Count /\ Count[main'] = n + 1
  BY <1>1 DEF Add, Adding, Added, Count, List, Main
<1>3. funcs' = Prefix(n + 1)
  BY <1>1, <1>2, PrefixGrows DEF Add
<1> QED BY <1>2, <1>3 DEF FuncsInv

\* The list that is read is a prefix of all functions, perhaps with a word behind it.
LEMMA ReadFuncsKeepsInv ==
    ASSUME FuncsInv, ShutdownInv, ReadFuncs
    PROVE  ShutdownInv'
<1>1. PICK n \in 0..3 : funcs = Prefix(n) /\ (main \in DOMAIN Count => n = Count[main])
  BY DEF FuncsInv
<1>2. closed' = <<>> /\ ~done'
  <2>1. manager = <<"read">> /\ closed' = closed /\ done' = done
    BY DEF ReadFuncs
  <2>2. ASSUME NEW m \in 0..3, NEW g \in 0..1, manager = <<"done">> \o Rest(0, m, g) PROVE FALSE
    BY <2>1, <2>2 DEF Rest
  <2>3. ASSUME NEW k \in 0..3, NEW m \in 0..3, NEW g \in 0..1, manager = Rest(k, m, g), k <= m
        PROVE  FALSE
    <3>1. manager[1] = "read" /\ DOMAIN manager = 1..1
      BY <2>1
    <3>2. Rest(k, m, g)[1] \in {"client", "stt", "http", "garbage"}
      BY <2>3, <3>1 DEF Rest, List
    <3> QED BY <2>3, <3>1, <3>2
  <2> QED BY <2>1, <2>2, <2>3 DEF ShutdownInv
<1> SUFFICES \E m \in 0..3, g \in 0..1 : manager' = <<"done">> \o Rest(0, m, g)
  BY <1>2 DEF ShutdownInv
<1>3. 0 \in 0..1 /\ 1 \in 0..1
  OBVIOUS
<1>4. CASE manager' = <<"done">> \o funcs
  <2>1. manager' = <<"done">> \o Rest(0, n, 0)
    BY <1>1, <1>4, FirstOfAll
  <2> QED BY <1>3, <2>1, Zenon
<1>5. CASE main \in Adding /\ manager' = <<"done">> \o Append(funcs, Added[main])
  <2>1. n \in 0..2 /\ Added[main] = List[n + 1]
    BY <1>1, <1>5 DEF Adding, Added, Count, List
  <2>2. Append(funcs, Added[main]) = Rest(0, n + 1, 0) /\ n + 1 \in 0..3
    BY <1>1, <2>1, PrefixGrows, FirstOfAll
  <2>3. manager' = <<"done">> \o Rest(0, n + 1, 0)
    BY <1>5, <2>2
  <2> QED BY <1>3, <2>2, <2>3, Zenon
<1>6. CASE manager' = <<"done">> \o funcs \o <<"garbage">>
  <2>1. manager' = <<"done">> \o Rest(0, n, 1)
    BY <1>1, <1>6, FirstOfAll DEF Prefix, Rest
  <2> QED BY <1>3, <2>1, Zenon
<1> QED BY <1>4, <1>5, <1>6 DEF ReadFuncs

LEMMA CloseDoneKeepsInv ==
    ASSUME ShutdownInv, CloseDone
    PROVE  ShutdownInv'
<1>1. PICK n \in 0..3, g \in 0..1 : manager = <<"done">> \o Rest(0, n, g) /\ closed = <<>>
  BY DEF ShutdownInv, CloseDone, Rest, List
<1>2. manager' = Rest(0, n, g)
  BY <1>1 DEF CloseDone, Rest
<1>3. closed' = Prefix(0) /\ done'
  BY <1>1 DEF CloseDone, Prefix
<1> QED BY <1>2, <1>3 DEF ShutdownInv

LEMMA CloseNextKeepsInv ==
    ASSUME ShutdownInv, CloseNext
    PROVE  ShutdownInv'
<1>1. PICK k \in 0..3, n \in 0..3, g \in 0..1 :
         done /\ k <= n /\ closed = Prefix(k) /\ manager = Rest(k, n, g)
  BY DEF ShutdownInv, CloseNext, Closer, Rest
<1>2. k < n /\ Head(manager) = List[k + 1]
  BY <1>1 DEF CloseNext, Closer, Rest
<1>3. closed' = Prefix(k + 1)
  BY <1>1, <1>2, PrefixGrows DEF CloseNext
<1>4. manager' = Rest(k + 1, n, g)
  BY <1>1, <1>2 DEF CloseNext, Rest
<1>5. k + 1 \in 0..3 /\ k + 1 <= n /\ done'
  BY <1>1, <1>2 DEF CloseNext
<1> QED BY <1>3, <1>4, <1>5 DEF ShutdownInv

-----------------------------------------------------------------------------
\* The invariant holds at the start.
LEMMA InitInv == Init => IInv
<1> SUFFICES ASSUME Init PROVE IInv
  OBVIOUS
<1>1. ThinkingInv
  <2>1. ThinkingInit /\ RouterInit
    BY DEF Init, ThinkingInit
  <2>2. RouterTypeOK /\ RouterInv
    BY <2>1 DEF ThinkingInit, RouterInit, RouterTypeOK, Rpc, Token, RouterInv, RouterFailureExplained
  <2>3. CallsInv /\ QuestionInv
    BY <2>1 DEF ThinkingInit, CallsInv, QuestionInv
  <2>4. context \in [question : BOOLEAN, results : SUBSET Result]
    BY <2>1 DEF ThinkingInit, NoContext
  <2>5. toolCalls \in Seq(Tool) /\ Len(toolCalls) <= MaxCalls
    BY <2>1, MaxCallsAssumption DEF ThinkingInit
  <2> QED BY <2>1, <2>2, <2>3, <2>4, <2>5 DEF ThinkingInit, ThinkingInv, ThinkingTypeOK, Stage
<1>2. FuncsInv
  BY DEF Init, FuncsInv, Prefix, Count
<1> QED BY <1>1, <1>2 DEF Init, IInv, DriverTypeOK, Main, ShutdownInv

\* Every step keeps it.
LEMMA StepInv == IInv /\ [Next]_vars => IInv'
<1> SUFFICES ASSUME IInv, [Next]_vars PROVE IInv'
  OBVIOUS
<1> USE DEF IInv
<1>1. CASE SetUp \/ StartController \/ CancelAfterFailure \/ MainEnds \/ Signal \/ CallGarbage \/ Stop
  <2>1. ThinkingInv'
    BY <1>1, ThinkingUnchanged DEF SetUp, StartController, CancelAfterFailure, MainEnds, Signal,
       CallGarbage, Stop
  <2>2. DriverTypeOK'
    BY <1>1 DEF SetUp, StartController, CancelAfterFailure, MainEnds, Signal, CallGarbage, Stop,
       managerVars, DriverTypeOK, Main, Adding, Added
  <2>3. funcs' = funcs /\ (main' \in DOMAIN Count => main \in DOMAIN Count /\ Count[main'] = Count[main])
    BY <1>1 DEF SetUp, StartController, CancelAfterFailure, MainEnds, Signal, CallGarbage, Stop,
       managerVars, Count
  <2>4. FuncsInv'
    BY <2>3 DEF FuncsInv
  <2>5. ShutdownInv'
    BY <1>1 DEF SetUp, StartController, CancelAfterFailure, MainEnds, Signal, CallGarbage, Stop,
       managerVars, ShutdownInv
  <2> QED BY <2>1, <2>2, <2>4, <2>5
<1>2. CASE Add
  <2>1. FuncsInv' /\ main' \in Main
    BY <1>2, AddKeepsInv
  <2> QED BY <1>2, <2>1, ThinkingUnchanged DEF Add, DriverTypeOK, ShutdownInv
<1>3. CASE ReadFuncs \/ CloseDone \/ CloseNext
  <2>1. ShutdownInv'
    BY <1>3, ReadFuncsKeepsInv, CloseDoneKeepsInv, CloseNextKeepsInv
  <2> QED BY <1>3, <2>1, ThinkingUnchanged DEF ReadFuncs, CloseDone, CloseNext, DriverTypeOK,
             FuncsInv
<1>4. CASE Turn
  BY <1>4, ThinkKeepsInv DEF Turn, driverVars, managerVars, DriverTypeOK, FuncsInv, ShutdownInv
<1>5. CASE Router
  BY <1>5, RouterKeepsInv DEF Router, driverVars, managerVars, DriverTypeOK, FuncsInv, ShutdownInv
<1>6. CASE UNCHANGED vars
  BY <1>6, ThinkingUnchanged DEF vars, driverVars, managerVars, DriverTypeOK, FuncsInv, ShutdownInv
<1> QED BY <1>1, <1>2, <1>3, <1>4, <1>5, <1>6 DEF Next, MainStep, ManagerStep

\* The inductive invariant of the process, from its first step to its last.
THEOREM InvariantHolds == FairSpec => []IInv
BY InitInv, StepInv, PTL DEF FairSpec

\* Every variable has its type; nothing is closed, or waits to be, that was never made.
THEOREM TypeCorrect == FairSpec => []TypeOK
<1>1. ASSUME NEW n \in 0..3 PROVE Prefix(n) \in Seq(Closer)
  BY DEF Prefix, List, Closer
<1>2. ASSUME NEW k \in 0..3, NEW n \in 0..3, NEW g \in 0..1, k <= n
      PROVE  Rest(k, n, g) \in Seq(Closer \cup {"read", "done", "garbage"})
  <2>1. n \in Nat /\ k \in Nat /\ g \in Nat /\ n - k + g \in Nat
    <3>1. n \in Nat /\ k \in Nat /\ g \in Nat
      OBVIOUS
    <3>2. n - k \in Nat
      BY <1>2, <3>1
    <3> QED BY <3>1, <3>2
  <2>2. ASSUME NEW i \in 1..(n - k + g)
        PROVE  (IF i <= n - k THEN List[k + i] ELSE "garbage")
                 \in Closer \cup {"read", "done", "garbage"}
    <3>1. i <= n - k => k + i \in 1..3
      OBVIOUS
    <3> QED BY <3>1 DEF List, Closer
  <2> QED BY <2>1, <2>2 DEF Rest
<1>3. ASSUME IInv PROVE TypeOK
  <2>1. funcs \in Seq(Closer)
    BY <1>1, <1>3 DEF IInv, FuncsInv
  <2>2. /\ closed \in Seq(Closer)
        /\ manager \in Seq(Closer \cup {"read", "done", "garbage"})
    <3>1. <<"read">> \in Seq(Closer \cup {"read", "done", "garbage"})
          /\ <<"done">> \in Seq(Closer \cup {"read", "done", "garbage"})
          /\ <<>> \in Seq(Closer)
      OBVIOUS
    <3>2. ASSUME NEW n \in 0..3, NEW g \in 0..1
          PROVE  <<"done">> \o Rest(0, n, g) \in Seq(Closer \cup {"read", "done", "garbage"})
      <4>1. Rest(0, n, g) \in Seq(Closer \cup {"read", "done", "garbage"})
        <5>1. 0 \in 0..3 /\ 0 <= n
          OBVIOUS
        <5> QED BY <1>2, <5>1
      <4> HIDE DEF Closer
      <4> QED BY <3>1, <4>1
    <3> QED BY <1>1, <1>2, <1>3, <3>1, <3>2 DEF IInv, ShutdownInv
  <2> QED BY <1>3, <2>1, <2>2 DEF IInv, ThinkingInv, DriverTypeOK, TypeOK
<1> QED BY <1>3, InvariantHolds, PTL

\* Every request holds the results of all tools executed for the question, and the question,
\* unless it is the first of a conversation (thinking.go 31-58).
THEOREM ModelIsInformed == FairSpec => []ModelInformed
<1>1. IInv => ModelInformed
  BY DEF IInv, ThinkingInv, QuestionInv, ModelInformed
<1> QED BY <1>1, InvariantHolds, PTL

\* The list of clients fails only for a router that answered a login before, or when the ARP
\* table cannot be read (openwrt/client.go 161-265).
THEOREM RouterFailuresAreExplained == FairSpec => []RouterFailureExplained
<1>1. IInv => RouterFailureExplained
  BY DEF IInv, ThinkingInv, RouterInv
<1> QED BY <1>1, InvariantHolds, PTL

\* Whatever was added when the list was read, things are closed in the order they were added
\* in, each once, and only after done (shutdown.go 33-52).
THEOREM ClosesInOrder == FairSpec => []ClosedInOrder
<1>1. ASSUME IInv PROVE ClosedInOrder
  <2>1. CASE closed = <<>>
    <3>1. closed = SubSeq(<<"client", "stt", "http">>, 1, 0)
      BY <2>1
    <3> QED BY <2>1, <3>1 DEF ClosedInOrder
  <2>2. CASE closed # <<>>
    <3>1. PICK k \in 0..3 : done /\ closed = Prefix(k)
      BY <1>1, <2>2 DEF IInv, ShutdownInv
    <3>2. closed = SubSeq(<<"client", "stt", "http">>, 1, k)
      BY <3>1 DEF Prefix, List
    <3> QED BY <3>1, <3>2 DEF ClosedInOrder
  <2> QED BY <2>1, <2>2
<1> QED BY <1>1, InvariantHolds, PTL
=============================================================================
