---------------------------- MODULE ThinkingPhase ----------------------------
(***************************************************************************)
(* One question after the other is put to the language model, which may    *)
(* ask for tools any number of times before it answers                     *)
(* (internal/phases/thinking.go, internal/llm, internal/tools).  All of it *)
(* runs in the controller goroutine, with a context nobody cancels.        *)
(*                                                                         *)
(* Texts are abstract: of a prompt and of the conversation context it only *)
(* counts whether the question is in it and which tool results are.        *)
(***************************************************************************)
EXTENDS OpenWrtClient, Naturals, Sequences

CONSTANT MaxCalls       \* bound: tool calls in one message of the model

ASSUME MaxCallsAssumption == MaxCalls \in Nat \ {0}

VARIABLES
    stage,          \* where ThinkingPhase.Run is
    context,        \* conversationContext: the question and the results in it
    prompt,         \* the prompt of the request is the transcript
    toolCalls,      \* calls of this round still to be executed
    results,        \* results of this round
    remembered,     \* the conversation history is not empty
    located,        \* weather.Client has a location, be it the default
    executed        \* history variable: every result of this question

callVars == <<toolCalls, results, executed>>
thinkingVars == <<stage, context, prompt, callVars, remembered, located, routerVars>>

\* "other" stands for the speed test, which keeps nothing, and for names never registered.
Tool == RouterTool \cup {"get_weather", "other"}
\* What the properties tell apart; an error is a result too.
Result == {"devices", "no devices", "other"}
NoContext == [question |-> FALSE, results |-> {}]

ThinkingInit ==
    /\ stage = "idle" /\ context = NoContext /\ prompt = FALSE
    /\ toolCalls = <<>> /\ results = {} /\ executed = {}
    /\ remembered \in BOOLEAN
    /\ located \in BOOLEAN
    /\ RouterInit

Stage == {"idle", "chat", "tools", "panicked"}

ThinkingTypeOK ==
    /\ RouterTypeOK
    /\ stage \in Stage
    /\ context \in [question : BOOLEAN, results : SUBSET Result]
    /\ prompt \in BOOLEAN /\ remembered \in BOOLEAN
    /\ toolCalls \in Seq(Tool) /\ Len(toolCalls) <= MaxCalls
    /\ results \subseteq Result /\ executed \subseteq Result
    /\ located \in BOOLEAN

-----------------------------------------------------------------------------
(* The rounds *)

\* GetContext: nothing when there is no history, else the history and the question.
GetContext == [question |-> remembered, results |-> {}]

\* Mutant: the results stand alone.
WithResultsAlone(c, rs) == [question |-> FALSE, results |-> rs]

\* buildConversationContextWithToolResults
WithResults(c, rs) == [c EXCEPT !.results = @ \cup rs]

Ask ==
    /\ stage = "idle"
    /\ stage' = "chat"
    /\ context' = GetContext /\ prompt' = TRUE
    /\ executed' = {}
    /\ UNCHANGED <<toolCalls, results, remembered, located, routerVars>>

\* A text, which ends the loop even when tool calls come with it, or an error: the answer
\* or ErrorResponse is given back and the controller adds the message to the history.  Chat
\* never gives an empty text without calls (ollama/client.go 98).
ChatEnds ==
    /\ stage = "chat"
    /\ stage' = "idle" /\ remembered' = TRUE
    /\ context' = NoContext /\ prompt' = FALSE /\ executed' = {}
    /\ UNCHANGED <<toolCalls, results, located, routerVars>>

ModelCallsTools ==
    /\ stage = "chat"
    /\ stage' = "tools"
    /\ \E n \in 1..MaxCalls : toolCalls' \in [1..n -> Tool]
    /\ UNCHANGED <<context, prompt, results, executed, remembered, located, routerVars>>

\* Mutant: a call that failed is made again.
ReturnRetries(result) ==
    /\ executed' = executed \cup {result}
    /\ toolCalls' = IF result = "no devices" THEN toolCalls ELSE Tail(toolCalls)
    /\ IF result # "no devices" /\ Len(toolCalls) = 1
       THEN /\ context' = WithResults(context, results \cup {result})
            /\ results' = {} /\ prompt' = FALSE /\ stage' = "chat"
       ELSE /\ results' = results \cup {result}
            /\ UNCHANGED <<context, prompt, stage>>

\* The result of a call is noted; after the last one the model is asked
\* again, this time without a prompt.
Return(result) ==
    /\ executed' = executed \cup {result}
    /\ toolCalls' = Tail(toolCalls)
    /\ IF Len(toolCalls) = 1
       THEN /\ context' = WithResults(context, results \cup {result})
            /\ results' = {} /\ prompt' = FALSE /\ stage' = "chat"
       ELSE /\ results' = results \cup {result}
            /\ UNCHANGED <<context, prompt, stage>>

Calling(tool) == stage = "tools" /\ Head(toolCalls) = tool

\* A panic in a tool is one in the controller goroutine.
Panic == stage' = "panicked" /\ UNCHANGED <<context, prompt, callVars>>

-----------------------------------------------------------------------------
(* The tools *)

BeginRouterCall ==
    /\ \E tool \in RouterTool : Calling(tool) /\ CallRouter(tool)
    /\ UNCHANGED <<stage, context, prompt, callVars, remembered, located>>

RouterLogin ==
    /\ LoginAnswered
    /\ UNCHANGED <<stage, context, prompt, callVars, remembered, located>>

RouterCallReturns ==
    /\ stage = "tools"
    /\ \/ CallReturns("ok") /\ Return(IF Head(toolCalls) = "get_router_clients" THEN "devices" ELSE "other")
       \/ CallReturns("failed") /\ Return("no devices")
       \/ CallReturns("panics") /\ Panic
    /\ UNCHANGED <<remembered, located>>

\* The location is looked up while it is (0, 0); a failure leaves the default for ever.
\* The answer of the weather service is indexed by the number of its times.
GetWeather ==
    /\ Calling("get_weather")
    /\ located' \in {located, TRUE}
    /\ Return("other") \/ Panic
    /\ UNCHANGED <<remembered, routerVars>>

RunOther ==
    /\ Calling("other")
    /\ Return("other")
    /\ UNCHANGED <<remembered, located, routerVars>>

RouterForgets ==
    /\ TokenExpires
    /\ UNCHANGED <<stage, context, prompt, callVars, remembered, located>>

\* Whatever the far ends of these two answer, they may also never answer.
RouterReturns == RouterLogin \/ RouterCallReturns
\* The other requests have time limits: 120 s for the model, 30 s for the speed test.
ChatReturns == ChatEnds \/ ModelCallsTools

Think == Ask \/ ChatReturns \/ BeginRouterCall \/ RouterReturns \/ GetWeather \/ RunOther

-----------------------------------------------------------------------------
(* Properties *)

\* Every request to the model has the results of all the tools executed for the question
\* (thinking.go 51), and the question itself, in the prompt or in the context (31-36). The
\* one exception is what the code does: after the first round of a conversation without
\* history the question is gone.
ModelInformed ==
    stage = "chat" =>
        /\ executed \subseteq context.results
        /\ prompt \/ context.question \/ ~remembered

\* A router that never answered a login cannot fail the list of clients: it is read from
\* the ARP table (client.go 259-265). A failure needs a router that answered before and
\* is gone, that refuses the password, or that forgot the token (161-189).
RouterFailureExplained ==
    "no devices" \in executed => granted \/ ~ArpTable
=============================================================================
