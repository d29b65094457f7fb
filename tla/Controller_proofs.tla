-------------------------- MODULE Controller_proofs --------------------------
(***************************************************************************)
(* The safety properties of Controller, for every capacity, any number of  *)
(* sessions and requests, with and without a WAV server.                   *)
(***************************************************************************)
EXTENDS Controller, SequenceTheorems, TLAPS

\* The phase shown to /api/status is the one of the handler that runs.
PhaseAtPC ==
    /\ pc \in {"STTStart", "VADEnd", "recv", "STTEnd"} => phase = "listening"
    /\ pc = "chat" => phase = "thinking"
    /\ pc \in {"TTSStart", "synthesize", "TTSEnd", "TTSEndFailed", "panicked"} => phase = "reply"
    /\ pc \in {"select", "VoiceAssistantEnd", "stopped"} => phase \in {"idle", "listening"}

\* A session that was announced to the device and has no transcript yet.
Hearing ==
    /\ phase = "listening"
    /\ pc \in {"select", "VoiceAssistantEnd", "stopped", "VADEnd", "recv", "STTEnd"}

\* What was said last, by the place the session is at.
SaidAtPC ==
    /\ Hearing \/ pc \in {"chat", "TTSStart", "synthesize", "TTSEnd", "TTSEndFailed"}
         => session # 0
    /\ Hearing /\ pc \notin {"recv", "STTEnd"} => said.type = "STTStart"
    /\ pc \in {"recv", "STTEnd"} => said.type = "VADEnd"
    /\ pc = "STTEnd" => transcript \in {NoText, session}
    /\ pc \in {"chat", "TTSStart"} =>
         said = [type |-> "STTEnd", text |-> session] /\ transcript = session
    /\ pc = "TTSStart" => llmResponse \in {session, ErrorResponse}
    /\ pc \in {"synthesize", "TTSEnd", "TTSEndFailed"} =>
         said = [type |-> "TTSStart", text |-> llmResponse]
    /\ pc \notin {"synthesize", "TTSEnd", "TTSEndFailed", "panicked"} => said.type # "TTSStart"

\* A session is answered at most once: the one being heard has no message yet.
HistoryInv ==
    /\ HistoryFaithful
    /\ Hearing \/ pc = "chat" => \A m \in history : m.transcript # session

FileInv ==
    /\ CleanupOwnsFile
    /\ pc = "TTSEnd" => session \in wavs
    /\ pc = "VoiceAssistantEnd" => ttsCleanup = NoFile
    /\ ttsCleanup # NoFile \/ pc = "VoiceAssistantEnd" => announced

OpenInv ==
    phase = "listening" /\ pc \in {"STTStart", "select", "VoiceAssistantEnd"}
        /\ shutdown # "sttClosed" => sttOpen

IInv == TypeOK /\ PhaseAtPC /\ SaidAtPC /\ HistoryInv /\ FileInv /\ OpenInv

-----------------------------------------------------------------------------
(* Bounded channels *)

\* The capacities are natural numbers above zero.
LEMMA Caps ==
    /\ EventCap \in Nat /\ AudioCap \in Nat /\ MediaCap \in Nat
    /\ CommandCap \in Nat /\ ErrorCap \in Nat
    /\ EventCap > 0 /\ AudioCap > 0 /\ MediaCap > 0 /\ CommandCap > 0 /\ ErrorCap > 0
BY CapAssumption

\* The empty channel is well formed.
LEMMA EmptyChannel ==
    ASSUME NEW S, NEW cap \in Nat
    PROVE  Channel(<<>>, S, cap)
BY EmptySeq DEF Channel

\* A channel keeps its type and its bound when an element is taken from it.
LEMMA TakeBounded ==
    ASSUME NEW S, NEW cap \in Nat, NEW q, Channel(q, S, cap), q # <<>>
    PROVE  Channel(Tail(q), S, cap)
<1>1. q \in Seq(S) /\ Len(q) <= cap BY DEF Channel
<1>2. Len(q) \in Nat BY <1>1, LenProperties
<1>3. Tail(q) \in Seq(S) /\ Len(Tail(q)) = Len(q) - 1 BY <1>1, HeadTailProperties
<1>4. QED BY <1>1, <1>2, <1>3 DEF Channel

\* A channel keeps its type and its bound when a send finds room.
LEMMA PutBounded ==
    ASSUME NEW S, NEW cap \in Nat, NEW q, Channel(q, S, cap), Len(q) < cap, NEW e \in S
    PROVE  Channel(Append(q, e), S, cap)
<1>1. q \in Seq(S) BY DEF Channel
<1>2. Len(q) \in Nat BY <1>1, LenProperties
<1>3. Append(q, e) \in Seq(S) /\ Len(Append(q, e)) = Len(q) + 1
  BY <1>1, AppendProperties
<1>4. QED BY <1>2, <1>3 DEF Channel

\* A blocking send of the controller or of a request keeps the command channel well formed.
LEMMA PutCommand ==
    ASSUME ChannelsOK, NEW type \in CommandType, Put(type)
    PROVE  Channel(commands, CommandType, CommandCap)'
<1>1. Channel(commands, CommandType, CommandCap) BY DEF ChannelsOK
<1>2. Channel(Append(commands, type), CommandType, CommandCap)
  BY <1>1, PutBounded, Caps DEF Put
<1>3. QED BY <1>2 DEF Put, Channel

\* Taking an event, from the open or the closed channel, keeps the event channel well formed.
LEMMA TakeEvent ==
    ASSUME ChannelsOK, NEW e, ReceiveEvent(e)
    PROVE  Channel(voiceAssistantEvents, VoiceAssistantPhase, EventCap)'
<1>1. Channel(voiceAssistantEvents, VoiceAssistantPhase, EventCap) BY DEF ChannelsOK
<1>2. CASE voiceAssistantEvents # <<>>
  <2>1. Channel(Tail(voiceAssistantEvents), VoiceAssistantPhase, EventCap)
    BY <1>1, <1>2, TakeBounded, Caps
  <2>2. QED BY <1>2, <2>1 DEF ReceiveEvent, Channel
<1>3. CASE voiceAssistantEvents = <<>>
  BY <1>1, <1>3 DEF ReceiveEvent, Channel
<1>4. QED BY <1>2, <1>3

\* Taking audio keeps the audio channel well formed.
LEMMA TakeAudio ==
    ASSUME ChannelsOK, NEW a, ReceiveAudio(a)
    PROVE  Channel(audioEvents, {"data", "empty"}, AudioCap)'
<1>1. Channel(audioEvents, {"data", "empty"}, AudioCap) BY DEF ChannelsOK
<1>2. Channel(Tail(audioEvents), {"data", "empty"}, AudioCap)
  BY <1>1, TakeBounded, Caps DEF ReceiveAudio
<1>3. QED BY <1>2 DEF ReceiveAudio, Channel

\* Taking a media player state keeps its channel well formed.
LEMMA TakeMedia ==
    ASSUME ChannelsOK, mediaPlayerEvents # <<>>, mediaPlayerEvents' = Tail(mediaPlayerEvents)
    PROVE  Channel(mediaPlayerEvents, {"idle", "playing"}, MediaCap)'
<1>1. Channel(mediaPlayerEvents, {"idle", "playing"}, MediaCap) BY DEF ChannelsOK
<1>2. Channel(Tail(mediaPlayerEvents), {"idle", "playing"}, MediaCap)
  BY <1>1, TakeBounded, Caps
<1>3. QED BY <1>2 DEF Channel

\* sendError never exceeds the capacity of the errors channel.
LEMMA ErrorsBounded ==
    ASSUME errors \in 0..ErrorCap, SendError
    PROVE  errors' \in 0..ErrorCap
BY Caps DEF SendError

-----------------------------------------------------------------------------
(* Types *)

\* The initial state satisfies the type invariant.
LEMMA InitTypeOK == Init => TypeOK
<1> SUFFICES ASSUME Init PROVE TypeOK
  OBVIOUS
<1>1. FieldsOK
  <2>1. session = 0 /\ announced = FALSE /\ said = [type |-> "none", text |-> 0]
    BY DEF Init, Pipeline!Init, Pipeline!NoText
  <2>2. 0 \in Text /\ said \in [type : CommandType \cup {"none"}, text : Text]
    BY <2>1 DEF Text
  <2>3. listen \in [Requests -> {"new", "checked", "sending", "done"}]
    BY DEF Init
  <2>4. /\ phase \in Phase /\ transcript \in Nat /\ llmResponse \in Text
        /\ ttsCleanup \in Nat /\ wavs \subseteq Nat /\ pc \in PC /\ errors \in 0..ErrorCap
        /\ sttOpen \in BOOLEAN /\ history = {} /\ runs \in 0..MaxRuns /\ shutdown = "running"
    BY <2>2, Caps, MaxRunsAssumption DEF Init, NoText, NoFile, Phase, PC
  <2>5. QED
    BY <2>1, <2>2, <2>3, <2>4 DEF FieldsOK
<1>2. ChannelsOK
  BY EmptyChannel, Caps DEF Init, ChannelsOK
<1>3. QED BY <1>1, <1>2 DEF TypeOK

\* Every step keeps the types of the fields, of the requests and of the history variables.
LEMMA StepFieldsOK == TypeOK /\ [Next]_vars => FieldsOK'
<1> SUFFICES ASSUME TypeOK, [Next]_vars PROVE FieldsOK'
  OBVIOUS
<1> USE DEF TypeOK, fieldVars, serviceVars, ttsVars, envVars, saidVars, ctrlVars
<1>1. CASE IgnoreEvent
  BY <1>1 DEF IgnoreEvent, FieldsOK
<1>2. CASE HandleListeningStart
  BY <1>2 DEF HandleListeningStart, FieldsOK, Phase, NoText, Text, PC
<1>3. CASE SendSTTStart
  BY <1>3 DEF SendSTTStart, FieldsOK, Say, Pipeline!Say, CommandType, Text, NoText, Phase, PC
<1>4. CASE HandleIdleOrError
  BY <1>4 DEF HandleIdleOrError, FieldsOK, Phase, NoText, Text, PC
<1>5. CASE IgnoreAudio
  BY <1>5 DEF IgnoreAudio, FieldsOK
<1>6. CASE SendAudioFails
  BY <1>6, ErrorsBounded DEF SendAudioFails, FieldsOK, Phase, PC
<1>7. CASE SendAudio
  BY <1>7 DEF SendAudio, FieldsOK, Phase, PC
<1>8. CASE SendVADEnd
  BY <1>8 DEF SendVADEnd, FieldsOK, Say, Pipeline!Say, CommandType, Text, NoText, Phase, PC
<1>9. CASE RecvFails
  BY <1>9, ErrorsBounded DEF RecvFails, FieldsOK, Phase, PC
<1>10. CASE Recv
  <2>1. transcript' \in Nat BY <1>10 DEF Recv, FieldsOK, NoText
  <2>2. pc' \in PC BY <1>10 DEF Recv, PC
  <2>3. QED BY <1>10, <2>1, <2>2 DEF Recv, FieldsOK
<1>11. CASE SendSTTEnd
  BY <1>11 DEF SendSTTEnd, FieldsOK, Say, Pipeline!Say, CommandType, Text, NoText, Phase, PC
<1>12. CASE ChatGivesNothing
  BY <1>12, ErrorsBounded DEF ChatGivesNothing, FieldsOK, Phase, PC
<1>13. CASE Chat
  BY <1>13 DEF Chat, FieldsOK, Phase, PC, Text
<1>14. CASE SendTTSStart
  BY <1>14 DEF SendTTSStart, FieldsOK, Say, Pipeline!Say, CommandType, Text, NoText, Phase, PC
<1>15. CASE SynthesizeFails
  BY <1>15 DEF SynthesizeFails, FieldsOK, Phase, PC
<1>16. CASE Synthesize
  BY <1>16 DEF Synthesize, FieldsOK, Phase, PC
<1>17. CASE SendTTSEndFailed
  BY <1>17, ErrorsBounded DEF SendTTSEndFailed, FieldsOK, Say, Pipeline!Say, CommandType, Text, NoText, BackToIdle, Phase, PC
<1>18. CASE SendTTSEnd
  BY <1>18 DEF SendTTSEnd, FieldsOK, Say, Pipeline!Say, CommandType, Text, NoText, BackToIdle, Phase, PC
<1>19. CASE IgnoreMediaPlayer
  BY <1>19 DEF IgnoreMediaPlayer, FieldsOK
<1>20. CASE HandleMediaPlayerIdle
  BY <1>20 DEF HandleMediaPlayerIdle, FieldsOK, Phase, PC, NoFile
<1>21. CASE SendVoiceAssistantEnd
  BY <1>21 DEF SendVoiceAssistantEnd, FieldsOK, Phase, PC
<1>22. CASE Stop
  BY <1>22 DEF Stop, FieldsOK, Phase, PC, NoFile
<1>23. ASSUME NEW r \in Requests, CheckPhase(r) PROVE FieldsOK'
  BY <1>23 DEF CheckPhase, FieldsOK
<1>24. ASSUME NEW r \in Requests, TriggerListening(r) PROVE FieldsOK'
  BY <1>24 DEF TriggerListening, FieldsOK
<1>25. ASSUME NEW e \in VoiceAssistantPhase, DeviceEvent(e) PROVE FieldsOK'
  <2>1. runs' \in 0..MaxRuns
    BY <1>25, MaxRunsAssumption DEF DeviceEvent, FieldsOK
  <2>2. QED BY <1>25, <2>1 DEF DeviceEvent, FieldsOK
<1>26. ASSUME NEW a \in {"data", "empty"}, DeviceAudio(a) PROVE FieldsOK'
  BY <1>26 DEF DeviceAudio, FieldsOK
<1>27. ASSUME NEW s \in {"idle", "playing"}, DevicePlayer(s) PROVE FieldsOK'
  BY <1>27 DEF DevicePlayer, FieldsOK
<1>28. CASE HandleCommand
  BY <1>28 DEF HandleCommand, FieldsOK
<1>29. CASE Shutdown
  BY <1>29 DEF Shutdown, FieldsOK
<1>30. CASE UNCHANGED vars
  BY <1>30 DEF vars, FieldsOK
<1>31. QED
  BY <1>1, <1>2, <1>3, <1>4, <1>5, <1>6, <1>7, <1>8, <1>9, <1>10, <1>11, <1>12, <1>13, <1>14, <1>15, <1>16, <1>17, <1>18, <1>19, <1>20, <1>21, <1>22, <1>23, <1>24, <1>25, <1>26, <1>27, <1>28, <1>29, <1>30
     DEF Next, Run, ReceiveAnyEvent, ReceiveAnyAudio, ReceiveAnyMedia, HandlerStep,
         Environment

\* Every step keeps the channels within their types and capacities.
LEMMA StepChannelsOK == TypeOK /\ [Next]_vars => ChannelsOK'
<1> SUFFICES ASSUME ChannelsOK, [Next]_vars PROVE ChannelsOK'
  BY DEF TypeOK
<1> USE DEF inVars
<1>1. CASE IgnoreEvent \/ HandleListeningStart \/ HandleIdleOrError
  BY <1>1, TakeEvent
     DEF IgnoreEvent, HandleListeningStart, HandleIdleOrError, ChannelsOK, Channel
<1>2. CASE IgnoreAudio \/ SendAudioFails \/ SendAudio
  BY <1>2, TakeAudio DEF IgnoreAudio, SendAudioFails, SendAudio, ChannelsOK, Channel
<1>3. CASE IgnoreMediaPlayer \/ HandleMediaPlayerIdle
  BY <1>3, TakeMedia DEF IgnoreMediaPlayer, HandleMediaPlayerIdle, ChannelsOK, Channel
<1>4. CASE SendSTTStart
  <2>1. Channel(commands, CommandType, CommandCap)'
    BY <1>4, PutCommand DEF SendSTTStart, CommandType
  <2>2. QED BY <1>4, <2>1 DEF SendSTTStart, ChannelsOK, Channel
<1>5. CASE SendVADEnd
  <2>1. Channel(commands, CommandType, CommandCap)'
    BY <1>5, PutCommand DEF SendVADEnd, CommandType
  <2>2. QED BY <1>5, <2>1 DEF SendVADEnd, ChannelsOK, Channel
<1>6. CASE SendSTTEnd
  <2>1. Channel(commands, CommandType, CommandCap)'
    BY <1>6, PutCommand DEF SendSTTEnd, CommandType
  <2>2. QED BY <1>6, <2>1 DEF SendSTTEnd, ChannelsOK, Channel
<1>7. CASE SendTTSStart
  <2>1. Channel(commands, CommandType, CommandCap)'
    BY <1>7, PutCommand DEF SendTTSStart, CommandType
  <2>2. QED BY <1>7, <2>1 DEF SendTTSStart, ChannelsOK, Channel
<1>8. CASE SendTTSEndFailed
  <2>1. Channel(commands, CommandType, CommandCap)'
    BY <1>8, PutCommand DEF SendTTSEndFailed, CommandType
  <2>2. QED BY <1>8, <2>1 DEF SendTTSEndFailed, ChannelsOK, Channel
<1>9. CASE SendTTSEnd
  <2>1. Channel(commands, CommandType, CommandCap)'
    BY <1>9, PutCommand DEF SendTTSEnd, CommandType
  <2>2. QED BY <1>9, <2>1 DEF SendTTSEnd, ChannelsOK, Channel
<1>10. CASE SendVoiceAssistantEnd
  <2>1. Channel(commands, CommandType, CommandCap)'
    BY <1>10, PutCommand DEF SendVoiceAssistantEnd, CommandType
  <2>2. QED BY <1>10, <2>1 DEF SendVoiceAssistantEnd, ChannelsOK, Channel
<1>11. CASE RecvFails \/ Recv \/ ChatGivesNothing \/ Chat \/ SynthesizeFails \/ Synthesize
          \/ Stop \/ Shutdown
  BY <1>11 DEF RecvFails, Recv, ChatGivesNothing, Chat, SynthesizeFails, Synthesize, Stop,
                Shutdown, ChannelsOK, Channel
<1>12. ASSUME NEW r \in Requests, CheckPhase(r) PROVE ChannelsOK'
  BY <1>12 DEF CheckPhase, ChannelsOK, Channel
<1>13. ASSUME NEW r \in Requests, TriggerListening(r) PROVE ChannelsOK'
  <2>1. Channel(commands, CommandType, CommandCap)'
    BY <1>13, PutCommand DEF TriggerListening, CommandType
  <2>2. QED BY <1>13, <2>1 DEF TriggerListening, ChannelsOK, Channel
<1>14. ASSUME NEW e \in VoiceAssistantPhase, DeviceEvent(e) PROVE ChannelsOK'
  <2>1. Channel(voiceAssistantEvents, VoiceAssistantPhase, EventCap)'
    BY <1>14, PutBounded, Caps DEF DeviceEvent, ChannelsOK
  <2>2. QED BY <1>14, <2>1 DEF DeviceEvent, ChannelsOK, Channel
<1>15. ASSUME NEW a \in {"data", "empty"}, DeviceAudio(a) PROVE ChannelsOK'
  <2>1. Channel(audioEvents, {"data", "empty"}, AudioCap)'
    BY <1>15, PutBounded, Caps DEF DeviceAudio, ChannelsOK
  <2>2. QED BY <1>15, <2>1 DEF DeviceAudio, ChannelsOK, Channel
<1>16. ASSUME NEW s \in {"idle", "playing"}, DevicePlayer(s) PROVE ChannelsOK'
  <2>1. Channel(mediaPlayerEvents, {"idle", "playing"}, MediaCap)'
    BY <1>16, PutBounded, Caps DEF DevicePlayer, ChannelsOK
  <2>2. QED BY <1>16, <2>1 DEF DevicePlayer, ChannelsOK, Channel
<1>17. CASE HandleCommand
  <2>1. Channel(commands, CommandType, CommandCap)'
    BY <1>17, TakeBounded, Caps DEF HandleCommand, ChannelsOK
  <2>2. QED BY <1>17, <2>1 DEF HandleCommand, ChannelsOK, Channel
<1>18. CASE UNCHANGED vars
  BY <1>18 DEF vars, ChannelsOK, Channel
<1>19. QED
  BY <1>1, <1>2, <1>3, <1>4, <1>5, <1>6, <1>7, <1>8, <1>9, <1>10, <1>11, <1>12, <1>13, <1>14, <1>15, <1>16, <1>17, <1>18
     DEF Next, Run, ReceiveAnyEvent, ReceiveAnyAudio, ReceiveAnyMedia, HandlerStep,
         Environment

\* The type invariant holds in every reachable state.
THEOREM TypeCorrect == Spec => []TypeOK
<1>1. Init => TypeOK BY InitTypeOK
<1>2. TypeOK /\ [Next]_vars => TypeOK' BY StepFieldsOK, StepChannelsOK DEF TypeOK
<1>3. QED BY <1>1, <1>2, PTL DEF Spec

-----------------------------------------------------------------------------
(* Safety *)

\* What the environment cannot touch: all that the controller goroutine owns alone.
ownVars == <<fieldVars, pc, history, ttsVars, saidVars>>

\* The device, the requests, the consumer and the shutdown functions leave the fields of the
\* controller alone; the transcriber is closed by the last shutdown function only.
LEMMA EnvironmentStep ==
    ASSUME Environment
    PROVE  /\ UNCHANGED ownVars
           /\ sttOpen' = sttOpen \/ shutdown' = "sttClosed"
           /\ shutdown = "sttClosed" => shutdown' = "sttClosed"
BY DEF Environment, CheckPhase, TriggerListening, DeviceEvent, DeviceAudio, DevicePlayer,
       HandleCommand, Shutdown, ownVars, ctrlVars, envVars, serviceVars

\* The phase follows the handler.
LEMMA StepPhaseAtPC ==
    ASSUME PhaseAtPC, [Next]_vars
    PROVE  PhaseAtPC'
<1> USE DEF PhaseAtPC, fieldVars
<1>1. CASE IgnoreEvent
  BY <1>1 DEF IgnoreEvent
<1>2. CASE HandleListeningStart
  BY <1>2 DEF HandleListeningStart
<1>3. CASE SendSTTStart
  BY <1>3 DEF SendSTTStart
<1>4. CASE HandleIdleOrError
  BY <1>4 DEF HandleIdleOrError
<1>5. CASE IgnoreAudio
  BY <1>5 DEF IgnoreAudio
<1>6. CASE SendAudioFails
  BY <1>6 DEF SendAudioFails
<1>7. CASE SendAudio
  BY <1>7 DEF SendAudio
<1>8. CASE SendVADEnd
  BY <1>8 DEF SendVADEnd
<1>9. CASE RecvFails
  BY <1>9 DEF RecvFails
<1>10. CASE Recv
  BY <1>10 DEF Recv
<1>11. CASE SendSTTEnd
  BY <1>11 DEF SendSTTEnd
<1>12. CASE ChatGivesNothing
  BY <1>12 DEF ChatGivesNothing
<1>13. CASE Chat
  BY <1>13 DEF Chat
<1>14. CASE SendTTSStart
  BY <1>14 DEF SendTTSStart
<1>15. CASE SynthesizeFails
  BY <1>15 DEF SynthesizeFails
<1>16. CASE Synthesize
  BY <1>16 DEF Synthesize
<1>17. CASE SendTTSEndFailed
  BY <1>17 DEF SendTTSEndFailed, BackToIdle
<1>18. CASE SendTTSEnd
  BY <1>18 DEF SendTTSEnd, BackToIdle
<1>19. CASE IgnoreMediaPlayer
  BY <1>19 DEF IgnoreMediaPlayer
<1>20. CASE HandleMediaPlayerIdle
  BY <1>20 DEF HandleMediaPlayerIdle
<1>21. CASE SendVoiceAssistantEnd
  BY <1>21 DEF SendVoiceAssistantEnd
<1>22. CASE Stop
  BY <1>22 DEF Stop
<1>23. CASE Environment
  BY <1>23, EnvironmentStep DEF ownVars
<1>24. CASE UNCHANGED vars
  BY <1>24 DEF vars
<1>25. QED
  BY <1>1, <1>2, <1>3, <1>4, <1>5, <1>6, <1>7, <1>8, <1>9, <1>10, <1>11, <1>12, <1>13, <1>14, <1>15, <1>16, <1>17, <1>18, <1>19, <1>20, <1>21, <1>22, <1>23, <1>24
     DEF Next, Run, ReceiveAnyEvent, ReceiveAnyAudio, ReceiveAnyMedia, HandlerStep

\* What was said follows the handler.
LEMMA StepSaidAtPC ==
    ASSUME FieldsOK, PhaseAtPC, SaidAtPC, [Next]_vars
    PROVE  SaidAtPC'
<1> USE DEF SaidAtPC, PhaseAtPC, Hearing, fieldVars, saidVars
<1>1. CASE IgnoreEvent
  BY <1>1 DEF IgnoreEvent
<1>2. CASE HandleListeningStart
  BY <1>2 DEF HandleListeningStart
<1>3. CASE SendSTTStart
  BY <1>3 DEF SendSTTStart, Say, Pipeline!Say, FieldsOK
<1>4. CASE HandleIdleOrError
  BY <1>4 DEF HandleIdleOrError
<1>5. CASE IgnoreAudio
  BY <1>5 DEF IgnoreAudio
<1>6. CASE SendAudioFails
  BY <1>6 DEF SendAudioFails
<1>7. CASE SendAudio
  BY <1>7 DEF SendAudio
<1>8. CASE SendVADEnd
  BY <1>8 DEF SendVADEnd, Say, Pipeline!Say, NoText
<1>9. CASE RecvFails
  BY <1>9 DEF RecvFails
<1>10. CASE Recv
  BY <1>10 DEF Recv, NoText
<1>11. CASE SendSTTEnd
  BY <1>11 DEF SendSTTEnd, Say, Pipeline!Say, NoText
<1>12. CASE ChatGivesNothing
  BY <1>12 DEF ChatGivesNothing
<1>13. CASE Chat
  BY <1>13 DEF Chat, NoText
<1>14. CASE SendTTSStart
  BY <1>14 DEF SendTTSStart, Say, Pipeline!Say
<1>15. CASE SynthesizeFails
  BY <1>15 DEF SynthesizeFails
<1>16. CASE Synthesize
  BY <1>16 DEF Synthesize
<1>17. CASE SendTTSEndFailed
  BY <1>17 DEF SendTTSEndFailed, Say, Pipeline!Say, BackToIdle
<1>18. CASE SendTTSEnd
  BY <1>18 DEF SendTTSEnd, Say, Pipeline!Say, BackToIdle
<1>19. CASE IgnoreMediaPlayer
  BY <1>19 DEF IgnoreMediaPlayer
<1>20. CASE HandleMediaPlayerIdle
  BY <1>20 DEF HandleMediaPlayerIdle
<1>21. CASE SendVoiceAssistantEnd
  BY <1>21 DEF SendVoiceAssistantEnd
<1>22. CASE Stop
  BY <1>22 DEF Stop
<1>23. CASE Environment
  BY <1>23, EnvironmentStep DEF ownVars
<1>24. CASE UNCHANGED vars
  BY <1>24 DEF vars
<1>25. QED
  BY <1>1, <1>2, <1>3, <1>4, <1>5, <1>6, <1>7, <1>8, <1>9, <1>10, <1>11, <1>12, <1>13, <1>14, <1>15, <1>16, <1>17, <1>18, <1>19, <1>20, <1>21, <1>22, <1>23, <1>24
     DEF Next, Run, ReceiveAnyEvent, ReceiveAnyAudio, ReceiveAnyMedia, HandlerStep

\* A session adds one message, and only for its own words.
LEMMA StepHistoryInv ==
    ASSUME FieldsOK, PhaseAtPC, SaidAtPC, HistoryInv, [Next]_vars
    PROVE  HistoryInv'
<1> USE DEF HistoryInv, HistoryFaithful, Hearing, PhaseAtPC
<1>1. CASE SendSTTStart
  BY <1>1 DEF SendSTTStart, FieldsOK, fieldVars, serviceVars
<1>2. CASE Chat
  <2>1. transcript = session /\ session \in 1..session
    BY <1>2 DEF Chat, SaidAtPC, FieldsOK
  <2>2. \A m \in history : m.transcript # session
    BY <1>2 DEF Chat
  <2>3. session' = session /\ pc' = "TTSStart"
    BY <1>2 DEF Chat, saidVars
  <2>4. HistoryFaithful'
    BY <1>2, <2>1, <2>2, <2>3 DEF Chat
  <2>5. QED BY <2>3, <2>4
<1>3. CASE ReceiveAnyEvent \/ ReceiveAnyAudio \/ ReceiveAnyMedia \/ Stop
  BY <1>3 DEF ReceiveAnyEvent, IgnoreEvent, HandleListeningStart, HandleIdleOrError,
              ReceiveAnyAudio, IgnoreAudio, SendAudioFails, SendAudio, ReceiveAnyMedia,
              IgnoreMediaPlayer, HandleMediaPlayerIdle, Stop, fieldVars, serviceVars, saidVars
<1>4. CASE SendVADEnd \/ RecvFails \/ Recv \/ SendSTTEnd \/ ChatGivesNothing
  BY <1>4 DEF SendVADEnd, RecvFails, Recv, SendSTTEnd, ChatGivesNothing,
              fieldVars, serviceVars, saidVars
<1>5. CASE \/ SendTTSStart \/ SynthesizeFails \/ Synthesize \/ SendTTSEndFailed \/ SendTTSEnd
          \/ SendVoiceAssistantEnd
  BY <1>5 DEF SendTTSStart, SynthesizeFails, Synthesize, SendTTSEndFailed, SendTTSEnd,
              SendVoiceAssistantEnd, BackToIdle, fieldVars, serviceVars, saidVars
<1>6. CASE Environment
  BY <1>6, EnvironmentStep DEF ownVars, fieldVars, saidVars
<1>7. CASE UNCHANGED vars
  BY <1>7 DEF vars, fieldVars, serviceVars, saidVars
<1>8. QED
  BY <1>1, <1>2, <1>3, <1>4, <1>5, <1>6, <1>7 DEF Next, Run, HandlerStep

\* The file of a held cleanup function is on disk and was announced.
LEMMA StepFileInv ==
    ASSUME FileInv, [Next]_vars
    PROVE  FileInv'
<1> USE DEF FileInv, CleanupOwnsFile
<1>1. CASE Synthesize
  BY <1>1 DEF Synthesize, saidVars
<1>2. CASE SendTTSEnd
  BY <1>2 DEF SendTTSEnd, BackToIdle
<1>3. CASE HandleMediaPlayerIdle
  BY <1>3 DEF HandleMediaPlayerIdle, saidVars, NoFile
<1>4. CASE SendVoiceAssistantEnd \/ Stop
  BY <1>4 DEF SendVoiceAssistantEnd, Stop, ttsVars, saidVars
<1>5. CASE ReceiveAnyEvent \/ ReceiveAnyAudio \/ IgnoreMediaPlayer
  BY <1>5 DEF ReceiveAnyEvent, IgnoreEvent, HandleListeningStart, HandleIdleOrError,
              ReceiveAnyAudio, IgnoreAudio, SendAudioFails, SendAudio, IgnoreMediaPlayer,
              ttsVars, saidVars
<1>6. CASE SendSTTStart \/ SendVADEnd \/ RecvFails \/ Recv \/ SendSTTEnd \/ ChatGivesNothing
  BY <1>6 DEF SendSTTStart, SendVADEnd, RecvFails, Recv, SendSTTEnd, ChatGivesNothing,
              ttsVars, saidVars
<1>7. CASE Chat \/ SendTTSStart \/ SynthesizeFails \/ SendTTSEndFailed
  BY <1>7 DEF Chat, SendTTSStart, SynthesizeFails, SendTTSEndFailed, BackToIdle,
              ttsVars, saidVars
<1>8. CASE Environment
  BY <1>8, EnvironmentStep DEF ownVars, ttsVars, saidVars
<1>9. CASE UNCHANGED vars
  BY <1>9 DEF vars, ttsVars, saidVars
<1>10. QED
  BY <1>1, <1>2, <1>3, <1>4, <1>5, <1>6, <1>7, <1>8, <1>9
     DEF Next, Run, ReceiveAnyMedia, HandlerStep

\* While audio may arrive the transcriber is open.
LEMMA StepOpenInv ==
    ASSUME PhaseAtPC, OpenInv, [Next]_vars
    PROVE  OpenInv'
<1> USE DEF OpenInv, PhaseAtPC
<1>1. CASE HandleListeningStart
  BY <1>1 DEF HandleListeningStart
<1>2. CASE IgnoreEvent \/ HandleIdleOrError \/ ReceiveAnyAudio \/ ReceiveAnyMedia \/ Stop
  BY <1>2 DEF IgnoreEvent, HandleIdleOrError, ReceiveAnyAudio, IgnoreAudio, SendAudioFails,
              SendAudio, ReceiveAnyMedia, IgnoreMediaPlayer, HandleMediaPlayerIdle, Stop,
              fieldVars, serviceVars, envVars
<1>3. CASE SendSTTStart \/ SendVADEnd \/ RecvFails \/ Recv \/ SendSTTEnd \/ ChatGivesNothing
  BY <1>3 DEF SendSTTStart, SendVADEnd, RecvFails, Recv, SendSTTEnd, ChatGivesNothing,
              fieldVars, serviceVars, envVars
<1>4. CASE \/ Chat \/ SendTTSStart \/ SynthesizeFails \/ Synthesize \/ SendTTSEndFailed
          \/ SendTTSEnd \/ SendVoiceAssistantEnd
  BY <1>4 DEF Chat, SendTTSStart, SynthesizeFails, Synthesize, SendTTSEndFailed, SendTTSEnd,
              SendVoiceAssistantEnd, BackToIdle, fieldVars, serviceVars, envVars
<1>5. CASE Environment
  BY <1>5, EnvironmentStep DEF ownVars, fieldVars
<1>6. CASE UNCHANGED vars
  BY <1>6 DEF vars, fieldVars, serviceVars, envVars
<1>7. QED
  BY <1>1, <1>2, <1>3, <1>4, <1>5, <1>6 DEF Next, Run, ReceiveAnyEvent, HandlerStep

\* The invariant is inductive and holds in every reachable state.
THEOREM InvariantHolds == Spec => []IInv
<1>1. Init => IInv
  <2> SUFFICES ASSUME Init PROVE IInv
    OBVIOUS
  <2>1. TypeOK BY InitTypeOK
  <2>2. PhaseAtPC /\ SaidAtPC
    BY DEF Init, PhaseAtPC, SaidAtPC, Hearing, Pipeline!Init
  <2>3. HistoryInv /\ FileInv /\ OpenInv
    BY DEF Init, HistoryInv, HistoryFaithful, FileInv, CleanupOwnsFile, OpenInv, Hearing
  <2>4. QED BY <2>1, <2>2, <2>3 DEF IInv
<1>2. IInv /\ [Next]_vars => IInv'
  BY StepFieldsOK, StepChannelsOK, StepPhaseAtPC, StepSaidAtPC, StepHistoryInv, StepFileInv,
     StepOpenInv DEF IInv, TypeOK
<1>3. QED BY <1>1, <1>2, PTL DEF Spec

\* One message for a session, with its own words and their answer, for any number of sessions.
THEOREM HistoryIsFaithful == Spec => []HistoryFaithful
<1>1. IInv => HistoryFaithful BY DEF IInv, HistoryInv
<1>2. QED BY <1>1, InvariantHolds, PTL

\* Audio of a session always reaches an open transcriber before shutdown.
THEOREM AudioAlwaysReachesTranscriber == Spec => []AudioReachesTranscriber
<1>1. IInv => AudioReachesTranscriber BY DEF IInv, OpenInv, AudioReachesTranscriber
<1>2. QED BY <1>1, InvariantHolds, PTL

\* A cleanup function that is held has its file.
THEOREM CleanupAlwaysOwnsFile == Spec => []CleanupOwnsFile
<1>1. IInv => CleanupOwnsFile BY DEF IInv, FileInv
<1>2. QED BY <1>1, InvariantHolds, PTL

-----------------------------------------------------------------------------
(* Refinement *)

\* Every send of the controller is the event of VoicePipeline it stands for.
LEMMA StepPipeline ==
    ASSUME IInv, [Next]_vars
    PROVE  [Pipeline!Next]_(Pipeline!vars)
<1> USE DEF Pipeline!Next, Pipeline!vars, Say, Pipeline!Say, NoText, Pipeline!NoText
<1>1. CASE SendSTTStart
  <2>1. said.type # "TTSStart" BY <1>1 DEF IInv, SaidAtPC, SendSTTStart
  <2>2. QED BY <1>1, <2>1 DEF SendSTTStart, Pipeline!STTStart
<1>2. CASE SendVADEnd
  <2>1. said.type = "STTStart"
    BY <1>2 DEF IInv, PhaseAtPC, SaidAtPC, Hearing, SendVADEnd
  <2>2. QED BY <1>2, <2>1 DEF SendVADEnd, Pipeline!VADEnd
<1>3. CASE SendSTTEnd
  <2>1. said.type = "VADEnd" /\ transcript \in {0, session}
    BY <1>3 DEF IInv, SaidAtPC, SendSTTEnd
  <2>2. QED BY <1>3, <2>1 DEF SendSTTEnd, Pipeline!STTEnd
<1>4. CASE SendTTSStart
  <2>1. said.type = "STTEnd" /\ said.text = session /\ session # 0
    BY <1>4 DEF IInv, SaidAtPC, SendTTSStart
  <2>2. llmResponse \in {said.text, ErrorResponse}
    BY <1>4, <2>1 DEF IInv, SaidAtPC, SendTTSStart
  <2>3. QED BY <1>4, <2>1, <2>2 DEF SendTTSStart, Pipeline!TTSStart
<1>5. CASE SendTTSEndFailed \/ SendTTSEnd
  <2>1. said.type = "TTSStart" /\ said.text = llmResponse
    BY <1>5 DEF IInv, SaidAtPC, SendTTSEndFailed, SendTTSEnd
  <2>2. QED BY <1>5, <2>1 DEF SendTTSEndFailed, SendTTSEnd, Pipeline!TTSEnd
<1>6. CASE SendVoiceAssistantEnd
  <2>1. announced BY <1>6 DEF IInv, FileInv, SendVoiceAssistantEnd
  <2>2. QED BY <1>6, <2>1 DEF SendVoiceAssistantEnd, Pipeline!RunEnd
<1>7. CASE ReceiveAnyEvent \/ ReceiveAnyAudio \/ ReceiveAnyMedia \/ Stop
  BY <1>7 DEF ReceiveAnyEvent, IgnoreEvent, HandleListeningStart, HandleIdleOrError,
              ReceiveAnyAudio, IgnoreAudio, SendAudioFails, SendAudio, ReceiveAnyMedia,
              IgnoreMediaPlayer, HandleMediaPlayerIdle, Stop, saidVars
<1>8. CASE RecvFails \/ Recv \/ ChatGivesNothing \/ Chat \/ SynthesizeFails \/ Synthesize
  BY <1>8 DEF RecvFails, Recv, ChatGivesNothing, Chat, SynthesizeFails, Synthesize, saidVars
<1>9. CASE Environment
  BY <1>9, EnvironmentStep DEF ownVars, saidVars
<1>10. CASE UNCHANGED vars
  BY <1>10 DEF vars, saidVars
<1>11. QED
  BY <1>1, <1>2, <1>3, <1>4, <1>5, <1>6, <1>7, <1>8, <1>9, <1>10 DEF Next, Run, HandlerStep

\* The controller implements the pipeline that the device is promised.
THEOREM ImplementsPipeline == Spec => PipelineOrder
<1>1. Init => Pipeline!Init BY DEF Init
<1>2. IInv /\ [Next]_vars => [Pipeline!Next]_(Pipeline!vars) BY StepPipeline
<1>3. QED BY <1>1, <1>2, InvariantHolds, PTL DEF Spec, PipelineOrder, Pipeline!Spec
=============================================================================
