----------------------------- MODULE Controller -----------------------------
(***************************************************************************)
(* The phase controller (internal/controller, internal/phases): one        *)
(* goroutine that selects over the channels filled by the ESPHome client   *)
(* and answers on the command channel.                                     *)
(*                                                                         *)
(* A handler runs to its end before the next receive, but it stops at each *)
(* blocking send on the command channel and at each call of a remote       *)
(* service.  pc says where: a handler is cut into one action per such      *)
(* point, and the device, the HTTP handlers, the command consumer and the  *)
(* shutdown functions interleave there.                                    *)
(*                                                                         *)
(* Texts are abstract: the words heard in session n are n, the answer to   *)
(* text n is n, and the audio file spoken in session n is n.               *)
(***************************************************************************)
EXTENDS Naturals, Sequences

CONSTANTS
    Requests,       \* POST /api/listen requests, each a goroutine of the server
    EventCap,       \* capacities of the channels (client.go 111-114)
    AudioCap,
    MediaCap,
    CommandCap,
    ErrorCap,       \* capacity of the errors channel (controller.go 98)
    MaxRuns,        \* bound: start events the device sends
    WavServed,      \* NewReplyPhase is given a WAVServer; phases.go 171 passes nil
    ErrorResponse   \* phases.ErrorResponse

ASSUME CapAssumption ==
    {EventCap, AudioCap, MediaCap, CommandCap, ErrorCap} \subseteq Nat \ {0}
ASSUME MaxRunsAssumption == MaxRuns \in Nat
ASSUME WavServedAssumption == WavServed \in BOOLEAN
ASSUME ErrorResponseAssumption == ErrorResponse \notin Nat

NoText == 0
NoFile == 0

Phase == {"idle", "listening", "thinking", "reply"}
VoiceAssistantPhase == {"idle", "listening", "error", "other"}
CommandType == {"STTStart", "VADEnd", "STTEnd", "TTSStart", "TTSEnd",
                "VoiceAssistantStart", "VoiceAssistantEnd"}

VARIABLES
    phase, transcript, llmResponse,     \* fields of Controller
    ttsCleanup,     \* the file the cleanup function removes, NoFile for nil
    pc,             \* where the Run goroutine is
    errors,         \* length of the errors channel, which nobody reads
    sttOpen,        \* the transcriber is not closed
    history,        \* the messages added to the conversation
    wavs,           \* the TTS files on disk
    voiceAssistantEvents, audioEvents, mediaPlayerEvents, commands,
    runs,           \* start events sent so far
    listen,         \* where each listen request is
    shutdown,       \* how far the shutdown functions are
    session, said, announced    \* history variables, see VoicePipeline

fieldVars == <<phase, transcript, llmResponse>>
serviceVars == <<sttOpen, history>>
ttsVars == <<ttsCleanup, wavs>>
inVars == <<voiceAssistantEvents, audioEvents, mediaPlayerEvents>>
envVars == <<runs, listen, shutdown>>
saidVars == <<session, said, announced>>
vars == <<fieldVars, pc, errors, serviceVars, ttsVars, inVars, commands, envVars, saidVars>>

Pipeline == INSTANCE VoicePipeline
Say(type, text) == Pipeline!Say(type, text)

Init ==
    /\ phase = "idle" /\ transcript = NoText /\ llmResponse = NoText
    /\ ttsCleanup = NoFile /\ wavs = {}
    /\ pc = "select" /\ errors = 0
    /\ sttOpen = TRUE /\ history = {}
    /\ voiceAssistantEvents = <<>> /\ audioEvents = <<>> /\ mediaPlayerEvents = <<>>
    /\ commands = <<>>
    /\ runs = 0
    /\ listen = [r \in Requests |-> "new"]
    /\ shutdown = "running"
    /\ Pipeline!Init

-----------------------------------------------------------------------------
(* Channel operations *)

\* A blocking send on the command channel.
Put(type) ==
    /\ Len(commands) < CommandCap
    /\ commands' = Append(commands, type)

\* Mutants: an errors channel without bound, and a sendError that blocks.
SendErrorUnbounded == errors' = errors + 1
SendErrorBlocking == errors < ErrorCap /\ errors' = errors + 1

\* sendError gives up when the channel is full.
SendError == errors' = IF errors < ErrorCap THEN errors + 1 ELSE errors

clientOpen == shutdown \in {"running", "cancelled"}

\* A closed event channel yields zero values, and the zero phase is Idle.
ReceiveEvent(e) ==
    \/ /\ voiceAssistantEvents # <<>>
       /\ e = Head(voiceAssistantEvents)
       /\ voiceAssistantEvents' = Tail(voiceAssistantEvents)
    \/ /\ voiceAssistantEvents = <<>> /\ ~clientOpen
       /\ e = "idle"
       /\ UNCHANGED voiceAssistantEvents

ReceiveAudio(a) ==
    /\ audioEvents # <<>>
    /\ a = Head(audioEvents)
    /\ audioEvents' = Tail(audioEvents)

-----------------------------------------------------------------------------
(* Voice assistant events *)

IgnoreEvent ==
    /\ pc = "select"
    /\ \E e \in VoiceAssistantPhase :
         /\ ReceiveEvent(e)
         /\ \/ e = "listening" /\ phase # "idle"
            \/ e \in {"idle", "error"} /\ phase = "idle"
            \/ e = "other"
    /\ UNCHANGED <<fieldVars, pc, errors, serviceVars, ttsVars, audioEvents,
                   mediaPlayerEvents, commands, envVars, saidVars>>

\* Mutant: the transcriber is not reset, so the one closed after a session stays closed.
ListeningStartWithoutReset ==
    /\ pc = "select" /\ phase = "idle"
    /\ ReceiveEvent("listening")
    /\ phase' = "listening"
    /\ pc' = "STTStart"
    /\ UNCHANGED <<transcript, llmResponse, errors, serviceVars, ttsVars, audioEvents,
                   mediaPlayerEvents, commands, envVars, saidVars>>

HandleListeningStart ==
    /\ pc = "select" /\ phase = "idle"
    /\ ReceiveEvent("listening")
    /\ sttOpen' = TRUE
    /\ phase' = "listening"
    /\ pc' = "STTStart"
    /\ UNCHANGED <<transcript, llmResponse, errors, history, ttsVars, audioEvents,
                   mediaPlayerEvents, commands, envVars, saidVars>>

SendSTTStart ==
    /\ pc = "STTStart"
    /\ Put("STTStart")
    /\ pc' = "select"
    /\ session' = session + 1
    /\ Say("STTStart", NoText)
    /\ UNCHANGED <<fieldVars, errors, serviceVars, ttsVars, inVars, envVars, announced>>

\* Mutant: the texts are cleared and the phase is kept.
IdleKeepsPhase ==
    /\ pc = "select" /\ phase # "idle"
    /\ \E e \in {"idle", "error"} : ReceiveEvent(e)
    /\ transcript' = NoText /\ llmResponse' = NoText
    /\ UNCHANGED <<phase, pc, errors, serviceVars, ttsVars, audioEvents,
                   mediaPlayerEvents, commands, envVars, saidVars>>

HandleIdleOrError ==
    /\ pc = "select" /\ phase # "idle"
    /\ \E e \in {"idle", "error"} : ReceiveEvent(e)
    /\ phase' = "idle" /\ transcript' = NoText /\ llmResponse' = NoText
    /\ UNCHANGED <<pc, errors, serviceVars, ttsVars, audioEvents, mediaPlayerEvents,
                   commands, envVars, saidVars>>

-----------------------------------------------------------------------------
(* Audio *)

IgnoreAudio ==
    /\ pc = "select"
    /\ \E a \in {"data", "empty"} :
         /\ ReceiveAudio(a)
         /\ phase # "listening" \/ a = "empty"
    /\ UNCHANGED <<fieldVars, pc, errors, serviceVars, ttsVars, voiceAssistantEvents,
                   mediaPlayerEvents, commands, envVars, saidVars>>

SendAudioFails ==
    /\ pc = "select" /\ phase = "listening"
    /\ ReceiveAudio("data")
    /\ SendError
    /\ UNCHANGED <<fieldVars, pc, serviceVars, ttsVars, voiceAssistantEvents,
                   mediaPlayerEvents, commands, envVars, saidVars>>

\* The transcriber takes the audio; SilenceDetected may then end the utterance.
SendAudio ==
    /\ pc = "select" /\ phase = "listening"
    /\ sttOpen
    /\ ReceiveAudio("data")
    /\ pc' \in {"select", "VADEnd"}
    /\ UNCHANGED <<fieldVars, errors, serviceVars, ttsVars, voiceAssistantEvents,
                   mediaPlayerEvents, commands, envVars, saidVars>>

SendVADEnd ==
    /\ pc = "VADEnd"
    /\ Put("VADEnd")
    /\ pc' = "recv"
    /\ Say("VADEnd", NoText)
    /\ UNCHANGED <<fieldVars, errors, serviceVars, ttsVars, inVars, envVars,
                   session, announced>>

RecvFails ==
    /\ pc = "recv"
    /\ sttOpen' = FALSE
    /\ phase' = "idle"
    /\ SendError
    /\ pc' = "select"
    /\ UNCHANGED <<transcript, llmResponse, history, ttsVars, inVars, commands, envVars,
                   saidVars>>

\* Mutant: an empty result leaves the transcript of a session before.
RecvKeepsTranscript ==
    /\ pc = "recv" /\ sttOpen
    /\ transcript' \in {transcript, session}
    /\ sttOpen' = FALSE
    /\ pc' = "STTEnd"
    /\ UNCHANGED <<phase, llmResponse, errors, history, ttsVars, inVars, commands,
                   envVars, saidVars>>

\* The transcript of this session, or none: an empty text or another event.
Recv ==
    /\ pc = "recv" /\ sttOpen
    /\ transcript' \in {NoText, session}
    /\ sttOpen' = FALSE
    /\ pc' = "STTEnd"
    /\ UNCHANGED <<phase, llmResponse, errors, history, ttsVars, inVars, commands,
                   envVars, saidVars>>

SendSTTEnd ==
    /\ pc = "STTEnd"
    /\ Put("STTEnd")
    /\ Say("STTEnd", transcript)
    /\ \/ transcript = NoText /\ phase' = "idle" /\ pc' = "select"
       \/ transcript # NoText /\ phase' = "thinking" /\ pc' = "chat"
    /\ UNCHANGED <<transcript, llmResponse, errors, serviceVars, ttsVars, inVars,
                   envVars, session, announced>>

-----------------------------------------------------------------------------
(* Thinking and reply *)

\* An llm.Client may return neither text nor tool calls.
ChatGivesNothing ==
    /\ pc = "chat"
    /\ SendError
    /\ phase' = "idle"
    /\ pc' = "select"
    /\ UNCHANGED <<transcript, llmResponse, serviceVars, ttsVars, inVars, commands,
                   envVars, saidVars>>

\* Mutant: the message is added before the response is stored.
AddMessageBeforeResponse ==
    /\ pc = "chat"
    /\ llmResponse' \in {transcript, ErrorResponse}
    /\ history' = history \cup {[transcript |-> transcript, response |-> llmResponse]}
    /\ phase' = "reply"
    /\ pc' = "TTSStart"
    /\ UNCHANGED <<transcript, errors, sttOpen, ttsVars, inVars, commands, envVars, saidVars>>

Chat ==
    /\ pc = "chat"
    /\ llmResponse' \in {transcript, ErrorResponse}
    /\ history' = history \cup {[transcript |-> transcript, response |-> llmResponse']}
    /\ phase' = "reply"
    /\ pc' = "TTSStart"
    /\ UNCHANGED <<transcript, errors, sttOpen, ttsVars, inVars, commands, envVars, saidVars>>

SendTTSStart ==
    /\ pc = "TTSStart"
    /\ Put("TTSStart")
    /\ Say("TTSStart", llmResponse)
    /\ pc' = "synthesize"
    /\ UNCHANGED <<fieldVars, errors, serviceVars, ttsVars, inVars, envVars,
                   session, announced>>

\* Also the failures of SaveWAV and ServeWAV: the text is announced without a URL.  The file
\* that the last of them leaves on disk is of no reply any more; ReplyPlayback follows it.
SynthesizeFails ==
    /\ pc = "synthesize"
    /\ pc' = "TTSEndFailed"
    /\ UNCHANGED <<fieldVars, errors, serviceVars, ttsVars, inVars, commands, envVars,
                   saidVars>>

\* The file is saved; without a server the call of ServeWAV panics.
Synthesize ==
    /\ pc = "synthesize"
    /\ wavs' = wavs \cup {session}
    /\ pc' = IF WavServed THEN "TTSEnd" ELSE "panicked"
    /\ UNCHANGED <<fieldVars, errors, serviceVars, ttsCleanup, inVars, commands, envVars,
                   saidVars>>

BackToIdle ==
    /\ phase' = "idle" /\ transcript' = NoText /\ llmResponse' = NoText
    /\ pc' = "select"

SendTTSEndFailed ==
    /\ pc = "TTSEndFailed"
    /\ Put("TTSEnd")
    /\ Say("TTSEnd", llmResponse)
    /\ SendError
    /\ BackToIdle
    /\ UNCHANGED <<serviceVars, ttsVars, inVars, envVars, session, announced>>

SendTTSEnd ==
    /\ pc = "TTSEnd"
    /\ Put("TTSEnd")
    /\ Say("TTSEnd", llmResponse)
    /\ announced' = TRUE
    /\ ttsCleanup' = session
    /\ BackToIdle
    /\ UNCHANGED <<errors, serviceVars, wavs, inVars, envVars, session>>

-----------------------------------------------------------------------------
(* Media player *)

\* HandleMediaPlayerEvent when there is nothing to clean up or it still plays.
IgnoreMediaPlayer ==
    /\ pc = "select" /\ mediaPlayerEvents # <<>>
    /\ Head(mediaPlayerEvents) # "idle" \/ ttsCleanup = NoFile
    /\ mediaPlayerEvents' = Tail(mediaPlayerEvents)
    /\ UNCHANGED <<fieldVars, pc, errors, serviceVars, ttsVars, voiceAssistantEvents,
                   audioEvents, commands, envVars, saidVars>>

\* Mutant: the cleanup function is called and kept.
CleanupKept ==
    /\ pc = "select" /\ mediaPlayerEvents # <<>>
    /\ Head(mediaPlayerEvents) = "idle" /\ ttsCleanup # NoFile
    /\ mediaPlayerEvents' = Tail(mediaPlayerEvents)
    /\ wavs' = wavs \ {ttsCleanup}
    /\ pc' = "VoiceAssistantEnd"
    /\ UNCHANGED <<fieldVars, errors, serviceVars, ttsCleanup, voiceAssistantEvents,
                   audioEvents, commands, envVars, saidVars>>

HandleMediaPlayerIdle ==
    /\ pc = "select" /\ mediaPlayerEvents # <<>>
    /\ Head(mediaPlayerEvents) = "idle" /\ ttsCleanup # NoFile
    /\ mediaPlayerEvents' = Tail(mediaPlayerEvents)
    /\ wavs' = wavs \ {ttsCleanup}
    /\ ttsCleanup' = NoFile
    /\ pc' = "VoiceAssistantEnd"
    /\ UNCHANGED <<fieldVars, errors, serviceVars, voiceAssistantEvents, audioEvents,
                   commands, envVars, saidVars>>

SendVoiceAssistantEnd ==
    /\ pc = "VoiceAssistantEnd"
    /\ Put("VoiceAssistantEnd")
    /\ announced' = FALSE
    /\ pc' = "select"
    /\ UNCHANGED <<fieldVars, errors, serviceVars, ttsVars, inVars, envVars, session, said>>

\* Mutant: the context is looked at in the idle phase only.
StopWhenIdle ==
    /\ pc = "select" /\ shutdown # "running" /\ phase = "idle"
    /\ wavs' = wavs \ {ttsCleanup}
    /\ pc' = "stopped"
    /\ UNCHANGED <<fieldVars, errors, serviceVars, ttsCleanup, inVars, commands, envVars,
                   saidVars>>

Stop ==
    /\ pc = "select" /\ shutdown # "running"
    /\ wavs' = wavs \ {ttsCleanup}
    /\ pc' = "stopped"
    /\ UNCHANGED <<fieldVars, errors, serviceVars, ttsCleanup, inVars, commands, envVars,
                   saidVars>>

-----------------------------------------------------------------------------
(* POST /api/listen: handleListen reads the phase, TriggerListening reads it   *)
(* again and then sends; "done" is any of the answers 200, 409 and 500.        *)

ctrlVars == <<fieldVars, pc, errors, serviceVars, ttsVars, saidVars>>

CheckPhase(r) ==
    /\ \/ listen[r] = "new" /\ listen' = [listen EXCEPT ![r] =
              IF phase = "idle" THEN "checked" ELSE "done"]
       \/ listen[r] = "checked" /\ listen' = [listen EXCEPT ![r] =
              IF phase = "idle" THEN "sending" ELSE "done"]
    /\ UNCHANGED <<ctrlVars, inVars, commands, runs, shutdown>>

TriggerListening(r) ==
    /\ listen[r] = "sending"
    /\ Put("VoiceAssistantStart")
    /\ listen' = [listen EXCEPT ![r] = "done"]
    /\ UNCHANGED <<ctrlVars, inVars, runs, shutdown>>

-----------------------------------------------------------------------------
(* The ESPHome client at the other ends of the channels: its sends drop what  *)
(* does not fit, handleCommands consumes the commands.                         *)

DeviceEvent(e) ==
    /\ clientOpen /\ Len(voiceAssistantEvents) < EventCap
    /\ IF e = "listening" THEN runs < MaxRuns /\ runs' = runs + 1 ELSE UNCHANGED runs
    /\ voiceAssistantEvents' = Append(voiceAssistantEvents, e)
    /\ UNCHANGED <<ctrlVars, audioEvents, mediaPlayerEvents, commands, listen, shutdown>>

DeviceAudio(a) ==
    /\ clientOpen /\ Len(audioEvents) < AudioCap
    /\ audioEvents' = Append(audioEvents, a)
    /\ UNCHANGED <<ctrlVars, voiceAssistantEvents, mediaPlayerEvents, commands, envVars>>

DevicePlayer(s) ==
    /\ clientOpen /\ Len(mediaPlayerEvents) < MediaCap
    /\ mediaPlayerEvents' = Append(mediaPlayerEvents, s)
    /\ UNCHANGED <<ctrlVars, voiceAssistantEvents, audioEvents, commands, envVars>>

HandleCommand ==
    /\ commands # <<>>
    /\ commands' = Tail(commands)
    /\ UNCHANGED <<ctrlVars, inVars, envVars>>

\* A signal cancels the context; then the client and the transcriber are closed.
Shutdown ==
    /\ \/ shutdown = "running" /\ shutdown' = "cancelled" /\ UNCHANGED sttOpen
       \/ shutdown = "cancelled" /\ shutdown' = "clientClosed" /\ UNCHANGED sttOpen
       \/ shutdown = "clientClosed" /\ shutdown' = "sttClosed" /\ sttOpen' = FALSE
    /\ UNCHANGED <<fieldVars, pc, errors, history, ttsVars, inVars, commands, runs, listen,
                   saidVars>>

-----------------------------------------------------------------------------
ReceiveAnyEvent == IgnoreEvent \/ HandleListeningStart \/ HandleIdleOrError
ReceiveAnyAudio == IgnoreAudio \/ SendAudioFails \/ SendAudio
ReceiveAnyMedia == IgnoreMediaPlayer \/ HandleMediaPlayerIdle

HandlerStep ==
    \/ SendSTTStart \/ SendVADEnd \/ RecvFails \/ Recv \/ SendSTTEnd
    \/ ChatGivesNothing \/ Chat \/ SendTTSStart \/ SynthesizeFails \/ Synthesize
    \/ SendTTSEndFailed \/ SendTTSEnd \/ SendVoiceAssistantEnd

Run == ReceiveAnyEvent \/ ReceiveAnyAudio \/ ReceiveAnyMedia \/ HandlerStep \/ Stop

Environment ==
    \/ \E r \in Requests : CheckPhase(r) \/ TriggerListening(r)
    \/ \E e \in VoiceAssistantPhase : DeviceEvent(e)
    \/ \E a \in {"data", "empty"} : DeviceAudio(a)
    \/ \E s \in {"idle", "playing"} : DevicePlayer(s)
    \/ HandleCommand
    \/ Shutdown

\* A panic in any goroutine ends the process.
Next == pc # "panicked" /\ (Run \/ Environment)

Spec == Init /\ [][Next]_vars

(***************************************************************************)
(* Fairness.  A goroutine that can run does; every remote call returns     *)
(* (Recv has a 60 s timeout, an LLM conversation is assumed to end); the   *)
(* command consumer runs until the client is closed; select picks among    *)
(* the ready cases at random, so no case stays ready for ever unpicked.    *)
(***************************************************************************)
Fairness ==
    /\ WF_vars(pc # "panicked" /\ HandlerStep)
    /\ WF_vars(pc # "panicked" /\ clientOpen /\ HandleCommand)
    /\ SF_vars(pc # "panicked" /\ ReceiveAnyEvent)
    /\ SF_vars(pc # "panicked" /\ ReceiveAnyAudio)
    /\ SF_vars(pc # "panicked" /\ ReceiveAnyMedia)
    /\ SF_vars(pc # "panicked" /\ Stop)

FairSpec == Spec /\ Fairness

-----------------------------------------------------------------------------
(* Properties *)

Text == Nat \cup {ErrorResponse}

PC == {"select", "STTStart", "VADEnd", "recv", "STTEnd", "chat", "TTSStart", "synthesize",
       "TTSEnd", "TTSEndFailed", "VoiceAssistantEnd", "panicked", "stopped"}

FieldsOK ==
    /\ phase \in Phase /\ transcript \in Nat /\ llmResponse \in Text
    /\ ttsCleanup \in Nat /\ wavs \subseteq Nat
    /\ pc \in PC /\ errors \in 0..ErrorCap
    /\ sttOpen \in BOOLEAN
    /\ history \subseteq [transcript : Nat, response : Text]
    /\ runs \in 0..MaxRuns
    /\ listen \in [Requests -> {"new", "checked", "sending", "done"}]
    /\ shutdown \in {"running", "cancelled", "clientClosed", "sttClosed"}
    /\ session \in Nat /\ announced \in BOOLEAN
    /\ said \in [type : CommandType \cup {"none"}, text : Text]

Channel(q, S, cap) == q \in Seq(S) /\ Len(q) <= cap

ChannelsOK ==
    /\ Channel(voiceAssistantEvents, VoiceAssistantPhase, EventCap)
    /\ Channel(audioEvents, {"data", "empty"}, AudioCap)
    /\ Channel(mediaPlayerEvents, {"idle", "playing"}, MediaCap)
    /\ Channel(commands, CommandType, CommandCap)

\* Every variable has its type; the channels and the error queue respect their capacities.
TypeOK == FieldsOK /\ ChannelsOK

\* Whatever is interleaved with a session, the commands the controller sends (the
\* Command sends of phases.go and reply.go) are a behaviour of VoicePipeline.
PipelineOrder == Pipeline!Spec

\* AddMessage (phases.go 157) stores one message for a session, with the words of that
\* session and the answer to these words, also after sessions that failed half way.
HistoryFaithful ==
    \A m \in history :
        /\ m.transcript \in 1..session
        /\ m.response \in {m.transcript, ErrorResponse}
        /\ \A n \in history : n.transcript = m.transcript => n = m

\* In every session audio reaches an open transcriber although the session before closed
\* it (phases.go 68, 91, 101); only the shutdown function may close it meanwhile.
AudioReachesTranscriber ==
    pc = "select" /\ phase = "listening" /\ shutdown # "sttClosed" => sttOpen

\* A cleanup function the controller still holds (controller.go 128-131) has its file: no
\* file is removed twice, and no RunEnd is sent for a file that is gone.
CleanupOwnsFile == ttsCleanup # NoFile /\ pc # "stopped" => ttsCleanup \in wavs

\* A saved reply is served or being served (reply.go 45-54): no file stays that no
\* cleanup function knows.
SavedAudioIsServed == pc \in {"TTSEnd", "stopped"} \/ wavs \subseteq {ttsCleanup}

\* A listen request is granted only in the idle phase (handlers.go 112-120).
ListenOnlyWhenIdle ==
    [][\A r \in Requests :
          listen[r] = "sending" /\ listen'[r] = "done" => phase = "idle"]_vars

\* A command nobody will take any more: the consumer is gone and the channel is full.
NobodyConsumes == ~clientOpen /\ Len(commands) = CommandCap

\* Every handler gets back to select although it blocks on a bounded command channel and
\* reports errors on a channel that nobody drains.
HandlerReturns ==
    pc # "select" ~> pc \in {"select", "stopped", "panicked"} \/ NobodyConsumes

\* A stop or an error the device sends while listening ends listening.
StopHonoured ==
    (phase = "listening" /\ \E i \in 1..Len(voiceAssistantEvents) :
        voiceAssistantEvents[i] \in {"idle", "error"})
    ~> (phase # "listening" \/ pc \in {"stopped", "panicked"} \/ NobodyConsumes)

\* The Run goroutine ends after the context is cancelled, in whatever phase it is.
ShutdownStops ==
    shutdown # "running" ~> pc \in {"stopped", "panicked"} \/ NobodyConsumes
=============================================================================
