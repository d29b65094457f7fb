--------------------------- MODULE SttTranscriber ---------------------------
(***************************************************************************)
(* The speech-to-text client (internal/stt/wyoming.go): one Wyoming        *)
(* connection for an utterance, dialled when the first audio arrives.      *)
(*                                                                         *)
(* The caller is the controller: Reset, SendAudio for every chunk, then    *)
(* either a new Reset (the device stopped listening) or, when the detector *)
(* heard the end of speech, SendAudioStop, Recv and Close.  The            *)
(* shutdown function calls Close from a goroutine of its own.  Every       *)
(* method holds the mutex and is one step, except Recv, which gives it     *)
(* back before it reads.                                                   *)
(***************************************************************************)
EXTENDS VadDetector, Sequences

CONSTANTS
    Conns,          \* bound: connections dialled
    None,
    Energy,         \* the energies of chunks
    MaxSessions,    \* bound: calls of Reset
    MaxChunks       \* bound: chunks of a session the detector hears

ASSUME NoneAssumption == None \notin Conns
ASSUME EnergyAssumption == Energy \subseteq Nat
ASSUME BoundAssumption == MaxSessions \in Nat /\ MaxChunks \in Nat

VARIABLES
    client,                             \* fields of STTTranscriber
    closed, audioSent, transcribeSent,
    vadDetector,
    call,       \* the method the controller is in, or will call next
    reading,    \* the connection Recv reads from, after it gave the mutex back
    shut,       \* the shutdown function has run
    session,    \* calls of Reset
    open,       \* connections dialled and not closed
    sent,       \* the events written on each connection, repeated chunks as one
    heard,      \* the sessions whose audio each connection carried
    answered,   \* connections a transcript was read from
    chunks,     \* the energies of the chunks of this session the detector heard
    written,    \* an event of this session was written
    resumed     \* connections dialled when one was: a write on the connection before failed

flagVars == <<closed, audioSent, transcribeSent>>
connVars == <<open, sent, heard, answered>>
vadVars == <<vadDetector, chunks>>
sessionVars == <<session, written, resumed>>
vars == <<client, flagVars, vadVars, call, reading, shut, sessionVars, connVars>>

Init ==
    /\ client = None /\ closed = FALSE /\ audioSent = FALSE /\ transcribeSent = FALSE
    /\ vadDetector = NewDetector /\ chunks = <<>>
    /\ call = "idle" /\ reading = None
    /\ shut = FALSE /\ session = 0 /\ written = FALSE /\ resumed = {}
    /\ open = {} /\ answered = {}
    /\ sent = [c \in Conns |-> <<>>]
    /\ heard = [c \in Conns |-> {}]

Unused == {c \in Conns \ open : sent[c] = <<>>}

\* The connection a method works on: the one there is or a new one.
Connected == IF client # None THEN {client} ELSE Unused

Write(log, events) ==
    IF events = <<"audio-chunk">> /\ log # <<>> /\ log[Len(log)] = "audio-chunk"
    THEN log ELSE log \o events

-----------------------------------------------------------------------------
\* Mutant: the connection of the session before is kept.
ResetKeepsClient ==
    /\ call \in {"idle", "listening"} /\ session < MaxSessions
    /\ closed' = FALSE /\ audioSent' = FALSE /\ transcribeSent' = FALSE
    /\ vadDetector' = ResetDetector(vadDetector) /\ chunks' = <<>>
    /\ session' = session + 1 /\ written' = FALSE
    /\ call' = "listening"
    /\ UNCHANGED <<client, reading, shut, resumed, connVars>>

\* Mutant: transcribe is taken for sent in the next session.
ResetKeepsTranscribeSent ==
    /\ call \in {"idle", "listening"} /\ session < MaxSessions
    /\ closed' = FALSE /\ audioSent' = FALSE
    /\ client' = None
    /\ vadDetector' = ResetDetector(vadDetector) /\ chunks' = <<>>
    /\ session' = session + 1 /\ written' = FALSE
    /\ call' = "listening"
    /\ UNCHANGED <<transcribeSent, reading, shut, resumed, connVars>>

Reset ==
    /\ call \in {"idle", "listening"} /\ session < MaxSessions
    /\ closed' = FALSE /\ audioSent' = FALSE /\ transcribeSent' = FALSE
    /\ client' = None
    /\ vadDetector' = ResetDetector(vadDetector) /\ chunks' = <<>>
    /\ session' = session + 1 /\ written' = FALSE
    /\ call' = "listening"
    /\ UNCHANGED <<reading, shut, resumed, connVars>>

\* The events due before the chunk, the ones not yet sent in this session.
Due == (IF transcribeSent THEN <<>> ELSE <<"transcribe">>)
       \o (IF audioSent THEN <<>> ELSE <<"audio-start">>) \o <<"audio-chunk">>

\* The first n due events are written; a failed write drops the connection unclosed.
\* A call that is refused (closed, or no connection can be made) changes nothing.  The
\* caller asks for the end of speech when the call succeeds.
SendAudio(c, n, rms) ==
    /\ call = "listening" /\ ~closed /\ Len(chunks) < MaxChunks
    /\ c \in Connected
    /\ n \in 0..Len(Due)
    /\ open' = open \cup {c}
    /\ resumed' = IF client = None /\ written THEN resumed \cup {c} ELSE resumed
    /\ written' = (written \/ n >= 1)
    /\ sent' = [sent EXCEPT ![c] = Write(@, SubSeq(Due, 1, n))]
    /\ LET Wrote(e) == \E i \in 1..n : Due[i] = e
       IN  /\ transcribeSent' = (transcribeSent \/ Wrote("transcribe"))
           /\ audioSent' = (audioSent \/ Wrote("audio-start"))
           /\ heard' = IF Wrote("audio-chunk")
                       THEN [heard EXCEPT ![c] = @ \cup {session}] ELSE heard
    /\ \/ /\ n < Len(Due)
          /\ client' = None
          /\ UNCHANGED <<call, vadVars>>
       \/ /\ n = Len(Due)
          /\ client' = c
          /\ LET heardIt == ProcessAudio(vadDetector, rms)
             IN  /\ vadDetector' = SpeechEndedTaken(heardIt)
                 /\ call' = IF heardIt.speechEnded THEN "audioStop" ELSE "listening"
          /\ chunks' = Append(chunks, rms)
    /\ UNCHANGED <<closed, reading, shut, session, answered>>

SendAudioStop ==
    /\ call = "audioStop"
    /\ \/ /\ client # None /\ ~closed /\ audioSent
          /\ sent' = [sent EXCEPT ![client] = Write(@, <<"audio-stop">>)]
       \/ UNCHANGED sent
    /\ call' = "recv"
    /\ UNCHANGED <<client, flagVars, reading, shut, sessionVars, open, heard, answered, vadVars>>

\* The part of Recv under the mutex.
Recv ==
    /\ call = "recv"
    /\ \/ /\ closed \/ client = None
          /\ call' = "close"
          /\ UNCHANGED <<client, open>>
       \/ /\ ~closed
          /\ client' \in Connected
          /\ open' = open \cup {client'}
          /\ call' = "read"
    /\ UNCHANGED <<flagVars, reading, shut, sessionVars, sent, heard, answered, vadVars>>

\* t.client is evaluated again without the mutex, and is nil after a Close.
RecvRead ==
    /\ call = "read"
    /\ reading' = client
    /\ call' = IF client = None THEN "panicked" ELSE "reading"
    /\ UNCHANGED <<client, flagVars, shut, sessionVars, connVars, vadVars>>

RecvTranscript ==
    /\ call = "reading" /\ reading \in open
    /\ answered' = answered \cup {reading}
    /\ reading' = None
    /\ call' = "close"
    /\ UNCHANGED <<client, flagVars, shut, sessionVars, open, sent, heard, vadVars>>

\* Another event than a transcript.
RecvOther ==
    /\ call = "reading" /\ reading \in open
    /\ reading' = None
    /\ call' = "close"
    /\ UNCHANGED <<client, flagVars, shut, sessionVars, connVars, vadVars>>

\* A timeout, or the connection is gone.
RecvFails ==
    /\ call = "reading"
    /\ client' = None
    /\ reading' = None
    /\ call' = "close"
    /\ UNCHANGED <<flagVars, shut, sessionVars, connVars, vadVars>>

\* Mutants: a failed write of audio-stop returns before the connection is closed, and the
\* connection is closed and kept.
CloseStopsAtError ==
    IF closed THEN UNCHANGED <<client, closed, open, sent>>
    ELSE /\ closed' = TRUE
         /\ client' = None
         /\ \/ /\ client # None /\ audioSent
               /\ sent' = [sent EXCEPT ![client] = Write(@, <<"audio-stop">>)]
               /\ open' = open \ {client}
            \/ /\ client # None /\ audioSent
               /\ UNCHANGED <<sent, open>>
            \/ /\ client = None \/ ~audioSent
               /\ open' = open \ {client}
               /\ UNCHANGED sent

CloseKeepsClient ==
    IF closed THEN UNCHANGED <<client, closed, open, sent>>
    ELSE /\ closed' = TRUE
         /\ open' = open \ {client}
         /\ \/ /\ client # None /\ audioSent
               /\ sent' = [sent EXCEPT ![client] = Write(@, <<"audio-stop">>)]
            \/ UNCHANGED sent
         /\ UNCHANGED client

\* Close writes an audio-stop again when audio was sent, and closes whether that fails or not.
CloseClient ==
    IF closed THEN UNCHANGED <<client, closed, open, sent>>
    ELSE /\ closed' = TRUE
         /\ client' = None
         /\ open' = open \ {client}
         /\ \/ /\ client # None /\ audioSent
               /\ sent' = [sent EXCEPT ![client] = Write(@, <<"audio-stop">>)]
            \/ UNCHANGED sent

Close ==
    /\ call = "close"
    /\ CloseClient
    /\ call' = "idle"
    /\ UNCHANGED <<audioSent, transcribeSent, reading, shut, sessionVars, heard, answered, vadVars>>

ShutdownClose ==
    /\ ~shut
    /\ shut' = TRUE
    /\ CloseClient
    /\ UNCHANGED <<audioSent, transcribeSent, call, reading, sessionVars, heard, answered, vadVars>>

Next ==
    /\ call # "panicked"
    /\ \/ Reset \/ SendAudioStop
       \/ \E c \in Conns, n \in 0..3, rms \in Energy : SendAudio(c, n, rms)
       \/ Recv \/ RecvRead \/ RecvTranscript \/ RecvOther \/ RecvFails
       \/ Close \/ ShutdownClose

Spec == Init /\ [][Next]_vars

-----------------------------------------------------------------------------
(* Properties *)

Event == {"transcribe", "audio-start", "audio-chunk", "audio-stop"}

\* The types of the variables.
TypeOK ==
    /\ client \in Conns \cup {None}
    /\ {closed, audioSent, transcribeSent, shut} \subseteq BOOLEAN
    /\ call \in {"idle", "listening", "audioStop", "recv", "read", "reading", "close", "panicked"}
    /\ reading \in Conns \cup {None} /\ (reading # None <=> call = "reading")
    /\ session \in 0..MaxSessions
    /\ open \subseteq Conns /\ answered \subseteq Conns
    /\ sent \in [Conns -> Seq(Event)]
    /\ heard \in [Conns -> SUBSET (1..MaxSessions)]
    /\ vadDetector.silentFrames \in 0..MinSilenceFrames /\ ~vadDetector.speechEnded
    /\ chunks \in Seq(Energy) /\ vadDetector.framesProcessed = Len(chunks)
    /\ written \in BOOLEAN /\ resumed \subseteq Conns

\* A connection never carries the audio of two sessions, also when the device stops in
\* the middle of an utterance or a write fails (wyoming.go 236-247), so a transcript is
\* made of the words of one session.
OneSessionPerConnection ==
    \A c \in Conns : \A s, t \in heard[c] : s = t

\* When a session that got its transcript is over its connection is closed
\* (wyoming.go 184-212), although writing the last audio-stop may fail.
AnsweredConnectionsClose == call \in {"idle", "listening"} => answered \cap open = {}

\* Between two method calls the transcriber holds an open connection or none.
ClientIsOpen == client # None => client \in open

\* The events of an utterance; the driver sends audio-stop once more before it closes.
Utterance == <<"transcribe", "audio-start", "audio-chunk", "audio-stop", "audio-stop">>

PartFrom(log, first) ==
    /\ Len(log) + first <= Len(Utterance) + 1
    /\ \A i \in DOMAIN log : log[i] = Utterance[first + i - 1]

Firsts(c) == IF c \in resumed THEN 1..3 ELSE {1}

\* Speech to Text in docs/wyoming.md 328-335: a connection begins with transcribe, then come
\* audio-start, audio-chunk and audio-stop, none left out and none twice, over sessions that
\* end anywhere and writes that fail.  The connection dialled after a failed write is what
\* the code excepts: it goes on where the one before ended, because only Reset clears the
\* flags (wyoming.go 94-121, 240-242), so it may begin with audio-start or audio-chunk.
FlowKept == \A c \in Conns : \E first \in Firsts(c) : PartFrom(sent[c], first)

LastChunks == (Len(chunks) - MinSilenceFrames + 1)..Len(chunks)

\* An utterance only ends after the noise of this session was learned and then enough
\* chunks in a row were less than the threshold ratio times as loud as the first one of
\* this session (detector.go 79-145, wyoming.go 236-247): speech above that is never taken
\* for silence, whatever the session before left in the detector.
SpeechIsNotSilence ==
    call = "audioStop" =>
        /\ Len(chunks) >= LearningFrames + MinSilenceFrames
        /\ \A i \in LastChunks : chunks[i] < ThresholdFor(chunks[1])

\* While the transcriber waits for more audio, the last chunks after the noise was learned
\* were not all below the lowest threshold (detector.go 97-100, 129-132, phases.go 50): that
\* much silence ends the utterance, whatever noise floor was learned.
SilenceEndsUtterance ==
    call = "listening" /\ Len(chunks) >= LearningFrames + MinSilenceFrames =>
        \E i \in LastChunks : chunks[i] >= MinThreshold
=============================================================================
