# TLA+ models of ai-assistant-driver

The driver connects an ESPHome voice satellite to speech-to-text, a language model and
speech synthesis. It is a Go program of a dozen goroutines: a controller that selects over
four channels, an ESPHome client that reconnects, HTTP handlers, summarizing goroutines and
a shutdown goroutine. The models here say what these promise each other, TLC checks them on
small instances, and TLAPS proves safety properties of the controller, the transcriber with
its detector, the ESPHome client and its transport, the history, the reply on its way to the
device, and the process as a whole, for every value of the constants.

Paths are relative to the repository. Every definition names in `PROJECT.json` (`map`) the
lines it stands for.

## The system

| Component | Source | State | Operations |
|---|---|---|---|
| Phase controller | `internal/controller`, `internal/phases` | phase, transcript, response, cleanup function, error queue | one handler per device event, audio chunk and player state; `TriggerListening` from HTTP |
| Conversation history | `internal/history` | buffer of the last messages, summary, count; a JSON file | `AddMessage`, background `summarize`, `saveInternal`, `load` |
| Speech-to-text client | `internal/stt` | connection, `closed`, `audioSent`, `transcribeSent` | `Reset`, `SendAudio`, `SendAudioStop`, `Recv`, `Close` |
| ESPHome client | `internal/esphome/client.go` | the current connection, `connected`, `closed`, channels, entity tables | `Connect`, reconnection handler, `handleMessages`, `handleCommands`, `Close` |
| ESPHome transport | `internal/esphome/esphome_client.go` | socket, message channel, pending requests | read loop, request with response, `Close` |
| Thinking phase | `internal/phases/thinking.go`, `internal/llm` | the conversation context of one question | rounds of chat and tool calls |
| Tools | `internal/tools` | the router's token, the location of the weather | one call each: router clients and status, weather, speed test |
| Reply phase and synthesis | `internal/phases/reply.go`, `internal/tts` | the files on disk | `Synthesize`, `EncodeWAV`, `SaveWAVFile`, the cleanup function |
| HTTP server | `internal/http` | table of served files | `handleListen`, `handleTTS`, `handleAudio`, `ServeWAV` |
| Start and shutdown | `cmd`, `internal/shutdown` | list of cleanup functions, `done` | the steps of `main`, `Add`, the goroutine that runs the functions |
| Voice activity detector | `internal/vad` | noise floor, counters | `ProcessAudio`, `Reset`, `SpeechEnded` |
| Wyoming protocol | `internal/wyoming` | the stream | `WriteEvent`, `ReadEvent` |
| Ollama, configuration | `internal/llm/ollama`, `internal/config` | none | requests and parsing |

How they interact:

- device → transport read loop → message channel → `handleMessages` → event, audio and
  player channels → controller. All sends but the controller's drop what does not fit.
- controller → command channel (blocking) → `handleCommands` → device. HTTP listen requests
  send on the same channel.
- controller → transcriber, language model, synthesizer: synchronous calls inside a handler,
  during which no event is received.
- controller → history: `AddMessage` saves synchronously and may start a summarizing
  goroutine that calls the model and saves again.
- thinking phase → model → tools → router, weather service: the controller goroutine waits for
  each, and two of them have no time limit.
- reply phase → file → file table → URL on the command channel → device fetches and plays →
  media player state → controller → cleanup function.
- signal → context → shutdown goroutine → `done`, which ends `main`, then the client, the
  transcriber, the server.

What is hard here: handlers that block in the middle while the device goes on; a command
channel and an error channel that may be full; state of one session that survives into the
next; two savers of one file; a crash between two file operations; a connection that breaks
between two protocol events; goroutines that outlive their connection; a report of the player that is older than the reply
it is taken for; a far end that never answers; a shutdown at any point, also during the
set-up. `PROJECT.json` lists each such place (`hazards`) with the property that watches it.

What makes the components correct:

- controller: the device sees the events of a session in order and with the texts of that
  session; the history holds one message for a session, its own; a file is removed once;
  every handler returns, a stop is honoured, a cancelled context ends the controller;
- history: memory and file hold the newest messages without a gap; the file is whole after a
  crash and never goes back in time; what leaves the buffer is in the summary;
- thinking phase: every request holds the question and the results of the tools executed for
  it, a question is answered, and a tool that fails does so for a reason;
- reply: an announced file is there when the device fetches it, no file is left behind, a press
  of the button is one command;
- formats: resampling keeps the duration and stays in 16 bits; what one end of a stream writes
  the other end reads;
- process: things are closed in their order, each once, and `main` returns;
- transcriber: one session for a connection, the protocol's order of events, connections of
  answered sessions closed;
- detector: an utterance ends after enough silence in this session, and only then;
- ESPHome client: the connection in service is read, served and subscribed; a command is sent
  once, and in order but for what several goroutines can make of it; a lost link is replaced;
  goroutines end at Close;
- transport: nothing is sent on a closed channel, only an answered connection counts as
  connected, the loss of the device is reported, Close returns.

## The modules

### `VoicePipeline`, `Controller`, `Controller_proofs`

`VoicePipeline` is what the device is promised: `STTStart`, `VADEnd`, `STTEnd(text)`,
`TTSStart`, `TTSEnd`, abandoned anywhere but between the last two, with the words of this
session or none, and one `RunEnd` for an announced audio file.

`Controller` is the `Run` goroutine. A handler is cut where another goroutine can get in: at
each blocking send on the command channel and at each call of a service; `pc` says where it
is. The channels are sequences with the capacities of `NewClient`. The device, the HTTP
requests, the consumer of commands and the shutdown functions are the environment. A text is
the number of the session it was heard in, the answer to a text has its number, and an audio
file is named after its session, which is all the properties tell apart. `session`, `said`
and `announced` are history variables that record what was sent; `Pipeline!Spec` is stated
over them. A closed event channel yields the zero event, which is Idle.

`WavServed` says whether the reply phase is given a file server. The code passes nil
(`phases.go` 171), so with `FALSE` the model panics after the first reply is saved; with
`TRUE` it is the program `reply.go` is written for, and the properties of what comes after
a reply are checked and proved for that one (and hold for the other, where it ends earlier).
`SynthesizeFails` covers the three error paths of the reply phase, which send the same command
and keep no cleanup function; what they leave on disk is followed in `ReplyPlayback`.
`ChatGivesNothing` is an outcome the `llm.Client` interface allows and `phases.go` 139
handles; the Ollama client does not produce it.

`Controller_proofs` holds the theorems, see below.

### `HistoryStore`, `HistoryManager`, `HistoryManager_proofs`

`HistoryStore` is the promise of a store: a save makes durable what is in memory at that
moment, a restart begins with the last save.

`HistoryManager` is `manager.go` down to the file operations: opening truncates, writing
fills, renaming moves a name, and an open file keeps its inode. `saveInternal` holds the read
lock, so any number of savers interleave there (`Readers`) and the write lock waits for them.
`AddMessage` and the end of `summarize` take the write lock in two steps, as Go's `RWMutex`
does: a goroutine that waits behind other writers (`lock`) becomes the pending one
(`Announce`), and from then on no new reader gets in (`RLock`); it has the lock when the readers
inside are gone (`Lock`). So readers and writers wait for one another, and it matters that `save`
gives its read lock back before `saveInternal` takes it again, which is the mutant of
`SaversFinish`.
Each goroutine has the `Storage` value it took in `snap`. `aiClient`, chosen at the start, says
whether there is a language model to summarize with; without one nothing is summarized, there
is one saver, and `FileWhole` and `DurableStore` (the refinement of `HistoryStore`) hold.
Messages are numbered, a summary is the set of messages it covers. `Crash` may come anywhere; the main goroutine also ends without
waiting for savers. A write of a shorter text over a longer one that another saver put in the
same inode leaves a tail (`MayBeLonger`). Four inodes are enough for two names and the files
three savers may have open: a new inode is only taken when the temporary name is free, and it
is a fixed one of those that are free (`FreeInodes`), because which one does not matter.

`EvictedAreSummarized` is the promise of the summary: a message that left the buffer is in it,
or in a prompt under way. The code does not keep it always, and the history variable `lossy`
is set where it does not: a summary failed (it is skipped), it began after the buffer had
moved on, two overlapped and the later one wrote over the other, or the process ended before
the new summary was on disk. The tenth message may be on disk before its summary begins, and
no restart makes up for it. Outside of these the property holds because a summary covers no
more messages than the buffer holds (`SummaryAssumption`; both are 10 in `manager.go`).

### `VadDetector`, `SttTranscriber`, `MCSttTranscriber`, `SttTranscriber_proofs`

`SttTranscriber` is `wyoming.go`, each method one step (it holds the mutex), but `Recv` three:
the mutex is given back before `t.client` is read again. A method that writes several events
may fail after any of them. `ShutdownClose` is the call of `Close` by the shutdown goroutine.
The log of a connection (`sent`) counts a run of chunks as one. Two history variables say
where a session goes on: `written`, that an event of it was written, and `resumed`, the
connections dialled when that was so, which is after a failed write only.

`FlowKept` says that a connection carries an `Utterance` from its first event on, as
`docs/wyoming.md` 328-335 asks: none left out, none twice. The exception in the formula
(`Firsts`) are the connections in `resumed`: the flags of what was sent survive a failed write,
so the next connection of the session goes on after what was written on the one before, and
may begin with `audio-start` or `audio-chunk`. The rest of the order holds for these too.
`RecvRead` has the panic of `wyoming.go` 152 as an outcome: the shutdown function may close the
transcriber after `Recv` gave the mutex back.

`VadDetector` has the operations of `detector.go` on the record of its fields. A chunk is its
energy, the root mean square the code computes from its samples, and energies are whole numbers:
the noise floor and the threshold are rounded down where the code has fractions, which keeps
every order the properties speak of. `SendAudio` gives each chunk that was written to the
detector and asks it for the end of speech, as `phases.go` 40-55 does. The properties compare
its answer with the chunks of the session (`chunks`): `SpeechIsNotSilence` is the bound the
learning gives (no chunk that ended an utterance was louder than the ratio times the first
one), `SilenceEndsUtterance` the converse below the lowest threshold. Between the two the code
decides by what it learned. The detector takes an utterance for begun when it has learned, so
silence from the start ends a session in which nobody spoke.

### `CommandWire`, `Connection`, `EspHomeClient`, `MCEspHomeClient`, `EspHomeClient_proofs`

Two abstract specifications stand on the two sides of the client.

`CommandWire` is what the controller may expect of its command channel: a command is written
once or lost, and overtakes fewer of the older ones than there are writers. With one writer
that is a lossy queue that keeps the order.

`Connection` is what the client relies on below it: messages are queued up to a capacity and
only while the connection is up, one token reports its loss, and it is closed at most once.
`EspHomeTransport` is shown to implement it for one connection, and `EspHomeClient` to use each
of its connections in this way (`ConnectionsUsed`, an instance for every connection), so what
`EspHomeClient` assumes of the transport is what the transport provides.

`EspHomeClient` is `client.go` over several connections. What holds the mutex from beginning
to end is one step. The reconnection handler (`rh`) begins as `connectToESPHome`; its
`Connect` starts a message goroutine and a command goroutine, named after the connection.
`handleMessages` reads the `esphomeClient` field without the mutex, so a goroutine that was
busy when the link broke finds nil there and panics, or the next connection, which then has
two readers; both are outcomes of the model, as is the send on the event channel that `Close`
has closed. `panicked` ends the process. `MCEspHomeClient` adds the symmetry of connections.
`CommandOrder` refines `CommandWire`: what is pending there is what lies in the channel or in
the hand of a goroutine, and the writers are the command goroutines, of which each
reconnection adds one. Pushing a button reaches the model only as a message without effect.

### `EspHomeTransport`, `EspHomeTransport_proofs`

`esphome_client.go` over one connection: the caller that dials, writes hello, registers the
response channel after that and waits; the read loop, cut where the mutex of the pending
requests and the stop channel are looked at; `Close` in its four steps; the device, which
answers hello once, and sends pings, known, unknown and garbled messages, or goes away. The
answer may come before the channel is registered, and then goes to the message channel like
any other. A ping read while `Close` has set the connection to nil panics in the read loop;
this is an outcome of the model. `Close` runs after the caller is done, because both run
under the mutex of `Client`, and never when dialling or the handshake failed.
`IsConnection` refines `Connection`, as the client sees it once `Connect` succeeded: until then
the connection is unused, the messages that came in meanwhile are there when it opens, and it is
lost when the read loop has reported so.

### `OpenWrtClient`, `ThinkingPhase`, `Driver`, `Driver_proofs`

Three modules, each of which extends the one before it, are the process from its first step to
its last.

`OpenWrtClient` is the router client. `rpc` is the request a call waits for: the first login,
the one `getDevices` makes when it still has no token, that of the status tool, the list of
devices, the sections of the status. The token is good, stale (`TokenExpires`: the router
restarted, which the client is not told) or missing, and only a missing one is fetched again.
What is parsed from an answer is an outcome: fine, failed, or one of the two panics in the
parsing (an address without a name, a wireless interface without a device).

`ThinkingPhase` puts one question after the other to the model. A request to the model is
abstracted to whether it holds the question, in the prompt or in the context, and which tool
results. After a round of tools the second request has an empty prompt (`thinking.go` 53); the
question is then only in the context, and not there either if the history was empty. This is
the exception of `ModelInformed` (`~remembered`).

`Driver` adds `main`, one step for each thing it sets up, and the shutdown manager. `Add`
appends to the list without the lock that the manager takes to copy it, so the manager may
see the list before or after, or, when the slice moves, a length with a slot that is not
written yet: calling that one ends the process (`CallGarbage`). The manager closes `done`
first, and `main` leaves then, whatever is still to be closed and whatever a tool is waiting
for. `controller` says whether the controller goroutine runs; it looks at the context between
questions only. A second signal, which Go would take the default action for, is not modelled.

### `ReplyPlayback`, `ReplyPlayback_proofs`

One reply after the other from the synthesizer to the loudspeaker: the steps of `reply.go` and
`SaveWAVFile`, and `ServeWAV`, each of which may fail, with what each leaves behind; the file table; the
commands; the device, which fetches the file of a URL, plays it and reports the state of its
player; the message channel, `handleMessages` and the media player channel, which both drop
what does not fit; and the controller, which takes any idle state of the player for the end of
the reply and runs the cleanup function. As in `Controller` with `WavServed`, the reply phase
is given the file server.

A file has the number of its reply. A report carries, as a history, the last file that began
to play when it was sent (`played`), so that the model knows when the controller takes a
report of before the reply for its end: `early` are the files removed in that way, `missed`
those the device fetched in vain, `superseded` those whose cleanup function was overwritten by
the next reply (`phases.go` 187), `unserved` those whose `ServeWAV` failed (`reply.go` 54-59);
the last two stay on disk until the end. `ServeWAV` fails when it has to start the server and
cannot (`server.go` 124-128); in the set-up of this driver `main` starts the server or ends
(`setup.go` 89-98), so there the failure is a case the code handles and `main` does not produce.

The device answers a new connection in its own order (`untold`): the list with the media
player and the state of its button come among all else that it sends, and each may be lost in
a full channel. So a release may be handled before the player is known, and is not remembered
then (`client.go` 332-335); `OneCommandPerPress` covers it: the next released state counts in its
place, and no press counts twice.

The user of the same device presses the volume button. A `Reader` is a goroutine in
`handleMessages`; after a lost link the one that was in the middle of a message meets the next,
both use the map of button states, and both may count the same release. The map is written
without a lock, so the runtime may end the process there (`Crashed`).

### `WavFile`, `WyomingFraming`, `Formats_proofs`

Pure functions. `WavFile` is `wav.go` on the values of the samples: the first channel, the
upper half of 32 bits, linear interpolation to 16000 samples per second, the sizes in the
header. The code resamples in float64, so what it computes is a set of outcomes here. A quotient that
is a whole number may come out one lower (`Quotients`): it is wrong by less than one part of
the divisor as long as there are fewer than 2^36 samples, which is more than a month of audio.
The sum of an interpolated sample may be wrong by less than one (`Interpolate`). The theorems
hold for every outcome, and say that there is one. `EncodeWAV` gets the rate from `reply.go` 45, which is 22050 whatever
rate the synthesizer announced.

`WyomingFraming` is the line, data and payload of an event in the byte stream. The code drops
data that is inline in the line (`wyoming/client.go` 123-143), which `docs/wyoming.md` 43-47
allows: an event of a service that writes it so is read without its data. What `WriteEvent`
writes has none there.

## The runs

| Run | Shows |
|---|---|
| `ctrl_served` | command order (refinement of `VoicePipeline`), faithful history, open transcriber, files removed once; two sessions, one listen request, queues of 1 and 2 |
| `ctrl_live` | handlers return, stops are honoured, shutdown ends the controller; one session, queues of 1 |
| `ctrl_listen` | violated: a listen request is granted while listening |
| `ctrl_wired` | violated: a saved reply is not served, the process panics |
| `history_savers` | crashes, full disk, two summarizing goroutines beside the controller: contents consistent, what leaves the buffer is summarized, every goroutine gets the lock it waits for and finishes; without a model the file is whole and `HistoryStore` is implemented |
| `history_stale` | violated: an older snapshot is renamed over a newer one |
| `stt_faulty` | failures anywhere, three sessions: one session for a connection, an utterance from its first event on (but after a failed write), answered connections closed, never a closed connection in hand, utterances end with silence and only then |
| `link_reconnect` | two connections: the one in service is read, served and subscribed; commands are sent once and overtake at most one other (refinement of `CommandWire`); each connection is used as `Connection` says |
| `link_live` | a lost link is replaced, goroutines end at Close |
| `transport` | one connection: no send after Close, no connection without an answer, Close returns, loss reported; `Connection` is implemented |
| `playback` | two replies that may fail at every step, reports at any time, a press that may be released before the player is known, a lost link: an announced file is found unless an old report ended the reply, no file is left but those of overwritten cleanup functions and of a failed `ServeWAV`, a press is one command |
| `driver` | set-up, questions with rounds of tools, a router that forgets or never answers, a signal at any moment: what requests hold, why the router fails, the order of closing; `main` returns and questions are answered |

The runs that find a violation check one statement of the repository's documents or tests;
`PROJECT.json` (`findings`) quotes it and says what happens in the code.

One more disagreement is not a run of its own but the exception that `FlowKept` states: after
a write that failed, the next connection of the same session may get `audio-chunk` without the
`audio-start` that `docs/wyoming.md` 331 requires.

Bounds. Two sessions are what it takes for one to leave something to the next; the channels
are as small as lets them be full. The history needs messages that leave the buffer and counts that trigger a
summary twice (buffer and count of 2, four messages); a third summarizing goroutine adds
nothing to two savers that overlap with the controller. Two connections let a goroutine of the first meet the second.
Three connections of the transcriber are one for each of three sessions, or all for one in
which writes fail. The detector's constants are as small as gives it every branch: two chunks
to learn, two to end, an update at the fourth of six, and energies below the lowest threshold,
above it, and above the threshold the middle one leads to. A message channel of two and five
messages let the channel fill up while nobody reads it. `playback` has two replies, one of
which may overtake the other, one press, one state the player reports by itself, one lost
link, which tells the state of the button a second time, and channels of one and three that
fill up; a third reply meets nothing a second does not. `driver` bounds
only the number of calls in one message of the model (two: one after the other is what the
rounds are about); the number of rounds and of questions is unbounded. Deadlock is not checked: every one of these programs ends, at the
shutdown or at the bound on what the environment sends.

Fairness. A goroutine that can run does (weak fairness); `select` picks at random among the
ready cases, so a case that is ready again and again is taken (strong fairness on the cases
that compete); in `history_savers` the steps of each goroutine are weakly fair, also the two of
taking the lock, because Go's `RWMutex` serves those who wait, and `Chat` returns within its 60
seconds; in `ctrl_live` every remote call returns. `Recv` has a time limit; that the
thinking phase ends is what `driver` checks in detail, and under which assumptions: `ToolsReturn`
(the router and the weather service answer, for those two requests have no time limit) and
`ModelAnswers` (a model that is asked again and again gives an answer at last) stand inside the
property `TurnReturns`, because nothing in the code enforces them; `MainReturns` holds without
them. In `driver` connecting may be tried for ever until the context is cancelled. `link_live` also assumes that a device which can
be reached lets an attempt to connect succeed. The commands are consumed until the client is
closed; after that a full channel blocks the controller for ever, which the properties name
(`NobodyConsumes`). Nothing is assumed about the device, the requests or the signal, and in `transport` nothing
about who reads the message channel or calls `Close` either.

## The proofs

`Controller_proofs`, for any capacities, requests and numbers of sessions, and for both values of `WavServed`; the assumptions are the named ones of `Controller` (capacities
are positive, the bound is a number, the error sentence is not a session's text).

- `TypeCorrect`: `Spec => []TypeOK`, by lemmas about channels (`TakeBounded`, `PutBounded`,
  ...) and one lemma for the fields and one for the channels.
- `InvariantHolds`: the inductive invariant `IInv`. None of the checked invariants is
  inductive: that the history is faithful depends on what transcript and response are at
  each `pc`, that the last command sent is the one `pc` says, and that the messages stored
  are of earlier sessions. `IInv` adds these: the phase at each `pc`, `said` at each `pc`,
  the text fields, which file the cleanup function owns, when the transcriber is open. It
  was checked by TLC first.
- `HistoryIsFaithful`, `AudioAlwaysReachesTranscriber`, `CleanupAlwaysOwnsFile` follow.
- `ImplementsPipeline`: `Spec => PipelineOrder`; each action maps to the event it sends or
  to a step that leaves `session`, `said` and `announced` alone.

`SttTranscriber_proofs`, for any connections, sessions, energies and detector settings (the
counts are positive, energies are naturals, `None` is not a connection):

- `InvariantHolds`: `IInv` joins `TypeOK` with three parts, none of which stands alone.
  `DetectorInv` says what the detector knows (`Knows`): its noise floor is not above the first
  chunk of the session, its silent frames are the chunks since the last loud one, each below
  the threshold the first chunk allows, and the caller listens as long as they are too few.
  `ClientInv`: the connection in hand is open, was written to and carries this session only.
  `AnsweredInv`: an answered connection is the one in hand until it is closed, so a transcript
  read while the shutdown function closes the connection changes nothing.
- The lemmas `LearnKnows`, `UpdateLowers` and `JudgeKnows` follow the branches of
  `ProcessAudio`; `ThresholdGrows` is the arithmetic they rest on.
- `TypeCorrect`, `ConnectionsCarryOneSession`, `ClientIsAlwaysOpen`,
  `AnsweredConnectionsAreClosed`, `SpeechIsNeverSilence` and `SilenceAlwaysEndsUtterance`
  follow.
- `FlowIsAlwaysKept` needs one more invariant on top (`FlowInv`): the connection in
  hand carries an utterance up to a chunk or the first `audio-stop`, and while the caller listens
  up to a chunk, with the
  flags of what comes before it set. `FirstFlow` and `ChunkFlow` are what one call writes on a
connection just dialled and on the one in hand.

`EspHomeTransport_proofs`, for any capacity and number of messages: `InvariantHolds` (whatever
shows the answer to hello implies that the device answered; `Close` begins when the caller is
done, so that no read loop starts after it waited for one; only a read loop that ended reports a
loss, and it ends silently only when `Close` has begun), and from it `TypeCorrect`,
`NeverSendsAfterClose`, `ConnectedMeansAnswered`, `EndIsAlwaysReported` (what `LossReported`
needs to hold in every state) and `ImplementsConnection` (`Spec => IsConnection`): the last
step of the caller opens the connection with what is in the channel by then, the read loop can
queue nothing after it reported the loss because it has ended.

`EspHomeClient_proofs`, for any finite number of connections, any commands and messages and any
capacities. Each invariant stands on the one before it:

- `IInv` joins the types, `LinkIsServed` and `LinkIsSubscribed` with `CommanderInv` (a goroutine
  holds a command exactly while it writes it, and only connections that were made have
  goroutines). From it `TypeCorrect`, `LinkIsAlwaysServed`, `LinkIsAlwaysSubscribed`.
- `OrderInv`: the channel is in order, every command in a hand is older than all in the channel,
  no two hands hold the same; `WrittenInv`: what was written is in neither. From them
  `EachCommandOnce` and `ImplementsWire` (`Spec => CommandOrder`). Its heart is `OlderInHand`:
  what is older than a command in a hand is in the hand of another goroutine, and the map from
  these commands to those goroutines is an injection, so there are fewer of them than writers.
- `UseInv`: the connection the client has was made, its loss is still to be learned, and none is
  closed before the client. From it `UsesConnections` (`Spec => ConnectionsUsed`) and
  `LossAlwaysWaits`, the part of `Reconnects` that holds in every state.

`HistoryManager_proofs`, for any number of goroutines, inodes and messages and any sizes with
`SummarizeEvery <= BufferSize`. Three invariants, one on top of the other:

- `MessagesInv`: memory, whole files and what every goroutine is about to save are consistent
  (`Consistent`). `ConsistentAppend` and `ConsistentLast` are about the two places that cut the
  buffer. From it `MessagesAreTheNewest`.
- `SaverInv`: without a language model the temporary name is never the file, is empty while it
  is written, and holds what Main saves when it is renamed. From it `FileIsAlwaysWhole` and
  `ImplementsStore` (`Spec => DurableStore`): the rename is the step `Store!Save`, all other
  file operations are stutters.
- `EvictInv`, for `EvictedAreAlwaysSummarized`: all messages up to the last one that starts a
  summary are in the summary, in a prompt, or in the buffer while a summary is due
  (`CoverInv`). Because the process may end at any moment, the invariant must know that no file
  a restart may find counts more messages than memory does (`CountInv`), which in turn is only
  true of the temporary file while somebody is about to rename it. `MultipleBelow` is the
  arithmetic: among the last `SummarizeEvery` numbers is a multiple.

`ReplyPlayback_proofs`, for any capacities and numbers of replies, presses, reports and lost
links: `IInv` joins the types with the order of files (`OrderInv`: played, being fetched,
announced by the device, still in the command channel, each later than the one before), what
reports may know (`ReportInv`), which files are left on disk (`OrphanInv`) and which are still in the
table (`TableInv`). From it
`NoFileIsOrphaned` and `FetchesFindFiles`, and with the capacities (`Capacities`, `FileNumbers`)
`TypeCorrect`. `OnePressOneCommand` has an invariant of its own (`ButtonInv`): some
numbers of presses made so far can be assigned (`Numbered`), one to the last state handled, one to
the state the reader holds, one to each message on its way, that do not fall along the way and
grow where a press follows a release; the commands sent are no more than the first, and fewer
while the last state is a press. Sending, taking and dropping messages keep such an assignment, and
so does the state that a reconnection repeats.

`Driver_proofs`, for any number of calls in a message and with or without an ARP table: `IInv`
says what the list of functions is at each step of `main` (`FuncsInv`) and that what was closed,
with what is still to be closed, is a beginning of the order things were added in, followed by
nothing but the slot that was not written (`ShutdownInv`); `RouterInv` that a token and every
request made with one show a login that was answered. From it `TypeCorrect`,
`ClosesInOrder`, `ModelIsInformed` and `RouterFailuresAreExplained`.

`Formats_proofs` has theorems about functions, with no run beside them, each for every
rounding of what the code computes in float64: `ResampleStaysInside`, `NoSilentTail` (for rates
that are lowered), `InterpolationFits`, `ResampledIsAudio`, `EncodedIsPlayable` (the whole file,
for every rate, 16 or 32 bits and any number of channels; it lasts as long as what was
synthesized to within one sample), and `ReadsWhatWasWritten` for every type, data, payload and
whatever follows in the stream.

Every invariant and every refinement the passing runs check is also a theorem. Only
model-checked is liveness (`HandlerReturns`, `StopHonoured`, `ShutdownStops`, `SaversFinish`,
`Reconnects`, `GoroutinesEnd`, `CloseReturns`, `LossReported`, `MainReturns`, `TurnReturns`),
which is outside the prover's reach.

## Not modelled, and the plan

Left for later:

1. Compositions: `Controller` with `SttTranscriber` (audio of one session in the next),
   `Controller` with `EspHomeClient` (what the device sees across reconnections).
2. The varint reader and the frames of the ESPHome protocol, the delays between attempts to
   connect, a second signal.

Left out for good: configuration, logging, the texts of prompts and replies, the parsing of
what the router and the public services answer (its outcomes are modelled, two panics among
them), the dialogue with Piper inside `Synthesize` and the conversion of tool descriptions,
which keep no state.
