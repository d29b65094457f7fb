---------------------------- MODULE ReplyPlayback ----------------------------
(***************************************************************************)
(* What becomes of a reply: it is synthesized, saved, served, announced to *)
(* the device, fetched and played by it, and removed when the player is    *)
(* reported idle (phases/reply.go, tts, http/server.go, controller.go),    *)
(* while the user presses the volume button of the same device             *)
(* (esphome/client.go).  The reply phase is given the HTTP server here.    *)
(*                                                                         *)
(* A file is the number of its reply.  A report of the player carries, as  *)
(* a history, the last file that began to play when it was sent.           *)
(***************************************************************************)
EXTENDS Naturals, Sequences

CONSTANTS
    MessageCap, MediaCap, CommandCap,       \* capacities of the channels
    MaxReplies, MaxPresses, MaxReports,     \* bounds: replies, presses, reports
    MaxBreaks                               \* bound: times the link is lost

ASSUME BoundAssumption ==
    /\ {MessageCap, MediaCap, CommandCap} \subseteq Nat \ {0}
    /\ {MaxReplies, MaxPresses, MaxReports, MaxBreaks} \subseteq Nat

NoFile == 0
Reader == {1, 2}    \* goroutines in handleMessages: that of the link, one of a lost link

VARIABLES
    pc, reply,              \* where the controller is, and its last reply
    files, table,           \* files on disk, Server.files
    cleanup,                \* the file the cleanup function removes
    mediaPlayerEvents, commands,
    messages,               \* the message channel of the connection
    reader,                 \* the button state a reader holds and what it read before
    buttonLastState, mediaPlayerKey,    \* fields of Client; "none", FALSE: not known
    linked, breaks,
    untold,                 \* what the device has yet to tell the connection: kinds of messages
    pressed, player,        \* the device: its button, what it plays
    url, fetching, played,  \* the file announced, being fetched, last played
    presses, reports, volumes,      \* pressed, reported, and commands queued so far
    missed, early, superseded, unserved     \* history variables, see the properties

ctrlVars == <<pc, reply, files, table, cleanup>>
clientVars == <<reader, buttonLastState, mediaPlayerKey>>
linkVars == <<messages, linked, breaks, untold>>
deviceVars == <<pressed, player, url, fetching, played, presses, reports>>
ghostVars == <<volumes, missed, early, superseded, unserved>>
vars == <<ctrlVars, mediaPlayerEvents, commands, clientVars, linkVars, deviceVars, ghostVars>>

Ready == [holds |-> "nothing", last |-> "none"]
Off == [holds |-> "off", last |-> "none"]
Crashed == [holds |-> "crashed", last |-> "none"]
Report(state) == [kind |-> "player", state |-> state, played |-> played]
Sensor(state) == [kind |-> "button", state |-> state, played |-> NoFile]
Listed == [kind |-> "listed", state |-> "none", played |-> NoFile]
\* The answers to ListEntities and SubscribeStates; the state of the player that comes with
\* them is one of DeviceReports.
Asked == {"listed", "button"}

Init ==
    /\ pc = "select" /\ reply = 0 /\ files = {} /\ table = {} /\ cleanup = NoFile
    /\ mediaPlayerEvents = <<>> /\ commands = <<>>
    /\ messages = <<>> /\ linked = TRUE /\ breaks = 0 /\ untold = Asked
    /\ reader = [i \in Reader |-> IF i = 1 THEN Ready ELSE Off]
    /\ buttonLastState = "none" /\ mediaPlayerKey = FALSE
    /\ pressed = FALSE /\ player = NoFile /\ url = NoFile /\ fetching = NoFile
    /\ played = NoFile /\ presses = 0 /\ reports = 0
    /\ volumes = 0 /\ missed = {} /\ early = {} /\ superseded = {}
    /\ unserved = {}

-----------------------------------------------------------------------------
(* The controller goroutine *)

Put(type, file) ==
    /\ Len(commands) < CommandCap
    /\ commands' = Append(commands, [type |-> type, file |-> file])

BeginReply ==
    /\ pc = "select" /\ reply < MaxReplies
    /\ reply' = reply + 1
    /\ pc' = "TTSStart"
    /\ UNCHANGED <<files, table, cleanup, mediaPlayerEvents, commands, clientVars, linkVars,
                   deviceVars, ghostVars>>

SendTTSStart ==
    /\ pc = "TTSStart"
    /\ Put("TTSStart", NoFile)
    /\ pc' = "synthesize"
    /\ UNCHANGED <<reply, files, table, cleanup, mediaPlayerEvents, clientVars, linkVars,
                   deviceVars, ghostVars>>

\* The audio of all chunks up to the end of the dialogue with Piper, or an error.
Synthesize ==
    /\ pc = "synthesize"
    /\ pc' \in {"save", "failed"}
    /\ UNCHANGED <<reply, files, table, cleanup, mediaPlayerEvents, commands, clientVars,
                   linkVars, deviceVars, ghostVars>>

\* Encoding fails without audio; otherwise the file is created, and then written.
CreateTemp ==
    /\ pc = "save"
    /\ \/ files' = files \cup {reply} /\ pc' = "write"
       \/ UNCHANGED files /\ pc' = "failed"
    /\ UNCHANGED <<reply, table, cleanup, mediaPlayerEvents, commands, clientVars, linkVars,
                   deviceVars, ghostVars>>

\* Mutant: the file stays when it cannot be written.
WriteFileLeaves ==
    /\ pc = "write"
    /\ pc' \in {"serve", "failed"}
    /\ UNCHANGED <<reply, files, table, cleanup, mediaPlayerEvents, commands, clientVars,
                   linkVars, deviceVars, ghostVars>>

WriteFile ==
    /\ pc = "write"
    /\ \/ UNCHANGED files /\ pc' = "serve"
       \/ files' = files \ {reply} /\ pc' = "failed"
    /\ UNCHANGED <<reply, table, cleanup, mediaPlayerEvents, commands, clientVars, linkVars,
                   deviceVars, ghostVars>>

\* The server is started when it was not; if that fails the file stays on disk.
ServeWAV ==
    /\ pc = "serve"
    /\ \/ table' = table \cup {reply} /\ pc' = "announce" /\ UNCHANGED unserved
       \/ unserved' = unserved \cup {reply} /\ pc' = "failed" /\ UNCHANGED table
    /\ UNCHANGED <<reply, files, cleanup, mediaPlayerEvents, commands, clientVars, linkVars,
                   deviceVars, volumes, missed, early, superseded>>

\* The cleanup function of a reply whose end was not reported yet is overwritten.
Announce ==
    /\ pc = "announce"
    /\ Put("TTSEnd", reply)
    /\ cleanup' = reply
    /\ superseded' = superseded \cup ({cleanup} \ {NoFile})
    /\ pc' = "select"
    /\ UNCHANGED <<reply, files, table, mediaPlayerEvents, clientVars, linkVars, deviceVars,
                   volumes, missed, early, unserved>>

AnnounceFailure ==
    /\ pc = "failed"
    /\ Put("TTSEnd", NoFile)
    /\ pc' = "select"
    /\ UNCHANGED <<reply, files, table, cleanup, mediaPlayerEvents, clientVars, linkVars,
                   deviceVars, ghostVars>>

IgnorePlayer ==
    /\ pc = "select" /\ mediaPlayerEvents # <<>>
    /\ Head(mediaPlayerEvents).state # "idle" \/ cleanup = NoFile
    /\ mediaPlayerEvents' = Tail(mediaPlayerEvents)
    /\ UNCHANGED <<ctrlVars, commands, clientVars, linkVars, deviceVars, ghostVars>>

\* Mutant: any report ends the reply.
AnyReportCleansUp ==
    /\ pc = "select" /\ mediaPlayerEvents # <<>> /\ cleanup # NoFile
    /\ mediaPlayerEvents' = Tail(mediaPlayerEvents)
    /\ table' = table \ {cleanup}
    /\ early' = IF Head(mediaPlayerEvents).state = "idle" /\ Head(mediaPlayerEvents).played < cleanup
                THEN early \cup {cleanup} ELSE early
    /\ pc' = "remove"
    /\ UNCHANGED <<reply, files, cleanup, commands, clientVars, linkVars, deviceVars, volumes,
                   missed, superseded, unserved>>

\* The cleanup function first takes the file from the table.
PlayerIdle ==
    /\ pc = "select" /\ mediaPlayerEvents # <<>> /\ cleanup # NoFile
    /\ Head(mediaPlayerEvents).state = "idle"
    /\ mediaPlayerEvents' = Tail(mediaPlayerEvents)
    /\ table' = table \ {cleanup}
    /\ early' = IF Head(mediaPlayerEvents).played < cleanup
                THEN early \cup {cleanup} ELSE early
    /\ pc' = "remove"
    /\ UNCHANGED <<reply, files, cleanup, commands, clientVars, linkVars, deviceVars, volumes,
                   missed, superseded, unserved>>

RemoveFile ==
    /\ pc = "remove"
    /\ files' = files \ {cleanup}
    /\ cleanup' = NoFile
    /\ pc' = "RunEnd"
    /\ UNCHANGED <<reply, table, mediaPlayerEvents, commands, clientVars, linkVars, deviceVars,
                   ghostVars>>

SendRunEnd ==
    /\ pc = "RunEnd"
    /\ Put("RunEnd", NoFile)
    /\ pc' = "select"
    /\ UNCHANGED <<reply, files, table, cleanup, mediaPlayerEvents, clientVars, linkVars,
                   deviceVars, ghostVars>>

\* The context is cancelled.
Stop ==
    /\ pc = "select"
    /\ files' = files \ {cleanup} /\ table' = table \ {cleanup}
    /\ cleanup' = NoFile
    /\ pc' = "stopped"
    /\ UNCHANGED <<reply, mediaPlayerEvents, commands, clientVars, linkVars, deviceVars,
                   ghostVars>>

-----------------------------------------------------------------------------
(* handleMessages and handleCommands of the client *)

Take(i) ==
    /\ reader[i] = Ready /\ messages # <<>>
    /\ messages' = Tail(messages)
    /\ UNCHANGED <<ctrlVars, linked, breaks, untold, deviceVars>>

HandlePlayerState(i) ==
    /\ Take(i)
    /\ Head(messages).kind = "player"
    /\ mediaPlayerEvents' = IF Len(mediaPlayerEvents) < MediaCap
                            THEN Append(mediaPlayerEvents, Head(messages))
                            ELSE mediaPlayerEvents
    /\ UNCHANGED <<commands, clientVars, ghostVars>>

HandleListed(i) ==
    /\ Take(i)
    /\ Head(messages).kind = "listed"
    /\ mediaPlayerKey' = TRUE
    /\ UNCHANGED <<mediaPlayerEvents, commands, reader, buttonLastState, ghostVars>>

\* The last state is read from a map without a lock, and written at the end.
BeginButton(i) ==
    /\ Take(i)
    /\ Head(messages).kind = "button"
    /\ reader' = [reader EXCEPT ![i] = [holds |-> Head(messages).state,
                                        last |-> buttonLastState]]
    /\ UNCHANGED <<mediaPlayerEvents, commands, buttonLastState, mediaPlayerKey, ghostVars>>

\* Two readers in that map at the same time: the runtime may end the process.
MapRace ==
    /\ \A i \in Reader : reader[i].holds \in {"pressed", "released"}
    /\ reader' = [i \in Reader |-> Crashed]
    /\ UNCHANGED <<ctrlVars, mediaPlayerEvents, commands, buttonLastState, mediaPlayerKey,
                   linkVars, deviceVars, ghostVars>>

\* Mutant: whatever is not pressed was released.
ReleasedWithoutPress(i) == reader[i].holds = "released"

Released(i) == reader[i].last = "pressed" /\ reader[i].holds = "released"

\* A release sends a volume command unless the channel is full; while the player's key is
\* not known it is not even remembered.
EndButton(i) ==
    /\ reader[i].holds \in {"pressed", "released"}
    /\ IF Released(i) /\ mediaPlayerKey /\ Len(commands) < CommandCap
       THEN Put("Volume", NoFile) /\ volumes' = volumes + 1
       ELSE UNCHANGED <<commands, volumes>>
    /\ buttonLastState' = IF Released(i) /\ ~mediaPlayerKey THEN buttonLastState
                          ELSE reader[i].holds
    /\ reader' = [reader EXCEPT ![i] = Ready]
    /\ UNCHANGED <<ctrlVars, mediaPlayerEvents, mediaPlayerKey, linkVars, deviceVars, missed,
                   early, superseded, unserved>>

\* What the device does with a command; without a link it never gets it.
HandleCommand ==
    /\ commands # <<>>
    /\ commands' = Tail(commands)
    /\ url' = IF linked /\ Head(commands).file # NoFile THEN Head(commands).file ELSE url
    /\ UNCHANGED <<ctrlVars, mediaPlayerEvents, clientVars, linkVars, pressed, player, fetching,
                   played, presses, reports, ghostVars>>

-----------------------------------------------------------------------------
(* The device *)

\* The message channel drops what does not fit.
Send(message) ==
    /\ linked
    /\ messages' = IF Len(messages) < MessageCap THEN Append(messages, message) ELSE messages
    /\ UNCHANGED <<ctrlVars, mediaPlayerEvents, commands, clientVars, linked, breaks, fetching,
                   ghostVars>>

state == IF player = NoFile THEN "idle" ELSE "playing"

Told(kind) == IF kind = "listed" THEN Listed
              ELSE Sensor(IF pressed THEN "pressed" ELSE "released")

\* The device answers a new connection in its own order, between all else that it sends.
DeviceTells(kind) ==
    /\ kind \in untold
    /\ untold' = untold \ {kind}
    /\ Send(Told(kind))
    /\ UNCHANGED <<pressed, player, url, played, presses, reports>>

\* To a new connection, and on a change of the volume.
DeviceReports ==
    /\ reports < MaxReports
    /\ reports' = reports + 1
    /\ Send(Report(state))
    /\ UNCHANGED <<untold, pressed, player, url, played, presses>>

DevicePresses ==
    /\ ~pressed /\ presses < MaxPresses
    /\ pressed' = TRUE /\ presses' = presses + 1
    /\ Send(Sensor("pressed"))
    /\ UNCHANGED <<untold, player, url, played, reports>>

DeviceReleases ==
    /\ pressed
    /\ pressed' = FALSE
    /\ Send(Sensor("released"))
    /\ UNCHANGED <<untold, player, url, played, presses, reports>>

\* GET: the handler looks the file up and then opens it.
LookUp ==
    /\ url # NoFile /\ fetching = NoFile /\ player = NoFile
    /\ url' = NoFile
    /\ IF url \in table THEN fetching' = url /\ UNCHANGED missed
                        ELSE missed' = missed \cup {url} /\ UNCHANGED fetching
    /\ UNCHANGED <<ctrlVars, mediaPlayerEvents, commands, clientVars, linkVars, pressed, player,
                   played, presses, reports, volumes, early, superseded, unserved>>

ServeFile ==
    /\ fetching # NoFile
    /\ fetching' = NoFile
    /\ IF fetching \in files
       THEN player' = fetching /\ played' = fetching /\ UNCHANGED missed
       ELSE missed' = missed \cup {fetching} /\ UNCHANGED <<player, played>>
    /\ UNCHANGED <<ctrlVars, mediaPlayerEvents, commands, clientVars, linkVars, pressed, url,
                   presses, reports, volumes, early, superseded, unserved>>

DeviceEndsPlaying ==
    /\ player # NoFile
    /\ player' = NoFile
    /\ Send(Report("idle"))
    /\ UNCHANGED <<untold, pressed, url, played, presses, reports>>

LinkBreaks ==
    /\ linked /\ breaks < MaxBreaks
    /\ linked' = FALSE /\ breaks' = breaks + 1 /\ untold' = {}
    /\ UNCHANGED <<ctrlVars, mediaPlayerEvents, commands, messages, clientVars, deviceVars,
                   ghostVars>>

\* A new connection has a message channel of its own and asks for all entities and states.
\* A goroutine that was in the middle of a message goes on with the new connection, beside
\* the one started for it.
Reconnect ==
    /\ ~linked
    /\ linked' = TRUE /\ messages' = <<>> /\ untold' = Asked
    /\ reader' = IF \E i \in Reader : reader[i].holds \in {"pressed", "released"}
                 THEN [i \in Reader |-> IF reader[i] = Off THEN Ready ELSE reader[i]]
                 ELSE reader
    /\ UNCHANGED <<ctrlVars, mediaPlayerEvents, commands, buttonLastState, mediaPlayerKey,
                   breaks, deviceVars, ghostVars>>

-----------------------------------------------------------------------------
Controller ==
    \/ BeginReply \/ SendTTSStart \/ Synthesize \/ CreateTemp \/ WriteFile \/ ServeWAV \/ Announce
    \/ AnnounceFailure \/ IgnorePlayer \/ PlayerIdle \/ RemoveFile \/ SendRunEnd \/ Stop

Client ==
    \/ \E i \in Reader : HandlePlayerState(i) \/ HandleListed(i) \/ BeginButton(i) \/ EndButton(i)
    \/ MapRace \/ HandleCommand

Device ==
    \/ \E kind \in Asked : DeviceTells(kind)
    \/ DeviceReports \/ DevicePresses \/ DeviceReleases \/ LookUp \/ ServeFile
    \/ DeviceEndsPlaying \/ LinkBreaks \/ Reconnect

Next == reader[1] # Crashed /\ (Controller \/ Client \/ Device)

Spec == Init /\ [][Next]_vars

-----------------------------------------------------------------------------
(* Properties *)

PC == {"select", "TTSStart", "synthesize", "save", "write", "serve", "announce", "failed", "remove",
       "RunEnd", "stopped"}

TypeOK ==
    /\ pc \in PC /\ reply \in 0..MaxReplies
    /\ files \subseteq 1..MaxReplies /\ table \subseteq 1..MaxReplies
    /\ {cleanup, url, fetching, played, player} \subseteq 0..MaxReplies
    /\ Len(mediaPlayerEvents) <= MediaCap /\ Len(commands) <= CommandCap
    /\ Len(messages) <= MessageCap
    /\ unserved \subseteq 1..MaxReplies /\ untold \subseteq Asked

\* The device finds an announced file (server.go 123-148, handlers.go 14-28) unless the
\* controller took a report for the end of the reply that was sent before the reply began
\* to play, however reports and replies overtake each other (controller.go 127-131).
FetchFindsFile == missed \subseteq early \/ pc = "stopped"

\* On disk are the file of the cleanup function held, the one being made, those whose
\* cleanup function was overwritten by the next reply before the player was idle (phases.go
\* 187), and those the server could not be started for (reply.go 54-59): of the failures
\* while a file is made (wav.go 160-187) none leaves it, and what stays is not served: no
\* file of the last kind is in the table, and of the table no file is missing on disk but
\* the one that is being removed.
NoOrphanFiles ==
    /\ files \subseteq superseded \cup unserved \cup {cleanup}
                       \cup (IF pc \in {"write", "serve", "announce"} THEN {reply} ELSE {})
    /\ table \subseteq files \ unserved

\* As long as one goroutine handles messages, no press gives two volume commands, also when
\* states are repeated after a reconnection, messages are lost, or a release came before
\* the player was known (client.go 320-349): that release is not remembered, and the next
\* released state, of the same press or a repeated one, counts in its place.
OneCommandPerPress == reader[2] = Off => volumes <= presses
=============================================================================
