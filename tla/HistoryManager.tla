--------------------------- MODULE HistoryManager ---------------------------
(***************************************************************************)
(* The conversation history (internal/history/manager.go): a buffer of the *)
(* last messages and a summary in memory, and a JSON file that is written  *)
(* to a temporary name and renamed.                                        *)
(*                                                                         *)
(* The controller goroutine (Main) adds messages one at a time; after      *)
(* every SummarizeEvery messages a goroutine summarizes and saves too.     *)
(* saveInternal holds the read lock only, so several savers may be in it,  *)
(* and all of them use the same temporary name; who wants the write lock   *)
(* waits for them, and lets no new reader in.  The file system is          *)
(* modelled to that point: names refer to inodes, opening truncates, an    *)
(* open file keeps its inode when the name moves.                          *)
(*                                                                         *)
(* The message added when totalCount becomes n is n; a summary is the set  *)
(* of the messages it covers.                                              *)
(***************************************************************************)
EXTENDS Naturals, Sequences

CONSTANTS
    Main,            \* the goroutine that calls AddMessage
    Summarizers,     \* bound: goroutines summarizing at the same time
    Inodes,          \* bound: files the directory and the open files refer to
    NoInode,
    WritesFail,      \* the disk may fill up
    BufferSize,      \* bufferSize
    SummarizeEvery,  \* the 10 of totalCount%10
    MaxMessages      \* bound: messages added

ASSUME MainAssumption == Main \notin Summarizers
ASSUME InodeAssumption == NoInode \notin Inodes
ASSUME FlagAssumption == WritesFail \in BOOLEAN
ASSUME SizeAssumption ==
    {BufferSize, SummarizeEvery, MaxMessages} \subseteq Nat \ {0}
\* Both are 10: a summary begins before its first message leaves the buffer.
ASSUME SummaryAssumption == SummarizeEvery <= BufferSize

Threads == {Main} \cup Summarizers

VARIABLES
    up,                             \* the process runs
    aiClient,                       \* the manager was given an LLM client
    buffer, summary, totalCount,    \* fields of ConversationManager
    pc,         \* where each goroutine is
    snap,       \* the Storage value each goroutine saves, or the prompt it sends
    fd,         \* the inode each goroutine has open for writing
    tmp, json,  \* the inodes of the two names
    content,    \* what is in each inode
    lossy       \* history variable: a summary failed, came late or was lost

memVars == <<aiClient, buffer, summary, totalCount>>
diskVars == <<tmp, json, content>>
vars == <<up, memVars, pc, snap, fd, diskVars, lossy>>

Storage(m, s, n) == [messages |-> m, summary |-> s, totalCount |-> n]
Fresh == Storage(<<>>, {}, 0)

\* File contents that are not a Storage value.
Empty == [torn |-> FALSE]
Torn == [torn |-> TRUE]
Whole(c) == c \notin {Empty, Torn}

Init ==
    /\ up = TRUE /\ aiClient \in BOOLEAN
    /\ buffer = <<>> /\ summary = {} /\ totalCount = 0
    /\ pc = [t \in Threads |-> "idle"]
    /\ snap = [t \in Threads |-> Fresh]
    /\ fd = [t \in Threads |-> NoInode]
    /\ tmp = NoInode /\ json = NoInode
    /\ content = [i \in Inodes |-> Empty]
    /\ lossy = FALSE

Goto(t, l) == pc' = [pc EXCEPT ![t] = l]

\* Mutant: save keeps its read lock until saveInternal, which takes it again, returns.
ReadersOfDeferredUnlock ==
    {t \in Threads : pc[t] \in {"write", "rename"}} \cup {s \in Summarizers : pc[s] = "save"}

\* saveInternal holds the read lock from the first to the last file operation.
Readers == {t \in Threads : pc[t] \in {"write", "rename"}}

\* A goroutine in Lock is queued behind other writers ("lock"), or the next one to write
\* ("pending"): then RLock waits too.
RLock == \A t \in Threads : pc[t] # "pending"

Announce(t) ==
    /\ up /\ pc[t] = "lock" /\ RLock
    /\ Goto(t, "pending")
    /\ UNCHANGED <<up, memVars, snap, fd, diskVars, lossy>>

Lock(t) == up /\ pc[t] = "pending" /\ Readers = {}

\* Mutant: the buffer is trimmed one message too late.
LastOfOffByOne(s, n) ==
    IF Len(s) > n + 1 THEN SubSeq(s, Len(s) - n + 1, Len(s)) ELSE s

\* The last n elements of s.
LastOf(s, n) == IF Len(s) > n THEN SubSeq(s, Len(s) - n + 1, Len(s)) ELSE s

-----------------------------------------------------------------------------
(* AddMessage *)

Triggers(n) == aiClient /\ n % SummarizeEvery = 0

\* A message leaves the buffer that a goroutine was started to summarize and did not read.
EvictsUnread == Len(buffer) = BufferSize /\ \E s \in Summarizers : pc[s] = "ready"

CallAddMessage ==
    /\ up /\ pc[Main] = "idle"
    /\ totalCount < MaxMessages
    /\ Triggers(totalCount + 1) => \E s \in Summarizers : pc[s] = "idle"
    /\ Goto(Main, "lock")
    /\ UNCHANGED <<up, memVars, snap, fd, diskVars, lossy>>

\* Mutant: the storage is taken before the message is appended.
SnapshotBeforeAppend ==
    /\ Lock(Main) /\ totalCount < MaxMessages
    /\ buffer' = LastOf(Append(buffer, totalCount + 1), BufferSize)
    /\ totalCount' = totalCount + 1
    /\ snap' = [snap EXCEPT ![Main] = Storage(buffer, summary, totalCount)]
    /\ Goto(Main, "save")
    /\ lossy' = (lossy \/ EvictsUnread)
    /\ UNCHANGED <<up, aiClient, summary, fd, diskVars>>

\* Mutant: the storage gets the count of before.
SnapshotBeforeCount ==
    /\ Lock(Main) /\ totalCount < MaxMessages
    /\ buffer' = LastOf(Append(buffer, totalCount + 1), BufferSize)
    /\ totalCount' = totalCount + 1
    /\ snap' = [snap EXCEPT ![Main] = Storage(buffer', summary, totalCount)]
    /\ Goto(Main, "save")
    /\ lossy' = (lossy \/ EvictsUnread)
    /\ UNCHANGED <<up, aiClient, summary, fd, diskVars>>

\* The part under the lock: append, trim, count, take the storage to save.
AddMessage ==
    /\ Lock(Main) /\ totalCount < MaxMessages
    /\ buffer' = LastOf(Append(buffer, totalCount + 1), BufferSize)
    /\ totalCount' = totalCount + 1
    /\ snap' = [snap EXCEPT ![Main] = Storage(buffer', summary, totalCount')]
    /\ Goto(Main, "save")
    /\ lossy' = (lossy \/ EvictsUnread)
    /\ UNCHANGED <<up, aiClient, summary, fd, diskVars>>

\* A goroutine leaves saveInternal, with or without an error, and drops what it saved;
\* AddMessage then starts the summary that is due.
LeaveSave(t) ==
    /\ snap' = [snap EXCEPT ![t] = Fresh]
    /\ IF t = Main /\ Triggers(snap[Main].totalCount)
       THEN \E s \in {x \in Summarizers : pc[x] = "idle"} :
              pc' = [pc EXCEPT ![t] = "idle", ![s] = "ready"]
       ELSE Goto(t, "idle")

-----------------------------------------------------------------------------
(* summarize *)

SummarizeRead(s) ==
    /\ up /\ pc[s] = "ready" /\ RLock
    /\ snap' = [snap EXCEPT ![s] = Storage(buffer, summary, totalCount)]
    /\ Goto(s, "chat")
    /\ UNCHANGED <<up, memVars, fd, diskVars, lossy>>

SummarizeFails(s) ==
    /\ up /\ pc[s] = "chat"
    /\ snap' = [snap EXCEPT ![s] = Fresh]
    /\ Goto(s, "idle")
    /\ lossy' = TRUE
    /\ UNCHANGED <<up, memVars, fd, diskVars>>

ChatReturns(s) ==
    /\ up /\ pc[s] = "chat"
    /\ Goto(s, "lock")
    /\ UNCHANGED <<up, memVars, snap, fd, diskVars, lossy>>

Texts(messages) == {messages[i] : i \in DOMAIN messages}

\* Mutant: the prompt leaves out the summary of before.
SummarizeForgets(s) ==
    /\ Lock(s)
    /\ summary' = Texts(snap[s].messages)
    /\ lossy' = (lossy \/ summary # snap[s].summary)
    /\ Goto(s, "snapshot")
    /\ UNCHANGED <<up, aiClient, buffer, totalCount, snap, fd, diskVars>>

\* The new summary covers what the prompt held, and replaces the summary of now, which
\* is another one if two goroutines summarized at the same time.
SummarizeDone(s) ==
    /\ Lock(s)
    /\ summary' = snap[s].summary \cup Texts(snap[s].messages)
    /\ lossy' = (lossy \/ summary # snap[s].summary)
    /\ Goto(s, "snapshot")
    /\ UNCHANGED <<up, aiClient, buffer, totalCount, snap, fd, diskVars>>

SaveSnapshot(s) ==
    /\ up /\ pc[s] = "snapshot" /\ RLock
    /\ snap' = [snap EXCEPT ![s] = Storage(buffer, summary, totalCount)]
    /\ Goto(s, "save")
    /\ UNCHANGED <<up, memVars, fd, diskVars, lossy>>

-----------------------------------------------------------------------------
(* saveInternal *)

\* The inode of a new file: any one that is free, so the model takes a fixed one.
FreeInodes ==
    LET free == Inodes \ ({tmp, json} \cup {fd[t] : t \in Threads})
    IN {i \in free : i = CHOOSE j \in free : TRUE}

\* Mutant: the final name is opened and truncated.
OpenFinal(t) ==
    /\ up /\ pc[t] = "save" /\ RLock
    /\ \E i \in IF json = NoInode THEN FreeInodes ELSE {json} :
         /\ json' = i
         /\ fd' = [fd EXCEPT ![t] = i]
         /\ content' = [content EXCEPT ![i] = Empty]
    /\ Goto(t, "write")
    /\ UNCHANGED <<up, memVars, snap, tmp, lossy>>

\* os.WriteFile opens the temporary name, creating or truncating it.
OpenTemp(t) ==
    /\ up /\ pc[t] = "save" /\ RLock
    /\ \E i \in IF tmp = NoInode THEN FreeInodes ELSE {tmp} :
         /\ tmp' = i
         /\ fd' = [fd EXCEPT ![t] = i]
         /\ content' = [content EXCEPT ![i] = Empty]
    /\ Goto(t, "write")
    /\ UNCHANGED <<up, memVars, snap, json, lossy>>

\* The text of c may be longer than that of d: not if d only adds a summary.
MayBeLonger(c, d) ==
    /\ c # Empty
    /\ c = Torn \/ c.messages # d.messages \/ c.summary \notin {{}, d.summary}

\* Writing at offset 0 over what another saver wrote leaves its tail if it was longer.
WriteTemp(t) ==
    /\ up /\ pc[t] = "write"
    /\ \E c \in IF MayBeLonger(content[fd[t]], snap[t]) THEN {snap[t], Torn} ELSE {snap[t]} :
         content' = [content EXCEPT ![fd[t]] = c]
    /\ fd' = [fd EXCEPT ![t] = NoInode]
    /\ Goto(t, "rename")
    /\ UNCHANGED <<up, memVars, snap, tmp, json, lossy>>

\* The write fails after some bytes; the error is logged and the file stays.
WriteFails(t) ==
    /\ WritesFail
    /\ up /\ pc[t] = "write"
    /\ content' = [content EXCEPT ![fd[t]] = Torn]
    /\ fd' = [fd EXCEPT ![t] = NoInode]
    /\ LeaveSave(t)
    /\ UNCHANGED <<up, memVars, tmp, json, lossy>>

\* The temporary name becomes the final one; it is gone if another saver renamed it.
Rename(t) ==
    /\ up /\ pc[t] = "rename"
    /\ json' = IF tmp = NoInode THEN json ELSE tmp
    /\ tmp' = NoInode
    /\ LeaveSave(t)
    /\ UNCHANGED <<up, memVars, fd, content, lossy>>

-----------------------------------------------------------------------------
(* The process ends anywhere, also when main returns; the files stay. *)

\* What load finds: a missing or a broken file gives an empty history.
Loaded == IF json # NoInode /\ Whole(content[json]) THEN content[json] ELSE Fresh

Crash ==
    /\ up
    /\ lossy' = \/ lossy \/ Loaded.summary # summary
                \/ \E s \in Summarizers : pc[s] # "idle"
                \/ pc[Main] \in {"save", "write", "rename"} /\ Triggers(totalCount)
    /\ up' = FALSE
    /\ buffer' = <<>> /\ summary' = {} /\ totalCount' = 0
    /\ pc' = [t \in Threads |-> "idle"]
    /\ fd' = [t \in Threads |-> NoInode]
    /\ snap' = [t \in Threads |-> Fresh]
    /\ UNCHANGED <<aiClient, diskVars>>

Restart ==
    /\ ~up
    /\ up' = TRUE
    /\ buffer' = LastOf(Loaded.messages, BufferSize)
    /\ summary' = Loaded.summary
    /\ totalCount' = Loaded.totalCount
    /\ UNCHANGED <<aiClient, pc, snap, fd, diskVars, lossy>>

-----------------------------------------------------------------------------
Save(t) == OpenTemp(t) \/ WriteTemp(t) \/ WriteFails(t) \/ Rename(t)
Summarize(s) ==
    \/ SummarizeRead(s) \/ SummarizeFails(s) \/ ChatReturns(s) \/ SummarizeDone(s)
    \/ SaveSnapshot(s)

Next ==
    \/ CallAddMessage \/ AddMessage
    \/ \E t \in Threads : Announce(t) \/ Save(t)
    \/ \E s \in Summarizers : Summarize(s)
    \/ Crash \/ Restart

Spec == Init /\ [][Next]_vars

\* Goroutines run, and Chat returns within its 60 s timeout.
FairSpec == Spec /\ WF_vars(AddMessage)
                 /\ \A t \in Threads : WF_vars(Announce(t)) /\ WF_vars(Save(t))
                 /\ \A s \in Summarizers : WF_vars(Summarize(s))

-----------------------------------------------------------------------------
(* Properties *)

StorageType ==
    [messages : Seq(1..MaxMessages), summary : SUBSET (1..MaxMessages),
     totalCount : 0..MaxMessages]

PC == {"idle", "lock", "pending", "ready", "chat", "snapshot", "save", "write", "rename"}

\* The types of the variables; the buffer never exceeds bufferSize.
TypeOK ==
    /\ up \in BOOLEAN /\ aiClient \in BOOLEAN /\ lossy \in BOOLEAN
    /\ Storage(buffer, summary, totalCount) \in StorageType /\ Len(buffer) <= BufferSize
    /\ pc \in [Threads -> PC]
    /\ snap \in [Threads -> StorageType]
    /\ fd \in [Threads -> Inodes \cup {NoInode}]
    /\ tmp \in Inodes \cup {NoInode} /\ json \in Inodes \cup {NoInode}
    /\ content \in [Inodes -> StorageType \cup {Empty, Torn}]

\* A Storage value holds the newest messages and the right count.
Consistent(s) ==
    /\ s.totalCount = 0 => s.messages = <<>>
    /\ s.totalCount # 0 =>
         /\ s.messages # <<>>
         /\ \A i \in DOMAIN s.messages :
              s.messages[i] = s.totalCount - Len(s.messages) + i
         /\ Len(s.messages) < BufferSize => Len(s.messages) = s.totalCount

\* Whatever is interleaved, saved or reloaded, memory and every whole file hold the newest
\* messages without a gap and the count that belongs to them (manager.go 78-90, 221-228).
NewestMessages ==
    /\ Consistent(Storage(buffer, summary, totalCount))
    /\ \A i \in Inodes : Whole(content[i]) => Consistent(content[i])

\* Without an LLM client a restart at any moment finds a file that parses, or none if none
\* was ever renamed, also when writes fail: the reason for writing
\* conversation_history.tmp first (manager.go 195-203).
FileWhole == ~aiClient /\ json # NoInode => Whole(content[json])

\* Without an LLM client a save stores what is in memory and never takes the file back: the
\* manager implements HistoryStore (manager.go 94, 182-206).
Store == INSTANCE HistoryStore WITH mem <- totalCount, disk <- Loaded.totalCount
DurableStore == Store!Init /\ [][~aiClient => Store!Next]_(Store!vars)

Quiet == up /\ \A t \in Threads : pc[t] = "idle"

\* After the goroutines have finished, a reload finds the messages that were added since
\* the file was there (manager_test.go 191, 199): the file parses and is not an older one.
AddedMessagesSurvive == Quiet /\ json # NoInode => Loaded.totalCount = totalCount

\* A message that left the buffer is in the summary, or in the prompt of a summary under
\* way (manager.go 78-90, 137-162), unless a summary failed, began after the message had
\* gone, overlapped with another one, or was lost with the process, also when it was only
\* due: the tenth message may be on disk before its summary begins.
EvictedAreSummarized ==
    aiClient /\ ~lossy =>
        \A n \in 1..(totalCount - Len(buffer)) :
            \/ n \in summary
            \/ \E s \in Summarizers : /\ pc[s] \in {"chat", "lock", "pending"}
                                      /\ n \in Texts(snap[s].messages)

\* Whoever calls AddMessage or summarizes gets the lock it waits for, and finishes, also
\* when readers and writers wait for one another: save gives its read lock back before
\* saveInternal takes it again (manager.go 69-92, 137-184).
SaversFinish == \A t \in Threads : pc[t] # "idle" ~> pc[t] = "idle"
=============================================================================
