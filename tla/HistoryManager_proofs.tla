------------------------ MODULE HistoryManager_proofs ------------------------
(***************************************************************************)
(* Theorems about HistoryManager, for any number of goroutines, inodes and *)
(* messages and any sizes: what memory and the files hold, and that the    *)
(* manager implements HistoryStore.                                        *)
(***************************************************************************)
EXTENDS HistoryManager, Integers, TLAPS

-----------------------------------------------------------------------------
(* The inductive invariant *)

\* Where Main is before and after it has the lock, and a goroutine whose summary is not there.
Waiting == {"idle", "lock", "pending"}
Saving == {"save", "write", "rename"}
Prompting == {"chat", "lock", "pending"}

\* What every goroutine saves holds the newest messages too.
SnapInv == \A t \in Threads : Consistent(snap[t])

\* Without an LLM client only the controller goroutine saves: the temporary name is never
\* the file, and holds what is being saved once it is written.
SaverInv ==
    ~aiClient =>
        /\ \A s \in Summarizers : pc[s] = "idle"
        /\ pc[Main] \in Waiting \cup Saving
        /\ pc[Main] # "idle" => up
        /\ pc[Main] \in Saving => snap[Main].totalCount = totalCount
        /\ tmp # NoInode => tmp # json
        /\ pc[Main] = "write" => tmp # NoInode /\ fd[Main] = tmp /\ content[tmp] = Empty
        /\ pc[Main] = "rename" => tmp # NoInode /\ content[tmp] = snap[Main]
        /\ json # NoInode => Whole(content[json])

MessagesInv == TypeOK /\ NewestMessages /\ SnapInv

IInv == MessagesInv /\ SaverInv

-----------------------------------------------------------------------------
(* Lemmas about the operators of the model *)

\* A Storage value is none of the broken contents.
LEMMA StorageIsWhole == \A c \in StorageType : Whole(c)
<1>1. SUFFICES ASSUME NEW c \in StorageType PROVE Whole(c)
  OBVIOUS
<1>2. "messages" \in DOMAIN c
  BY DEF StorageType
<1>3. "messages" \notin DOMAIN Empty /\ "messages" \notin DOMAIN Torn
  BY DEF Empty, Torn
<1> QED BY <1>2, <1>3 DEF Whole

\* LastOf keeps the type and cuts to the size.
LEMMA LastOfType ==
    ASSUME NEW S, NEW s \in Seq(S), NEW n \in Nat
    PROVE  LastOf(s, n) \in Seq(S) /\ Len(LastOf(s, n)) <= n
<1>1. CASE Len(s) > n
  <2>1. Len(s) - n + 1 \in 1..(Len(s) + 1) /\ Len(s) \in Nat
    BY <1>1
  <2> QED BY <1>1, <2>1 DEF LastOf
<1>2. CASE ~(Len(s) > n)
  BY <1>2 DEF LastOf
<1> QED BY <1>1, <1>2

\* LastOf gives the last elements, in their order.
LEMMA LastOfElements ==
    ASSUME NEW S, NEW s \in Seq(S), NEW n \in Nat
    PROVE  /\ Len(LastOf(s, n)) = IF Len(s) > n THEN n ELSE Len(s)
           /\ \A i \in 1..Len(LastOf(s, n)) :
                LastOf(s, n)[i] = s[Len(s) - Len(LastOf(s, n)) + i]
<1>1. CASE Len(s) > n
  <2>1. Len(s) \in Nat /\ Len(s) - n + 1 \in Nat
    BY <1>1
  <2>2. Len(LastOf(s, n)) = n
    BY <1>1, <2>1 DEF LastOf
  <2>3. ASSUME NEW i \in 1..n PROVE LastOf(s, n)[i] = s[Len(s) - n + i]
    BY <1>1, <2>1 DEF LastOf
  <2> QED BY <1>1, <2>2, <2>3
<1>2. CASE ~(Len(s) > n)
  BY <1>2 DEF LastOf
<1> QED BY <1>1, <1>2

LEMMA ElementType ==
    ASSUME NEW S, NEW m \in Seq(S), NEW i \in 1..Len(m)
    PROVE  m[i] \in S
OBVIOUS

\* The texts of a sequence are elements of its type.
LEMMA TextsType ==
    ASSUME NEW S, NEW m \in Seq(S)
    PROVE  Texts(m) \in SUBSET S
<1>1. \A i \in DOMAIN m : m[i] \in S
  OBVIOUS
<1> QED BY <1>1 DEF Texts

\* Fresh is an empty history.
LEMMA FreshIsStorage == Fresh \in StorageType /\ Consistent(Fresh)
BY SizeAssumption DEF Fresh, Storage, StorageType, Consistent

\* What load finds is a Storage value.
LEMMA LoadedIsStorage == TypeOK => Loaded \in StorageType
BY FreshIsStorage DEF TypeOK, Loaded, Whole

\* The inode of a new file is none that a name or a goroutine refers to.
LEMMA FreeInodesAreFree ==
    \A i \in FreeInodes : i \in Inodes /\ i # tmp /\ i # json
BY DEF FreeInodes

-----------------------------------------------------------------------------
(* Types *)

\* A goroutine that leaves saveInternal keeps the types.
LEMMA LeaveSaveTypes ==
    ASSUME TypeOK, NEW t \in Threads, LeaveSave(t)
    PROVE  pc' \in [Threads -> PC] /\ snap' \in [Threads -> StorageType]
<1>1. snap' \in [Threads -> StorageType]
  BY FreshIsStorage DEF TypeOK, LeaveSave
<1>2. pc' \in [Threads -> PC]
  BY DEF TypeOK, LeaveSave, Goto, PC, Threads
<1> QED BY <1>1, <1>2

LEMMA AddMessageTypes == TypeOK /\ AddMessage => TypeOK'
<1> SUFFICES ASSUME TypeOK, AddMessage PROVE TypeOK'
  OBVIOUS
<1>1. /\ buffer \in Seq(1..MaxMessages) /\ summary \in SUBSET (1..MaxMessages)
      /\ totalCount \in 0..MaxMessages
  BY DEF TypeOK, Storage, StorageType
<1>2. totalCount + 1 \in 1..MaxMessages
  BY <1>1, SizeAssumption DEF AddMessage
<1>3. Append(buffer, totalCount + 1) \in Seq(1..MaxMessages)
  BY <1>1, <1>2
<1>4. buffer' \in Seq(1..MaxMessages) /\ Len(buffer') <= BufferSize
  BY <1>3, LastOfType, SizeAssumption DEF AddMessage
<1>5. totalCount' \in 0..MaxMessages /\ summary' = summary
  BY <1>2 DEF AddMessage
<1>6. Storage(buffer', summary, totalCount') \in StorageType
  BY <1>1, <1>4, <1>5 DEF Storage, StorageType
<1>7. snap' \in [Threads -> StorageType]
  BY <1>6 DEF AddMessage, TypeOK
<1>8. pc' \in [Threads -> PC]
  BY DEF AddMessage, TypeOK, Goto, PC
<1>9. lossy' \in BOOLEAN
  BY DEF AddMessage, TypeOK
<1> QED BY <1>4, <1>5, <1>6, <1>7, <1>8, <1>9 DEF AddMessage, TypeOK, diskVars

\* A goroutine waits for the lock: nothing else changes.
Await == CallAddMessage \/ \E t \in Threads : Announce(t)

LEMMA AwaitChanges ==
    ASSUME TypeOK, Await
    PROVE  /\ up /\ UNCHANGED <<up, memVars, snap, fd, diskVars, lossy>>
           /\ pc' \in [Threads -> PC]
           /\ \A t \in Threads : \/ pc'[t] = pc[t]
                                 \/ t = Main /\ pc[t] = "idle" /\ pc'[t] = "lock"
                                 \/ pc[t] = "lock" /\ pc'[t] = "pending"
<1>1. CASE CallAddMessage
  BY <1>1 DEF CallAddMessage, TypeOK, PC, Goto
<1>2. ASSUME NEW t \in Threads, Announce(t)
      PROVE  /\ up /\ UNCHANGED <<up, memVars, snap, fd, diskVars, lossy>>
             /\ pc[t] = "lock" /\ pc' = [pc EXCEPT ![t] = "pending"]
  BY <1>2 DEF Announce, Goto
<1> QED BY <1>1, <1>2 DEF Await, TypeOK, PC

LEMMA AwaitTypes == TypeOK /\ Await => TypeOK'
BY AwaitChanges DEF TypeOK, memVars, diskVars

LEMMA SaveTypes == TypeOK /\ (\E t \in Threads : Save(t)) => TypeOK'
<1> SUFFICES ASSUME TypeOK, NEW t \in Threads, Save(t) PROVE TypeOK'
  OBVIOUS
<1>1. CASE OpenTemp(t)
  <2>1. PICK i \in IF tmp = NoInode THEN FreeInodes ELSE {tmp} :
          tmp' = i /\ fd' = [fd EXCEPT ![t] = i] /\ content' = [content EXCEPT ![i] = Empty]
    BY <1>1 DEF OpenTemp
  <2>2. i \in Inodes
    BY <2>1, FreeInodesAreFree DEF TypeOK
  <2> QED BY <1>1, <2>1, <2>2 DEF OpenTemp, TypeOK, PC, Goto, memVars
<1>2. CASE WriteTemp(t)
  <2>1. PICK c \in {snap[t], Torn} : content' = [content EXCEPT ![fd[t]] = c]
    BY <1>2 DEF WriteTemp
  <2>2. c \in StorageType \cup {Empty, Torn}
    BY <2>1 DEF TypeOK
  <2> QED BY <1>2, <2>1, <2>2 DEF WriteTemp, TypeOK, PC, Goto, memVars
<1>3. CASE WriteFails(t)
  <2> QED BY <1>3, LeaveSaveTypes DEF WriteFails, TypeOK, PC, memVars
<1>4. CASE Rename(t)
  <2> QED BY <1>4, LeaveSaveTypes DEF Rename, TypeOK, PC, memVars
<1> QED BY <1>1, <1>2, <1>3, <1>4 DEF Save

LEMMA SummarizeTypes == TypeOK /\ (\E s \in Summarizers : Summarize(s)) => TypeOK'
<1> SUFFICES ASSUME TypeOK, NEW s \in Summarizers, Summarize(s) PROVE TypeOK'
  OBVIOUS
<1> s \in Threads
  BY DEF Threads
<1>1. CASE SummarizeRead(s)
  BY <1>1 DEF SummarizeRead, TypeOK, PC, Goto, memVars, diskVars
<1>2. CASE SummarizeFails(s)
  BY <1>2, FreshIsStorage DEF SummarizeFails, TypeOK, PC, Goto, memVars, diskVars
<1>3. CASE SummarizeDone(s)
  <2>1. snap[s] \in StorageType
    BY DEF TypeOK
  <2>2. Texts(snap[s].messages) \in SUBSET (1..MaxMessages)
    BY <2>1, TextsType DEF StorageType
  <2>3. Storage(buffer, summary', totalCount) \in StorageType
    BY <1>3, <2>1, <2>2 DEF SummarizeDone, Storage, StorageType, TypeOK
  <2>4. lossy' \in BOOLEAN
    BY <1>3 DEF SummarizeDone, TypeOK
  <2> QED BY <1>3, <2>3, <2>4 DEF SummarizeDone, TypeOK, PC, Goto, diskVars
<1>4. CASE SaveSnapshot(s)
  BY <1>4 DEF SaveSnapshot, TypeOK, PC, Goto, memVars, diskVars
<1>5. CASE ChatReturns(s)
  BY <1>5 DEF ChatReturns, TypeOK, PC, Goto, memVars, diskVars
<1> QED BY <1>1, <1>2, <1>3, <1>4, <1>5 DEF Summarize

LEMMA CrashTypes == TypeOK /\ Crash => TypeOK'
<1> SUFFICES ASSUME TypeOK, Crash PROVE TypeOK'
  OBVIOUS
<1>1. Storage(buffer, summary, totalCount)' \in StorageType /\ Len(buffer') <= BufferSize
  BY FreshIsStorage, SizeAssumption DEF Crash, Fresh, Storage
<1>2. lossy' \in BOOLEAN
  BY DEF Crash, TypeOK
<1> QED BY <1>1, <1>2, FreshIsStorage DEF Crash, TypeOK, PC, diskVars

LEMMA RestartTypes == TypeOK /\ Restart => TypeOK'
<1> SUFFICES ASSUME TypeOK, Restart PROVE TypeOK'
  OBVIOUS
<1>1. Loaded \in StorageType
  BY LoadedIsStorage
<1>2. buffer' \in Seq(1..MaxMessages) /\ Len(buffer') <= BufferSize
  BY <1>1, LastOfType, SizeAssumption DEF Restart, StorageType
<1>3. Storage(buffer', summary', totalCount') \in StorageType
  BY <1>1, <1>2 DEF Restart, Storage, StorageType
<1> QED BY <1>2, <1>3 DEF Restart, TypeOK, diskVars

\* Memory, the goroutines and the files keep their types, and the buffer its size
\* (manager.go 17, 78-90, 221-228).
THEOREM TypeCorrect == Spec => []TypeOK
<1>1. Init => TypeOK
  <2> SUFFICES ASSUME Init PROVE TypeOK
    OBVIOUS
  <2>1. Storage(buffer, summary, totalCount) \in StorageType /\ Len(buffer) <= BufferSize
    BY FreshIsStorage, SizeAssumption DEF Init, Fresh, Storage
  <2>2. snap \in [Threads -> StorageType]
    BY FreshIsStorage DEF Init
  <2>3. pc \in [Threads -> PC]
    BY DEF Init, PC
  <2>4. /\ fd \in [Threads -> Inodes \cup {NoInode}]
        /\ content \in [Inodes -> StorageType \cup {Empty, Torn}]
    BY DEF Init
  <2> QED BY <2>1, <2>2, <2>3, <2>4 DEF Init, TypeOK
<1>2. TypeOK /\ [Next]_vars => TypeOK'
  <2> SUFFICES ASSUME TypeOK, [Next]_vars PROVE TypeOK'
    OBVIOUS
  <2>1. CASE UNCHANGED vars
    BY <2>1 DEF TypeOK, vars, memVars, diskVars
  <2> QED BY <2>1, AwaitTypes, AddMessageTypes, SaveTypes, SummarizeTypes, CrashTypes, RestartTypes
         DEF Next, Await
<1> QED BY <1>1, <1>2, PTL DEF Spec

-----------------------------------------------------------------------------
(* The newest messages *)

\* The summary is no part of it.
LEMMA ConsistentWhateverSummary ==
    ASSUME NEW b, NEW s1, NEW s2, NEW n, Consistent(Storage(b, s1, n))
    PROVE  Consistent(Storage(b, s2, n))
BY DEF Consistent, Storage

\* The last messages of a consistent value are consistent with its count.
LEMMA ConsistentLast ==
    ASSUME NEW c \in StorageType, Consistent(c), NEW s
    PROVE  Consistent(Storage(LastOf(c.messages, BufferSize), s, c.totalCount))
<1> DEFINE m == c.messages  n == c.totalCount  l == LastOf(m, BufferSize)
<1>1. m \in Seq(1..MaxMessages) /\ n \in Nat /\ Len(m) \in Nat /\ BufferSize \in Nat \ {0}
  BY SizeAssumption DEF StorageType
<1>2. /\ l \in Seq(1..MaxMessages) /\ Len(l) = IF Len(m) > BufferSize THEN BufferSize ELSE Len(m)
      /\ \A i \in 1..Len(l) : l[i] = m[Len(m) - Len(l) + i]
  BY <1>1, LastOfType, LastOfElements
<1>3. CASE n = 0
  <2>1. m = <<>>
    BY <1>3 DEF Consistent
  <2>2. l = <<>>
    BY <1>1, <2>1 DEF LastOf
  <2> QED BY <1>3, <2>2 DEF Consistent, Storage
<1>4. CASE n # 0
  <2>1. /\ m # <<>> /\ Len(m) > 0
        /\ \A i \in 1..Len(m) : m[i] = n - Len(m) + i
        /\ Len(m) < BufferSize => Len(m) = n
    BY <1>1, <1>4 DEF Consistent
  <2> HIDE DEF m, n, l
  <2>2. Len(l) \in Nat /\ Len(l) > 0 /\ l # <<>>
    BY <1>1, <1>2, <2>1
  <2>3. \A i \in 1..Len(l) : l[i] = n - Len(l) + i
    <3>1. SUFFICES ASSUME NEW i \in 1..Len(l) PROVE l[i] = n - Len(l) + i
      OBVIOUS
    <3>2. Len(m) - Len(l) + i \in 1..Len(m)
      BY <1>1, <1>2, <2>1
    <3>3. l[i] = m[Len(m) - Len(l) + i]
      BY <1>2, <3>1
    <3>4. m[Len(m) - Len(l) + i] = n - Len(m) + (Len(m) - Len(l) + i)
      BY <2>1, <3>2
    <3> QED BY <1>1, <2>2, <3>3, <3>4
  <2>4. Len(l) < BufferSize => Len(l) = n
    BY <1>1, <1>2, <2>1
  <2>5. DOMAIN l = 1..Len(l)
    BY <1>2
  <2>6. Consistent(Storage(l, s, n))
    BY <1>4, <2>2, <2>3, <2>4, <2>5 DEF Consistent, Storage
  <2> QED BY <2>6 DEF l, m, n
<1> QED BY <1>3, <1>4

\* A message that is appended has the next number.
LEMMA ConsistentAppend ==
    ASSUME NEW b \in Seq(1..MaxMessages), NEW s, NEW n \in 0..(MaxMessages - 1),
           Consistent(Storage(b, s, n)), Len(b) <= BufferSize
    PROVE  Consistent(Storage(LastOf(Append(b, n + 1), BufferSize), s, n + 1))
<1> DEFINE a == Append(b, n + 1)
<1>1. n + 1 \in 1..MaxMessages /\ Len(b) \in Nat /\ BufferSize \in Nat \ {0}
  BY SizeAssumption
<1>2. a \in Seq(1..MaxMessages) /\ Len(a) = Len(b) + 1
  BY <1>1
<1>3. \A i \in 1..Len(b) : b[i] = n - Len(b) + i
  <2>1. CASE n = 0
    BY <2>1 DEF Consistent, Storage
  <2>2. CASE n # 0
    BY <2>2 DEF Consistent, Storage
  <2> QED BY <2>1, <2>2
<1>4. \A i \in 1..Len(a) : a[i] = (n + 1) - Len(a) + i
  <2> SUFFICES ASSUME NEW i \in 1..Len(a) PROVE a[i] = (n + 1) - Len(a) + i
    OBVIOUS
  <2>1. CASE i = Len(b) + 1
    BY <1>1, <1>2, <2>1
  <2>2. CASE i # Len(b) + 1
    <3>1. i \in 1..Len(b)
      BY <1>1, <1>2, <2>2
    <3>2. a[i] = b[i]
      BY <1>1, <3>1
    <3> QED BY <1>1, <1>2, <1>3, <3>1, <3>2
  <2> QED BY <2>1, <2>2
<1>5. Len(a) < BufferSize => Len(a) = n + 1
  <2>1. CASE n = 0
    BY <1>1, <1>2, <2>1 DEF Consistent, Storage
  <2>2. CASE n # 0
    BY <1>1, <1>2, <2>2 DEF Consistent, Storage
  <2> QED BY <2>1, <2>2
<1> DEFINE c == Storage(a, {}, n + 1)
<1>6. c \in StorageType /\ c.messages = a /\ c.totalCount = n + 1
  BY <1>1, <1>2 DEF Storage, StorageType
<1>7. a # <<>> /\ DOMAIN a = 1..Len(a)
  BY <1>1, <1>2
<1>8. Consistent(c)
  <2> HIDE DEF a, c
  <2>1. n + 1 # 0 /\ c.totalCount # 0
    BY <1>1, <1>6
  <2>2. \A i \in DOMAIN c.messages :
          c.messages[i] = c.totalCount - Len(c.messages) + i
    BY <1>4, <1>6, <1>7
  <2>3. Len(c.messages) < BufferSize => Len(c.messages) = c.totalCount
    BY <1>5, <1>6
  <2> QED BY <1>6, <1>7, <2>1, <2>2, <2>3 DEF Consistent
<1>9. Consistent(Storage(LastOf(c.messages, BufferSize), s, c.totalCount))
  BY <1>6, <1>8, ConsistentLast
<1> QED BY <1>6, <1>9

LEMMA LoadedIsConsistent == MessagesInv => Loaded \in StorageType /\ Consistent(Loaded)
BY LoadedIsStorage, FreshIsStorage DEF MessagesInv, TypeOK, NewestMessages, Loaded

\* A goroutine that leaves saveInternal has nothing to save.
LEMMA LeaveSaveMessages ==
    ASSUME MessagesInv, NEW t \in Threads, LeaveSave(t)
    PROVE  SnapInv'
BY FreshIsStorage DEF MessagesInv, TypeOK, SnapInv, LeaveSave

LEMMA AwaitMessages == MessagesInv /\ Await => NewestMessages' /\ SnapInv'
BY AwaitChanges DEF MessagesInv, NewestMessages, SnapInv, memVars, diskVars

LEMMA AddMessageMessages == MessagesInv /\ AddMessage => NewestMessages' /\ SnapInv'
<1> SUFFICES ASSUME MessagesInv, AddMessage PROVE NewestMessages' /\ SnapInv'
  OBVIOUS
<1>1. /\ buffer \in Seq(1..MaxMessages) /\ Len(buffer) <= BufferSize
      /\ totalCount \in 0..(MaxMessages - 1)
      /\ Consistent(Storage(buffer, summary, totalCount))
  BY SizeAssumption DEF MessagesInv, TypeOK, NewestMessages, AddMessage, Storage, StorageType
<1>2. Consistent(Storage(buffer', summary, totalCount'))
  BY <1>1, ConsistentAppend DEF AddMessage
<1>3. NewestMessages'
  BY <1>2 DEF AddMessage, MessagesInv, NewestMessages, diskVars
<1>4. SnapInv'
  BY <1>2 DEF AddMessage, MessagesInv, TypeOK, SnapInv
<1> QED BY <1>3, <1>4

LEMMA SaveMessages ==
    MessagesInv /\ (\E t \in Threads : Save(t)) => NewestMessages' /\ SnapInv'
<1> SUFFICES ASSUME MessagesInv, NEW t \in Threads, Save(t) PROVE NewestMessages' /\ SnapInv'
  OBVIOUS
<1> USE DEF MessagesInv
<1>1. ~Whole(Empty) /\ ~Whole(Torn)
  BY DEF Whole
<1>2. CASE OpenTemp(t)
  <2>1. PICK i \in IF tmp = NoInode THEN FreeInodes ELSE {tmp} :
          content' = [content EXCEPT ![i] = Empty]
    BY <1>2 DEF OpenTemp
  <2>2. \A j \in Inodes : Whole(content'[j]) => content'[j] = content[j]
    BY <1>1, <2>1 DEF TypeOK
  <2> QED BY <1>2, <2>2 DEF OpenTemp, NewestMessages, SnapInv, memVars
<1>3. CASE WriteTemp(t)
  <2>1. PICK c \in {snap[t], Torn} : content' = [content EXCEPT ![fd[t]] = c]
    BY <1>3 DEF WriteTemp
  <2>2. \A j \in Inodes : Whole(content'[j]) => content'[j] \in {content[j], snap[t]}
    BY <1>1, <2>1 DEF TypeOK
  <2> QED BY <1>3, <2>2 DEF WriteTemp, NewestMessages, SnapInv, memVars
<1>4. CASE WriteFails(t)
  <2>1. \A j \in Inodes : Whole(content'[j]) => content'[j] = content[j]
    BY <1>1, <1>4 DEF TypeOK, WriteFails
  <2> QED BY <1>4, <2>1, LeaveSaveMessages DEF WriteFails, NewestMessages, memVars
<1>5. CASE Rename(t)
  BY <1>5, LeaveSaveMessages DEF Rename, NewestMessages, memVars
<1> QED BY <1>2, <1>3, <1>4, <1>5 DEF Save

LEMMA SummarizeMessages ==
    MessagesInv /\ (\E s \in Summarizers : Summarize(s)) => NewestMessages' /\ SnapInv'
<1> SUFFICES ASSUME MessagesInv, NEW s \in Summarizers, Summarize(s)
             PROVE  NewestMessages' /\ SnapInv'
  OBVIOUS
<1> USE DEF MessagesInv
<1>1. CASE SummarizeRead(s)
  BY <1>1 DEF SummarizeRead, TypeOK, NewestMessages, SnapInv, memVars, diskVars
<1>2. CASE SummarizeFails(s)
  BY <1>2, FreshIsStorage DEF SummarizeFails, TypeOK, NewestMessages, SnapInv, memVars, diskVars
<1>3. CASE SummarizeDone(s)
  <2>1. Consistent(Storage(buffer, summary', totalCount))
    BY ConsistentWhateverSummary DEF NewestMessages
  <2> QED BY <1>3, <2>1 DEF SummarizeDone, NewestMessages, SnapInv, diskVars
<1>4. CASE SaveSnapshot(s)
  BY <1>4 DEF SaveSnapshot, TypeOK, NewestMessages, SnapInv, memVars, diskVars
<1>5. CASE ChatReturns(s)
  BY <1>5 DEF ChatReturns, NewestMessages, SnapInv, memVars, diskVars
<1> QED BY <1>1, <1>2, <1>3, <1>4, <1>5 DEF Summarize

LEMMA CrashMessages == MessagesInv /\ Crash => NewestMessages' /\ SnapInv'
BY FreshIsStorage DEF MessagesInv, Crash, Fresh, NewestMessages, SnapInv, diskVars

LEMMA RestartMessages == MessagesInv /\ Restart => NewestMessages' /\ SnapInv'
<1> SUFFICES ASSUME MessagesInv, Restart PROVE NewestMessages' /\ SnapInv'
  OBVIOUS
<1>1. Consistent(Storage(buffer', summary', totalCount'))
  BY LoadedIsConsistent, ConsistentLast DEF Restart
<1> QED BY <1>1 DEF MessagesInv, Restart, NewestMessages, SnapInv, diskVars

\* Memory, every goroutine and every whole file hold the newest messages.
LEMMA MessagesInvariant == Spec => []MessagesInv
<1>1. Init /\ TypeOK => MessagesInv
  BY FreshIsStorage DEF Init, MessagesInv, NewestMessages, SnapInv, Fresh, Whole
<1>2. MessagesInv /\ TypeOK' /\ [Next]_vars => MessagesInv'
  <2> SUFFICES ASSUME MessagesInv, TypeOK', [Next]_vars PROVE NewestMessages' /\ SnapInv'
    BY DEF MessagesInv
  <2>1. CASE UNCHANGED vars
    BY <2>1 DEF MessagesInv, NewestMessages, SnapInv, vars, memVars, diskVars
  <2> QED BY <2>1, AwaitMessages, AddMessageMessages, SaveMessages, SummarizeMessages,
             CrashMessages, RestartMessages DEF Next, Await
<1> QED BY <1>1, <1>2, TypeCorrect, PTL DEF Spec

\* Whatever is interleaved, saved or reloaded, memory and every whole file hold the newest
\* messages without a gap and the count that belongs to them (manager.go 78-90, 221-228).
THEOREM MessagesAreTheNewest == Spec => []NewestMessages
<1>1. MessagesInv => NewestMessages
  BY DEF MessagesInv
<1> QED BY <1>1, MessagesInvariant, PTL

-----------------------------------------------------------------------------
(* Saving without an LLM client *)

\* Only Main leaves saveInternal, and it starts no summary.
LEMMA LeaveSaveAlone ==
    ASSUME TypeOK, ~aiClient, LeaveSave(Main)
    PROVE  pc' = [pc EXCEPT ![Main] = "idle"]
BY DEF LeaveSave, Triggers, Goto

\* Only Main saves.
LEMMA OnlyMainSaves ==
    ASSUME SaverInv, ~aiClient, NEW t \in Threads, Save(t)
    PROVE  t = Main
<1>1. pc[t] # "idle"
  BY DEF Save, OpenTemp, WriteTemp, WriteFails, Rename
<1> QED BY <1>1 DEF SaverInv, Threads

LEMMA AwaitSaver == IInv /\ Await => SaverInv'
<1> SUFFICES ASSUME IInv, Await, ~aiClient' PROVE SaverInv'
  BY DEF SaverInv
<1>1. /\ up /\ UNCHANGED <<up, memVars, snap, fd, diskVars, lossy>> /\ ~aiClient
      /\ \A t \in Threads : \/ pc'[t] = pc[t]
                            \/ t = Main /\ pc[t] = "idle" /\ pc'[t] = "lock"
                            \/ pc[t] = "lock" /\ pc'[t] = "pending"
  BY AwaitChanges DEF IInv, MessagesInv, memVars
<1>2. \A s \in Summarizers : s \in Threads /\ s # Main /\ pc'[s] = "idle"
  BY <1>1, MainAssumption DEF IInv, SaverInv, Threads
<1>3. /\ pc'[Main] \in Waiting \cup Saving
      /\ pc'[Main] \in Saving => pc'[Main] = pc[Main]
  BY <1>1 DEF IInv, SaverInv, Threads, Waiting, Saving
<1> QED BY <1>1, <1>2, <1>3 DEF IInv, SaverInv, Saving, memVars, diskVars

LEMMA AddMessageSaver == IInv /\ AddMessage => SaverInv'
<1> SUFFICES ASSUME IInv, AddMessage, ~aiClient PROVE SaverInv'
  BY DEF SaverInv, AddMessage
<1> USE DEF IInv, MessagesInv
<1>1. Main \in Threads
  BY DEF Threads
<1>2. snap'[Main].totalCount = totalCount'
  BY <1>1 DEF AddMessage, TypeOK, Storage
<1>3. pc'[Main] = "save" /\ \A s \in Summarizers : pc'[s] = pc[s]
  BY <1>1, MainAssumption DEF AddMessage, TypeOK, Goto, Threads
<1> QED BY <1>2, <1>3 DEF AddMessage, Lock, SaverInv, Saving, Waiting, diskVars

LEMMA SaveSaver == IInv /\ (\E t \in Threads : Save(t)) => SaverInv'
<1> SUFFICES ASSUME IInv, NEW t \in Threads, Save(t), ~aiClient PROVE SaverInv'
  BY DEF SaverInv, Save, OpenTemp, WriteTemp, WriteFails, Rename, memVars
<1> USE DEF IInv, MessagesInv
<1>1. t = Main /\ Main \in Threads
  BY OnlyMainSaves
<1>2. Main \notin Summarizers /\ NoInode \notin Inodes
  BY MainAssumption, InodeAssumption
<1>3. CASE OpenTemp(t)
  <2>1. PICK i \in IF tmp = NoInode THEN FreeInodes ELSE {tmp} :
          tmp' = i /\ fd' = [fd EXCEPT ![t] = i] /\ content' = [content EXCEPT ![i] = Empty]
    BY <1>3 DEF OpenTemp
  <2>2. i \in Inodes /\ i # json /\ i # NoInode
    BY <1>2, <2>1, FreeInodesAreFree DEF TypeOK, SaverInv
  <2>3. content'[tmp'] = Empty /\ fd'[Main] = tmp' /\ tmp' # NoInode /\ tmp' # json
    BY <1>1, <2>1, <2>2 DEF TypeOK
  <2>4. json # NoInode => content'[json] = content[json]
    BY <2>1, <2>2 DEF TypeOK
  <2>5. pc'[Main] = "write" /\ pc[Main] = "save" /\ \A s \in Summarizers : pc'[s] = pc[s]
    BY <1>1, <1>2, <1>3 DEF OpenTemp, Goto, TypeOK, Threads
  <2> QED BY <1>3, <2>3, <2>4, <2>5 DEF OpenTemp, SaverInv, Saving, Waiting, memVars
<1>4. CASE WriteTemp(t)
  <2>1. fd[t] = tmp /\ tmp # NoInode /\ content[tmp] = Empty /\ tmp \in Inodes /\ tmp # json
    BY <1>1, <1>4 DEF WriteTemp, SaverInv, Saving, TypeOK
  <2>2. content' = [content EXCEPT ![tmp] = snap[t]]
    BY <1>4, <2>1 DEF WriteTemp, MayBeLonger
  <2>3. content'[tmp] = snap[Main]
    BY <1>1, <2>1, <2>2 DEF TypeOK
  <2>4. json # NoInode => content'[json] = content[json]
    BY <2>1, <2>2 DEF TypeOK
  <2>5. pc'[Main] = "rename" /\ pc[Main] = "write" /\ \A s \in Summarizers : pc'[s] = pc[s]
    BY <1>1, <1>2, <1>4 DEF WriteTemp, Goto, TypeOK, Threads
  <2> QED BY <1>4, <2>1, <2>3, <2>4, <2>5 DEF WriteTemp, SaverInv, Saving, Waiting, memVars
<1>5. CASE WriteFails(t)
  <2>1. fd[t] = tmp /\ tmp # NoInode /\ tmp # json
    BY <1>1, <1>5 DEF WriteFails, SaverInv
  <2>2. json # NoInode => content'[json] = content[json]
    BY <1>5, <2>1 DEF WriteFails, TypeOK
  <2>3. pc'[Main] = "idle" /\ \A s \in Summarizers : pc'[s] = pc[s]
    BY <1>1, <1>2, <1>5, LeaveSaveAlone DEF WriteFails, TypeOK, Threads
  <2> QED BY <1>5, <2>1, <2>2, <2>3 DEF WriteFails, SaverInv, Saving, Waiting, memVars
<1>6. CASE Rename(t)
  <2>1. tmp # NoInode /\ content[tmp] = snap[Main] /\ snap[Main] \in StorageType
    BY <1>1, <1>6 DEF Rename, SaverInv, Saving, TypeOK
  <2>2. json' = tmp /\ tmp' = NoInode /\ content' = content
    BY <1>6, <2>1 DEF Rename
  <2>3. Whole(content'[json'])
    BY <2>1, <2>2, StorageIsWhole
  <2>4. pc'[Main] = "idle" /\ \A s \in Summarizers : pc'[s] = pc[s]
    BY <1>1, <1>2, <1>6, LeaveSaveAlone DEF Rename, TypeOK, Threads
  <2> QED BY <1>6, <2>2, <2>3, <2>4 DEF Rename, SaverInv, Saving, Waiting, memVars
<1> QED BY <1>3, <1>4, <1>5, <1>6 DEF Save

\* No summary is made.
LEMMA SummarizeSaver == IInv /\ (\E s \in Summarizers : Summarize(s)) => SaverInv'
<1> SUFFICES ASSUME IInv, NEW s \in Summarizers, Summarize(s) PROVE SaverInv'
  OBVIOUS
<1>1. pc[s] # "idle" /\ aiClient' = aiClient
  BY DEF Summarize, SummarizeRead, SummarizeFails, ChatReturns, SummarizeDone, SaveSnapshot,
         Lock, memVars
<1> QED BY <1>1 DEF IInv, SaverInv

LEMMA CrashSaver == IInv /\ Crash => SaverInv'
BY DEF IInv, SaverInv, Waiting, Saving, Crash, Threads, diskVars

LEMMA RestartSaver == IInv /\ Restart => SaverInv'
BY DEF IInv, SaverInv, Saving, Restart, Threads, diskVars

THEOREM InvariantHolds == Spec => []IInv
<1>1. Init /\ MessagesInv => IInv
  BY DEF Init, IInv, SaverInv, Waiting, Saving, Threads
<1>2. IInv /\ MessagesInv' /\ [Next]_vars => IInv'
  <2> SUFFICES ASSUME IInv, [Next]_vars PROVE SaverInv'
    BY DEF IInv
  <2>1. CASE UNCHANGED vars
    BY <2>1 DEF IInv, SaverInv, vars, memVars, diskVars
  <2> QED BY <2>1, AwaitSaver, AddMessageSaver, SaveSaver, SummarizeSaver, CrashSaver,
             RestartSaver DEF Next, Await
<1> QED BY <1>1, <1>2, MessagesInvariant, PTL DEF Spec

\* Without an LLM client a restart at any moment finds a file that parses, also when writes
\* fail: the file is only ever replaced by one that was written to its end (manager.go 195-203).
THEOREM FileIsAlwaysWhole == Spec => []FileWhole
<1>1. IInv => FileWhole
  BY DEF IInv, SaverInv, FileWhole
<1> QED BY <1>1, InvariantHolds, PTL

-----------------------------------------------------------------------------
(* The manager implements HistoryStore *)

\* What a restart would find does not depend on the temporary file.
LEMMA LoadedStays ==
    ASSUME TypeOK, json' = json, json # NoInode => content'[json] = content[json]
    PROVE  Loaded' = Loaded
BY DEF Loaded

LEMMA AddMessageStore == IInv /\ AddMessage => Store!Next
<1> SUFFICES ASSUME IInv, AddMessage PROVE Store!Next
  OBVIOUS
<1>1. Loaded' = Loaded
  BY LoadedStays DEF IInv, MessagesInv, AddMessage, diskVars
<1>2. Store!Add
  BY <1>1 DEF AddMessage, Lock, Store!Add
<1> QED BY <1>2 DEF Store!Next

LEMMA SaveStore ==
    IInv /\ ~aiClient /\ (\E t \in Threads : Save(t)) => [Store!Next]_(Store!vars)
<1> SUFFICES ASSUME IInv, ~aiClient, NEW t \in Threads, Save(t)
             PROVE  [Store!Next]_(Store!vars)
  OBVIOUS
<1> USE DEF IInv, MessagesInv
<1>1. t = Main /\ Main \in Threads /\ NoInode \notin Inodes
  BY OnlyMainSaves, InodeAssumption
<1>2. CASE OpenTemp(t)
  <2>1. PICK i \in IF tmp = NoInode THEN FreeInodes ELSE {tmp} :
          content' = [content EXCEPT ![i] = Empty]
    BY <1>2 DEF OpenTemp
  <2>2. i # json
    BY <1>1, <2>1, FreeInodesAreFree DEF SaverInv
  <2>3. Loaded' = Loaded
    BY <1>2, <2>1, <2>2, LoadedStays DEF OpenTemp, TypeOK
  <2> QED BY <1>2, <2>3 DEF OpenTemp, memVars, Store!vars
<1>3. CASE WriteTemp(t)
  <2>1. fd[t] # json
    BY <1>1, <1>3 DEF WriteTemp, SaverInv
  <2>2. Loaded' = Loaded
    BY <1>3, <2>1, LoadedStays DEF WriteTemp, TypeOK
  <2> QED BY <1>3, <2>2 DEF WriteTemp, memVars, Store!vars
<1>4. CASE WriteFails(t)
  <2>1. fd[t] # json
    BY <1>1, <1>4 DEF WriteFails, SaverInv
  <2>2. Loaded' = Loaded
    BY <1>4, <2>1, LoadedStays DEF WriteFails, TypeOK
  <2> QED BY <1>4, <2>2 DEF WriteFails, memVars, Store!vars
<1>5. CASE Rename(t)
  <2>1. tmp # NoInode /\ content[tmp] = snap[Main] /\ snap[Main].totalCount = totalCount
    BY <1>1, <1>5 DEF Rename, SaverInv, Saving
  <2>2. json' = tmp /\ content' = content /\ Whole(content[tmp])
    BY <1>1, <1>5, <2>1, StorageIsWhole DEF Rename, TypeOK
  <2>3. Loaded' = content[tmp]
    BY <2>1, <2>2 DEF Loaded
  <2>4. Store!Save
    BY <1>5, <2>1, <2>3 DEF Rename, memVars, Store!Save
  <2> QED BY <2>4 DEF Store!Next
<1> QED BY <1>2, <1>3, <1>4, <1>5 DEF Save

LEMMA CrashStore == IInv /\ Crash => Store!Next
<1> SUFFICES ASSUME IInv, Crash PROVE Store!Next
  OBVIOUS
<1>1. Loaded' = Loaded
  BY LoadedStays DEF IInv, MessagesInv, Crash, diskVars
<1>2. Store!Crash
  BY <1>1 DEF Crash, Store!Crash
<1> QED BY <1>2 DEF Store!Next

LEMMA RestartStore == IInv /\ Restart => Store!Next
<1> SUFFICES ASSUME IInv, Restart PROVE Store!Next
  OBVIOUS
<1>1. Loaded' = Loaded
  BY LoadedStays DEF IInv, MessagesInv, Restart, diskVars
<1>2. Store!Restart
  BY <1>1 DEF Restart, Store!Restart
<1> QED BY <1>2 DEF Store!Next

LEMMA StepStore == IInv /\ [Next]_vars => [~aiClient => Store!Next]_(Store!vars)
<1> SUFFICES ASSUME IInv, [Next]_vars, ~aiClient PROVE [Store!Next]_(Store!vars)
  OBVIOUS
<1>1. CASE UNCHANGED vars
  <2>1. Loaded' = Loaded
    BY <1>1, LoadedStays DEF IInv, MessagesInv, vars, diskVars
  <2> QED BY <1>1, <2>1 DEF vars, memVars, Store!vars
<1>2. CASE \E s \in Summarizers : Summarize(s)
  <2>1. PICK s \in Summarizers : pc[s] # "idle"
    BY <1>2 DEF Summarize, SummarizeRead, SummarizeFails, ChatReturns, SummarizeDone,
                SaveSnapshot, Lock
  <2> QED BY <2>1 DEF IInv, SaverInv
<1>3. CASE Await
  <2>1. UNCHANGED <<up, totalCount, json, content>>
    BY <1>3, AwaitChanges DEF IInv, MessagesInv, memVars, diskVars
  <2>2. Loaded' = Loaded
    BY <2>1, LoadedStays DEF IInv, MessagesInv
  <2> QED BY <2>1, <2>2 DEF Store!vars
<1> QED BY <1>1, <1>2, <1>3, AddMessageStore, SaveStore, CrashStore, RestartStore DEF Next, Await

\* Without an LLM client the manager implements HistoryStore: a message is durable when its
\* save ends, and the file never goes back (manager.go 94, 182-206).
THEOREM ImplementsStore == Spec => DurableStore
<1>1. Init => Store!Init
  BY DEF Init, Store!Init, Loaded, Fresh, Storage
<1> QED BY <1>1, StepStore, InvariantHolds, PTL DEF Spec, DurableStore

-----------------------------------------------------------------------------
(* What left the buffer is summarized *)

\* Main is busy with the last message it added; nothing is held while the process is down.
MainInv ==
    /\ pc[Main] \in Waiting \cup Saving
    /\ pc[Main] \in Saving => snap[Main].totalCount = totalCount
    /\ ~up => totalCount = 0 /\ \A t \in Threads : pc[t] = "idle" /\ snap[t] = Fresh

\* No file that a restart may find counts more messages than memory.
Bounded(i) ==
    i # NoInode /\ Whole(content[i]) => content[i].totalCount <= totalCount

CountInv ==
    up => /\ \A t \in Threads : snap[t].totalCount <= totalCount
          /\ Bounded(json)
          /\ (\E t \in Threads : pc[t] \in {"write", "rename"}) => Bounded(tmp)

\* A summary was started, or will be when the save ends, that has not read the buffer.
Due ==
    \/ \E s \in Summarizers : pc[s] = "ready"
    \/ pc[Main] \in Saving /\ snap[Main].totalCount % SummarizeEvery = 0

\* Message n was followed by one that starts a summary, when c messages were added.
Passed(n, c) == \E m \in n..c : m % SummarizeEvery = 0
InPrompt(n) == \E s \in Summarizers : pc[s] \in Prompting /\ n \in Texts(snap[s].messages)

Covered(n) ==
    \/ n \in summary
    \/ InPrompt(n)
    \/ Due /\ n > totalCount - Len(buffer)

\* The messages up to the last one that starts a summary are in it, or will be.
CoverInv ==
    aiClient /\ ~lossy =>
        /\ up => \A n \in 1..totalCount : Passed(n, totalCount) => Covered(n)
        /\ ~up => \A n \in 1..Loaded.totalCount :
                    Passed(n, Loaded.totalCount) => n \in Loaded.summary

\* There is a multiple of SummarizeEvery among the last SummarizeEvery numbers.
LEMMA MultipleBelow ==
    \A x \in Nat : \E m \in 0..x : m % SummarizeEvery = 0 /\ x - m < SummarizeEvery
<1> SUFFICES ASSUME NEW x \in Nat
             PROVE  \E m \in 0..x : m % SummarizeEvery = 0 /\ x - m < SummarizeEvery
  OBVIOUS
<1> DEFINE e == SummarizeEvery  q == x \div e  m == e * q
<1>1. e \in Nat \ {0}
  BY SizeAssumption
<1>2. q \in Nat /\ x = m + (x % e) /\ x % e \in 0..(e - 1)
  BY <1>1
<1>3. m % e = 0
  BY <1>1, <1>2
<1>4. m \in 0..x /\ x - m < e
  <2>1. m \in Nat
    BY <1>1, <1>2
  <2> HIDE DEF m, q, e
  <2> QED BY <1>1, <1>2, <2>1
<1> QED BY <1>3, <1>4

\* A message that is in the buffer is among its texts.
LEMMA BufferHolds ==
    ASSUME TypeOK, NewestMessages, NEW n \in 1..totalCount, n > totalCount - Len(buffer)
    PROVE  n \in Texts(buffer)
<1>1. buffer \in Seq(1..MaxMessages) /\ totalCount \in Nat /\ Len(buffer) \in Nat
  BY SizeAssumption DEF TypeOK, Storage, StorageType
<1>2. \A i \in DOMAIN buffer : buffer[i] = totalCount - Len(buffer) + i
  BY <1>1 DEF NewestMessages, Consistent, Storage
<1> DEFINE i == n - (totalCount - Len(buffer))
<1>3. Len(buffer) <= totalCount
  <2>1. CASE buffer = <<>>
    BY <1>1, <2>1
  <2>2. CASE buffer # <<>>
    <3>1. 1 \in 1..Len(buffer) /\ DOMAIN buffer = 1..Len(buffer)
      BY <1>1, <2>2
    <3> buffer[1] \in 1..MaxMessages
      BY <1>1, <3>1, ElementType
    <3>2. buffer[1] = totalCount - Len(buffer) + 1
      BY <1>2, <3>1
    <3> QED BY <1>1, <3>1, <3>2
  <2> QED BY <2>1, <2>2
<1>4. i \in 1..Len(buffer)
  BY <1>1, <1>3
<1>5. i \in DOMAIN buffer /\ buffer[i] = n
  BY <1>1, <1>2, <1>4
<1> QED BY <1>5 DEF Texts

\* A buffer that is not full holds every message.
LEMMA ShortBufferHoldsAll ==
    ASSUME TypeOK, NewestMessages, Len(buffer) # BufferSize
    PROVE  Len(buffer) = totalCount
BY SizeAssumption DEF TypeOK, NewestMessages, Consistent, Storage, StorageType

\* A goroutine that leaves saveInternal is idle with nothing to save, and at most one other
\* goroutine starts; that one is started if a summary is due.
LEMMA LeaveSaveSteps ==
    ASSUME TypeOK, NEW t \in Threads, LeaveSave(t)
    PROVE  /\ pc'[t] = "idle" /\ snap'[t] = Fresh
           /\ \A u \in Threads \ {t} : snap'[u] = snap[u]
           /\ \A u \in Threads \ {t} :
                pc'[u] = pc[u] \/ (u \in Summarizers /\ pc[u] = "idle" /\ pc'[u] = "ready")
           /\ t = Main /\ Triggers(snap[Main].totalCount)
                => \E s \in Summarizers : pc'[s] = "ready"
<1>1. snap'[t] = Fresh /\ \A u \in Threads \ {t} : snap'[u] = snap[u]
  BY DEF LeaveSave, TypeOK
<1>2. CASE t = Main /\ Triggers(snap[Main].totalCount)
  <2>1. PICK s \in Summarizers : pc[s] = "idle" /\ pc' = [pc EXCEPT ![t] = "idle", ![s] = "ready"]
    BY <1>2 DEF LeaveSave
  <2>2. s # t /\ s \in Threads /\ pc'[s] = "ready" /\ pc'[t] = "idle"
    BY <1>2, <2>1, MainAssumption DEF TypeOK, Threads
  <2>3. \A u \in Threads \ {t, s} : pc'[u] = pc[u]
    BY <2>1 DEF TypeOK
  <2> QED BY <1>1, <2>1, <2>2, <2>3
<1>3. CASE ~(t = Main /\ Triggers(snap[Main].totalCount))
  <2>1. pc' = [pc EXCEPT ![t] = "idle"]
    BY <1>3 DEF LeaveSave, Goto
  <2>2. pc'[t] = "idle" /\ \A u \in Threads \ {t} : pc'[u] = pc[u]
    BY <2>1 DEF TypeOK
  <2> QED BY <1>1, <1>3, <2>2
<1> QED BY <1>2, <1>3

LEMMA MainStep == TypeOK /\ MainInv /\ [Next]_vars => MainInv'
<1> SUFFICES ASSUME TypeOK, MainInv, [Next]_vars PROVE MainInv'
  OBVIOUS
<1> USE DEF MainInv, Waiting, Saving
<1>1. Main \in Threads /\ Main \notin Summarizers
  BY MainAssumption DEF Threads
<1>2. CASE UNCHANGED vars
  BY <1>2 DEF vars, memVars
<1>3. CASE AddMessage
  <2>1. snap'[Main].totalCount = totalCount' /\ pc'[Main] = "save"
    BY <1>1, <1>3 DEF AddMessage, TypeOK, Storage, Goto
  <2> QED BY <1>3, <2>1 DEF AddMessage, Lock
<1>4. ASSUME NEW t \in Threads, Save(t) PROVE MainInv'
  <2>1. up' = up /\ up /\ totalCount' = totalCount
    BY <1>4 DEF Save, OpenTemp, WriteTemp, WriteFails, Rename, memVars
  <2>2. CASE LeaveSave(t)
    <3>1. pc'[Main] = "idle" \/ (pc'[Main] = pc[Main] /\ snap'[Main] = snap[Main])
      BY <1>1, <2>2, LeaveSaveSteps
    <3> QED BY <2>1, <3>1
  <2>3. CASE ~LeaveSave(t)
    <3>1. OpenTemp(t) \/ WriteTemp(t)
      BY <1>4, <2>3 DEF Save, WriteFails, Rename
    <3>2. snap' = snap
      BY <3>1 DEF OpenTemp, WriteTemp
    <3>3. \/ t # Main /\ pc'[Main] = pc[Main]
          \/ pc[Main] \in Saving /\ pc'[Main] \in {"write", "rename"}
      BY <1>1, <3>1 DEF OpenTemp, WriteTemp, Goto, TypeOK
    <3> QED BY <2>1, <3>2, <3>3
  <2> QED BY <2>2, <2>3
<1>5. ASSUME NEW s \in Summarizers, Summarize(s) PROVE MainInv'
  <2>1. up /\ up' /\ totalCount' = totalCount
    BY <1>5 DEF Summarize, SummarizeRead, SummarizeFails, ChatReturns,
       SummarizeDone, SaveSnapshot, Lock, memVars
  <2>2. pc'[Main] = pc[Main]
    BY <1>1, <1>5 DEF Summarize, SummarizeRead, SummarizeFails, ChatReturns,
       SummarizeDone, SaveSnapshot,
                      Goto, TypeOK
  <2>3. snap'[Main] = snap[Main]
    BY <1>1, <1>5 DEF Summarize, SummarizeRead, SummarizeFails, ChatReturns,
       SummarizeDone, SaveSnapshot,
                      TypeOK
  <2> QED BY <2>1, <2>2, <2>3
<1>6. CASE Crash
  BY <1>1, <1>6 DEF Crash
<1>7. CASE Restart
  BY <1>1, <1>7 DEF Restart
<1>8. CASE Await
  <2>1. /\ up /\ up' = up /\ totalCount' = totalCount /\ snap' = snap
        /\ \/ pc'[Main] = pc[Main] \/ pc'[Main] \in {"lock", "pending"}
    BY <1>1, <1>8, AwaitChanges DEF memVars
  <2> QED BY <2>1
<1> QED BY <1>2, <1>3, <1>4, <1>5, <1>6, <1>7, <1>8 DEF Next, Await

LEMMA CountStep == TypeOK /\ MainInv /\ CountInv /\ [Next]_vars => CountInv'
<1> SUFFICES ASSUME TypeOK, MainInv, CountInv, [Next]_vars, up' PROVE CountInv'
  BY DEF CountInv
<1>1. totalCount \in Nat /\ \A t \in Threads : snap[t].totalCount \in Nat
  BY SizeAssumption DEF TypeOK, Storage, StorageType
<1>2. Fresh.totalCount = 0 /\ ~Whole(Empty) /\ ~Whole(Torn) /\ NoInode \notin Inodes
  BY InodeAssumption DEF Fresh, Storage, Whole
<1>3. CASE UNCHANGED vars
  BY <1>3 DEF CountInv, Bounded, vars, memVars, diskVars
<1>4. CASE AddMessage
  <2>1. totalCount' = totalCount + 1 /\ up /\ UNCHANGED diskVars
    BY <1>4 DEF AddMessage, Lock
  <2>2. \A t \in Threads : snap'[t].totalCount <= totalCount'
    BY <1>1, <1>4, <2>1 DEF AddMessage, CountInv, TypeOK, Storage
  <2>3. Bounded(json)'
    <3>1. SUFFICES ASSUME json # NoInode, Whole(content[json])
                   PROVE  content[json].totalCount <= totalCount + 1
      BY <2>1 DEF Bounded, diskVars
    <3>2. content[json] \in StorageType /\ content[json].totalCount <= totalCount
      BY <2>1, <3>1 DEF CountInv, Bounded, TypeOK, Whole
    <3>3. content[json].totalCount \in Nat
      BY <3>2, SizeAssumption DEF StorageType
    <3> QED BY <1>1, <3>2, <3>3
  <2>4. \A t \in Threads : pc'[t] \notin {"write", "rename"}
    BY <1>4 DEF AddMessage, Lock, Readers, Goto, TypeOK
  <2> QED BY <2>2, <2>3, <2>4 DEF CountInv
<1>5. ASSUME NEW t \in Threads, Save(t) PROVE CountInv'
  <2>1. up /\ totalCount' = totalCount
    BY <1>5 DEF Save, OpenTemp, WriteTemp, WriteFails, Rename, memVars
  <2>2. \A u \in Threads : snap'[u].totalCount <= totalCount'
    <3>1. CASE LeaveSave(t)
      BY <1>1, <1>2, <2>1, <3>1, LeaveSaveSteps DEF CountInv
    <3>2. CASE snap' = snap
      BY <2>1, <3>2 DEF CountInv
    <3> QED BY <1>5, <3>1, <3>2 DEF Save, OpenTemp, WriteTemp, WriteFails, Rename
  <2>3. CASE OpenTemp(t)
    <3>1. PICK i \in IF tmp = NoInode THEN FreeInodes ELSE {tmp} :
            tmp' = i /\ content' = [content EXCEPT ![i] = Empty]
      BY <2>3 DEF OpenTemp
    <3>2. i \in Inodes /\ json' = json
      BY <2>3, <3>1, FreeInodesAreFree DEF TypeOK, OpenTemp
    <3>3. Bounded(json)' /\ Bounded(tmp)'
      BY <1>2, <2>1, <3>1, <3>2 DEF CountInv, Bounded, TypeOK
    <3> QED BY <2>2, <3>3 DEF CountInv
  <2>4. CASE WriteTemp(t)
    <3>1. PICK c \in {snap[t], Torn} : content' = [content EXCEPT ![fd[t]] = c]
      BY <2>4 DEF WriteTemp
    <3>2. Whole(c) => c.totalCount <= totalCount
      BY <1>2, <2>1, <3>1 DEF CountInv
    <3>3. Bounded(json)' /\ Bounded(tmp)'
      BY <1>2, <2>1, <2>4, <3>1, <3>2 DEF CountInv, Bounded, TypeOK, WriteTemp
    <3> QED BY <2>2, <3>3 DEF CountInv
  <2>5. CASE WriteFails(t)
    <3>1. Bounded(json)' /\ Bounded(tmp)'
      BY <1>2, <2>1, <2>5 DEF CountInv, Bounded, TypeOK, WriteFails
    <3> QED BY <2>2, <3>1 DEF CountInv
  <2>6. CASE Rename(t)
    <3>1. Bounded(json)' /\ tmp' = NoInode
      BY <2>1, <2>6 DEF CountInv, Bounded, Rename
    <3> QED BY <2>2, <3>1 DEF CountInv, Bounded
  <2> QED BY <1>5, <2>3, <2>4, <2>5, <2>6 DEF Save
<1>6. ASSUME NEW s \in Summarizers, Summarize(s) PROVE CountInv'
  <2>1. up /\ totalCount' = totalCount /\ UNCHANGED diskVars /\ s \in Threads
    BY <1>6 DEF Summarize, SummarizeRead, SummarizeFails, ChatReturns,
       SummarizeDone, SaveSnapshot, Lock, memVars, Threads
  <2>2. \A u \in Threads : snap'[u].totalCount <= totalCount'
    BY <1>1, <1>2, <1>6, <2>1 DEF Summarize, SummarizeRead, SummarizeFails, ChatReturns,
       SummarizeDone, SaveSnapshot, CountInv, TypeOK, Storage
  <2>3. \A u \in Threads : pc'[u] \in {"write", "rename"} => pc[u] \in {"write", "rename"}
    BY <1>6 DEF Summarize, SummarizeRead, SummarizeFails, ChatReturns,
       SummarizeDone, SaveSnapshot, Goto, TypeOK
  <2> QED BY <2>1, <2>2, <2>3 DEF CountInv, Bounded, diskVars
<1>7. CASE Restart
  <2>1. /\ totalCount' = Loaded.totalCount /\ totalCount' \in Nat
        /\ UNCHANGED diskVars /\ snap' = snap /\ pc' = pc /\ ~up
    BY <1>7, LoadedIsStorage DEF Restart, StorageType
  <2>2. Bounded(json)'
    BY <2>1 DEF Bounded, Loaded, diskVars, TypeOK, StorageType
  <2> QED BY <1>2, <2>1, <2>2 DEF CountInv, MainInv
<1>8. CASE Await
  <2>1. /\ up /\ totalCount' = totalCount /\ snap' = snap /\ UNCHANGED diskVars
        /\ \A u \in Threads : pc'[u] \in {"write", "rename"} => pc[u] \in {"write", "rename"}
    BY <1>8, AwaitChanges DEF memVars
  <2> QED BY <2>1 DEF CountInv, Bounded, diskVars
<1> QED BY <1>3, <1>4, <1>5, <1>6, <1>7, <1>8 DEF Next, Crash, Await

\* The strengthened invariant of EvictedAreSummarized.
EvictInv == MessagesInv /\ MainInv /\ CountInv /\ CoverInv

\* A step that keeps the memory, the prompts and what is due keeps what is covered.
LEMMA CoveredStays ==
    ASSUME CoverInv, up, up', UNCHANGED <<aiClient, buffer, totalCount>>, lossy => lossy',
           summary \subseteq summary',
           \A n \in 1..totalCount : InPrompt(n) => InPrompt(n)' \/ n \in summary',
           aiClient /\ ~lossy /\ Due =>
              Due' \/ \A n \in 1..totalCount : n > totalCount - Len(buffer) => InPrompt(n)'
    PROVE  CoverInv'
<1> SUFFICES ASSUME aiClient, ~lossy', NEW n \in 1..totalCount, Passed(n, totalCount)
             PROVE  n \in summary' \/ InPrompt(n)' \/ (Due' /\ n > totalCount - Len(buffer))
  BY DEF CoverInv, Covered, Passed
<1>1. Covered(n)
  BY DEF CoverInv
<1> QED BY <1>1 DEF Covered

LEMMA AwaitCovers == EvictInv /\ Await => CoverInv'
<1> SUFFICES ASSUME EvictInv, Await PROVE CoverInv'
  OBVIOUS
<1> USE DEF EvictInv, MessagesInv, Saving, Prompting
<1>1. /\ up /\ up' /\ UNCHANGED <<memVars, snap, lossy>>
      /\ \A t \in Threads : \/ pc'[t] = pc[t]
                            \/ t = Main /\ pc[t] = "idle" /\ pc'[t] = "lock"
                            \/ pc[t] = "lock" /\ pc'[t] = "pending"
  BY AwaitChanges
<1>2. \A s \in Summarizers : s \in Threads /\ s # Main
  BY MainAssumption DEF Threads
<1>3. \A n : InPrompt(n) => InPrompt(n)'
  BY <1>1, <1>2 DEF InPrompt
<1>4. Due => Due'
  BY <1>1, <1>2 DEF Due, Threads
<1> QED BY <1>1, <1>3, <1>4, CoveredStays DEF memVars

LEMMA AddMessageCovers == EvictInv /\ AddMessage => CoverInv'
<1> SUFFICES ASSUME EvictInv, AddMessage, aiClient, ~lossy', NEW n \in 1..totalCount',
                    Passed(n, totalCount')
             PROVE  Covered(n)'
  BY DEF AddMessage, Lock, CoverInv, Covered, Passed
<1> USE DEF EvictInv, MessagesInv, Saving, Prompting
<1>1. /\ ~lossy /\ ~EvictsUnread /\ up
      /\ totalCount' = totalCount + 1 /\ totalCount \in Nat /\ summary' = summary
      /\ buffer' = LastOf(Append(buffer, totalCount + 1), BufferSize)
      /\ Main \in Threads /\ Main \notin Summarizers
  <2>1. ~lossy /\ ~EvictsUnread
    BY DEF AddMessage
  <2>2. totalCount \in Nat
    BY SizeAssumption DEF TypeOK, Storage, StorageType
  <2> QED BY <2>1, <2>2, MainAssumption DEF AddMessage, Lock, Threads
<1>2. /\ pc'[Main] = "save" /\ \A s \in Summarizers : pc'[s] = pc[s] /\ snap'[s] = snap[s]
      /\ snap'[Main].totalCount = totalCount' /\ pc[Main] = "pending"
  BY <1>1 DEF AddMessage, Lock, Goto, TypeOK, Threads, Storage
<1>3. /\ buffer \in Seq(1..MaxMessages) /\ Len(buffer) \in Nat /\ Len(buffer) <= BufferSize
      /\ BufferSize \in Nat /\ SummarizeEvery \in Nat \ {0}
  BY SizeAssumption DEF TypeOK, Storage, StorageType
<1>4. Len(buffer') = IF Len(buffer) = BufferSize THEN BufferSize ELSE Len(buffer) + 1
  <2>1. Append(buffer, totalCount + 1) \in Seq(Nat) /\ Len(Append(buffer, totalCount + 1)) = Len(buffer) + 1
    BY <1>1, <1>3, SizeAssumption
  <2>2. Len(buffer') = IF Len(buffer) + 1 > BufferSize THEN BufferSize ELSE Len(buffer) + 1
    BY <1>1, <1>3, <2>1, LastOfElements
  <2> QED BY <1>3, <2>2
<1>5. CASE n <= totalCount /\ Passed(n, totalCount)
  <2>1. Covered(n)
    BY <1>1, <1>5 DEF CoverInv
  <2>2. CASE n \in summary
    BY <1>1, <2>2 DEF Covered
  <2>3. CASE InPrompt(n)
    BY <1>2, <2>3 DEF Covered, InPrompt
  <2>4. CASE Due /\ n > totalCount - Len(buffer)
    <3>1. PICK s \in Summarizers : pc[s] = "ready"
      BY <1>2, <2>4 DEF Due
    <3>2. Len(buffer) # BufferSize
      BY <1>1, <3>1 DEF EvictsUnread
    <3>3. n > totalCount' - Len(buffer')
      BY <1>1, <1>3, <1>4, <2>4, <3>2
    <3>4. Due'
      BY <1>2, <3>1 DEF Due
    <3> QED BY <3>3, <3>4 DEF Covered
  <2> QED BY <2>1, <2>2, <2>3, <2>4 DEF Covered
<1>6. CASE ~(n <= totalCount /\ Passed(n, totalCount))
  <2>1. PICK m \in n..totalCount' : m % SummarizeEvery = 0
    BY DEF Passed
  <2>2. totalCount' % SummarizeEvery = 0
    <3>1. CASE m = totalCount'
      BY <2>1, <3>1
    <3>2. CASE m # totalCount'
      <4>1. m \in n..totalCount
        BY <1>1, <2>1, <3>2
      <4> QED BY <1>1, <1>6, <2>1, <4>1 DEF Passed
    <3> QED BY <3>1, <3>2
  <2>3. Due'
    BY <1>2, <2>2 DEF Due
  <2>4. n > totalCount' - Len(buffer')
    <3>1. CASE Len(buffer) # BufferSize
      <4>1. Len(buffer) = totalCount
        BY <3>1, ShortBufferHoldsAll
      <4> QED BY <1>1, <1>3, <1>4, <3>1, <4>1
    <3>2. CASE Len(buffer) = BufferSize
      <4>1. PICK k \in 0..totalCount : k % SummarizeEvery = 0 /\ totalCount - k < SummarizeEvery
        BY <1>1, MultipleBelow
      <4>2. n > k
        <5>1. CASE n <= k
          <6>1. k \in n..totalCount /\ n <= totalCount
            BY <1>1, <4>1, <5>1
          <6> QED BY <1>6, <4>1, <6>1 DEF Passed
        <5> QED BY <1>1, <4>1, <5>1
      <4>3. Len(buffer') = BufferSize
        BY <1>4, <3>2
      <4> QED BY <1>1, <1>3, <3>2, <4>1, <4>2, <4>3, SummaryAssumption
    <3> QED BY <3>1, <3>2
  <2> QED BY <2>3, <2>4 DEF Covered
<1> QED BY <1>5, <1>6

LEMMA SaveCovers == EvictInv /\ (\E t \in Threads : Save(t)) => CoverInv'
<1> SUFFICES ASSUME EvictInv, NEW t \in Threads, Save(t), aiClient PROVE CoverInv'
  BY DEF CoverInv, Save, OpenTemp, WriteTemp, WriteFails, Rename, memVars
<1> USE DEF EvictInv, MessagesInv, Saving, Prompting
<1>1. /\ up /\ up' /\ UNCHANGED <<memVars, lossy>>
      /\ pc[t] \in {"save", "write", "rename"} /\ Main \in Threads /\ Main \notin Summarizers
  BY MainAssumption DEF Save, OpenTemp, WriteTemp, WriteFails, Rename, Threads
<1>2. CASE LeaveSave(t)
  <2>1. \A n : InPrompt(n) => InPrompt(n)'
    <3>1. \A s \in Summarizers : pc[s] \in Prompting => pc'[s] = pc[s] /\ snap'[s] = snap[s]
      BY <1>1, <1>2, LeaveSaveSteps DEF Threads
    <3> QED BY <3>1 DEF InPrompt
  <2>2. Due => Due'
    <3>1. CASE \E s \in Summarizers : pc[s] = "ready"
      BY <1>1, <1>2, <3>1, LeaveSaveSteps DEF Due, Threads
    <3>2. CASE pc[Main] \in Saving /\ snap[Main].totalCount % SummarizeEvery = 0
      <4>1. CASE t = Main
        BY <1>2, <3>2, <4>1, LeaveSaveSteps DEF Due, Triggers
      <4>2. CASE t # Main
        BY <1>1, <1>2, <3>2, <4>2, LeaveSaveSteps DEF Due
      <4> QED BY <4>1, <4>2
    <3> QED BY <3>1, <3>2 DEF Due
  <2> QED BY <1>1, <2>1, <2>2, CoveredStays DEF memVars
<1>3. CASE OpenTemp(t) \/ WriteTemp(t)
  <2>1. snap' = snap /\ pc'[t] \in {"write", "rename"} /\ \A u \in Threads \ {t} : pc'[u] = pc[u]
    BY <1>3 DEF OpenTemp, WriteTemp, Goto, TypeOK
  <2>2. \A n : InPrompt(n) => InPrompt(n)'
    <3>1. \A s \in Summarizers : pc[s] \in Prompting => pc'[s] = pc[s] /\ snap'[s] = snap[s]
      BY <1>1, <2>1 DEF Threads
    <3> QED BY <3>1 DEF InPrompt
  <2>3. Due => Due'
    BY <1>1, <2>1 DEF Due, Threads
  <2> QED BY <1>1, <2>2, <2>3, CoveredStays DEF memVars
<1> QED BY <1>2, <1>3 DEF Save, WriteFails, Rename

LEMMA SummarizeCovers == EvictInv /\ (\E s \in Summarizers : Summarize(s)) => CoverInv'
<1> SUFFICES ASSUME EvictInv, NEW s \in Summarizers, Summarize(s), aiClient, ~lossy'
             PROVE  CoverInv'
  BY DEF CoverInv, Summarize, SummarizeRead, SummarizeFails, ChatReturns,
       SummarizeDone, SaveSnapshot, Lock, memVars
<1> USE DEF EvictInv, MessagesInv, Saving, Prompting
<1>1. s \in Threads /\ s # Main /\ Main \in Threads
  BY MainAssumption DEF Threads
<1>2. CASE SummarizeRead(s)
  <2>1. /\ up /\ up' /\ UNCHANGED <<memVars, lossy>> /\ pc[s] = "ready" /\ pc'[s] = "chat"
        /\ snap'[s].messages = buffer
        /\ \A u \in Threads \ {s} : pc'[u] = pc[u] /\ snap'[u] = snap[u]
    BY <1>1, <1>2 DEF SummarizeRead, Goto, TypeOK, Storage
  <2>2. \A n : InPrompt(n) => InPrompt(n)'
    <3>1. \A u \in Summarizers : pc[u] \in Prompting => pc'[u] = pc[u] /\ snap'[u] = snap[u]
      BY <2>1 DEF Threads
    <3> QED BY <3>1 DEF InPrompt
  <2>3. \A n \in 1..totalCount : n > totalCount - Len(buffer) => InPrompt(n)'
    BY <2>1, BufferHolds DEF InPrompt
  <2> QED BY <2>1, <2>2, <2>3, CoveredStays DEF memVars
<1>3. CASE SummarizeFails(s)
  BY <1>3 DEF SummarizeFails
<1>4. CASE SummarizeDone(s)
  <2>1. ~lossy /\ summary = snap[s].summary
    BY <1>4 DEF SummarizeDone
  <2>2. /\ up /\ up' /\ UNCHANGED <<aiClient, buffer, totalCount, snap>>
        /\ summary' = summary \cup Texts(snap[s].messages) /\ pc[s] = "pending"
        /\ \A u \in Threads \ {s} : pc'[u] = pc[u]
    BY <1>4, <2>1 DEF SummarizeDone, Lock, Goto, TypeOK
  <2>3. \A n \in 1..totalCount : InPrompt(n) => InPrompt(n)' \/ n \in summary'
    <3> SUFFICES ASSUME NEW n \in 1..totalCount, InPrompt(n) PROVE InPrompt(n)' \/ n \in summary'
      OBVIOUS
    <3>1. PICK u \in Summarizers : pc[u] \in Prompting /\ n \in Texts(snap[u].messages)
      BY DEF InPrompt
    <3>2. CASE u = s
      BY <2>2, <3>1, <3>2
    <3>3. CASE u # s
      BY <2>2, <3>1, <3>3 DEF InPrompt, Threads
    <3> QED BY <3>2, <3>3
  <2>4. Due => Due'
    <3>1. \A u \in Summarizers : pc[u] = "ready" => pc'[u] = "ready"
      BY <2>2 DEF Threads
    <3> QED BY <1>1, <2>2, <3>1 DEF Due
  <2> QED BY <2>1, <2>2, <2>3, <2>4, CoveredStays
<1>5. CASE SaveSnapshot(s)
  <2>1. /\ up /\ up' /\ UNCHANGED <<memVars, lossy>> /\ pc[s] = "snapshot"
        /\ \A u \in Threads \ {s} : pc'[u] = pc[u] /\ snap'[u] = snap[u]
    BY <1>5 DEF SaveSnapshot, Goto, TypeOK
  <2>2. \A u \in Summarizers : pc[u] \in Prompting \cup {"ready"} => pc'[u] = pc[u] /\ snap'[u] = snap[u]
    BY <2>1 DEF Threads
  <2>3. \A n : InPrompt(n) => InPrompt(n)'
    BY <2>2 DEF InPrompt
  <2>4. Due => Due'
    BY <1>1, <2>1, <2>2 DEF Due
  <2> QED BY <2>1, <2>3, <2>4, CoveredStays DEF memVars
<1>6. CASE ChatReturns(s)
  <2>1. /\ up /\ up' /\ UNCHANGED <<memVars, lossy, snap>> /\ pc[s] = "chat" /\ pc'[s] = "lock"
        /\ \A u \in Threads \ {s} : pc'[u] = pc[u]
    BY <1>1, <1>6 DEF ChatReturns, Goto, TypeOK
  <2>2. \A n : InPrompt(n) => InPrompt(n)'
    BY <2>1 DEF InPrompt, Threads
  <2>3. Due => Due'
    BY <1>1, <2>1 DEF Due, Threads
  <2> QED BY <2>1, <2>2, <2>3, CoveredStays DEF memVars
<1> QED BY <1>2, <1>3, <1>4, <1>5, <1>6 DEF Summarize

LEMMA CrashCovers == EvictInv /\ Crash => CoverInv'
<1> SUFFICES ASSUME EvictInv, Crash PROVE CoverInv'
  OBVIOUS
<1>0. Loaded' = Loaded
  BY LoadedStays DEF EvictInv, MessagesInv, Crash, diskVars
<1> SUFFICES ASSUME aiClient, ~lossy', NEW n \in 1..Loaded.totalCount,
                    Passed(n, Loaded.totalCount)
             PROVE  n \in Loaded.summary
  BY <1>0 DEF CoverInv, Crash, Passed
<1> USE DEF EvictInv, MessagesInv, Saving, Prompting
<1>1. /\ ~lossy /\ Loaded.summary = summary /\ \A s \in Summarizers : pc[s] = "idle"
      /\ ~(pc[Main] \in Saving /\ Triggers(totalCount))
  BY DEF Crash
<1>2. up /\ totalCount \in Nat /\ Loaded.totalCount \in Nat
  BY LoadedIsStorage, SizeAssumption DEF Crash, TypeOK, Storage, StorageType
<1>3. Loaded.totalCount <= totalCount
  BY <1>2 DEF CountInv, Bounded, Loaded, Fresh, Storage
<1>4. n \in 1..totalCount /\ Passed(n, totalCount)
  <2>1. PICK m \in n..Loaded.totalCount : m % SummarizeEvery = 0
    BY DEF Passed
  <2>2. m \in n..totalCount /\ n \in 1..totalCount
    BY <1>2, <1>3, <2>1
  <2> QED BY <2>1, <2>2 DEF Passed
<1>5. Covered(n)
  BY <1>1, <1>2, <1>4 DEF CoverInv
<1>6. ~Due /\ ~InPrompt(n)
  BY <1>1 DEF Due, InPrompt, MainInv, Triggers
<1> QED BY <1>1, <1>5, <1>6 DEF Covered

LEMMA RestartCovers == EvictInv /\ Restart => CoverInv'
BY DEF EvictInv, Restart, CoverInv, Covered, Passed

LEMMA EvictInvariant == Spec => []EvictInv
<1>1. Init /\ MessagesInv => EvictInv
  <2> SUFFICES ASSUME Init, MessagesInv PROVE MainInv /\ CountInv /\ CoverInv
    BY DEF EvictInv
  <2>1. MainInv
    BY DEF Init, MainInv, Waiting, Saving, Threads
  <2>2. CountInv
    BY DEF Init, CountInv, Bounded, Fresh, Storage
  <2>3. CoverInv
    BY DEF Init, CoverInv
  <2> QED BY <2>1, <2>2, <2>3
<1>2. EvictInv /\ MessagesInv' /\ [Next]_vars => EvictInv'
  <2> SUFFICES ASSUME EvictInv, MessagesInv', [Next]_vars PROVE EvictInv'
    OBVIOUS
  <2>1. MainInv' /\ CountInv'
    BY MainStep, CountStep DEF EvictInv, MessagesInv
  <2>2. CASE UNCHANGED vars
    <3>1. CoverInv'
      BY <2>2 DEF EvictInv, CoverInv, Covered, InPrompt, Due, Loaded, vars, memVars, diskVars
    <3> QED BY <2>1, <3>1 DEF EvictInv
  <2> QED BY <2>1, <2>2, AwaitCovers, AddMessageCovers, SaveCovers, SummarizeCovers,
             CrashCovers, RestartCovers DEF Next, Await, EvictInv
<1> QED BY <1>1, <1>2, MessagesInvariant, PTL DEF Spec

\* What left the buffer is summarized, or being summarized, unless a summary was lost
\* (manager.go 78-90, 137-162); it needs that the buffer holds what one summary covers.
THEOREM EvictedAreAlwaysSummarized == Spec => []EvictedAreSummarized
<1>1. EvictInv => EvictedAreSummarized
  <2> SUFFICES ASSUME EvictInv, aiClient, ~lossy, NEW n \in 1..(totalCount - Len(buffer))
               PROVE  n \in summary \/ InPrompt(n)
    BY DEF EvictedAreSummarized, InPrompt, Prompting
  <2> USE DEF EvictInv, MessagesInv
  <2>1. /\ totalCount \in Nat /\ Len(buffer) \in Nat /\ BufferSize \in Nat
        /\ SummarizeEvery \in Nat
    BY SizeAssumption DEF TypeOK, Storage, StorageType
  <2>2. Len(buffer) = BufferSize
    BY <2>1, ShortBufferHoldsAll
  <2>3. PICK m \in 0..totalCount : m % SummarizeEvery = 0 /\ totalCount - m < SummarizeEvery
    BY <2>1, MultipleBelow
  <2>4. m \in n..totalCount /\ n \in 1..totalCount
    BY <2>1, <2>2, <2>3, SummaryAssumption
  <2>5. Passed(n, totalCount)
    BY <2>3, <2>4 DEF Passed
  <2>6. up
    BY <2>1, <2>4 DEF MainInv
  <2>7. Covered(n)
    BY <2>4, <2>5, <2>6 DEF CoverInv
  <2> QED BY <2>1, <2>7 DEF Covered
<1> QED BY <1>1, EvictInvariant, PTL
=============================================================================
