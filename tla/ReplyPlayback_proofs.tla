------------------------- MODULE ReplyPlayback_proofs -------------------------
(***************************************************************************)
(* Theorems about ReplyPlayback, for any capacities and any number of      *)
(* replies, presses, reports and lost links: which files are on disk, that *)
(* an announced file is found, and that a press of the button gives one    *)
(* volume command at most.                                                 *)
(***************************************************************************)
EXTENDS ReplyPlayback, Integers, TLAPS

-----------------------------------------------------------------------------
(* The inductive invariant *)

CommandName == {"TTSStart", "TTSEnd", "RunEnd", "Volume"}
Command == [type : CommandName, file : Nat]
Message == [kind : {"player", "button", "listed"},
            state : {"idle", "playing", "pressed", "released", "none"}, played : Nat]

\* The controller makes a reply that is not announced; and it is not in the table either.
Making == {"TTSStart", "synthesize", "save", "write", "serve", "announce", "failed"}
NotInTable == Making \ {"announce"}
ToServe == {"TTSStart", "synthesize", "save", "write", "serve"}

TypeInv ==
    /\ pc \in PC
    /\ reply \in Nat /\ cleanup \in Nat
    /\ url \in Nat /\ fetching \in Nat /\ played \in Nat
    /\ files \subseteq Nat \ {NoFile} /\ table \subseteq Nat \ {NoFile}
    /\ pc \in Making => reply # NoFile
    /\ commands \in Seq(Command)
    /\ messages \in Seq(Message) /\ mediaPlayerEvents \in Seq(Message)

\* Nor was it left behind, as long as it can still be served.
OrphanInv ==
    /\ NoOrphanFiles
    /\ \A f \in unserved : f \in Nat /\ f <= reply /\ (pc \in ToServe => f < reply)

\* The last reply that was announced, unless it failed.
Latest == IF pc \in Making THEN reply - 1 ELSE reply

\* Files are played in the order they were announced in: what is still to come is later.
OrderInv ==
    /\ url <= Latest /\ fetching <= Latest /\ played <= Latest
    /\ fetching # NoFile => played < fetching
    /\ url # NoFile => played < url /\ fetching < url
    /\ \A i \in 1..Len(commands) : commands[i].file # NoFile =>
         /\ commands[i].file <= Latest
         /\ played < commands[i].file /\ fetching < commands[i].file /\ url < commands[i].file
    /\ \A i, j \in 1..Len(commands) :
         i < j /\ commands[i].file # NoFile /\ commands[j].file # NoFile
            => commands[i].file < commands[j].file

\* No report is of a file that did not begin to play.
ReportInv ==
    /\ \A i \in 1..Len(messages) : messages[i].played <= played
    /\ \A i \in 1..Len(mediaPlayerEvents) : mediaPlayerEvents[i].played <= played

\* The table, and what is still to be looked up in it.
TableInv ==
    /\ \A f \in table : f <= reply /\ (pc \in NotInTable => f < reply)
    /\ pc \in {"write", "serve", "announce"} => reply \in files
    /\ pc = "announce" => reply \in table
    /\ pc = "remove" => /\ cleanup \notin table
                        /\ fetching # NoFile /\ fetching = cleanup => cleanup \in early
    /\ \A i \in 1..Len(commands) :
         commands[i].file # NoFile => commands[i].file \in table \cup early
    /\ url # NoFile => url \in table \cup early
    /\ fetching # NoFile => fetching \in files \cup early
    /\ missed \subseteq early

IInv == TypeInv /\ OrphanInv /\ OrderInv /\ ReportInv /\ (pc # "stopped" => TableInv)

-----------------------------------------------------------------------------
(* The command channel *)

LEMMA PutAppends ==
    ASSUME NEW type \in CommandName, NEW file \in Nat, commands \in Seq(Command), Put(type, file)
    PROVE  /\ commands' \in Seq(Command)
           /\ Len(commands') = Len(commands) + 1
           /\ \A i \in 1..Len(commands) : commands'[i] = commands[i]
           /\ commands'[Len(commands) + 1].file = file
BY DEF Put, Command

LEMMA TailShifts ==
    ASSUME NEW S, NEW s \in Seq(S), s # <<>>
    PROVE  /\ Tail(s) \in Seq(S) /\ Head(s) \in S /\ Head(s) = s[1] /\ 1 \in 1..Len(s)
           /\ Len(Tail(s)) = Len(s) - 1
           /\ \A i \in 1..Len(Tail(s)) : Tail(s)[i] = s[i + 1] /\ i + 1 \in 1..Len(s)
OBVIOUS

LEMMA AppendAdds ==
    ASSUME NEW S, NEW s \in Seq(S), NEW e \in S
    PROVE  /\ Append(s, e) \in Seq(S)
           /\ Len(Append(s, e)) = Len(s) + 1
           /\ \A i \in 1..Len(s) : Append(s, e)[i] = s[i]
           /\ Append(s, e)[Len(s) + 1] = e
OBVIOUS

\* The program counter goes on without a file being made, served or removed.
Quietly ==
    \/ pc' = pc
    \/ pc = "select" /\ pc' = "TTSStart"
    \/ pc = "TTSStart" /\ pc' = "synthesize"
    \/ pc = "synthesize" /\ pc' \in {"save", "failed"}
    \/ pc = "save" /\ pc' = "failed"
    \/ pc = "failed" /\ pc' = "select"
    \/ pc = "RunEnd" /\ pc' = "select"

LEMMA CommandFiles ==
    ASSUME TypeInv
    PROVE  Len(commands) \in Nat /\ \A i \in 1..Len(commands) : commands[i].file \in Nat
<1>1. \A i \in 1..Len(commands) : commands[i] \in Command
  BY DEF TypeInv
<1> QED BY <1>1 DEF Command, TypeInv

LEMMA LatestGrows ==
    ASSUME TypeInv, reply' = reply, pc' \in Making => pc \in Making
    PROVE  Latest \in Int /\ Latest' \in Int /\ Latest <= Latest'
BY DEF TypeInv, Latest

LEMMA OrderKept ==
    ASSUME TypeInv, OrderInv, reply' = reply, pc' \in Making => pc \in Making,
           UNCHANGED <<url, fetching, played>>, Len(commands') \in Nat,
           \A i \in 1..Len(commands') : commands'[i].file # NoFile =>
              i \in 1..Len(commands) /\ commands'[i] = commands[i]
    PROVE  OrderInv'
<1>1. \A f \in Nat : f <= Latest => f <= Latest'
  BY LatestGrows
<1>2. \A i \in 1..Len(commands) : commands[i].file \in Nat
  BY CommandFiles
<1>3. url <= Latest' /\ fetching <= Latest' /\ played <= Latest'
  BY <1>1 DEF TypeInv, OrderInv
<1>4. \A i \in 1..Len(commands') : commands'[i].file # NoFile =>
         /\ commands'[i].file <= Latest' /\ played < commands'[i].file
         /\ fetching < commands'[i].file /\ url < commands'[i].file
  BY <1>1, <1>2 DEF OrderInv
<1> QED BY <1>3, <1>4 DEF OrderInv

\* A command without a file changes nothing that is known of files.
LEMMA SilentCommand ==
    ASSUME NEW type \in CommandName, IInv, Put(type, NoFile),
           Quietly, pc' = "TTSStart" => pc = "TTSStart",
           UNCHANGED <<reply, cleanup, files, table, url, fetching, played, messages,
                       mediaPlayerEvents, early, missed, superseded, unserved>>
    PROVE  IInv'
<1>1. /\ commands' \in Seq(Command)
      /\ Len(commands) \in Nat /\ Len(commands') = Len(commands) + 1
      /\ \A i \in 1..Len(commands) : commands'[i] = commands[i]
      /\ commands'[Len(commands) + 1].file = NoFile
  BY PutAppends DEF IInv, TypeInv, NoFile
<1>2. \A i \in 1..Len(commands') : commands'[i].file # NoFile =>
         i \in 1..Len(commands) /\ commands'[i] = commands[i]
  BY <1>1
<1>3. /\ pc' \in PC /\ (pc' \in Making => pc \in Making)
      /\ (pc' \in NotInTable => pc \in NotInTable) /\ (pc' \in ToServe => pc \in ToServe)
      /\ pc' \in {"write", "serve", "announce", "remove", "stopped"} <=>
         pc \in {"write", "serve", "announce", "remove", "stopped"}
      /\ pc \in {"write", "serve", "announce", "remove", "stopped"} => pc' = pc
  BY DEF Quietly, IInv, TypeInv, PC, Making, NotInTable, ToServe
<1>4. TypeInv'
  BY <1>1, <1>3 DEF IInv, TypeInv
<1>5. OrphanInv'
  BY <1>3 DEF IInv, OrphanInv, NoOrphanFiles
<1>6. OrderInv'
  BY <1>1, <1>2, <1>3, OrderKept DEF IInv
<1>7. ReportInv'
  BY DEF IInv, ReportInv
<1>8. ASSUME pc' # "stopped" PROVE TableInv'
  BY <1>2, <1>3, <1>8 DEF IInv, TableInv
<1> QED BY <1>4, <1>5, <1>6, <1>7, <1>8 DEF IInv

\* What is known of files and their order depends on these variables only.
LEMMA QuietStep ==
    ASSUME IInv, Quietly, pc' \in Making => pc \in Making,
           UNCHANGED <<reply, cleanup, files, table, url, fetching, played, commands, early,
                       missed, superseded, unserved>>,
           messages' \in Seq(Message), mediaPlayerEvents' \in Seq(Message), ReportInv'
    PROVE  IInv'
<1>1. /\ pc' \in PC /\ (pc' \in NotInTable => pc \in NotInTable)
      /\ (pc' \in ToServe => pc \in ToServe)
      /\ pc' \in {"write", "serve", "announce", "remove", "stopped"} <=>
         pc \in {"write", "serve", "announce", "remove", "stopped"}
      /\ pc \in {"write", "serve", "announce", "remove", "stopped"} => pc' = pc
  BY DEF Quietly, IInv, TypeInv, PC, Making, NotInTable, ToServe
<1>2. TypeInv'
  BY <1>1 DEF IInv, TypeInv
<1>3. OrphanInv' /\ OrderInv'
  BY <1>1, CommandFiles, OrderKept DEF IInv, OrphanInv, NoOrphanFiles
<1>4. ASSUME pc' # "stopped" PROVE TableInv'
  BY <1>1, <1>4 DEF IInv, TableInv
<1> QED BY <1>2, <1>3, <1>4 DEF IInv

-----------------------------------------------------------------------------
(* The controller *)

LEMMA BeginReplyKeepsInv ==
    ASSUME IInv, BeginReply
    PROVE  IInv'
<1>1. reply' = reply + 1 /\ pc = "select" /\ pc' = "TTSStart" /\ reply \in Nat
  BY DEF BeginReply, IInv, TypeInv
<1>2. UNCHANGED <<cleanup, files, table, url, fetching, played, commands, messages,
                  mediaPlayerEvents, early, missed, superseded, unserved>>
  BY DEF BeginReply, linkVars, deviceVars, ghostVars
<1>3. TypeInv' /\ OrphanInv' /\ ReportInv'
  <2>1. TypeInv' /\ ReportInv'
    BY <1>1, <1>2 DEF IInv, TypeInv, PC, Making, NoFile, ReportInv
  <2>2. OrphanInv'
    BY <1>1, <1>2 DEF IInv, OrphanInv, NoOrphanFiles
  <2> QED BY <2>1, <2>2
<1>4. Latest' = Latest
  BY <1>1 DEF Latest, Making
<1>5. OrderInv'
  BY <1>2, <1>4 DEF IInv, OrderInv
<1>6. TableInv'
  BY <1>1, <1>2 DEF IInv, TypeInv, TableInv, NotInTable, Making
<1> QED BY <1>3, <1>5, <1>6 DEF IInv

\* While a file is made, announced files are older.
LEMMA MakeFileKeepsOrder ==
    ASSUME IInv, pc \in Making, pc' \in PC,
           UNCHANGED <<reply, cleanup, url, fetching, played, commands, messages,
                       mediaPlayerEvents, early, missed, superseded>>,
           files' \subseteq files \cup {reply}, table' \subseteq table \cup {reply}
    PROVE  TypeInv' /\ OrderInv' /\ ReportInv'
<1>1. reply \in Nat \ {NoFile}
  BY DEF IInv, TypeInv
<1>2. TypeInv'
  BY <1>1 DEF IInv, TypeInv
<1>3. OrderInv' /\ ReportInv'
  BY CommandFiles, OrderKept DEF IInv, ReportInv
<1> QED BY <1>2, <1>3

LEMMA CreateTempKeepsInv ==
    ASSUME IInv, CreateTemp
    PROVE  IInv'
<1>1. /\ UNCHANGED <<reply, table, cleanup, url, fetching, played, commands, messages,
                     mediaPlayerEvents, early, missed, superseded, unserved>>
      /\ pc = "save"
      /\ \/ files' = files \cup {reply} /\ pc' = "write"
         \/ files' = files /\ pc' = "failed"
  BY DEF CreateTemp, linkVars, deviceVars, ghostVars
<1>2. TypeInv' /\ OrderInv' /\ ReportInv'
  BY <1>1, MakeFileKeepsOrder DEF Making, PC
<1>3. OrphanInv'
  BY <1>1 DEF IInv, OrphanInv, NoOrphanFiles, ToServe
<1>4. TableInv'
  BY <1>1 DEF IInv, TableInv, NotInTable, Making
<1> QED BY <1>2, <1>3, <1>4 DEF IInv

LEMMA WriteFileKeepsInv ==
    ASSUME IInv, WriteFile
    PROVE  IInv'
<1>1. /\ UNCHANGED <<reply, table, cleanup, url, fetching, played, commands, messages,
                     mediaPlayerEvents, early, missed, superseded, unserved>>
      /\ pc = "write"
      /\ \/ files' = files /\ pc' = "serve"
         \/ files' = files \ {reply} /\ pc' = "failed"
  BY DEF WriteFile, linkVars, deviceVars, ghostVars
<1>2. TypeInv' /\ OrderInv' /\ ReportInv'
  BY <1>1, MakeFileKeepsOrder DEF Making, PC
<1>3. reply \notin table /\ fetching # reply
  BY <1>1 DEF IInv, TypeInv, TableInv, OrderInv, Latest, NotInTable, Making
<1>4. OrphanInv'
  BY <1>1, <1>3 DEF IInv, OrphanInv, NoOrphanFiles, ToServe
<1>5. TableInv'
  BY <1>1, <1>3 DEF IInv, TableInv, NotInTable, Making
<1> QED BY <1>2, <1>4, <1>5 DEF IInv

\* A file that could not be served is not in the table, and the others are older.
LEMMA ServeWAVFailsKeepsInv ==
    ASSUME IInv, ServeWAV, pc' = "failed"
    PROVE  IInv'
<1>1. /\ UNCHANGED <<reply, files, table, cleanup, url, fetching, played, commands, messages,
                     mediaPlayerEvents, early, missed, superseded>>
      /\ pc = "serve" /\ pc' = "failed" /\ unserved' = unserved \cup {reply}
  BY DEF ServeWAV, linkVars, deviceVars
<1>2. TypeInv' /\ OrderInv' /\ ReportInv'
  BY <1>1, MakeFileKeepsOrder DEF Making, PC
<1>3. TypeInv /\ TableInv /\ OrphanInv /\ reply \in Nat
  BY <1>1 DEF IInv, TypeInv
<1>4. reply \notin table
  BY <1>1, <1>3 DEF TypeInv, TableInv, NotInTable, Making
<1>5. OrphanInv'
  BY <1>1, <1>3, <1>4 DEF OrphanInv, NoOrphanFiles, ToServe
<1>6. TableInv'
  BY <1>1, <1>3 DEF TableInv, NotInTable, Making
<1> QED BY <1>2, <1>5, <1>6 DEF IInv

LEMMA ServeWAVKeepsInv ==
    ASSUME IInv, ServeWAV
    PROVE  IInv'
<1> SUFFICES ASSUME pc' # "failed" PROVE IInv'
  BY ServeWAVFailsKeepsInv
<1>1. /\ UNCHANGED <<reply, files, cleanup, url, fetching, played, commands, messages,
                     mediaPlayerEvents, early, missed, superseded, unserved>>
      /\ pc = "serve" /\ pc' = "announce" /\ table' = table \cup {reply}
  BY DEF ServeWAV, linkVars, deviceVars
<1>2. TypeInv' /\ OrderInv' /\ ReportInv'
  BY <1>1, MakeFileKeepsOrder DEF Making, PC
<1>3. OrphanInv'
  <2>1. reply \in files /\ reply \in Nat /\ OrphanInv
    BY <1>1 DEF IInv, TypeInv, TableInv
  <2>2. reply \notin unserved
    BY <1>1, <2>1 DEF OrphanInv, ToServe
  <2> QED BY <1>1, <2>1, <2>2 DEF OrphanInv, NoOrphanFiles, ToServe
<1>4. TableInv'
  <2>1. reply \in files /\ reply \in Nat /\ TableInv /\ table \subseteq Nat
    BY <1>1 DEF IInv, TypeInv, TableInv
  <2>2. \A f \in table' : f <= reply' /\ pc' \notin NotInTable
    BY <1>1, <2>1 DEF TableInv, NotInTable, Making
  <2>3. reply' \in files' /\ reply' \in table' /\ pc' # "remove"
    BY <1>1, <2>1 DEF TableInv
  <2>4. /\ \A i \in 1..Len(commands') :
             commands'[i].file # NoFile => commands'[i].file \in table' \cup early'
        /\ url' # NoFile => url' \in table' \cup early'
        /\ fetching' # NoFile => fetching' \in files' \cup early'
        /\ missed' \subseteq early'
    BY <1>1, <2>1 DEF TableInv
  <2> QED BY <2>2, <2>3, <2>4 DEF TableInv
<1> QED BY <1>2, <1>3, <1>4 DEF IInv

\* The file that is announced is later than all others, and in the table.
LEMMA AnnounceKeepsInv ==
    ASSUME IInv, Announce
    PROVE  IInv'
<1>1. /\ UNCHANGED <<reply, files, table, url, fetching, played, messages, mediaPlayerEvents,
                     early, missed, unserved>>
      /\ pc = "announce" /\ pc' = "select" /\ cleanup' = reply
      /\ superseded' = superseded \cup ({cleanup} \ {NoFile})
  BY DEF Announce, linkVars, deviceVars
<1>2. reply \in Nat \ {NoFile} /\ TypeInv /\ TableInv
  BY <1>1 DEF IInv, TypeInv, Making
<1>3. /\ commands' \in Seq(Command)
      /\ Len(commands) \in Nat /\ Len(commands') = Len(commands) + 1
      /\ \A i \in 1..Len(commands) : commands'[i] = commands[i]
      /\ commands'[Len(commands) + 1].file = reply
  <2>1. Put("TTSEnd", reply)
    BY DEF Announce
  <2>2. commands \in Seq(Command) /\ reply \in Nat /\ "TTSEnd" \in CommandName
    BY <1>2 DEF TypeInv, CommandName
  <2>3. Len(commands) \in Nat
    BY <2>2
  <2> QED BY <2>1, <2>2, <2>3, PutAppends
<1>4. TypeInv'
  BY <1>1, <1>2, <1>3 DEF TypeInv, PC, Making
<1>5. OrphanInv'
  BY <1>1, <1>2 DEF IInv, TypeInv, OrphanInv, NoOrphanFiles, ToServe
<1>6. ReportInv'
  BY <1>1 DEF IInv, ReportInv
<1>7. Latest = reply - 1 /\ Latest' = reply
  BY <1>1 DEF Latest, Making
<1>8. \A i \in 1..Len(commands) : commands[i].file \in Nat
  BY <1>2, CommandFiles
<1>9. OrderInv'
  <2>1. url < reply /\ fetching < reply /\ played < reply
    BY <1>2, <1>7 DEF IInv, OrderInv, TypeInv
  <2>2. ASSUME NEW i \in 1..Len(commands'), commands'[i].file # NoFile
        PROVE  /\ commands'[i].file <= reply /\ played < commands'[i].file
               /\ fetching < commands'[i].file /\ url < commands'[i].file
    <3>1. CASE i \in 1..Len(commands)
      BY <1>2, <1>3, <1>7, <1>8, <2>2, <3>1 DEF IInv, OrderInv
    <3>2. CASE i = Len(commands) + 1
      BY <1>2, <1>3, <2>1, <3>2
    <3> QED BY <1>3, <3>1, <3>2
  <2>3. ASSUME NEW i \in 1..Len(commands'), NEW j \in 1..Len(commands'), i < j,
               commands'[i].file # NoFile, commands'[j].file # NoFile
        PROVE  commands'[i].file < commands'[j].file
    <3>1. i \in 1..Len(commands) /\ commands'[i] = commands[i]
      BY <1>3, <2>3
    <3>2. CASE j \in 1..Len(commands)
      BY <1>3, <2>3, <3>1, <3>2 DEF IInv, OrderInv
    <3>3. CASE j = Len(commands) + 1
      BY <1>2, <1>3, <1>7, <1>8, <2>3, <3>1, <3>3 DEF IInv, OrderInv
    <3> QED BY <1>3, <3>2, <3>3
  <2>4. /\ url' <= Latest' /\ fetching' <= Latest' /\ played' <= Latest'
        /\ fetching' # NoFile => played' < fetching'
        /\ url' # NoFile => played' < url' /\ fetching' < url'
    BY <1>1, <1>2, <1>7, <2>1 DEF IInv, OrderInv, TypeInv
  <2> QED BY <1>1, <1>7, <2>2, <2>3, <2>4 DEF OrderInv
<1>10. TableInv'
  <2>1. \A i \in 1..Len(commands') : commands'[i].file # NoFile => commands'[i].file \in table \cup early
    BY <1>1, <1>2, <1>3 DEF TableInv
  <2> QED BY <1>1, <1>2, <2>1 DEF TableInv, NotInTable, Making
<1> QED BY <1>4, <1>5, <1>6, <1>9, <1>10 DEF IInv

\* A report is taken for the end of the reply: either it is an old one, or every file that
\* is still to be fetched was announced after the one that goes.
LEMMA PlayerIdleKeepsInv ==
    ASSUME IInv, PlayerIdle
    PROVE  IInv'
<1> DEFINE h == Head(mediaPlayerEvents)
<1>1. /\ UNCHANGED <<reply, files, cleanup, commands, url, fetching, played, messages, missed,
                     superseded, unserved>>
      /\ pc = "select" /\ pc' = "remove" /\ cleanup # NoFile /\ mediaPlayerEvents # <<>>
      /\ mediaPlayerEvents' = Tail(mediaPlayerEvents) /\ table' = table \ {cleanup}
      /\ early' = IF h.played < cleanup THEN early \cup {cleanup} ELSE early
  BY DEF PlayerIdle, linkVars, deviceVars
<1>2. TypeInv /\ TableInv /\ OrderInv /\ ReportInv /\ Len(commands) \in Nat
  BY <1>1, CommandFiles DEF IInv
<1>3. /\ mediaPlayerEvents' \in Seq(Message) /\ h \in Message
      /\ h = mediaPlayerEvents[1] /\ 1 \in 1..Len(mediaPlayerEvents)
      /\ \A i \in 1..Len(mediaPlayerEvents') :
            i + 1 \in 1..Len(mediaPlayerEvents) /\ mediaPlayerEvents'[i] = mediaPlayerEvents[i + 1]
  BY <1>1, <1>2, TailShifts DEF TypeInv
<1>4. TypeInv'
  BY <1>1, <1>2, <1>3 DEF TypeInv, PC, Making
<1>5. OrphanInv'
  BY <1>1 DEF IInv, OrphanInv, NoOrphanFiles, ToServe
<1>6. OrderInv'
  BY <1>1, <1>2, OrderKept DEF Making
<1>7. ReportInv'
  BY <1>1, <1>2, <1>3 DEF ReportInv
<1>8. h.played \in Nat /\ h.played <= played /\ cleanup \in Nat
  BY <1>2, <1>3 DEF ReportInv, Message, TypeInv
<1>9. cleanup \in early' \/ cleanup <= played
  BY <1>1, <1>2, <1>8 DEF TypeInv
<1>10. early \subseteq early' /\ table \ {cleanup} \subseteq table'
  BY <1>1
<1>11. \A i \in 1..Len(commands) :
          commands[i].file # NoFile => commands[i].file # cleanup \/ cleanup \in early'
  BY <1>2, <1>8, <1>9, CommandFiles DEF OrderInv, TypeInv
<1>12. /\ url # NoFile => url # cleanup \/ cleanup \in early'
       /\ fetching # NoFile => fetching # cleanup \/ cleanup \in early'
  BY <1>2, <1>8, <1>9 DEF OrderInv, TypeInv
<1>13. TableInv'
  BY <1>1, <1>2, <1>10, <1>11, <1>12 DEF TableInv, NotInTable, Making
<1> QED BY <1>4, <1>5, <1>6, <1>7, <1>13 DEF IInv

LEMMA RemoveFileKeepsInv ==
    ASSUME IInv, RemoveFile
    PROVE  IInv'
<1>1. /\ UNCHANGED <<reply, table, mediaPlayerEvents, commands, url, fetching, played, messages,
                     missed, early, superseded, unserved>>
      /\ pc = "remove" /\ pc' = "RunEnd" /\ cleanup' = NoFile /\ files' = files \ {cleanup}
  BY DEF RemoveFile, linkVars, deviceVars, ghostVars
<1>2. TypeInv /\ TableInv /\ OrderInv /\ Len(commands) \in Nat
  BY <1>1, CommandFiles DEF IInv
<1>3. TypeInv'
  BY <1>1, <1>2 DEF TypeInv, PC, Making, NoFile
<1>4. OrphanInv'
  BY <1>1, <1>2 DEF IInv, OrphanInv, NoOrphanFiles, ToServe, TableInv
<1>5. OrderInv' /\ ReportInv'
  BY <1>1, <1>2, OrderKept DEF Making, IInv, ReportInv
<1>6. TableInv'
  BY <1>1, <1>2 DEF TableInv, NotInTable, Making
<1> QED BY <1>3, <1>4, <1>5, <1>6 DEF IInv

LEMMA StopKeepsInv ==
    ASSUME IInv, Stop
    PROVE  IInv'
<1>1. /\ UNCHANGED <<reply, mediaPlayerEvents, commands, url, fetching, played, messages,
                     missed, early, superseded, unserved>>
      /\ pc = "select" /\ pc' = "stopped" /\ cleanup' = NoFile /\ files' = files \ {cleanup}
      /\ table' = table \ {cleanup}
  BY DEF Stop, linkVars, deviceVars, ghostVars
<1>2. TypeInv /\ OrderInv /\ Len(commands) \in Nat
  BY CommandFiles DEF IInv
<1>3. TypeInv'
  BY <1>1, <1>2 DEF TypeInv, PC, Making, NoFile
<1>4. OrphanInv'
  BY <1>1 DEF IInv, OrphanInv, NoOrphanFiles, ToServe
<1>5. OrderInv' /\ ReportInv'
  BY <1>1, <1>2, OrderKept DEF Making, IInv, ReportInv
<1> QED BY <1>1, <1>3, <1>4, <1>5 DEF IInv

\* Steps of the controller that only send a command without a file, or nothing.
LEMMA QuietControllerKeepsInv ==
    ASSUME IInv, SendTTSStart \/ Synthesize \/ AnnounceFailure \/ IgnorePlayer \/ SendRunEnd
    PROVE  IInv'
<1>1. CASE SendTTSStart
  <2>1. /\ UNCHANGED <<reply, cleanup, files, table, url, fetching, played, messages,
                       mediaPlayerEvents, early, missed, superseded, unserved>>
        /\ pc = "TTSStart" /\ pc' = "synthesize" /\ Put("TTSStart", NoFile)
    BY <1>1 DEF SendTTSStart, linkVars, deviceVars, ghostVars
  <2>2. "TTSStart" \in CommandName
    BY DEF CommandName
  <2> QED BY <2>1, <2>2, SilentCommand DEF Quietly
<1>2. CASE AnnounceFailure
  <2>1. /\ UNCHANGED <<reply, cleanup, files, table, url, fetching, played, messages,
                       mediaPlayerEvents, early, missed, superseded, unserved>>
        /\ pc = "failed" /\ pc' = "select" /\ Put("TTSEnd", NoFile)
    BY <1>2 DEF AnnounceFailure, linkVars, deviceVars, ghostVars
  <2>2. "TTSEnd" \in CommandName
    BY DEF CommandName
  <2> QED BY <2>1, <2>2, SilentCommand DEF Quietly
<1>3. CASE SendRunEnd
  <2>1. /\ UNCHANGED <<reply, cleanup, files, table, url, fetching, played, messages,
                       mediaPlayerEvents, early, missed, superseded, unserved>>
        /\ pc = "RunEnd" /\ pc' = "select" /\ Put("RunEnd", NoFile)
    BY <1>3 DEF SendRunEnd, linkVars, deviceVars, ghostVars
  <2>2. "RunEnd" \in CommandName
    BY DEF CommandName
  <2> QED BY <2>1, <2>2, SilentCommand DEF Quietly
<1>4. CASE Synthesize
  <2>1. UNCHANGED <<reply, cleanup, files, table, url, fetching, played, commands, early,
                    missed, superseded, unserved, messages, mediaPlayerEvents>>
        /\ pc = "synthesize" /\ pc' \in {"save", "failed"}
    BY <1>4 DEF Synthesize, linkVars, deviceVars, ghostVars
  <2>2. ReportInv' /\ messages' \in Seq(Message) /\ mediaPlayerEvents' \in Seq(Message)
    BY <2>1 DEF IInv, TypeInv, ReportInv
  <2> QED BY <2>1, <2>2, QuietStep DEF Quietly, Making
<1>5. CASE IgnorePlayer
  <2>1. UNCHANGED <<pc, reply, cleanup, files, table, url, fetching, played, commands, early,
                    missed, superseded, unserved, messages>>
        /\ mediaPlayerEvents # <<>> /\ mediaPlayerEvents' = Tail(mediaPlayerEvents)
    BY <1>5 DEF IgnorePlayer, ctrlVars, linkVars, deviceVars, ghostVars
  <2>2. ReportInv' /\ messages' \in Seq(Message) /\ mediaPlayerEvents' \in Seq(Message)
    BY <2>1, TailShifts DEF IInv, TypeInv, ReportInv
  <2> QED BY <2>1, <2>2, QuietStep DEF Quietly
<1> QED BY <1>1, <1>2, <1>3, <1>4, <1>5

-----------------------------------------------------------------------------
(* The client *)

LEMMA TakeShifts ==
    ASSUME IInv, messages # <<>>, messages' = Tail(messages), UNCHANGED played
    PROVE  /\ messages' \in Seq(Message)
           /\ \A i \in 1..Len(messages') : messages'[i].played <= played
           /\ Head(messages) \in Message /\ Head(messages).played <= played
<1>1. /\ messages' \in Seq(Message) /\ Head(messages) \in Message
      /\ Head(messages) = messages[1] /\ 1 \in 1..Len(messages)
      /\ \A i \in 1..Len(messages') : messages'[i] = messages[i + 1] /\ i + 1 \in 1..Len(messages)
  BY TailShifts DEF IInv, TypeInv
<1> QED BY <1>1 DEF IInv, ReportInv

LEMMA TakeKeepsInv ==
    ASSUME IInv, NEW i \in Reader, HandlePlayerState(i) \/ HandleListed(i) \/ BeginButton(i)
    PROVE  IInv'
<1> DEFINE h == Head(messages)
<1>1. /\ UNCHANGED <<pc, reply, cleanup, files, table, url, fetching, played, commands, early,
                     missed, superseded, unserved>>
      /\ messages # <<>> /\ messages' = Tail(messages)
      /\ \/ mediaPlayerEvents' = mediaPlayerEvents
         \/ mediaPlayerEvents' = Append(mediaPlayerEvents, h)
  BY DEF HandlePlayerState, HandleListed, BeginButton, Take, ctrlVars, deviceVars, ghostVars
<1>2. /\ messages' \in Seq(Message)
      /\ \A j \in 1..Len(messages') : messages'[j].played <= played
      /\ h \in Message /\ h.played <= played
  BY <1>1, TakeShifts
<1>3. mediaPlayerEvents \in Seq(Message) /\ Len(mediaPlayerEvents) \in Nat
  BY DEF IInv, TypeInv
<1>4. CASE mediaPlayerEvents' = mediaPlayerEvents
  <2>1. ReportInv'
    BY <1>1, <1>2, <1>4 DEF IInv, ReportInv
  <2> QED BY <1>1, <1>2, <1>3, <1>4, <2>1, QuietStep DEF Quietly
<1>5. CASE mediaPlayerEvents' = Append(mediaPlayerEvents, h)
  <2>1. /\ mediaPlayerEvents' \in Seq(Message)
        /\ Len(mediaPlayerEvents') = Len(mediaPlayerEvents) + 1
        /\ \A j \in 1..Len(mediaPlayerEvents) : mediaPlayerEvents'[j] = mediaPlayerEvents[j]
        /\ mediaPlayerEvents'[Len(mediaPlayerEvents) + 1] = h
    BY <1>2, <1>3, <1>5, AppendAdds
  <2>2. ReportInv'
    <3>1. \A j \in 1..Len(mediaPlayerEvents') :
             j \in 1..Len(mediaPlayerEvents) \/ j = Len(mediaPlayerEvents) + 1
      BY <1>3, <2>1
    <3> QED BY <1>1, <1>2, <2>1, <3>1 DEF IInv, ReportInv
  <2> QED BY <1>1, <1>2, <2>1, <2>2, QuietStep DEF Quietly
<1> QED BY <1>1, <1>4, <1>5

LEMMA ButtonKeepsInv ==
    ASSUME IInv, NEW i \in Reader, EndButton(i) \/ MapRace
    PROVE  IInv'
<1>1. /\ UNCHANGED <<pc, reply, cleanup, files, table, url, fetching, played, messages,
                     mediaPlayerEvents, early, missed, superseded, unserved>>
      /\ UNCHANGED commands \/ Put("Volume", NoFile)
  BY DEF EndButton, MapRace, ctrlVars, linkVars, deviceVars, ghostVars
<1>2. CASE Put("Volume", NoFile)
  <2>1. "Volume" \in CommandName
    BY DEF CommandName
  <2> QED BY <1>1, <1>2, <2>1, SilentCommand DEF Quietly
<1>3. CASE UNCHANGED commands
  <2>1. ReportInv' /\ messages' \in Seq(Message) /\ mediaPlayerEvents' \in Seq(Message)
    BY <1>1 DEF IInv, TypeInv, ReportInv
  <2> QED BY <1>1, <1>3, <2>1, QuietStep DEF Quietly
<1> QED BY <1>1, <1>2, <1>3

\* The file of the command that is taken is before those of the others.
LEMMA HandleCommandKeepsInv ==
    ASSUME IInv, HandleCommand
    PROVE  IInv'
<1> DEFINE h == Head(commands)
<1>1. /\ UNCHANGED <<pc, reply, cleanup, files, table, fetching, played, messages,
                     mediaPlayerEvents, early, missed, superseded, unserved>>
      /\ commands # <<>> /\ commands' = Tail(commands)
      /\ url' = IF linked /\ h.file # NoFile THEN h.file ELSE url
  BY DEF HandleCommand, ctrlVars, linkVars, ghostVars
<1>2. TypeInv /\ OrderInv
  BY DEF IInv
<1>3. /\ commands' \in Seq(Command) /\ h \in Command /\ h = commands[1] /\ 1 \in 1..Len(commands)
      /\ Len(commands) \in Nat /\ Len(commands') \in Nat
      /\ \A i \in 1..Len(commands') :
            commands'[i] = commands[i + 1] /\ i + 1 \in 1..Len(commands) /\ 1 < i + 1
  BY <1>1, <1>2, TailShifts, CommandFiles DEF TypeInv
<1>4. h.file \in Nat
  BY <1>3 DEF Command
<1>5. TypeInv'
  BY <1>1, <1>2, <1>3, <1>4 DEF TypeInv
<1>6. OrphanInv' /\ ReportInv'
  BY <1>1 DEF IInv, OrphanInv, NoOrphanFiles, ReportInv
<1>7. OrderInv'
  <2>1. Latest' = Latest
    BY <1>1 DEF Latest
  <2>2. url' \in {url, h.file} /\ (url' # url => h.file # NoFile)
    BY <1>1
  <2>3. ASSUME NEW i \in 1..Len(commands'), commands'[i].file # NoFile
        PROVE  /\ commands'[i].file <= Latest /\ played < commands'[i].file
               /\ fetching < commands'[i].file /\ url' < commands'[i].file
    BY <1>2, <1>3, <2>2, <2>3 DEF OrderInv
  <2>4. ASSUME NEW i \in 1..Len(commands'), NEW j \in 1..Len(commands'), i < j,
               commands'[i].file # NoFile, commands'[j].file # NoFile
        PROVE  commands'[i].file < commands'[j].file
    <3>1. i + 1 < j + 1
      BY <2>4, <1>3
    <3> QED BY <1>2, <1>3, <2>4, <3>1 DEF OrderInv
  <2>5. url' <= Latest /\ (url' # NoFile => played < url' /\ fetching < url')
    BY <1>2, <1>3, <2>2 DEF OrderInv
  <2> QED BY <1>1, <1>2, <2>1, <2>3, <2>4, <2>5 DEF OrderInv
<1>8. ASSUME pc' # "stopped" PROVE TableInv'
  BY <1>1, <1>3, <1>8 DEF IInv, TableInv
<1> QED BY <1>5, <1>6, <1>7, <1>8 DEF IInv

-----------------------------------------------------------------------------
(* The device and the link *)

\* A message of the device is of what has played by now.
LEMMA SendKeepsInv ==
    ASSUME IInv, NEW m \in Message, m.played <= played,
           messages' = messages \/ messages' = Append(messages, m),
           UNCHANGED <<ctrlVars, mediaPlayerEvents, commands, url, fetching, played, missed,
                       early, superseded, unserved>>
    PROVE  IInv'
<1>1. messages \in Seq(Message) /\ Len(messages) \in Nat
  BY DEF IInv, TypeInv
<1>2. UNCHANGED <<pc, reply, cleanup, files, table, url, fetching, played, commands, early,
                  missed, superseded, unserved, mediaPlayerEvents>>
  BY DEF ctrlVars
<1>3. messages' \in Seq(Message) /\ \A i \in 1..Len(messages') : messages'[i].played <= played
  <2>1. CASE messages' = messages
    BY <1>1, <2>1 DEF IInv, ReportInv
  <2>2. CASE messages' = Append(messages, m)
    <3>1. /\ messages' \in Seq(Message) /\ Len(messages') = Len(messages) + 1
          /\ \A i \in 1..Len(messages) : messages'[i] = messages[i]
          /\ messages'[Len(messages) + 1] = m
      BY <1>1, <2>2, AppendAdds
    <3>2. \A i \in 1..Len(messages') : i \in 1..Len(messages) \/ i = Len(messages) + 1
      BY <1>1, <3>1
    <3> QED BY <3>1, <3>2 DEF IInv, ReportInv
  <2> QED BY <2>1, <2>2
<1>4. ReportInv' /\ mediaPlayerEvents' \in Seq(Message)
  BY <1>2, <1>3 DEF IInv, TypeInv, ReportInv
<1> QED BY <1>2, <1>3, <1>4, QuietStep DEF Quietly

LEMMA MessageTypes ==
    ASSUME TypeInv
    PROVE  /\ \A s \in {"idle", "playing"} : Report(s) \in Message /\ Report(s).played <= played
           /\ \A s \in {"pressed", "released"} : Sensor(s) \in Message /\ Sensor(s).played <= played
           /\ Listed \in Message /\ Listed.played <= played
BY DEF TypeInv, Report, Sensor, Listed, Message, NoFile

LEMMA DeviceSendsKeepsInv ==
    ASSUME IInv, \/ DeviceReports \/ DevicePresses \/ DeviceReleases \/ DeviceEndsPlaying
                 \/ \E kind \in Asked : DeviceTells(kind)
    PROVE  IInv'
<1>1. PICK m \in Message : m.played <= played /\ Send(m) /\ UNCHANGED <<url, played>>
  <2>1. TypeInv /\ state \in {"idle", "playing"}
    BY DEF IInv, state
  <2>2. CASE DeviceReports
    BY <2>1, <2>2, MessageTypes DEF DeviceReports
  <2>3. CASE DevicePresses
    BY <2>1, <2>3, MessageTypes DEF DevicePresses
  <2>4. CASE DeviceReleases
    BY <2>1, <2>4, MessageTypes DEF DeviceReleases
  <2>5. CASE DeviceEndsPlaying
    BY <2>1, <2>5, MessageTypes DEF DeviceEndsPlaying
  <2>6. ASSUME NEW kind \in Asked, DeviceTells(kind)
        PROVE  \E m \in Message : m.played <= played /\ Send(m) /\ UNCHANGED <<url, played>>
    <3>1. Told(kind) \in Message /\ Told(kind).played <= played
      BY <2>1, MessageTypes DEF Told
    <3> QED BY <2>6, <3>1 DEF DeviceTells
  <2> QED BY <2>2, <2>3, <2>4, <2>5, <2>6
<1>2. /\ messages' = messages \/ messages' = Append(messages, m)
      /\ UNCHANGED <<ctrlVars, mediaPlayerEvents, commands, fetching, missed, early, superseded,
                     unserved>>
  BY <1>1 DEF Send, ghostVars
<1> QED BY <1>1, <1>2, SendKeepsInv

\* A new connection begins with an empty channel.
LEMMA ReconnectKeepsInv ==
    ASSUME IInv, LinkBreaks \/ Reconnect
    PROVE  IInv'
<1>1. UNCHANGED <<pc, reply, cleanup, files, table, url, fetching, played, commands, early,
                  missed, superseded, unserved, mediaPlayerEvents>>
  BY DEF LinkBreaks, Reconnect, ctrlVars, deviceVars, ghostVars
<1>2. messages' \in Seq(Message) /\ \A i \in 1..Len(messages') : messages'[i].played <= played
  <2>1. CASE LinkBreaks
    BY <2>1 DEF LinkBreaks, deviceVars, IInv, TypeInv, ReportInv
  <2>2. CASE Reconnect
    BY <2>2 DEF Reconnect
  <2> QED BY <2>1, <2>2
<1>3. ReportInv' /\ mediaPlayerEvents' \in Seq(Message)
  BY <1>1, <1>2 DEF IInv, TypeInv, ReportInv
<1> QED BY <1>1, <1>2, <1>3, QuietStep DEF Quietly

\* What is looked up is in the table, or was taken out of it by an old report.
LEMMA LookUpKeepsInv ==
    ASSUME IInv, LookUp
    PROVE  IInv'
<1>1. /\ UNCHANGED <<pc, reply, cleanup, files, table, played, commands, messages,
                     mediaPlayerEvents, early, superseded, unserved>>
      /\ url # NoFile /\ fetching = NoFile /\ url' = NoFile
      /\ \/ url \in table /\ fetching' = url /\ missed' = missed
         \/ url \notin table /\ missed' = missed \cup {url} /\ fetching' = fetching
  BY DEF LookUp, ctrlVars, linkVars
<1>2. TypeInv /\ OrderInv
  BY DEF IInv
<1>3. TypeInv'
  BY <1>1, <1>2 DEF TypeInv, NoFile
<1>4. OrphanInv' /\ ReportInv'
  BY <1>1 DEF IInv, OrphanInv, NoOrphanFiles, ReportInv
<1>5. OrderInv'
  <2>1. Latest' = Latest /\ Latest \in Int /\ NoFile <= Latest
    BY <1>1, <1>2 DEF Latest, TypeInv, NoFile
  <2>2. \A i \in 1..Len(commands) : commands[i].file # NoFile => NoFile < commands[i].file
    BY <1>2, CommandFiles DEF NoFile
  <2> QED BY <1>1, <1>2, <2>1, <2>2 DEF OrderInv
<1>6. ASSUME pc' # "stopped" PROVE TableInv'
  BY <1>1, <1>6 DEF IInv, OrphanInv, NoOrphanFiles, TableInv
<1> QED BY <1>3, <1>4, <1>5, <1>6 DEF IInv

LEMMA ServeFileKeepsInv ==
    ASSUME IInv, ServeFile
    PROVE  IInv'
<1>1. /\ UNCHANGED <<pc, reply, cleanup, files, table, url, commands, messages,
                     mediaPlayerEvents, early, superseded, unserved>>
      /\ fetching # NoFile /\ fetching' = NoFile
      /\ \/ fetching \in files /\ played' = fetching /\ missed' = missed
         \/ fetching \notin files /\ missed' = missed \cup {fetching} /\ played' = played
  BY DEF ServeFile, ctrlVars, linkVars
<1>2. TypeInv /\ OrderInv
  BY DEF IInv
<1>3. TypeInv'
  BY <1>1, <1>2 DEF TypeInv, NoFile
<1>4. OrphanInv'
  BY <1>1 DEF IInv, OrphanInv, NoOrphanFiles
<1>5. played' \in Nat /\ played <= played' /\ played' \in {played, fetching}
  BY <1>1, <1>2 DEF OrderInv, TypeInv
<1>6. ReportInv'
  <2>1. /\ \A i \in 1..Len(messages) : messages[i].played \in Nat
        /\ \A i \in 1..Len(mediaPlayerEvents) : mediaPlayerEvents[i].played \in Nat
    <3>1. /\ \A i \in 1..Len(messages) : messages[i] \in Message
          /\ \A i \in 1..Len(mediaPlayerEvents) : mediaPlayerEvents[i] \in Message
      BY <1>2 DEF TypeInv
    <3> QED BY <3>1 DEF Message
  <2>2. played \in Nat
    BY <1>2 DEF TypeInv
  <2> QED BY <1>1, <1>5, <2>1, <2>2 DEF IInv, ReportInv
<1>7. OrderInv'
  <2>1. Latest' = Latest /\ Latest \in Int /\ NoFile <= Latest
    BY <1>1, <1>2 DEF Latest, TypeInv, NoFile
  <2>2. \A i \in 1..Len(commands) : commands[i].file # NoFile => NoFile < commands[i].file
    BY <1>2, CommandFiles DEF NoFile
  <2>3. url # NoFile => NoFile < url
    BY <1>2 DEF TypeInv, NoFile
  <2> QED BY <1>1, <1>2, <1>5, <2>1, <2>2, <2>3 DEF OrderInv
<1>8. ASSUME pc' # "stopped" PROVE TableInv'
  BY <1>1, <1>8 DEF IInv, TableInv
<1> QED BY <1>3, <1>4, <1>6, <1>7, <1>8 DEF IInv

-----------------------------------------------------------------------------
(* The capacities and the numbers of files *)

\* A queue that is full is not put into.
LEMMA Capacities ==
    ASSUME TypeInv, TypeOK, [Next]_vars
    PROVE  /\ Len(commands') <= CommandCap
           /\ Len(mediaPlayerEvents') <= MediaCap
           /\ Len(messages') <= MessageCap
<1> DEFINE Caps == /\ Len(commands') <= CommandCap
                   /\ Len(mediaPlayerEvents') <= MediaCap
                   /\ Len(messages') <= MessageCap
<1>1. /\ {MessageCap, MediaCap, CommandCap} \subseteq Nat \ {0}
      /\ commands \in Seq(Command) /\ messages \in Seq(Message)
      /\ mediaPlayerEvents \in Seq(Message)
      /\ Len(commands) <= CommandCap /\ Len(mediaPlayerEvents) <= MediaCap
      /\ Len(messages) <= MessageCap
      /\ Len(commands) \in Nat /\ Len(mediaPlayerEvents) \in Nat /\ Len(messages) \in Nat
  BY BoundAssumption DEF TypeInv, TypeOK
<1>2. CASE UNCHANGED <<commands, mediaPlayerEvents, messages>>
  BY <1>1, <1>2
<1>3. ASSUME NEW type, NEW file, Put(type, file), UNCHANGED <<mediaPlayerEvents, messages>>
      PROVE  Caps
  <2>1. Len(commands') = Len(commands) + 1 /\ Len(commands) < CommandCap
    BY <1>1, <1>3 DEF Put
  <2> QED BY <1>1, <1>3, <2>1
<1>4. CASE Controller
  BY <1>1, <1>2, <1>3, <1>4
     DEF Controller, BeginReply, SendTTSStart, Synthesize, CreateTemp, WriteFile, ServeWAV,
         Announce, AnnounceFailure, IgnorePlayer, PlayerIdle, RemoveFile, SendRunEnd, Stop,
         linkVars
<1>5. CASE Client
  <2>1. ASSUME NEW i \in Reader, HandlePlayerState(i) PROVE Caps
    <3>1. commands' = commands /\ messages # <<>> /\ messages' = Tail(messages)
      BY <2>1 DEF HandlePlayerState, Take
    <3>2. Head(messages) \in Message /\ Len(messages') <= MessageCap
      BY <1>1, <3>1
    <3> QED BY <1>1, <2>1, <3>1, <3>2 DEF HandlePlayerState
  <2>2. ASSUME NEW i \in Reader, HandleListed(i) \/ BeginButton(i) PROVE Caps
    BY <1>1, <2>2 DEF HandleListed, BeginButton, Take
  <2>3. ASSUME NEW i \in Reader, EndButton(i) PROVE Caps
    BY <1>2, <1>3, <2>3 DEF EndButton, linkVars
  <2>4. CASE MapRace \/ HandleCommand
    BY <1>1, <2>4 DEF MapRace, HandleCommand, linkVars
  <2> QED BY <1>5, <2>1, <2>2, <2>3, <2>4 DEF Client
<1>6. CASE Device
  <2>1. ASSUME NEW m \in Message, Send(m) PROVE Caps
    BY <1>1, <2>1 DEF Send
  <2>2. CASE DeviceReports \/ DevicePresses \/ DeviceReleases \/ DeviceEndsPlaying
    <3>1. ASSUME NEW st \in {"idle", "playing"} PROVE Report(st) \in Message
      BY DEF TypeInv, Report, Message
    <3>2. ASSUME NEW st \in {"pressed", "released"} PROVE Sensor(st) \in Message
      BY DEF Sensor, Message, NoFile
    <3>3. state \in {"idle", "playing"}
      BY DEF state
    <3> QED BY <2>1, <2>2, <3>1, <3>2, <3>3
            DEF DeviceReports, DevicePresses, DeviceReleases, DeviceEndsPlaying
  <2>3. CASE LookUp \/ ServeFile \/ LinkBreaks
    BY <1>2, <2>3 DEF LookUp, ServeFile, LinkBreaks, linkVars
  <2>4. CASE Reconnect
    BY <1>1, <2>4 DEF Reconnect
  <2>5. ASSUME NEW kind \in Asked, DeviceTells(kind) PROVE Caps
    <3>1. Told(kind) \in Message
      BY DEF Told, Listed, Sensor, Message, NoFile
    <3> QED BY <2>1, <2>5, <3>1 DEF DeviceTells
  <2> QED BY <1>6, <2>2, <2>3, <2>4, <2>5 DEF Device
<1> QED BY <1>2, <1>4, <1>5, <1>6 DEF Next, vars, linkVars

\* Only replies that were begun have files, are announced or are played.
LEMMA FileNumbers ==
    ASSUME IInv, TypeOK, [Next]_vars
    PROVE  /\ pc' \in PC /\ reply' \in 0..MaxReplies
           /\ files' \subseteq 1..MaxReplies /\ table' \subseteq 1..MaxReplies
           /\ {cleanup', url', fetching', played', player'} \subseteq 0..MaxReplies
           /\ unserved' \subseteq 1..MaxReplies
<1> USE BoundAssumption DEF NoFile
<1> DEFINE Types == /\ pc' \in PC /\ reply' \in 0..MaxReplies
                    /\ files' \subseteq 1..MaxReplies /\ table' \subseteq 1..MaxReplies
                    /\ {cleanup', url', fetching', played', player'} \subseteq 0..MaxReplies
                    /\ unserved' \subseteq 1..MaxReplies
<1>1. CASE UNCHANGED <<ctrlVars, url, fetching, played, player, unserved>>
  BY <1>1 DEF TypeOK, ctrlVars
<1>2. CASE Controller
  <2>1. UNCHANGED <<url, fetching, played, player>>
    BY <1>2 DEF Controller, BeginReply, SendTTSStart, Synthesize, CreateTemp, WriteFile,
                ServeWAV, Announce, AnnounceFailure, IgnorePlayer, PlayerIdle, RemoveFile,
                SendRunEnd, Stop, deviceVars
  <2>2. pc \in {"save", "serve", "announce"} => reply \in 1..MaxReplies
    BY DEF IInv, TypeInv, TypeOK, Making
  <2>3. CASE BeginReply \/ SendTTSStart \/ Synthesize \/ AnnounceFailure \/ IgnorePlayer
             \/ SendRunEnd
    <3>1. UNCHANGED <<files, table, cleanup, unserved>>
      BY <2>3 DEF BeginReply, SendTTSStart, Synthesize, AnnounceFailure, IgnorePlayer,
                  SendRunEnd, ctrlVars, ghostVars
    <3>2. pc' \in PC /\ reply' \in 0..MaxReplies
      BY <2>3 DEF BeginReply, SendTTSStart, Synthesize, AnnounceFailure, IgnorePlayer,
                  SendRunEnd, ctrlVars, TypeOK, PC
    <3> QED BY <2>1, <3>1, <3>2 DEF TypeOK
  <2>4. CASE CreateTemp \/ WriteFile \/ ServeWAV \/ Announce
    BY <2>1, <2>2, <2>4 DEF CreateTemp, WriteFile, ServeWAV, Announce, ghostVars, TypeOK, PC
  <2>5. CASE PlayerIdle \/ RemoveFile \/ Stop
    <3>1. pc' \in PC /\ reply' = reply /\ cleanup' \in {cleanup, NoFile}
          /\ files' \subseteq files /\ table' \subseteq table /\ unserved' = unserved
      BY <2>5 DEF PlayerIdle, RemoveFile, Stop, ghostVars, PC
    <3> QED BY <2>1, <3>1 DEF TypeOK
  <2> QED BY <1>2, <2>3, <2>4, <2>5 DEF Controller
<1>3. CASE Client
  <2>1. CASE HandleCommand
    <3>1. commands # <<>> /\ Head(commands).file \in Nat
          /\ (Head(commands).file # NoFile => Head(commands).file <= Latest)
      <4>1. commands # <<>> /\ commands \in Seq(Command)
        BY <2>1 DEF HandleCommand, IInv, TypeInv
      <4>2. Head(commands) = commands[1] /\ 1 \in 1..Len(commands) /\ Head(commands) \in Command
        BY <4>1, TailShifts
      <4> QED BY <4>1, <4>2 DEF IInv, OrderInv, Command
    <3>2. Latest <= reply /\ Latest \in Int /\ reply \in 0..MaxReplies
      BY DEF Latest, TypeOK
    <3>3. Head(commands).file \in 0..MaxReplies
      BY <3>1, <3>2
    <3> QED BY <2>1, <3>3 DEF HandleCommand, ctrlVars, ghostVars, TypeOK
  <2>2. CASE MapRace \/ \E i \in Reader : \/ HandlePlayerState(i) \/ HandleListed(i)
                                          \/ BeginButton(i) \/ EndButton(i)
    BY <1>1, <2>2 DEF MapRace, HandlePlayerState, HandleListed, BeginButton, EndButton, Take,
                      deviceVars, ghostVars
  <2> QED BY <1>3, <2>1, <2>2 DEF Client
<1>4. CASE Device
  <2>1. UNCHANGED <<pc, reply, files, table, cleanup, unserved>>
    BY <1>4 DEF Device, DeviceReports, DevicePresses, DeviceReleases, LookUp, ServeFile,
                DeviceEndsPlaying, DeviceTells, LinkBreaks, Reconnect, Send, ctrlVars,
                ghostVars
  <2>2. {url', fetching', played', player'} \subseteq {url, fetching, played, player, NoFile}
    <3>1. CASE LookUp
      BY <3>1 DEF LookUp
    <3>2. CASE ServeFile
      BY <3>2 DEF ServeFile
    <3>3. CASE \/ DeviceReports \/ DevicePresses \/ DeviceReleases \/ DeviceEndsPlaying
               \/ \E kind \in Asked : DeviceTells(kind)
      BY <3>3 DEF DeviceReports, DevicePresses, DeviceReleases, DeviceEndsPlaying, DeviceTells, Send
    <3>4. CASE LinkBreaks \/ Reconnect
      BY <3>4 DEF LinkBreaks, Reconnect, deviceVars
    <3> QED BY <1>4, <3>1, <3>2, <3>3, <3>4 DEF Device
  <2>3. {url, fetching, played, player, NoFile} \subseteq 0..MaxReplies
    BY DEF TypeOK
  <2>4. {url', fetching', played', player'} \subseteq 0..MaxReplies
    BY <2>2, <2>3
  <2> QED BY <2>1, <2>4 DEF TypeOK
<1> QED BY <1>1, <1>2, <1>3, <1>4 DEF Next, vars, deviceVars, ghostVars

-----------------------------------------------------------------------------
LEMMA InitInv == Init => IInv
<1> SUFFICES ASSUME Init PROVE IInv
  OBVIOUS
<1>1. messages \in Seq(Message) /\ \A i \in 1..Len(messages) : messages[i].played <= played
  BY DEF Init, Listed, Message, NoFile
<1>2. TypeInv
  BY <1>1 DEF Init, TypeInv, PC, Making, NoFile
<1>3. OrphanInv /\ OrderInv /\ ReportInv /\ TableInv
  BY <1>1 DEF Init, OrphanInv, NoOrphanFiles, OrderInv, Latest, Making, ReportInv, TableInv, NoFile
<1> QED BY <1>2, <1>3 DEF IInv

LEMMA StepInv == IInv /\ [Next]_vars => IInv'
<1> SUFFICES ASSUME IInv, [Next]_vars PROVE IInv'
  OBVIOUS
<1>1. CASE Controller
  BY <1>1, BeginReplyKeepsInv, CreateTempKeepsInv, WriteFileKeepsInv, ServeWAVKeepsInv,
     AnnounceKeepsInv, PlayerIdleKeepsInv, RemoveFileKeepsInv, StopKeepsInv,
     QuietControllerKeepsInv DEF Controller
<1>2. CASE Client
  <2>1. 1 \in Reader
    BY DEF Reader
  <2> QED BY <1>2, <2>1, TakeKeepsInv, ButtonKeepsInv, HandleCommandKeepsInv DEF Client
<1>3. CASE Device
  BY <1>3, DeviceSendsKeepsInv, ReconnectKeepsInv, LookUpKeepsInv, ServeFileKeepsInv DEF Device
<1>4. CASE UNCHANGED vars
  <2>1. UNCHANGED <<pc, reply, cleanup, files, table, url, fetching, played, commands, early,
                    missed, superseded, unserved, mediaPlayerEvents, messages>>
    BY <1>4 DEF vars, ctrlVars, linkVars, deviceVars, ghostVars
  <2>2. ReportInv' /\ messages' \in Seq(Message) /\ mediaPlayerEvents' \in Seq(Message)
    BY <2>1 DEF IInv, TypeInv, ReportInv
  <2> QED BY <2>1, <2>2, QuietStep DEF Quietly
<1> QED BY <1>1, <1>2, <1>3, <1>4 DEF Next

\* The inductive invariant: files are played in the order they were announced in, reports are
\* of what began to play, and a file that is to come is in the table or was taken out early.
THEOREM InvariantHolds == Spec => []IInv
BY InitInv, StepInv, PTL DEF Spec

\* Every variable keeps its type, every channel its capacity, and only replies that were
\* begun have files or reach the device.
THEOREM TypeCorrect == Spec => []TypeOK
<1>1. Init => TypeOK
  BY BoundAssumption DEF Init, TypeOK, PC, NoFile
<1>2. IInv /\ TypeOK /\ [Next]_vars => TypeOK'
  <2> SUFFICES ASSUME IInv, TypeOK, [Next]_vars PROVE TypeOK'
    OBVIOUS
  <2>1. TypeInv
    BY DEF IInv
  <2>2. untold' \subseteq Asked
    <3>1. untold' = untold \/ untold' \subseteq untold \/ untold' = Asked
      BY DEF Next, vars, linkVars, Controller, BeginReply, SendTTSStart, Synthesize, CreateTemp,
             WriteFile, ServeWAV, Announce, AnnounceFailure, IgnorePlayer, PlayerIdle, RemoveFile,
             SendRunEnd, Stop, Client, HandlePlayerState, HandleListed, BeginButton, EndButton,
             MapRace, HandleCommand, Take, Device, DeviceTells, DeviceReports, DevicePresses,
             DeviceReleases, LookUp, ServeFile, DeviceEndsPlaying, LinkBreaks, Reconnect
    <3> QED BY <3>1 DEF TypeOK
  <2> QED BY <2>1, <2>2, Capacities, FileNumbers DEF TypeOK
<1> QED BY <1>1, <1>2, InvariantHolds, PTL DEF Spec

\* Every file on disk is being made, held by the cleanup function, one whose cleanup function
\* was overwritten (phases.go 187), or one the server could not be started for (reply.go
\* 54-59), which is not in the table (reply.go 36-68, wav.go 160-187).
THEOREM NoFileIsOrphaned == Spec => []NoOrphanFiles
<1>1. IInv => NoOrphanFiles
  BY DEF IInv, OrphanInv
<1> QED BY <1>1, InvariantHolds, PTL

\* The device misses an announced file only when a report from before it began to play was
\* taken for its end, or at the shutdown (controller.go 127-131, server.go 123-148).
THEOREM FetchesFindFiles == Spec => []FetchFindsFile
<1>1. IInv => FetchFindsFile
  BY DEF IInv, TableInv, FetchFindsFile
<1> QED BY <1>1, InvariantHolds, PTL

-----------------------------------------------------------------------------
(* The presses of the button *)

ButtonState == {"pressed", "released"}

ButtonTypeInv ==
    /\ presses \in Nat /\ volumes \in Nat /\ pressed \in BOOLEAN
    /\ reader \in [Reader -> [holds : ButtonState \cup {"nothing", "off", "crashed"},
                              last : ButtonState \cup {"none"}]]
    /\ buttonLastState \in ButtonState \cup {"none"}
    /\ messages \in Seq(Message)
    /\ \A i \in 1..Len(messages) :
         messages[i].kind = "button" => messages[i].state \in ButtonState

Says(i, s) == messages[i].kind = "button" /\ messages[i].state = s

\* The state the only reader has come to.
Held == IF reader[1].holds \in ButtonState THEN reader[1].holds ELSE buttonLastState

\* The presses before the last state (a), before what the reader holds (b), and before each
\* message (t): a press separates what is not pressed from what is pressed later.
Numbered(t, a, b) ==
    /\ buttonLastState = "pressed" => volumes < a
    /\ volumes <= a
    /\ Held = "pressed" /\ buttonLastState # "pressed" => a < b
    /\ reader[1].holds \notin ButtonState => a = b
    /\ \A i \in 1..Len(messages) : Held # "pressed" /\ Says(i, "pressed") => b < t[i]
    /\ \A i, j \in 1..Len(messages) : i < j =>
         t[i] <= t[j] /\ (Says(i, "released") /\ Says(j, "pressed") => t[i] < t[j])
    /\ pressed /\ Held # "pressed" => b < presses
    /\ pressed => \A i \in 1..Len(messages) : Says(i, "released") => t[i] < presses

\* While one goroutine reads, the volume commands can be told apart by the presses they
\* are for.
ButtonInv ==
    reader[2] = Off =>
       /\ reader[1].holds \in ButtonState \cup {"nothing"}
       /\ reader[1].holds \in ButtonState => reader[1].last = buttonLastState
       /\ \E a \in 0..presses : \E b \in a..presses :
             \E t \in [1..Len(messages) -> b..presses] : Numbered(t, a, b)

\* The first reader stays the only one as long as it never ran beside another.
LEMMA OnlyReaderStays ==
    ASSUME ButtonTypeInv, [Next]_vars, reader'[2] = Off
    PROVE  reader[2] = Off
<1>1. 1 \in Reader /\ 2 \in Reader /\ reader \in [Reader -> [holds : ButtonState \cup {"nothing", "off", "crashed"}, last : ButtonState \cup {"none"}]]
  BY DEF Reader, ButtonTypeInv
<1>2. CASE UNCHANGED reader
  BY <1>2
<1>3. ASSUME NEW i \in Reader, BeginButton(i) PROVE reader[2] = Off
  <2>1. reader[i] = Ready
    BY <1>3 DEF BeginButton, Take
  <2>2. /\ messages \in Seq(Message) /\ messages # <<>> /\ Head(messages).kind = "button"
        /\ reader' = [reader EXCEPT ![i] = [holds |-> Head(messages).state, last |-> buttonLastState]]
    BY <1>3 DEF BeginButton, Take, ButtonTypeInv
  <2>3. Head(messages) = messages[1] /\ 1 \in 1..Len(messages)
    BY <2>2, TailShifts
  <2>4. Head(messages).state \in ButtonState
    BY <2>2, <2>3 DEF ButtonTypeInv
  <2>5. CASE i = 2
    BY <1>1, <2>2, <2>4, <2>5 DEF Off, ButtonState
  <2>6. CASE i # 2
    BY <1>1, <2>2, <2>6
  <2> QED BY <2>5, <2>6
<1>4. ASSUME NEW i \in Reader, EndButton(i) PROVE reader[2] = Off
  BY <1>1, <1>4 DEF EndButton, Off, Ready
<1>5. CASE MapRace
  BY <1>1, <1>5 DEF MapRace, Off, Crashed
<1>6. CASE Reconnect
  BY <1>1, <1>6 DEF Reconnect, Off, Ready
<1>7. ASSUME NEW i \in Reader, HandlePlayerState(i) \/ HandleListed(i) PROVE reader[2] = Off
  BY <1>7 DEF HandlePlayerState, HandleListed, clientVars
<1>8. CASE Controller
  BY <1>2, <1>8 DEF Controller, BeginReply, SendTTSStart, Synthesize, CreateTemp, WriteFile,
                    ServeWAV, Announce, AnnounceFailure, IgnorePlayer, PlayerIdle, RemoveFile,
                    SendRunEnd, Stop, clientVars
<1>9. CASE Device /\ ~Reconnect
  BY <1>2, <1>9 DEF Device, DeviceTells, DeviceReports, DevicePresses, DeviceReleases, LookUp,
                    ServeFile, DeviceEndsPlaying, LinkBreaks, Send, clientVars
<1>10. CASE HandleCommand
  BY <1>2, <1>10 DEF HandleCommand, clientVars
<1>11. CASE UNCHANGED vars
  BY <1>2, <1>11 DEF vars, clientVars
<1> QED BY <1>3, <1>4, <1>5, <1>6, <1>7, <1>8, <1>9, <1>10, <1>11 DEF Next, Client

LEMMA SensorTypes ==
    ASSUME NEW m \in Message, m.kind = "button" => m.state \in ButtonState, ButtonTypeInv,
           messages' = messages \/ messages' = Append(messages, m)
    PROVE  /\ messages' \in Seq(Message)
           /\ \A i \in 1..Len(messages') :
                messages'[i].kind = "button" => messages'[i].state \in ButtonState
<1>1. messages \in Seq(Message) /\ Len(messages) \in Nat
  BY DEF ButtonTypeInv
<1>2. CASE messages' = Append(messages, m)
  <2>1. /\ messages' \in Seq(Message) /\ Len(messages') = Len(messages) + 1
        /\ \A i \in 1..Len(messages) : messages'[i] = messages[i]
        /\ messages'[Len(messages) + 1] = m
    BY <1>1, <1>2, AppendAdds
  <2>2. \A i \in 1..Len(messages') : i \in 1..Len(messages) \/ i = Len(messages) + 1
    BY <1>1, <2>1
  <2> QED BY <2>1, <2>2 DEF ButtonTypeInv
<1> QED BY <1>1, <1>2 DEF ButtonTypeInv

LEMMA ButtonTypesKept ==
    ASSUME ButtonTypeInv, played \in Nat, [Next]_vars
    PROVE  ButtonTypeInv'
<1>1. /\ 1 \in Reader /\ 2 \in Reader
      /\ reader \in [Reader -> [holds : ButtonState \cup {"nothing", "off", "crashed"},
                                last : ButtonState \cup {"none"}]]
      /\ presses \in Nat /\ volumes \in Nat /\ messages \in Seq(Message)
  BY DEF Reader, ButtonTypeInv
<1>2. CASE UNCHANGED <<reader, buttonLastState, messages, pressed, presses, volumes>>
  BY <1>2 DEF ButtonTypeInv
<1>3. ASSUME messages # <<>>
      PROVE  /\ Tail(messages) \in Seq(Message)
             /\ \A i \in 1..Len(Tail(messages)) :
                  Tail(messages)[i].kind = "button" => Tail(messages)[i].state \in ButtonState
             /\ Head(messages).kind = "button" => Head(messages).state \in ButtonState
  BY <1>1, <1>3, TailShifts DEF ButtonTypeInv
<1>4. ASSUME NEW i \in Reader, HandlePlayerState(i) \/ HandleListed(i) PROVE ButtonTypeInv'
  <2>1. /\ messages # <<>> /\ messages' = Tail(messages)
        /\ UNCHANGED <<reader, buttonLastState, pressed, presses, volumes>>
    BY <1>4 DEF HandlePlayerState, HandleListed, Take, clientVars, deviceVars, ghostVars
  <2> QED BY <1>3, <2>1 DEF ButtonTypeInv
<1>5. ASSUME NEW i \in Reader, BeginButton(i) PROVE ButtonTypeInv'
  <2>1. /\ messages # <<>> /\ messages' = Tail(messages) /\ Head(messages).kind = "button"
        /\ reader' = [reader EXCEPT ![i] = [holds |-> Head(messages).state,
                                            last |-> buttonLastState]]
        /\ UNCHANGED <<buttonLastState, pressed, presses, volumes>>
    BY <1>5 DEF BeginButton, Take, deviceVars, ghostVars
  <2>2. reader' \in [Reader -> [holds : ButtonState \cup {"nothing", "off", "crashed"},
                                last : ButtonState \cup {"none"}]]
    BY <1>1, <1>3, <2>1 DEF ButtonTypeInv
  <2> QED BY <1>3, <2>1, <2>2 DEF ButtonTypeInv
<1>6. ASSUME NEW i \in Reader, EndButton(i) PROVE ButtonTypeInv'
  <2>1. /\ reader[i].holds \in ButtonState /\ volumes' \in {volumes, volumes + 1}
        /\ buttonLastState' \in {buttonLastState, reader[i].holds}
        /\ reader' = [reader EXCEPT ![i] = Ready]
        /\ UNCHANGED <<messages, pressed, presses>>
    BY <1>6 DEF EndButton, linkVars, deviceVars, ButtonState
  <2>2. reader' \in [Reader -> [holds : ButtonState \cup {"nothing", "off", "crashed"},
                                last : ButtonState \cup {"none"}]]
    BY <1>1, <2>1 DEF Ready
  <2> QED BY <1>1, <2>1, <2>2 DEF ButtonTypeInv
<1>7. CASE MapRace
  <2>1. reader' \in [Reader -> [holds : ButtonState \cup {"nothing", "off", "crashed"},
                                last : ButtonState \cup {"none"}]]
    BY <1>1, <1>7 DEF MapRace, Crashed
  <2> QED BY <1>7, <2>1 DEF MapRace, ButtonTypeInv, linkVars, deviceVars, ghostVars
<1>8. CASE \/ DeviceReports \/ DevicePresses \/ DeviceReleases \/ DeviceEndsPlaying
           \/ \E kind \in Asked : DeviceTells(kind)
  <2>1. PICK m \in Message : Send(m) /\ (m.kind = "button" => m.state \in ButtonState)
    BY <1>8 DEF DeviceReports, DevicePresses, DeviceReleases, DeviceEndsPlaying, DeviceTells,
                Told, Listed, Report, Sensor, state, Message, ButtonState, NoFile
  <2>2. pressed' \in BOOLEAN /\ presses' \in Nat
    <3>1. presses' \in {presses, presses + 1} /\ (pressed' = pressed \/ pressed' = TRUE \/ pressed' = FALSE)
      BY <1>8 DEF DeviceReports, DevicePresses, DeviceReleases, DeviceEndsPlaying, DeviceTells
    <3>2. presses' \in Nat
      BY <1>1, <3>1
    <3> QED BY <3>1, <3>2 DEF ButtonTypeInv
  <2>5. UNCHANGED <<reader, buttonLastState, volumes>>
    BY <2>1 DEF Send, clientVars, ghostVars
  <2>3. messages' = messages \/ messages' = Append(messages, m)
    BY <2>1 DEF Send
  <2>4. /\ messages' \in Seq(Message)
        /\ \A i \in 1..Len(messages') :
             messages'[i].kind = "button" => messages'[i].state \in ButtonState
    BY <2>1, <2>3, SensorTypes
  <2> QED BY <2>2, <2>4, <2>5 DEF ButtonTypeInv
<1>9. CASE Reconnect
  <2>1. reader' \in [Reader -> [holds : ButtonState \cup {"nothing", "off", "crashed"},
                                last : ButtonState \cup {"none"}]]
    BY <1>1, <1>9 DEF Reconnect, Ready
  <2> QED BY <1>9, <2>1 DEF Reconnect, ButtonTypeInv, deviceVars, ghostVars
<1>10. CASE Controller
  BY <1>2, <1>10 DEF Controller, BeginReply, SendTTSStart, Synthesize, CreateTemp, WriteFile,
                     ServeWAV, Announce, AnnounceFailure, IgnorePlayer, PlayerIdle, RemoveFile,
                     SendRunEnd, Stop, clientVars, linkVars, deviceVars, ghostVars
<1>11. CASE LookUp \/ ServeFile \/ LinkBreaks \/ HandleCommand \/ UNCHANGED vars
  BY <1>2, <1>11 DEF LookUp, ServeFile, LinkBreaks, HandleCommand, vars, clientVars, linkVars,
                     deviceVars, ghostVars
<1> QED BY <1>4, <1>5, <1>6, <1>7, <1>8, <1>9, <1>10, <1>11 DEF Next, Client, Device

LEMMA MessageStates ==
    ASSUME ButtonTypeInv, NEW i \in 1..Len(messages), messages[i].kind = "button"
    PROVE  Says(i, "pressed") \/ Says(i, "released")
BY DEF ButtonTypeInv, ButtonState, Says

\* What is not read any more needs no number.
LEMMA NumbersShift ==
    ASSUME ButtonTypeInv, messages # <<>>, messages' = Tail(messages), UNCHANGED presses,
           NEW a \in 0..presses, NEW b \in a..presses,
           NEW t \in [1..Len(messages) -> b..presses], Numbered(t, a, b)
    PROVE  /\ Len(messages) \in Nat /\ 1 \in 1..Len(messages) /\ Head(messages) = messages[1]
           /\ t[1] \in b..presses
           /\ \E u \in [1..Len(messages') -> t[1]..presses] :
                 \A i \in 1..Len(messages') :
                    /\ u[i] = t[i + 1] /\ i + 1 \in 1..Len(messages)
                    /\ messages'[i] = messages[i + 1]
<1>1. /\ messages' \in Seq(Message) /\ Len(messages') = Len(messages) - 1
      /\ Len(messages) \in Nat /\ 1 \in 1..Len(messages) /\ Head(messages) = messages[1]
      /\ \A i \in 1..Len(messages') : messages'[i] = messages[i + 1] /\ i + 1 \in 1..Len(messages)
  BY TailShifts DEF ButtonTypeInv
<1>2. presses \in Nat
  BY DEF ButtonTypeInv
<1>3. \A i \in 1..Len(messages') : t[1] <= t[i + 1] /\ t[i + 1] \in b..presses
  BY <1>1 DEF Numbered
<1>4. t[1] \in b..presses
  BY <1>1
<1> DEFINE u == [i \in 1..Len(messages') |-> t[i + 1]]
<1>5. u \in [1..Len(messages') -> t[1]..presses] /\ \A i \in 1..Len(messages') : u[i] = t[i + 1]
  BY <1>2, <1>3, <1>4
<1> QED BY <1>1, <1>4, <1>5

LEMMA TakeKeepsNumbers ==
    ASSUME ButtonTypeInv, ButtonInv, reader[2] = Off, messages # <<>>, messages' = Tail(messages),
           UNCHANGED <<reader, buttonLastState, pressed, presses, volumes>>
    PROVE  ButtonInv'
<1>0. PICK a \in 0..presses : \E b \in a..presses :
         \E t \in [1..Len(messages) -> b..presses] : Numbered(t, a, b)
  BY DEF ButtonInv
<1>1. PICK b \in a..presses : \E t \in [1..Len(messages) -> b..presses] : Numbered(t, a, b)
  BY <1>0
<1>2. PICK t \in [1..Len(messages) -> b..presses] : Numbered(t, a, b)
  BY <1>1
<1>3. PICK u \in [1..Len(messages') -> t[1]..presses] :
         \A i \in 1..Len(messages') : /\ u[i] = t[i + 1] /\ i + 1 \in 1..Len(messages)
                                      /\ messages'[i] = messages[i + 1]
  BY <1>2, NumbersShift
<1>4. u \in [1..Len(messages') -> b..presses'] /\ presses \in Nat
  <2>1. t[1] \in b..presses /\ presses \in Nat
    BY <1>2, NumbersShift DEF ButtonTypeInv
  <2> QED BY <2>1
<1>5. Held' = Held /\ \A i \in 1..Len(messages'), s \in ButtonState : Says(i, s)' <=> Says(i + 1, s)
  BY <1>3 DEF Held, Says
<1>6. /\ \A i \in 1..Len(messages') : Held' # "pressed" /\ Says(i, "pressed")' => b < u[i]
      /\ pressed' => \A i \in 1..Len(messages') : Says(i, "released")' => u[i] < presses'
  BY <1>2, <1>3, <1>5 DEF Numbered, ButtonState
<1>7. ASSUME NEW i \in 1..Len(messages'), NEW j \in 1..Len(messages'), i < j
      PROVE  u[i] <= u[j] /\ (Says(i, "released")' /\ Says(j, "pressed")' => u[i] < u[j])
  <2>1. i + 1 \in 1..Len(messages) /\ j + 1 \in 1..Len(messages) /\ i + 1 < j + 1
    BY <1>3, <1>7
  <2> QED BY <1>2, <1>3, <1>5, <2>1 DEF Numbered, ButtonState
<1>8. Numbered(u, a, b)'
  BY <1>2, <1>5, <1>6, <1>7 DEF Numbered
<1> QED BY <1>0, <1>4, <1>8 DEF ButtonInv

\* What a reader begins with is after all that was read, and a press is a later one.
LEMMA BeginKeepsNumbers ==
    ASSUME ButtonTypeInv, ButtonInv, reader[2] = Off, BeginButton(1)
    PROVE  ButtonInv'
<1> DEFINE s == Head(messages).state
<1>1. /\ messages # <<>> /\ messages' = Tail(messages) /\ Head(messages).kind = "button"
      /\ reader[1].holds = "nothing" /\ 1 \in Reader
      /\ reader' = [reader EXCEPT ![1] = [holds |-> s, last |-> buttonLastState]]
      /\ UNCHANGED <<buttonLastState, pressed, presses, volumes>>
  BY DEF BeginButton, Take, Ready, deviceVars, ghostVars, Reader
<1>0. PICK a \in 0..presses : \E b \in a..presses :
         \E t \in [1..Len(messages) -> b..presses] : Numbered(t, a, b)
  BY DEF ButtonInv
<1>2. PICK b \in a..presses : \E t \in [1..Len(messages) -> b..presses] : Numbered(t, a, b)
  BY <1>0
<1>3. PICK t \in [1..Len(messages) -> b..presses] : Numbered(t, a, b)
  BY <1>2
<1>4. PICK u \in [1..Len(messages') -> t[1]..presses] :
         \A i \in 1..Len(messages') : /\ u[i] = t[i + 1] /\ i + 1 \in 1..Len(messages)
                                      /\ messages'[i] = messages[i + 1]
  BY <1>1, <1>3, NumbersShift
<1>5. /\ Len(messages) \in Nat /\ 1 \in 1..Len(messages) /\ Head(messages) = messages[1]
      /\ t[1] \in b..presses /\ presses \in Nat
  BY <1>1, <1>3, NumbersShift DEF ButtonTypeInv
<1>6. s \in ButtonState /\ Says(1, s)
  BY <1>1, <1>5 DEF ButtonTypeInv, Says
<1>7. reader'[1].holds = s /\ reader'[1].last = buttonLastState /\ Held' = s
  BY <1>1, <1>6 DEF ButtonTypeInv, Held
<1>8. /\ a = b /\ Held = buttonLastState
  BY <1>1, <1>3 DEF Numbered, Held, ButtonState
<1> HIDE DEF s
<1>9. \A i \in 1..Len(messages'), r \in ButtonState : Says(i, r)' <=> Says(i + 1, r)
  BY <1>4 DEF Says
<1>10. /\ s = "pressed" /\ buttonLastState # "pressed" => a < t[1]
       /\ pressed /\ s # "pressed" => t[1] < presses
  BY <1>3, <1>5, <1>6, <1>8 DEF Numbered, ButtonState
<1>11. /\ \A i \in 1..Len(messages') : s # "pressed" /\ Says(i, "pressed")' => t[1] < u[i]
       /\ pressed' => \A i \in 1..Len(messages') : Says(i, "released")' => u[i] < presses'
  <2>1. \A i \in 1..Len(messages') : 1 < i + 1
    BY <1>5
  <2> QED BY <1>1, <1>3, <1>4, <1>5, <1>6, <1>9, <2>1 DEF Numbered, ButtonState
<1>12. ASSUME NEW i \in 1..Len(messages'), NEW j \in 1..Len(messages'), i < j
       PROVE  u[i] <= u[j] /\ (Says(i, "released")' /\ Says(j, "pressed")' => u[i] < u[j])
  <2>1. i + 1 \in 1..Len(messages) /\ j + 1 \in 1..Len(messages) /\ i + 1 < j + 1
    BY <1>4, <1>12
  <2> QED BY <1>3, <1>4, <1>9, <2>1 DEF Numbered, ButtonState
<1>13. Numbered(u, a, t[1])'
  BY <1>1, <1>3, <1>6, <1>7, <1>10, <1>11, <1>12 DEF Numbered
<1>14. t[1] \in a..presses' /\ u \in [1..Len(messages') -> t[1]..presses'] /\ a \in 0..presses'
  BY <1>1, <1>0, <1>5
<1>15. \E v \in [1..Len(messages') -> t[1]..presses'] : Numbered(v, a, t[1])'
  BY <1>13, <1>14
<1> QED BY <1>6, <1>7, <1>14, <1>15, <1>1 DEF ButtonInv

\* A release counts as a volume command at most once for a press, because what was not
\* pressed before is forgotten, or remembered as pressed without a command.
LEMMA EndKeepsNumbers ==
    ASSUME ButtonTypeInv, ButtonInv, reader[2] = Off, EndButton(1)
    PROVE  ButtonInv'
<1>0. PICK a \in 0..presses : \E b \in a..presses :
         \E t \in [1..Len(messages) -> b..presses] : Numbered(t, a, b)
  BY DEF ButtonInv
<1>1. PICK b \in a..presses : \E t \in [1..Len(messages) -> b..presses] : Numbered(t, a, b)
  BY <1>0
<1>2. PICK t \in [1..Len(messages) -> b..presses] : Numbered(t, a, b)
  BY <1>1
<1>3. /\ reader[1].holds \in ButtonState /\ Held = reader[1].holds
      /\ reader[1].last = buttonLastState
      /\ UNCHANGED <<messages, pressed, presses>> /\ presses \in Nat /\ volumes \in Nat
  BY DEF EndButton, ButtonState, Held, ButtonInv, linkVars, deviceVars, ButtonTypeInv
<1>4. reader' = [reader EXCEPT ![1] = Ready] /\ reader'[1] = Ready
  BY DEF EndButton, ButtonTypeInv, Reader
<1>5. reader'[1].holds = "nothing" /\ reader'[1].holds \notin ButtonState /\ Held' = buttonLastState'
  BY <1>4 DEF Ready, ButtonState, Held
<1>6. PICK c \in {a, b} :
         /\ volumes' <= c /\ (buttonLastState' = "pressed" => volumes' < c)
         /\ buttonLastState' # "pressed" => Held # "pressed" /\ c = b
  <2>1. CASE Released(1) /\ ~mediaPlayerKey
    <3>1. volumes' = volumes /\ buttonLastState' = buttonLastState /\ buttonLastState = "pressed"
      BY <1>3, <2>1 DEF EndButton, Released
    <3> QED BY <1>2, <1>3, <3>1 DEF Numbered
  <2>2. CASE Released(1) /\ mediaPlayerKey
    <3>1. /\ volumes' \in {volumes, volumes + 1} /\ buttonLastState' = "released"
          /\ buttonLastState = "pressed" /\ Held # "pressed"
      BY <1>3, <2>2 DEF EndButton, Released
    <3>2. volumes < a /\ a <= b /\ a \in Nat /\ b \in Nat
      BY <1>2, <1>3, <3>1 DEF Numbered
    <3>3. volumes' <= b /\ buttonLastState' # "pressed"
      BY <1>3, <3>1, <3>2
    <3> QED BY <3>1, <3>3
  <2>3. CASE ~Released(1)
    <3>1. volumes' = volumes /\ buttonLastState' = Held
      BY <1>3, <2>3 DEF EndButton
    <3>2. volumes <= a /\ a <= b /\ a \in Nat /\ b \in Nat
          /\ (Held = "pressed" => volumes < b)
      BY <1>2, <1>3 DEF Numbered
    <3>3. volumes' <= b /\ (buttonLastState' = "pressed" => volumes' < b)
      BY <1>3, <3>1, <3>2
    <3> QED BY <3>1, <3>3
  <2> QED BY <2>1, <2>2, <2>3
<1>7. c \in 0..presses' /\ c \in c..presses' /\ c <= b /\ b \in Nat /\ c \in Nat
  BY <1>3
<1>8. t \in [1..Len(messages') -> c..presses']
  BY <1>3, <1>7
<1>9. \A i \in 1..Len(messages) : \A s : Says(i, s)' <=> Says(i, s)
  BY <1>3 DEF Says
<1>10. \A i \in 1..Len(messages) : t[i] \in b..presses
  OBVIOUS
<1>11. /\ \A i \in 1..Len(messages') : Held' # "pressed" /\ Says(i, "pressed")' => c < t[i]
       /\ pressed' /\ Held' # "pressed" => c < presses'
  BY <1>2, <1>3, <1>5, <1>6, <1>9 DEF Numbered
<1>12. Numbered(t, c, c)'
  BY <1>2, <1>3, <1>5, <1>6, <1>9, <1>11 DEF Numbered
<1>13. \E v \in [1..Len(messages') -> c..presses'] : Numbered(v, c, c)'
  BY <1>8, <1>12
<1> QED BY <1>5, <1>7, <1>13 DEF ButtonInv

\* What the device sends has the number of its presses by then.
LEMMA SendKeepsNumbers ==
    ASSUME ButtonTypeInv, ButtonInv, reader[2] = Off, NEW m \in Message,
           messages' = messages \/ messages' = Append(messages, m),
           UNCHANGED <<reader, buttonLastState, volumes>>, presses' \in {presses, presses + 1},
           m.kind = "button" /\ m.state = "pressed" => presses' = presses + 1 \/ pressed,
           pressed' => \/ presses' = presses + 1
                          /\ ~ (m.kind = "button" /\ m.state = "released")
                       \/ pressed /\ ~ (m.kind = "button" /\ m.state = "released")
    PROVE  ButtonInv'
<1>0. PICK a \in 0..presses : \E b \in a..presses :
         \E t \in [1..Len(messages) -> b..presses] : Numbered(t, a, b)
  BY DEF ButtonInv
<1>1. PICK b \in a..presses : \E t \in [1..Len(messages) -> b..presses] : Numbered(t, a, b)
  BY <1>0
<1>2. PICK t \in [1..Len(messages) -> b..presses] : Numbered(t, a, b)
  BY <1>1
<1>3. /\ presses \in Nat /\ presses' \in Nat /\ presses <= presses'
      /\ messages \in Seq(Message) /\ Len(messages) \in Nat
  BY DEF ButtonTypeInv
<1>4. /\ Len(messages') \in Nat /\ Len(messages') <= Len(messages) + 1
      /\ \A i \in 1..Len(messages') :
            \/ i \in 1..Len(messages) /\ messages'[i] = messages[i]
            \/ i = Len(messages) + 1 /\ messages'[i] = m
  <2>1. CASE messages' = messages
    BY <1>3, <2>1
  <2>2. CASE messages' = Append(messages, m)
    <3>1. /\ Len(messages') = Len(messages) + 1
          /\ \A i \in 1..Len(messages) : messages'[i] = messages[i]
          /\ messages'[Len(messages) + 1] = m
      BY <1>3, <2>2, AppendAdds
    <3> QED BY <1>3, <3>1
  <2> QED BY <2>1, <2>2
<1>5. a \in 0..presses' /\ b \in a..presses' /\ a \in Nat /\ b \in Nat
  BY <1>3
<1> DEFINE v == [i \in 1..Len(messages') |-> IF i <= Len(messages) THEN t[i] ELSE presses']
<1>6. PICK u \in [1..Len(messages') -> b..presses'] :
         \A i \in 1..Len(messages') : u[i] = IF i <= Len(messages) THEN t[i] ELSE presses'
  <2>1. \A i \in 1..Len(messages') : v[i] \in b..presses'
    BY <1>3, <1>4, <1>5
  <2>2. v \in [1..Len(messages') -> b..presses']
    BY <2>1
  <2> QED BY <2>2
<1> HIDE DEF v
<1>7. Held' = Held
  BY DEF Held
<1>8. ASSUME NEW i \in 1..Len(messages')
      PROVE  \/ i \in 1..Len(messages) /\ u[i] = t[i] /\ \A s : Says(i, s)' <=> Says(i, s)
             \/ i = Len(messages) + 1 /\ u[i] = presses'
                /\ \A s : Says(i, s)' <=> m.kind = "button" /\ m.state = s
  BY <1>3, <1>4, <1>6 DEF Says
<1>9. \A i \in 1..Len(messages) : t[i] \in Nat /\ b <= t[i] /\ t[i] <= presses
  BY <1>3, <1>5
<1>10. \A i \in 1..Len(messages') : Held' # "pressed" /\ Says(i, "pressed")' => b < u[i]
  BY <1>2, <1>3, <1>5, <1>7, <1>8 DEF Numbered
<1>11. ASSUME NEW i \in 1..Len(messages'), NEW j \in 1..Len(messages'), i < j
       PROVE  u[i] <= u[j] /\ (Says(i, "released")' /\ Says(j, "pressed")' => u[i] < u[j])
  <2>1. i \in 1..Len(messages)
    BY <1>3, <1>4, <1>11
  <2>2. u[i] = t[i] /\ (Says(i, "released")' <=> Says(i, "released"))
    BY <1>3, <1>8, <2>1
  <2>3. CASE j \in 1..Len(messages)
    <3>1. u[j] = t[j] /\ (Says(j, "pressed")' <=> Says(j, "pressed"))
      BY <1>3, <1>8, <2>3
    <3> QED BY <1>2, <1>11, <2>1, <2>2, <2>3, <3>1 DEF Numbered
  <2>4. CASE j = Len(messages) + 1
    <3>1. u[j] = presses' /\ (Says(j, "pressed")' => presses' = presses + 1 \/ pressed)
      BY <1>3, <1>8, <2>4
    <3>2. Says(i, "released") /\ pressed => t[i] < presses
      BY <1>2, <2>1 DEF Numbered
    <3> QED BY <1>3, <1>9, <2>1, <2>2, <3>1, <3>2
  <2> QED BY <1>4, <2>3, <2>4
<1>12. pressed' => /\ Held' # "pressed" => b < presses'
                   /\ \A i \in 1..Len(messages') : Says(i, "released")' => u[i] < presses'
  <2>1. ASSUME pressed', Held' # "pressed" PROVE b < presses'
    BY <1>2, <1>3, <1>5, <1>7, <2>1 DEF Numbered
  <2>2. ASSUME pressed', NEW i \in 1..Len(messages'), Says(i, "released")' PROVE u[i] < presses'
    <3>1. i \in 1..Len(messages) /\ u[i] = t[i] /\ Says(i, "released")
      BY <1>8, <2>2
    <3>2. presses' = presses + 1 \/ t[i] < presses
      BY <1>2, <2>2, <3>1 DEF Numbered
    <3> QED BY <1>3, <1>9, <3>1, <3>2
  <2> QED BY <2>1, <2>2
<1>13. Numbered(u, a, b)'
  BY <1>2, <1>7, <1>10, <1>11, <1>12 DEF Numbered
<1>14. \E w \in [1..Len(messages') -> b..presses'] : Numbered(w, a, b)'
  BY <1>13
<1> QED BY <1>5, <1>14 DEF ButtonInv

\* Nothing is left to be read of the messages of the last connection.
LEMMA ReconnectKeepsNumbers ==
    ASSUME ButtonTypeInv, ButtonInv, reader[2] = Off, reader'[2] = Off, Reconnect
    PROVE  ButtonInv'
<1>0. PICK a \in 0..presses : \E b \in a..presses :
         \E t \in [1..Len(messages) -> b..presses] : Numbered(t, a, b)
  BY DEF ButtonInv
<1>1. PICK b \in a..presses : \E t \in [1..Len(messages) -> b..presses] : Numbered(t, a, b)
  BY <1>0
<1>2. PICK t \in [1..Len(messages) -> b..presses] : Numbered(t, a, b)
  BY <1>1
<1>3. UNCHANGED <<buttonLastState, pressed, presses, volumes>> /\ presses \in Nat
  BY DEF Reconnect, deviceVars, ghostVars, ButtonTypeInv
<1>4. UNCHANGED reader /\ Held' = Held
  BY DEF Reconnect, Reader, Ready, Off, Held
<1>5. messages' = <<>> /\ Len(messages') = 0 /\ 1..Len(messages') = {}
  BY DEF Reconnect
<1>6. <<>> \in [1..Len(messages') -> b..presses'] /\ Numbered(<<>>, a, b)'
  <2>1. Numbered(<<>>, a, b)'
    BY <1>2, <1>3, <1>4, <1>5 DEF Numbered
  <2>2. <<>> \in [{} -> b..presses']
    OBVIOUS
  <2> QED BY <1>5, <2>1, <2>2
<1>8. \E w \in [1..Len(messages') -> b..presses'] : Numbered(w, a, b)'
  BY <1>6
<1>9. a \in 0..presses' /\ b \in a..presses'
  BY <1>3
<1> QED BY <1>3, <1>4, <1>8, <1>9 DEF ButtonInv

LEMMA ButtonStep ==
    ASSUME IInv, ButtonTypeInv, ButtonInv, [Next]_vars
    PROVE  ButtonInv'
<1> SUFFICES ASSUME reader'[2] = Off PROVE ButtonInv'
  BY DEF ButtonInv
<1>1. reader[2] = Off /\ played \in Nat
  BY OnlyReaderStays DEF IInv, TypeInv
<1>2. CASE UNCHANGED <<reader, buttonLastState, messages, pressed, presses, volumes>>
  BY <1>2 DEF ButtonInv, Numbered, Held, Says
<1>3. ASSUME NEW i \in Reader PROVE i = 1 \/ (reader[i] # Ready /\ reader[i].holds \notin ButtonState)
  BY <1>1 DEF Reader, Off, Ready, ButtonState
<1>4. ASSUME NEW i \in Reader, HandlePlayerState(i) \/ HandleListed(i) PROVE ButtonInv'
  <2>1. /\ messages # <<>> /\ messages' = Tail(messages)
        /\ UNCHANGED <<reader, buttonLastState, pressed, presses, volumes>>
    BY <1>4 DEF HandlePlayerState, HandleListed, Take, clientVars, deviceVars, ghostVars
  <2> QED BY <1>1, <2>1, TakeKeepsNumbers
<1>5. ASSUME NEW i \in Reader, BeginButton(i) PROVE ButtonInv'
  BY <1>1, <1>3, <1>5, BeginKeepsNumbers DEF BeginButton, Take
<1>6. ASSUME NEW i \in Reader, EndButton(i) PROVE ButtonInv'
  BY <1>1, <1>3, <1>6, EndKeepsNumbers DEF EndButton, ButtonState
<1>7. CASE MapRace
  BY <1>1, <1>7 DEF MapRace, Reader, Off
<1>8. CASE DeviceReports \/ DeviceEndsPlaying
  <2>1. PICK m \in Message : Send(m) /\ m.kind # "button"
    BY <1>1, <1>8 DEF DeviceReports, DeviceEndsPlaying, Report, state, Message
  <2>2. /\ messages' = messages \/ messages' = Append(messages, m)
        /\ UNCHANGED <<reader, buttonLastState, volumes, pressed, presses>>
    BY <1>8, <2>1 DEF Send, clientVars, ghostVars, DeviceReports, DeviceEndsPlaying
  <2>3. presses' \in {presses, presses + 1} /\ (pressed' => pressed)
    BY <2>2
  <2> QED BY <1>1, <2>1, <2>2, <2>3, SendKeepsNumbers
<1>9. CASE DevicePresses
  <2>1. Sensor("pressed") \in Message /\ Sensor("pressed").state # "released"
    BY DEF Sensor, Message, NoFile
  <2>2. /\ messages' = messages \/ messages' = Append(messages, Sensor("pressed"))
        /\ UNCHANGED <<reader, buttonLastState, volumes>> /\ presses' = presses + 1
    BY <1>9 DEF Send, clientVars, ghostVars, DevicePresses
  <2> QED BY <1>1, <2>1, <2>2, SendKeepsNumbers
<1>10. CASE DeviceReleases
  <2>1. Sensor("released") \in Message /\ Sensor("released").state # "pressed"
    BY DEF Sensor, Message, NoFile
  <2>2. /\ messages' = messages \/ messages' = Append(messages, Sensor("released"))
        /\ UNCHANGED <<reader, buttonLastState, volumes, presses>> /\ ~pressed'
    BY <1>10 DEF Send, clientVars, ghostVars, DeviceReleases
  <2> QED BY <1>1, <2>1, <2>2, SendKeepsNumbers
<1>11. CASE Reconnect
  BY <1>1, <1>11, ReconnectKeepsNumbers
<1>12. CASE Controller
  BY <1>2, <1>12 DEF Controller, BeginReply, SendTTSStart, Synthesize, CreateTemp, WriteFile,
                     ServeWAV, Announce, AnnounceFailure, IgnorePlayer, PlayerIdle, RemoveFile,
                     SendRunEnd, Stop, clientVars, linkVars, deviceVars, ghostVars
<1>13. CASE LookUp \/ ServeFile \/ LinkBreaks \/ HandleCommand \/ UNCHANGED vars
  BY <1>2, <1>13 DEF LookUp, ServeFile, LinkBreaks, HandleCommand, vars, clientVars, linkVars,
                     deviceVars, ghostVars
<1>14. ASSUME NEW kind \in Asked, DeviceTells(kind) PROVE ButtonInv'
  <2>1. /\ Told(kind) \in Message
        /\ Told(kind).kind = "button" =>
             Told(kind).state = (IF pressed THEN "pressed" ELSE "released")
    BY DEF Told, Listed, Sensor, Message, NoFile
  <2>2. /\ messages' = messages \/ messages' = Append(messages, Told(kind))
        /\ UNCHANGED <<reader, buttonLastState, volumes, pressed, presses>>
    BY <1>14 DEF Send, clientVars, ghostVars, DeviceTells
  <2>3. presses' \in {presses, presses + 1}
    BY <2>2
  <2>4. /\ Told(kind).kind = "button" /\ Told(kind).state = "pressed" => pressed
        /\ pressed => ~(Told(kind).kind = "button" /\ Told(kind).state = "released")
    BY <2>1
  <2> QED BY <1>1, <2>1, <2>2, <2>3, <2>4, SendKeepsNumbers
<1> QED BY <1>4, <1>5, <1>6, <1>7, <1>8, <1>9, <1>10, <1>11, <1>12, <1>13, <1>14
        DEF Next, Client, Device

LEMMA InitButton == Init => ButtonTypeInv /\ ButtonInv
<1> SUFFICES ASSUME Init PROVE ButtonTypeInv /\ ButtonInv
  OBVIOUS
<1>1. messages = <<>> /\ messages \in Seq(Message) /\ Len(messages) = 0 /\ 1..Len(messages) = {}
  BY DEF Init
<1>2. reader[1] = Ready /\ presses = 0 /\ volumes = 0 /\ buttonLastState = "none" /\ pressed = FALSE
  BY DEF Init, Reader
<1>3. reader \in [Reader -> [holds : ButtonState \cup {"nothing", "off", "crashed"},
                             last : ButtonState \cup {"none"}]]
  BY DEF Init, Ready, Off
<1>4. ButtonTypeInv
  <2>1. pressed \in BOOLEAN
    BY <1>2
  <2>2. presses \in Nat /\ volumes \in Nat /\ buttonLastState \in ButtonState \cup {"none"}
    BY <1>2
  <2>3. \A i \in 1..Len(messages) : messages[i].kind # "button"
    BY <1>1
  <2> QED BY <1>1, <1>3, <2>1, <2>2, <2>3 DEF ButtonTypeInv
<1>5. <<>> \in [1..Len(messages) -> 0..presses]
  <2>1. <<>> \in [{} -> 0..presses]
    OBVIOUS
  <2> QED BY <1>1, <2>1
<1>6. Numbered(<<>>, 0, 0)
  BY <1>1, <1>2 DEF Numbered, Held, Ready, ButtonState
<1>7. 0 \in 0..presses
  BY <1>2
<1>8. \E t \in [1..Len(messages) -> 0..presses] : Numbered(t, 0, 0)
  BY <1>5, <1>6
<1>9. reader[1].holds = "nothing"
  BY <1>2 DEF Ready
<1> QED BY <1>4, <1>7, <1>8, <1>9 DEF ButtonInv, ButtonState

\* As long as one goroutine handles messages, no press gives two volume commands, whatever is
\* repeated, lost, or came before the player was known (client.go 320-349).
THEOREM OnePressOneCommand == Spec => []OneCommandPerPress
<1>1. IInv /\ ButtonTypeInv /\ [Next]_vars => ButtonTypeInv'
  BY ButtonTypesKept DEF IInv, TypeInv
<1>2. IInv /\ ButtonTypeInv /\ ButtonInv /\ [Next]_vars => ButtonInv'
  BY ButtonStep
<1>3. ButtonTypeInv /\ ButtonInv => OneCommandPerPress
  BY DEF ButtonTypeInv, ButtonInv, Numbered, OneCommandPerPress
<1> QED BY <1>1, <1>2, <1>3, InitButton, InvariantHolds, PTL DEF Spec
=============================================================================
