---------------------------- MODULE SessionProofs ----------------------------
(***************************************************************************)
(* Proofs about Session for any set of commands, either mode, and commands *)
(* and files that may or may not fail: type correctness, mutual exclusion, *)
(* and that the files keep every message, in order, whenever the daemon    *)
(* dies.                                                                   *)
(***************************************************************************)
EXTENDS Session, TLAPS

(* No command has failed so far.                                           *)
NoneFailed == \A c \in Commands : reply[c] # "failed"

(* What the stage of a command says about the session and its files.       *)
StageInv ==
    \A c \in Commands :
        /\ pc[c] = "idle" => c \notin said
        /\ pc[c] \in {"resuming", "received", "running"} =>
              status \in {"active", "waiting_for_input"}
        /\ pc[c] = "resuming" => c \notin said
        /\ pc[c] \in {"received", "running"} =>
              /\ Len(thread) > 0
              /\ thread[Len(thread)] = UserRow(c)
              /\ told = "received"
        /\ pc[c] = "running" => c \in meta.runs
        /\ pc[c] = "compacting" => snapshot[c] = Summarised(thread)
        /\ pc[c] = "resuming" => told = "resumed"
        /\ pc[c] = "ending" =>
              \/ told = "waiting" /\ status = "waiting_for_input"
              \/ told = "closed" /\ status = "closed"
        /\ reply[c] # "none" => pc[c] = "done"
        /\ c \in unsaved => reply[c] = "failed"

(* What the life of the session says about its memory.                     *)
LifeInv ==
    /\ life = "live" => status # "none" /\ meta.runs \subseteq runs
    /\ life # "live" => lock = Nobody /\ status = "none"
    /\ life = "new" => /\ thread = <<>> /\ backup = <<>> /\ said = {} /\ runs = {}
                       /\ meta = NoMeta /\ unsaved = {}
    /\ life = "live" => (told = "closed" => status = "closed")

(* Where meta.json follows memory: no write of it is missing.              *)
SavedInv ==
    life = "live" /\ unsaved = {} =>
        /\ meta.runs = runs
        /\ (\A c \in Commands : pc[c] # "ending") => meta.status = status
        /\ (\A c \in Commands : pc[c] \notin {"resuming", "received", "running"})
              => (told = "waiting" => status = "waiting_for_input")
        /\ status = "closed" => told = "closed"

(* What memory says about the thread: it knows all of its runs, and none   *)
(* was cut off if no command failed.                                       *)
ThreadInv ==
    life = "live" =>
        \A i \in DOMAIN thread :
            /\ thread[i].type \in RunTypes => thread[i].of \subseteq runs
            /\ NoneFailed => thread[i].type # "cut"

FileInv == AnswersFollowMessages /\ NothingForgotten

IInv ==
    /\ TypeOK
    /\ OneAtATime
    /\ StageInv
    /\ LifeInv
    /\ SavedInv
    /\ ThreadInv
    /\ FileInv
    /\ RunsRecordedFirst
-----------------------------------------------------------------------------
(* The rows of a thread and the messages they record.                      *)

(* An empty thread records nothing.                                        *)
LEMMA RecordedEmpty == Recorded(<<>>) = {}
  BY DEF Recorded

(* A row adds its messages, unless a run appended it; no row takes any     *)
(* away.                                                                   *)
LEMMA RecordedAppend ==
    ASSUME NEW rows \in Seq(Row), NEW r \in Row
    PROVE  /\ Append(rows, r) \in Seq(Row)
           /\ Recorded(rows) \subseteq Recorded(Append(rows, r))
           /\ r.type \notin RunTypes => r.of \subseteq Recorded(Append(rows, r))
  <1> DEFINE app == Append(rows, r)
  <1>1. /\ app \in Seq(Row)
        /\ DOMAIN app = DOMAIN rows \cup {Len(rows) + 1}
        /\ app[Len(rows) + 1] = r
        /\ \A i \in DOMAIN rows : app[i] = rows[i]
    OBVIOUS
  <1> HIDE DEF app
  <1>2. Recorded(rows) \subseteq Recorded(app)
    BY <1>1 DEF Recorded
  <1>3. r.type \notin RunTypes => r.of \subseteq Recorded(app)
    BY <1>1 DEF Recorded
  <1>4. QED
    BY <1>1, <1>2, <1>3 DEF app

(* The backups record what each of them does.                              *)
LEMMA RecordedConcat ==
    ASSUME NEW rows \in Seq(Row), NEW more \in Seq(Row)
    PROVE  /\ rows \o more \in Seq(Row)
           /\ Recorded(rows) \cup Recorded(more) \subseteq Recorded(rows \o more)
  <1> DEFINE all == rows \o more
  <1>1. /\ all \in Seq(Row)
        /\ \A i \in DOMAIN rows : i \in DOMAIN all /\ all[i] = rows[i]
        /\ \A i \in DOMAIN more : Len(rows) + i \in DOMAIN all /\ all[Len(rows) + i] = more[i]
    OBVIOUS
  <1> HIDE DEF all
  <1>2. Recorded(rows) \subseteq Recorded(all)
    BY <1>1 DEF Recorded
  <1>3. Recorded(more) \subseteq Recorded(all)
    BY <1>1 DEF Recorded
  <1>4. QED
    BY <1>1, <1>2, <1>3 DEF all

(* A summary records what it was made of.                                  *)
LEMMA RecordedSummary ==
    ASSUME NEW S \in SUBSET Commands
    PROVE  /\ <<SummaryRow(S)>> \in Seq(Row)
           /\ Recorded(<<SummaryRow(S)>>) = S
  BY DEF Recorded, SummaryRow, Row, RunTypes

(* What is read of a thread is recorded in it; without a run that was cut  *)
(* off everything is.                                                      *)
LEMMA SummarisedRecorded ==
    ASSUME NEW rows \in Seq(Row)
    PROVE  /\ Summarised(rows) \in SUBSET Commands
           /\ (\A i \in DOMAIN rows : rows[i].type # "cut") => Summarised(rows) = Recorded(rows)
  <1>0. /\ \A i \in DOMAIN rows : rows[i] \in Row
        /\ DOMAIN rows = 1 .. Len(rows)
        /\ Len(rows) \in Nat
    OBVIOUS
  <1>1. \A i \in DOMAIN rows : rows[i].of \in SUBSET Commands
    BY <1>0 DEF Row
  <1>2. Readable(rows) \subseteq DOMAIN rows
    BY DEF Readable
  <1>3. Summarised(rows) \in SUBSET Commands
    BY <1>1, <1>2 DEF Summarised
  <1>4. ASSUME \A i \in DOMAIN rows : rows[i].type # "cut"
        PROVE  Summarised(rows) = Recorded(rows)
    <2>1. Readable(rows) = DOMAIN rows
      BY <1>0, <1>4 DEF Readable
    <2>2. QED
      BY <2>1 DEF Summarised, Recorded
  <1>5. QED
    BY <1>3, <1>4
-----------------------------------------------------------------------------
(* The invariant holds before the session is created.                      *)
LEMMA InitIInv == Init => IInv
  <1> SUFFICES ASSUME Init PROVE IInv
    OBVIOUS
  <1> USE SessionAssumption DEF Init
  <1>1. TypeOK
    BY DEF TypeOK, Meta, NoMeta, Status, Kinds, Messages, PCs, Replies, Events
  <1>2. OneAtATime /\ StageInv
    BY DEF OneAtATime, StageInv, Holding
  <1>3. LifeInv /\ SavedInv /\ ThreadInv
    BY DEF LifeInv, SavedInv, ThreadInv
  <1>4. FileInv /\ RunsRecordedFirst
    BY DEF FileInv, AnswersFollowMessages, NothingForgotten, RunsRecordedFirst
  <1>5. QED
    BY <1>1, <1>2, <1>3, <1>4 DEF IInv

(* Steps that leave the thread and the set of messages alone keep what is  *)
(* known of them.                                                          *)
LEMMA FilesUntouched ==
    ASSUME FileInv, UNCHANGED <<thread, backup, said>>,
           life' = "live" /\ NoneFailed' => life = "live" /\ NoneFailed
    PROVE  FileInv' /\ Recorded(thread)' = Recorded(thread) /\ Summarised(thread)' = Summarised(thread)
  <1>1. AnswersFollowMessages'
    BY DEF FileInv, AnswersFollowMessages
  <1>2. Recorded(thread)' = Recorded(thread) /\ Recorded(backup)' = Recorded(backup)
    BY DEF Recorded
  <1>3. Summarised(thread)' = Summarised(thread)
    BY DEF Summarised, Readable
  <1>4. NothingForgotten'
    BY <1>2 DEF FileInv, NothingForgotten, NoneFailed
  <1>5. QED
    BY <1>1, <1>2, <1>3, <1>4 DEF FileInv

(* Steps that leave meta.json alone forget neither its runs nor who left   *)
(* it unreadable.                                                          *)
LEMMA MetaUntouched ==
    ASSUME RunsRecordedFirst, UNCHANGED <<thread, meta>>, life = "new" => life' = "new",
           unsaved \subseteq unsaved',
           \A c \in Commands : pc[c] = "died" => pc'[c] = "died"
    PROVE  RunsRecordedFirst'
  BY DEF RunsRecordedFirst, NoMeta

(* A write of meta.json names all runs that memory knows.                  *)
LEMMA MetaWritten ==
    ASSUME ThreadInv, life = "live", UNCHANGED thread, runs \subseteq runs',
           status' # "none", WriteMeta
    PROVE  RunsRecordedFirst'
  BY DEF RunsRecordedFirst, ThreadInv, WriteMeta, NoMeta

(* A write that fails leaves it as it was, or unreadable.                  *)
LEMMA MetaUnwritten ==
    ASSUME RunsRecordedFirst, UNCHANGED thread, NEW c \in Commands, WriteMetaFails(c)
    PROVE  RunsRecordedFirst'
  <1>1. c \in unsaved' /\ meta' \in {meta, NoMeta}
    BY DEF WriteMetaFails
  <1>2. CASE meta' = NoMeta
    BY <1>1, <1>2 DEF RunsRecordedFirst, NoMeta
  <1>3. CASE meta' = meta /\ meta # NoMeta
    BY <1>3 DEF RunsRecordedFirst, NoMeta
  <1>4. QED
    BY <1>1, <1>2, <1>3

(* A message goes to the end of the thread.                                *)
LEMMA FilesAppendUser ==
    ASSUME TypeOK, FileInv, ThreadInv, RunsRecordedFirst,
           NEW c \in Commands, AppendUser(c), UNCHANGED <<backup, meta, reply, life, runs>>,
           life = "live", \A d \in Commands : pc[d] = "died" => pc'[d] = "died"
    PROVE  /\ FileInv' /\ ThreadInv' /\ RunsRecordedFirst'
           /\ thread' \in Seq(Row)
           /\ Len(thread') > 0
           /\ thread'[Len(thread')] = UserRow(c)
  <1>1. /\ UserRow(c) \in Row
        /\ UserRow(c).of = {c}
        /\ UserRow(c).type = "user"
        /\ "user" \notin RunTypes
        /\ "user" # "cut"
    BY DEF UserRow, Row, RunTypes
  <1>2. thread \in Seq(Row) /\ thread' = Append(thread, UserRow(c))
    BY DEF TypeOK, AppendUser
  <1>3. /\ thread' \in Seq(Row)
        /\ Recorded(thread) \cup {c} \subseteq Recorded(thread')
    BY <1>1, <1>2, RecordedAppend
  <1>4. /\ DOMAIN thread' = DOMAIN thread \cup {Len(thread) + 1}
        /\ thread'[Len(thread) + 1] = UserRow(c)
        /\ \A i \in DOMAIN thread : thread'[i] = thread[i] /\ i \in 1 .. Len(thread)
        /\ Len(thread') = Len(thread) + 1
        /\ Len(thread) \in Nat
    BY <1>1, <1>2
  <1>5. AnswersFollowMessages'
    BY <1>1, <1>4 DEF FileInv, AnswersFollowMessages
  <1>6. NothingForgotten'
    <2>1. said' = said \cup {c}
      BY DEF AppendUser
    <2>2. Recorded(backup)' = Recorded(backup)
      BY DEF Recorded
    <2>3. QED
      BY <1>3, <2>1, <2>2 DEF FileInv, NothingForgotten
  <1>7. ThreadInv'
    BY <1>1, <1>4 DEF ThreadInv, NoneFailed
  <1>8. RunsRecordedFirst'
    <2>1. unsaved' = unsaved
      BY DEF AppendUser
    <2>2. QED
      BY <1>1, <1>4, <2>1 DEF RunsRecordedFirst, NoMeta
  <1>9. QED
    BY <1>3, <1>4, <1>5, <1>6, <1>7, <1>8 DEF FileInv

(* What a recorded run appends goes behind its message.                    *)
LEMMA FilesAppendRun ==
    ASSUME TypeOK, FileInv, ThreadInv, RunsRecordedFirst, LifeInv,
           NEW c \in Commands, NEW t \in RunTypes, AppendRun(c, t),
           Len(thread) > 0, thread[Len(thread)] = UserRow(c), c \in meta.runs,
           life = "live", UNCHANGED <<backup, meta, said, runs, life>>,
           NoneFailed' => NoneFailed /\ t # "cut"
    PROVE  /\ FileInv' /\ ThreadInv' /\ RunsRecordedFirst'
           /\ thread' \in Seq(Row)
  <1>1. /\ RunRow(c, t) \in Row
        /\ RunRow(c, t).of = {c}
        /\ RunRow(c, t).type = t
    BY DEF RunRow, Row, RunTypes
  <1>2. thread \in Seq(Row) /\ thread' = Append(thread, RunRow(c, t))
    BY DEF TypeOK, AppendRun
  <1>3. /\ thread' \in Seq(Row)
        /\ Recorded(thread) \subseteq Recorded(thread')
    BY <1>1, <1>2, RecordedAppend
  <1>4. /\ DOMAIN thread' = DOMAIN thread \cup {Len(thread) + 1}
        /\ thread'[Len(thread) + 1] = RunRow(c, t)
        /\ \A i \in DOMAIN thread : thread'[i] = thread[i] /\ i \in 1 .. Len(thread)
        /\ Len(thread) \in DOMAIN thread
        /\ Len(thread) \in Nat
    BY <1>1, <1>2
  <1>5. AnswersFollowMessages'
    <2> SUFFICES ASSUME NEW i \in DOMAIN thread', thread'[i].type \in RunTypes
                 PROVE  /\ i > 1
                        /\ thread'[i - 1] = [type |-> "user", of |-> thread'[i].of]
      BY DEF AnswersFollowMessages
    <2>1. CASE i = Len(thread) + 1
      <3>1. i - 1 = Len(thread) /\ i > 1
        BY <2>1, <1>4
      <3>2. thread'[i - 1] = UserRow(c) /\ thread'[i].of = {c}
        BY <3>1, <2>1, <1>1, <1>4
      <3>3. QED
        BY <3>1, <3>2 DEF UserRow
    <2>2. CASE i \in DOMAIN thread
      <3>1. i > 1 /\ thread[i - 1] = [type |-> "user", of |-> thread[i].of]
        BY <2>2, <1>4 DEF FileInv, AnswersFollowMessages
      <3>2. i - 1 \in DOMAIN thread
        BY <3>1, <2>2, <1>2
      <3>3. QED
        BY <3>1, <3>2, <2>2, <1>4
    <2>3. QED
      BY <2>1, <2>2, <1>4
  <1>6. NothingForgotten'
    <2>1. Recorded(backup)' = Recorded(backup)
      BY DEF Recorded
    <2>2. QED
      BY <1>3, <2>1 DEF FileInv, NothingForgotten, NoneFailed
  <1>7. meta # NoMeta /\ meta.runs \subseteq runs
    BY DEF NoMeta, LifeInv
  <1>8. ThreadInv'
    <2>1. c \in runs
      BY <1>7
    <2>2. QED
      BY <1>1, <1>4, <2>1 DEF ThreadInv
  <1>9. RunsRecordedFirst'
    BY <1>1, <1>4, <1>7 DEF RunsRecordedFirst, NoMeta
  <1>10. QED
    BY <1>3, <1>5, <1>6, <1>8, <1>9 DEF FileInv
-----------------------------------------------------------------------------
(* The command that takes a step is the only one at work.                  *)
LEMMA Alone ==
    ASSUME TypeOK, OneAtATime, NEW c \in Commands, lock = Nobody \/ pc[c] \in Holding
    PROVE  /\ \A d \in Commands \ {c} : pc[d] \notin Holding
           /\ pc[c] \in Holding <=> lock = c
           /\ c # Nobody
  BY SessionAssumption DEF TypeOK, OneAtATime

(* A command that is being worked on has no reply yet.                     *)
LEMMA Unreplied ==
    ASSUME TypeOK, StageInv, NEW c \in Commands, pc[c] # "done",
           NEW r, reply' = [reply EXCEPT ![c] = r]
    PROVE  /\ reply[c] = "none"
           /\ c \notin unsaved
           /\ NoneFailed' => NoneFailed /\ r # "failed"
  BY DEF TypeOK, StageInv, NoneFailed

(* A refused command changes nothing but its own reply.                    *)
LEMMA RefuseInv ==
    ASSUME IInv, NEW c \in Commands, NEW k \in Kinds, Refuse(c, k)
    PROVE  IInv'
  <1> USE SessionAssumption DEF memVars, cmdVars, diskVars, histVars, Refuse, Issue, Reply
  <1>0. /\ TypeOK /\ OneAtATime /\ StageInv /\ LifeInv /\ SavedInv
        /\ ThreadInv /\ FileInv /\ RunsRecordedFirst
    BY DEF IInv
  <1>2. /\ FileInv' /\ ThreadInv' /\ RunsRecordedFirst'
        /\ Summarised(thread)' = Summarised(thread)
    <2>1. NoneFailed' => NoneFailed
      BY <1>0, Unreplied DEF Holding, NoneFailed
    <2>2. FileInv' /\ Summarised(thread)' = Summarised(thread)
      BY <1>0, <2>1, FilesUntouched
    <2>3. ThreadInv'
      BY <1>0, <2>1 DEF ThreadInv, TypeOK
    <2>4. RunsRecordedFirst'
      BY <1>0, MetaUntouched DEF TypeOK, Holding
    <2>5. QED
      BY <2>2, <2>3, <2>4
  <1>3. TypeOK'
    BY <1>0, <1>2, SMTT(30) DEF TypeOK, Meta, Status, Kinds, Messages, PCs, Replies, Events, Holding
  <1>4. OneAtATime'
    BY <1>0, <1>2 DEF TypeOK, OneAtATime, Holding
  <1>5. StageInv'
    BY <1>0, <1>2, SMTT(30) DEF TypeOK, StageInv, Meta, NoMeta, Status, PCs, Replies, Holding, LifeInv
  <1>6. LifeInv'
    BY <1>0, <1>2, SMTT(30) DEF TypeOK, StageInv, LifeInv, Meta, NoMeta, Status, Events, Holding
  <1>7. SavedInv'
    BY <1>0, <1>2, SMTT(30) DEF TypeOK, StageInv, LifeInv, SavedInv, Meta, NoMeta, Status, Events, Holding
  <1>8. QED
    BY <1>2, <1>3, <1>4, <1>5, <1>6, <1>7 DEF IInv

(* Nor does a message to a closed session, or one that cannot be stored.    *)
LEMMA SendToClosedInv ==
    ASSUME IInv, NEW c \in Commands, NEW k \in Messages, SendToClosed(c, k) \/ SendFails(c, k)
    PROVE  IInv'
  <1> USE SessionAssumption DEF memVars, cmdVars, diskVars, histVars, SendToClosed, SendFails, Issue, Reply
  <1>0. /\ TypeOK /\ OneAtATime /\ StageInv /\ LifeInv /\ SavedInv
        /\ ThreadInv /\ FileInv /\ RunsRecordedFirst
    BY DEF IInv
  <1>1. /\ \A d \in Commands \ {c} : pc[d] \notin Holding
        /\ pc[c] \in Holding <=> lock = c
        /\ c # Nobody
        /\ pc[c] \in Holding => life = "live"
    BY <1>0, Alone DEF TypeOK, Holding, LifeInv, OneAtATime
  <1>2. /\ FileInv' /\ ThreadInv' /\ RunsRecordedFirst'
        /\ Summarised(thread)' = Summarised(thread)
    <2>1. NoneFailed' => NoneFailed
      BY <1>0, <1>1, Unreplied DEF Holding, NoneFailed
    <2>2. FileInv' /\ Summarised(thread)' = Summarised(thread)
      BY <1>0, <2>1, FilesUntouched
    <2>3. ThreadInv'
      BY <1>0, <1>1, <2>1 DEF ThreadInv, TypeOK
    <2>4. RunsRecordedFirst'
      BY <1>0, <1>1, MetaUntouched DEF TypeOK, Holding
    <2>5. QED
      BY <2>2, <2>3, <2>4
  <1>3. TypeOK'
    <2>1. UNCHANGED <<mode, life, status, runs, lock, snapshot, meta, thread, backup>>
      OBVIOUS
    <2>2. UNCHANGED <<said, answered, told, unsaved>>
      OBVIOUS
    <2>3. /\ kind' \in [Commands -> Kinds \cup {"none"}]
          /\ pc' \in [Commands -> PCs]
          /\ reply' \in [Commands -> Replies]
      BY <1>0 DEF TypeOK, Kinds, PCs, Replies
    <2>4. QED
      BY <1>0, <2>1, <2>2, <2>3 DEF TypeOK
  <1>4. OneAtATime'
    BY <1>0, <1>1, <1>2 DEF TypeOK, OneAtATime, Holding
  <1>5. StageInv'
    BY <1>0, <1>1, <1>2, SMTT(30) DEF TypeOK, StageInv, Meta, NoMeta, Status, PCs, Replies, Holding, LifeInv
  <1>6. LifeInv'
    BY <1>0, <1>1, <1>2, SMTT(30) DEF TypeOK, StageInv, LifeInv, Meta, NoMeta, Status, Events, Holding
  <1>7. SavedInv'
    BY <1>0, <1>1, <1>2, SMTT(30) DEF TypeOK, StageInv, LifeInv, SavedInv, Meta, NoMeta, Status, Events, Holding
  <1>8. QED
    BY <1>2, <1>3, <1>4, <1>5, <1>6, <1>7 DEF IInv

(* The sender has found the lock free and takes it in the same step.       *)
LEMMA SendInv ==
    ASSUME IInv, NEW c \in Commands, NEW k \in Messages, Send(c, k)
    PROVE  IInv'
  <1> USE SessionAssumption DEF memVars, cmdVars, diskVars, histVars, Send, Issue, Acquire
  <1>0. /\ TypeOK /\ OneAtATime /\ StageInv /\ LifeInv /\ SavedInv
        /\ ThreadInv /\ FileInv /\ RunsRecordedFirst
    BY DEF IInv
  <1>1. /\ \A d \in Commands \ {c} : pc[d] \notin Holding
        /\ pc[c] \in Holding <=> lock = c
        /\ c # Nobody
        /\ pc[c] \in Holding => life = "live"
    BY <1>0, Alone DEF TypeOK, Holding, LifeInv, OneAtATime
  <1>2. /\ FileInv' /\ ThreadInv' /\ RunsRecordedFirst'
        /\ unsaved' = unsaved
        /\ said' # said => /\ status = "active"
                          /\ AppendUser(c)
                          /\ thread' \in Seq(Row)
                          /\ Len(thread') > 0
                          /\ thread'[Len(thread')] = UserRow(c)
        /\ said' = said => /\ thread' = thread
                          /\ status = "waiting_for_input"
    <2>1. c \notin said /\ \A d \in Commands : pc[d] = "died" => pc'[d] = "died"
      BY <1>0 DEF StageInv, TypeOK
    <2>2. CASE AppendUser(c) /\ status = "active"
      BY <2>1, <2>2, <1>0, FilesAppendUser DEF AppendUser
    <2>3. CASE UNCHANGED <<thread, said, unsaved>> /\ status = "waiting_for_input"
      <3>1. FileInv'
        BY <2>3, <1>0, FilesUntouched DEF NoneFailed
      <3>2. ThreadInv' /\ RunsRecordedFirst'
        BY <2>1, <2>3, <1>0, MetaUntouched DEF ThreadInv, NoneFailed
      <3>3. QED
        BY <2>3, <3>1, <3>2
    <2>4. QED
      BY <2>2, <2>3
  <1>3. TypeOK'
    <2>1. pc' \in [Commands -> PCs] /\ reply' \in [Commands -> Replies]
      BY <1>0 DEF TypeOK, PCs, Replies, Holding
    <2>2. kind' \in [Commands -> Kinds \cup {"none"}]
      BY <1>0 DEF TypeOK, Kinds
    <2>3. thread' \in Seq(Row) /\ said' \subseteq Commands /\ told' \in Events
      BY <1>0, <1>2 DEF TypeOK, AppendUser, Events
    <2> HIDE DEF Send, Acquire, Issue
    <2>4. lock' = c /\ UNCHANGED <<mode, life, status, runs, snapshot, meta, backup, answered, unsaved>>
      BY <1>2 DEF Send, Acquire
    <2>5. QED
      BY <1>0, <2>1, <2>2, <2>3, <2>4 DEF TypeOK
  <1>4. OneAtATime'
    BY <1>0, <1>1 DEF TypeOK, OneAtATime, Holding
  <1>5. StageInv'
    <2>1. CASE said' = said
      BY <2>1, <1>0, <1>1, <1>2, SMTT(30) DEF TypeOK, StageInv, Holding
    <2>2. CASE said' # said
      BY <2>2, <1>0, <1>1, <1>2, SMTT(30) DEF AppendUser, TypeOK, StageInv, Holding
    <2>3. QED
      BY <2>1, <2>2
  <1>6. LifeInv'
    <2>1. told' \in {"resumed", "received"} /\ status' \in {"active", "waiting_for_input"}
      BY <1>2 DEF AppendUser
    <2>2. life = "live" /\ UNCHANGED <<life, status, runs, meta>>
      OBVIOUS
    <2> HIDE DEF Send, Acquire, Issue
    <2>3. QED
      BY <1>0, <2>1, <2>2 DEF LifeInv
  <1>7. SavedInv'
    BY <1>0, <1>1, <1>2, SMTT(30) DEF TypeOK, StageInv, LifeInv, SavedInv, Meta, NoMeta, Status, Events, Holding
  <1>8. QED
    BY <1>2, <1>3, <1>4, <1>5, <1>6, <1>7 DEF IInv

(* The session was resumed; now the message is appended.                   *)
LEMMA ResumeInv ==
    ASSUME IInv, NEW c \in Commands, Resume(c)
    PROVE  IInv'
  <1> USE SessionAssumption DEF memVars, cmdVars, diskVars, histVars, Resume
  <1>0. /\ TypeOK /\ OneAtATime /\ StageInv /\ LifeInv /\ SavedInv
        /\ ThreadInv /\ FileInv /\ RunsRecordedFirst
    BY DEF IInv
  <1>1. /\ \A d \in Commands \ {c} : pc[d] \notin Holding
        /\ pc[c] \in Holding <=> lock = c
        /\ c # Nobody
        /\ pc[c] \in Holding => life = "live"
    BY <1>0, Alone DEF TypeOK, Holding, LifeInv, OneAtATime
  <1>2. /\ FileInv' /\ ThreadInv' /\ RunsRecordedFirst'
        /\ unsaved' = unsaved
        /\ told' = "received"
        /\ said' = said \cup {c}
        /\ thread' \in Seq(Row)
        /\ Len(thread') > 0
        /\ thread'[Len(thread')] = UserRow(c)
    <2>1. AppendUser(c) /\ life = "live" /\ \A d \in Commands : pc[d] = "died" => pc'[d] = "died"
      BY <1>0, <1>1 DEF TypeOK, Holding
    <2>2. QED
      BY <2>1, <1>0, FilesAppendUser DEF AppendUser
  <1>3. TypeOK'
    BY <1>0, <1>2, SMTT(30) DEF TypeOK, Meta, Status, Kinds, Messages, PCs, Replies, Events, Holding
  <1>4. OneAtATime'
    BY <1>0, <1>1, <1>2 DEF TypeOK, OneAtATime, Holding
  <1>5. StageInv'
    BY <1>0, <1>1, <1>2, SMTT(30) DEF TypeOK, StageInv, Meta, NoMeta, Status, PCs, Replies, Holding, LifeInv
  <1>6. LifeInv'
    BY <1>0, <1>1, <1>2, SMTT(30) DEF TypeOK, StageInv, LifeInv, Meta, NoMeta, Status, Events, Holding
  <1>7. SavedInv'
    BY <1>0, <1>1, <1>2, SMTT(30) DEF TypeOK, StageInv, LifeInv, SavedInv, Meta, NoMeta, Status, Events, Holding
  <1>8. QED
    BY <1>2, <1>3, <1>4, <1>5, <1>6, <1>7 DEF IInv

(* The run is in meta.json before it starts.                               *)
LEMMA StartRunInv ==
    ASSUME IInv, NEW c \in Commands, StartRun(c)
    PROVE  IInv'
  <1> USE SessionAssumption DEF memVars, cmdVars, diskVars, histVars, StartRun, WriteMeta, WriteMetaFails, Reply, Fail, Release
  <1>0. /\ TypeOK /\ OneAtATime /\ StageInv /\ LifeInv /\ SavedInv
        /\ ThreadInv /\ FileInv /\ RunsRecordedFirst
    BY DEF IInv
  <1>1. /\ \A d \in Commands \ {c} : pc[d] \notin Holding
        /\ pc[c] \in Holding <=> lock = c
        /\ c # Nobody
        /\ pc[c] \in Holding => life = "live"
    BY <1>0, Alone DEF TypeOK, Holding, LifeInv, OneAtATime
  <1>2. /\ FileInv' /\ ThreadInv' /\ RunsRecordedFirst'
        /\ Summarised(thread)' = Summarised(thread)
    <2>1. NoneFailed' => NoneFailed
      BY <1>0, <1>1, Unreplied DEF Holding, NoneFailed
    <2>2. FileInv' /\ Summarised(thread)' = Summarised(thread)
      BY <1>0, <1>1, <2>1, FilesUntouched DEF Holding
    <2>3. ThreadInv'
      BY <1>0, <1>1, <2>1 DEF ThreadInv, TypeOK
    <2>4. life = "live" /\ runs \subseteq runs' /\ status' # "none" /\ thread' = thread
      BY <1>0, <1>1 DEF LifeInv, Holding
    <2>5. RunsRecordedFirst'
      <3>1. CASE WriteMeta
        BY <3>1, <1>0, <2>4, MetaWritten
      <3>2. CASE WriteMetaFails(c)
        BY <3>2, <1>0, <2>4, MetaUnwritten
      <3>3. QED
        BY <3>1, <3>2
    <2>6. QED
      BY <2>2, <2>3, <2>5
  <1>3. TypeOK'
    <2>1. pc' \in [Commands -> PCs] /\ reply' \in [Commands -> Replies]
      BY <1>0 DEF TypeOK, PCs, Replies, Holding
    <2>2. meta' \in Meta /\ unsaved' \subseteq Commands
      BY <1>0 DEF TypeOK, Meta, NoMeta, Status
    <2>3. QED
      BY <1>0, <2>1, <2>2, SMTT(30) DEF TypeOK, Status, Kinds, Events
  <1>4. OneAtATime'
    BY <1>0, <1>1, <1>2 DEF TypeOK, OneAtATime, Holding
  <1>5. StageInv'
    BY <1>0, <1>1, <1>2, SMTT(30) DEF TypeOK, StageInv, Meta, NoMeta, Status, PCs, Replies, Holding, LifeInv
  <1>6. LifeInv'
    BY <1>0, <1>1, <1>2, SMTT(30) DEF TypeOK, StageInv, LifeInv, Meta, NoMeta, Status, Events, Holding
  <1>7. SavedInv'
    BY <1>0, <1>1, <1>2, SMTT(30) DEF TypeOK, StageInv, LifeInv, SavedInv, Meta, NoMeta, Status, Events, Holding
  <1>8. QED
    BY <1>2, <1>3, <1>4, <1>5, <1>6, <1>7 DEF IInv

(* The last row is still the message that the run answers.                 *)
LEMMA RunReturnsInv ==
    ASSUME IInv, NEW c \in Commands, RunReturns(c)
    PROVE  IInv'
  <1> USE SessionAssumption DEF memVars, cmdVars, diskVars, histVars, RunReturns
  <1>0. /\ TypeOK /\ OneAtATime /\ StageInv /\ LifeInv /\ SavedInv
        /\ ThreadInv /\ FileInv /\ RunsRecordedFirst
    BY DEF IInv
  <1>1. /\ \A d \in Commands \ {c} : pc[d] \notin Holding
        /\ pc[c] \in Holding <=> lock = c
        /\ c # Nobody
        /\ pc[c] \in Holding => life = "live"
    BY <1>0, Alone DEF TypeOK, Holding, LifeInv, OneAtATime
  <1>2. /\ FileInv' /\ ThreadInv' /\ RunsRecordedFirst'
        /\ thread' \in Seq(Row)
    <2>1. /\ Len(thread) > 0
          /\ thread[Len(thread)] = UserRow(c)
          /\ c \in meta.runs
          /\ life = "live"
      BY <1>0, <1>1 DEF StageInv, Holding
    <2>2. NoneFailed' => NoneFailed
      BY DEF NoneFailed
    <2>3. ASSUME NEW t \in RunTypes, AppendRun(c, t), t = "answer"
          PROVE  FileInv' /\ ThreadInv' /\ RunsRecordedFirst' /\ thread' \in Seq(Row)
      BY <1>0, <2>1, <2>2, <2>3, FilesAppendRun
    <2>4. QED
      BY <2>3 DEF RunTypes
  <1>3. TypeOK'
    BY <1>0, <1>2, SMTT(30) DEF TypeOK, Meta, Status, Kinds, Messages, PCs, Replies, Events, Holding
  <1>4. OneAtATime'
    BY <1>0, <1>1, <1>2 DEF TypeOK, OneAtATime, Holding
  <1>5. StageInv'
    BY <1>0, <1>1, <1>2, SMTT(30) DEF TypeOK, StageInv, Meta, NoMeta, Status, PCs, Replies, Holding, LifeInv
  <1>6. LifeInv'
    BY <1>0, <1>1, <1>2, SMTT(30) DEF TypeOK, StageInv, LifeInv, Meta, NoMeta, Status, Events, Holding
  <1>7. SavedInv'
    BY <1>0, <1>1, <1>2, SMTT(30) DEF TypeOK, StageInv, LifeInv, SavedInv, Meta, NoMeta, Status, Events, Holding
  <1>8. QED
    BY <1>2, <1>3, <1>4, <1>5, <1>6, <1>7 DEF IInv

(* A run that raises may have appended something.                          *)
LEMMA RunRaisesInv ==
    ASSUME IInv, NEW c \in Commands, RunRaises(c)
    PROVE  IInv'
  <1> USE SessionAssumption DEF memVars, cmdVars, diskVars, histVars, RunRaises, Fail, Reply, Release
  <1>0. /\ TypeOK /\ OneAtATime /\ StageInv /\ LifeInv /\ SavedInv
        /\ ThreadInv /\ FileInv /\ RunsRecordedFirst
    BY DEF IInv
  <1>1. /\ \A d \in Commands \ {c} : pc[d] \notin Holding
        /\ pc[c] \in Holding <=> lock = c
        /\ c # Nobody
        /\ pc[c] \in Holding => life = "live"
    BY <1>0, Alone DEF TypeOK, Holding, LifeInv, OneAtATime
  <1>2. /\ FileInv' /\ ThreadInv' /\ RunsRecordedFirst'
        /\ thread' \in Seq(Row)
    <2>1. /\ Len(thread) > 0
          /\ thread[Len(thread)] = UserRow(c)
          /\ c \in meta.runs
          /\ life = "live"
      BY <1>0, <1>1 DEF StageInv, Holding
    <2>2. NoneFailed' => NoneFailed /\ "failed" # "failed"
      BY <1>0, Unreplied DEF NoneFailed
    <2>3. ASSUME NEW t \in RunTypes, AppendRun(c, t)
          PROVE  FileInv' /\ ThreadInv' /\ RunsRecordedFirst' /\ thread' \in Seq(Row)
      BY <1>0, <2>1, <2>2, <2>3, FilesAppendRun
    <2>4. CASE UNCHANGED thread
      <3>1. FileInv'
        BY <1>0, <2>2, <2>4, FilesUntouched
      <3>2. ThreadInv' /\ RunsRecordedFirst'
        BY <1>0, <2>1, <2>2, <2>4, MetaUntouched DEF ThreadInv, TypeOK
      <3>3. QED
        BY <3>1, <3>2, <2>4, <1>0 DEF TypeOK
    <2>5. QED
      BY <2>3, <2>4
  <1>3. TypeOK'
    BY <1>0, <1>2, SMTT(30) DEF TypeOK, Meta, Status, Kinds, Messages, PCs, Replies, Events, Holding
  <1>4. OneAtATime'
    BY <1>0, <1>1, <1>2 DEF TypeOK, OneAtATime, Holding
  <1>5. StageInv'
    BY <1>0, <1>1, <1>2, SMTT(30) DEF TypeOK, StageInv, Meta, NoMeta, Status, PCs, Replies, Holding, LifeInv
  <1>6. LifeInv'
    BY <1>0, <1>1, <1>2, SMTT(30) DEF TypeOK, StageInv, LifeInv, Meta, NoMeta, Status, Events, Holding
  <1>7. SavedInv'
    BY <1>0, <1>1, <1>2, SMTT(30) DEF TypeOK, StageInv, LifeInv, SavedInv, Meta, NoMeta, Status, Events, Holding
  <1>8. QED
    BY <1>2, <1>3, <1>4, <1>5, <1>6, <1>7 DEF IInv

(* A cancelled command keeps what it has done.                             *)
LEMMA CancelInv ==
    ASSUME IInv, NEW c \in Commands, Cancel(c)
    PROVE  IInv'
  <1> USE SessionAssumption DEF memVars, cmdVars, diskVars, histVars, Cancel, Fail, Reply, Release
  <1>0. /\ TypeOK /\ OneAtATime /\ StageInv /\ LifeInv /\ SavedInv
        /\ ThreadInv /\ FileInv /\ RunsRecordedFirst
    BY DEF IInv
  <1>1. /\ \A d \in Commands \ {c} : pc[d] \notin Holding
        /\ pc[c] \in Holding <=> lock = c
        /\ c # Nobody
        /\ pc[c] \in Holding => life = "live"
    BY <1>0, Alone DEF TypeOK, Holding, LifeInv, OneAtATime
  <1>2. /\ FileInv' /\ ThreadInv' /\ RunsRecordedFirst'
        /\ Summarised(thread)' = Summarised(thread)
    <2>1. NoneFailed' => NoneFailed
      BY <1>0, <1>1, Unreplied DEF Holding, NoneFailed
    <2>2. FileInv' /\ Summarised(thread)' = Summarised(thread)
      BY <1>0, <1>1, <2>1, FilesUntouched DEF Holding
    <2>3. ThreadInv'
      BY <1>0, <1>1, <2>1 DEF ThreadInv, TypeOK
    <2>4. RunsRecordedFirst'
      BY <1>0, <1>1, MetaUntouched DEF TypeOK, Holding
    <2>5. QED
      BY <2>2, <2>3, <2>4
  <1>3. TypeOK'
    BY <1>0, <1>2, SMTT(30) DEF TypeOK, Meta, Status, Kinds, Messages, PCs, Replies, Events, Holding
  <1>4. OneAtATime'
    BY <1>0, <1>1, <1>2 DEF TypeOK, OneAtATime, Holding
  <1>5. StageInv'
    BY <1>0, <1>1, <1>2, SMTT(30) DEF TypeOK, StageInv, Meta, NoMeta, Status, PCs, Replies, Holding, LifeInv
  <1>6. LifeInv'
    BY <1>0, <1>1, <1>2, SMTT(30) DEF TypeOK, StageInv, LifeInv, Meta, NoMeta, Status, Events, Holding
  <1>7. SavedInv'
    BY <1>0, <1>1, <1>2, SMTT(30) DEF TypeOK, StageInv, LifeInv, SavedInv, Meta, NoMeta, Status, Events, Holding
  <1>8. QED
    BY <1>2, <1>3, <1>4, <1>5, <1>6, <1>7 DEF IInv

(* meta.json catches up with memory before the lock is released.           *)
LEMMA EndSendInv ==
    ASSUME IInv, NEW c \in Commands, EndSend(c)
    PROVE  IInv'
  <1> USE SessionAssumption DEF memVars, cmdVars, diskVars, histVars, EndSend, WriteMeta, WriteMetaFails, Reply, Fail, Release
  <1>0. /\ TypeOK /\ OneAtATime /\ StageInv /\ LifeInv /\ SavedInv
        /\ ThreadInv /\ FileInv /\ RunsRecordedFirst
    BY DEF IInv
  <1>1. /\ \A d \in Commands \ {c} : pc[d] \notin Holding
        /\ pc[c] \in Holding <=> lock = c
        /\ c # Nobody
        /\ pc[c] \in Holding => life = "live"
    BY <1>0, Alone DEF TypeOK, Holding, LifeInv, OneAtATime
  <1>2. /\ FileInv' /\ ThreadInv' /\ RunsRecordedFirst'
        /\ Summarised(thread)' = Summarised(thread)
    <2>1. NoneFailed' => NoneFailed
      BY <1>0, <1>1, Unreplied DEF Holding, NoneFailed
    <2>2. FileInv' /\ Summarised(thread)' = Summarised(thread)
      BY <1>0, <1>1, <2>1, FilesUntouched DEF Holding
    <2>3. ThreadInv'
      BY <1>0, <1>1, <2>1 DEF ThreadInv, TypeOK
    <2>4. life = "live" /\ runs \subseteq runs' /\ status' # "none" /\ thread' = thread
      BY <1>0, <1>1 DEF LifeInv, Holding
    <2>5. RunsRecordedFirst'
      <3>1. CASE WriteMeta
        BY <3>1, <1>0, <2>4, MetaWritten
      <3>2. CASE WriteMetaFails(c)
        BY <3>2, <1>0, <2>4, MetaUnwritten
      <3>3. QED
        BY <3>1, <3>2
    <2>6. QED
      BY <2>2, <2>3, <2>5
  <1>3. TypeOK'
    <2>1. pc' \in [Commands -> PCs] /\ reply' \in [Commands -> Replies]
      BY <1>0 DEF TypeOK, PCs, Replies, Holding
    <2>2. meta' \in Meta /\ unsaved' \subseteq Commands
      BY <1>0 DEF TypeOK, Meta, NoMeta, Status
    <2>3. QED
      BY <1>0, <2>1, <2>2, SMTT(30) DEF TypeOK, Status, Kinds, Events
  <1>4. OneAtATime'
    BY <1>0, <1>1, <1>2 DEF TypeOK, OneAtATime, Holding
  <1>5. StageInv'
    BY <1>0, <1>1, <1>2, SMTT(30) DEF TypeOK, StageInv, Meta, NoMeta, Status, PCs, Replies, Holding, LifeInv
  <1>6. LifeInv'
    BY <1>0, <1>1, <1>2, SMTT(30) DEF TypeOK, StageInv, LifeInv, Meta, NoMeta, Status, Events, Holding
  <1>7. SavedInv'
    BY <1>0, <1>1, <1>2, SMTT(30) DEF TypeOK, StageInv, LifeInv, SavedInv, Meta, NoMeta, Status, Events, Holding
  <1>8. QED
    BY <1>2, <1>3, <1>4, <1>5, <1>6, <1>7 DEF IInv

(* Closing writes meta.json at once.                                       *)
LEMMA CloseInv ==
    ASSUME IInv, NEW c \in Commands, Close(c)
    PROVE  IInv'
  <1> USE SessionAssumption DEF memVars, cmdVars, diskVars, histVars, Close, Issue, Acquire, WriteMeta, WriteMetaFails, Reply, Fail, Release
  <1>0. /\ TypeOK /\ OneAtATime /\ StageInv /\ LifeInv /\ SavedInv
        /\ ThreadInv /\ FileInv /\ RunsRecordedFirst
    BY DEF IInv
  <1>1. /\ \A d \in Commands \ {c} : pc[d] \notin Holding
        /\ pc[c] \in Holding <=> lock = c
        /\ c # Nobody
        /\ pc[c] \in Holding => life = "live"
    BY <1>0, Alone DEF TypeOK, Holding, LifeInv, OneAtATime
  <1>2. /\ FileInv' /\ ThreadInv' /\ RunsRecordedFirst'
        /\ Summarised(thread)' = Summarised(thread)
    <2>1. NoneFailed' => NoneFailed
      BY <1>0, <1>1, Unreplied DEF Holding, NoneFailed
    <2>2. FileInv' /\ Summarised(thread)' = Summarised(thread)
      BY <1>0, <1>1, <2>1, FilesUntouched DEF Holding
    <2>3. ThreadInv'
      BY <1>0, <1>1, <2>1 DEF ThreadInv, TypeOK
    <2>4. life = "live" /\ runs \subseteq runs' /\ status' # "none" /\ thread' = thread
      BY <1>0, <1>1 DEF LifeInv, Holding
    <2>5. RunsRecordedFirst'
      <3>1. CASE WriteMeta
        BY <3>1, <1>0, <2>4, MetaWritten
      <3>2. CASE WriteMetaFails(c)
        BY <3>2, <1>0, <2>4, MetaUnwritten
      <3>3. QED
        BY <3>1, <3>2
    <2>6. QED
      BY <2>2, <2>3, <2>5
  <1>3. TypeOK'
    <2>1. /\ kind' \in [Commands -> Kinds \cup {"none"}]
          /\ pc' \in [Commands -> PCs]
          /\ reply' \in [Commands -> Replies]
          /\ lock' \in Commands \cup {Nobody}
      <3>1. kind' \in [Commands -> Kinds \cup {"none"}]
        BY <1>0 DEF TypeOK, Kinds
      <3>2. CASE Acquire(c, "closing")
        BY <1>0, <3>1, <3>2 DEF TypeOK, PCs, Holding
      <3>3. CASE Fail(c)
        BY <1>0, <3>1, <3>3 DEF TypeOK, PCs, Replies
      <3>4. QED
        BY <3>2, <3>3
    <2>2. meta' \in Meta /\ unsaved' \subseteq Commands
      BY <1>0 DEF TypeOK, Meta, NoMeta, Status
    <2>3. QED
      BY <1>0, <2>1, <2>2, SMTT(30) DEF TypeOK, Status, Kinds, Events
  <1>4. OneAtATime'
    BY <1>0, <1>1, <1>2 DEF TypeOK, OneAtATime, Holding
  <1>5. StageInv'
    BY <1>0, <1>1, <1>2, SMTT(30) DEF TypeOK, StageInv, Meta, NoMeta, Status, PCs, Replies, Holding, LifeInv
  <1>6. LifeInv'
    BY <1>0, <1>1, <1>2, SMTT(30) DEF TypeOK, StageInv, LifeInv, Meta, NoMeta, Status, Events, Holding
  <1>7. SavedInv'
    BY <1>0, <1>1, <1>2, SMTT(30) DEF TypeOK, StageInv, LifeInv, SavedInv, Meta, NoMeta, Status, Events, Holding
  <1>8. QED
    BY <1>2, <1>3, <1>4, <1>5, <1>6, <1>7 DEF IInv

(* The lock is released; meta.json was written already.                    *)
LEMMA EndCloseInv ==
    ASSUME IInv, NEW c \in Commands, EndClose(c)
    PROVE  IInv'
  <1> USE SessionAssumption DEF memVars, cmdVars, diskVars, histVars, EndClose, Reply, Release
  <1>0. /\ TypeOK /\ OneAtATime /\ StageInv /\ LifeInv /\ SavedInv
        /\ ThreadInv /\ FileInv /\ RunsRecordedFirst
    BY DEF IInv
  <1>1. /\ \A d \in Commands \ {c} : pc[d] \notin Holding
        /\ pc[c] \in Holding <=> lock = c
        /\ c # Nobody
        /\ pc[c] \in Holding => life = "live"
    BY <1>0, Alone DEF TypeOK, Holding, LifeInv, OneAtATime
  <1>2. /\ FileInv' /\ ThreadInv' /\ RunsRecordedFirst'
        /\ Summarised(thread)' = Summarised(thread)
    <2>1. NoneFailed' => NoneFailed
      BY <1>0, <1>1, Unreplied DEF Holding, NoneFailed
    <2>2. FileInv' /\ Summarised(thread)' = Summarised(thread)
      BY <1>0, <2>1, FilesUntouched
    <2>3. ThreadInv'
      BY <1>0, <1>1, <2>1 DEF ThreadInv, TypeOK
    <2>4. RunsRecordedFirst'
      BY <1>0, <1>1, MetaUntouched DEF TypeOK, Holding
    <2>5. QED
      BY <2>2, <2>3, <2>4
  <1>3. TypeOK'
    BY <1>0, <1>2, SMTT(30) DEF TypeOK, Meta, Status, Kinds, Messages, PCs, Replies, Events, Holding
  <1>4. OneAtATime'
    BY <1>0, <1>1, <1>2 DEF TypeOK, OneAtATime, Holding
  <1>5. StageInv'
    BY <1>0, <1>1, <1>2, SMTT(30) DEF TypeOK, StageInv, Meta, NoMeta, Status, PCs, Replies, Holding, LifeInv
  <1>6. LifeInv'
    BY <1>0, <1>1, <1>2, SMTT(30) DEF TypeOK, StageInv, LifeInv, Meta, NoMeta, Status, Events, Holding
  <1>7. SavedInv'
    BY <1>0, <1>1, <1>2, SMTT(30) DEF TypeOK, StageInv, LifeInv, SavedInv, Meta, NoMeta, Status, Events, Holding
  <1>8. QED
    BY <1>2, <1>3, <1>4, <1>5, <1>6, <1>7 DEF IInv

(* What compaction has read stays the thread as long as it holds the lock. *)
LEMMA CompactInv ==
    ASSUME IInv, NEW c \in Commands, Compact(c)
    PROVE  IInv'
  <1> USE SessionAssumption DEF memVars, cmdVars, diskVars, histVars, Compact, Issue, Acquire
  <1>0. /\ TypeOK /\ OneAtATime /\ StageInv /\ LifeInv /\ SavedInv
        /\ ThreadInv /\ FileInv /\ RunsRecordedFirst
    BY DEF IInv
  <1>1. /\ \A d \in Commands \ {c} : pc[d] \notin Holding
        /\ pc[c] \in Holding <=> lock = c
        /\ c # Nobody
        /\ pc[c] \in Holding => life = "live"
    BY <1>0, Alone DEF TypeOK, Holding, LifeInv, OneAtATime
  <1>2. /\ FileInv' /\ ThreadInv' /\ RunsRecordedFirst'
        /\ Summarised(thread)' = Summarised(thread)
        /\ Summarised(thread) \in SUBSET Commands
    <2>1. NoneFailed' => NoneFailed
      BY DEF NoneFailed
    <2>2. FileInv' /\ Summarised(thread)' = Summarised(thread)
      BY <1>0, <2>1, FilesUntouched
    <2>3. ThreadInv'
      BY <1>0, <1>1, <2>1 DEF ThreadInv, TypeOK
    <2>4. RunsRecordedFirst'
      BY <1>0, <1>1, MetaUntouched DEF TypeOK, Holding
    <2>5. Summarised(thread) \in SUBSET Commands
      BY <1>0, SummarisedRecorded DEF TypeOK
    <2>6. QED
      BY <2>2, <2>3, <2>4, <2>5
  <1>3. TypeOK'
    BY <1>0, <1>2, SMTT(30) DEF TypeOK, Meta, Status, Kinds, Messages, PCs, Replies, Events, Holding
  <1>4. OneAtATime'
    BY <1>0, <1>1, <1>2 DEF TypeOK, OneAtATime, Holding
  <1>5. StageInv'
    BY <1>0, <1>1, <1>2, SMTT(30) DEF TypeOK, StageInv, Meta, NoMeta, Status, PCs, Replies, Holding, LifeInv
  <1>6. LifeInv'
    BY <1>0, <1>1, <1>2, SMTT(30) DEF TypeOK, StageInv, LifeInv, Meta, NoMeta, Status, Events, Holding
  <1>7. SavedInv'
    BY <1>0, <1>1, <1>2, SMTT(30) DEF TypeOK, StageInv, LifeInv, SavedInv, Meta, NoMeta, Status, Events, Holding
  <1>8. QED
    BY <1>2, <1>3, <1>4, <1>5, <1>6, <1>7 DEF IInv

(* The summary stands for what could be read of the thread it replaces,   *)
(* and the backup for the rest.                                            *)
LEMMA EndCompactInv ==
    ASSUME IInv, NEW c \in Commands, EndCompact(c)
    PROVE  IInv'
  <1> USE SessionAssumption DEF memVars, cmdVars, diskVars, histVars, EndCompact, Reply, Release
  <1>0. /\ TypeOK /\ OneAtATime /\ StageInv /\ LifeInv /\ SavedInv
        /\ ThreadInv /\ FileInv /\ RunsRecordedFirst
    BY DEF IInv
  <1>1. /\ \A d \in Commands \ {c} : pc[d] \notin Holding
        /\ pc[c] \in Holding <=> lock = c
        /\ c # Nobody
        /\ pc[c] \in Holding => life = "live"
    BY <1>0, Alone DEF TypeOK, Holding, LifeInv, OneAtATime
  <1>2. /\ FileInv' /\ ThreadInv' /\ RunsRecordedFirst'
        /\ thread' \in Seq(Row)
        /\ backup' \in Seq(Row)
    <2>1. thread \in Seq(Row) /\ backup \in Seq(Row) /\ snapshot[c] = Summarised(thread)
      BY <1>0 DEF StageInv, TypeOK
    <2>2. /\ NoneFailed' => NoneFailed /\ reply'[c] # "failed"
          /\ life = "live" /\ life' = "live"
      BY <1>0, <1>1, Unreplied DEF Holding, NoneFailed
    <2>3. Summarised(thread) \in SUBSET Commands
      BY <2>1, SummarisedRecorded
    <2>4. CASE KeepThread /\ thread' = <<SummaryRow(snapshot[c])>>
      <3>1. thread' \in Seq(Row) /\ Recorded(thread)' = Summarised(thread)
        BY <2>1, <2>3, <2>4, RecordedSummary
      <3>2. NoneFailed' => said' \subseteq Recorded(thread)'
        <4>1. NoneFailed => Summarised(thread) = Recorded(thread)
          BY <1>0, <2>1, <2>2, SummarisedRecorded DEF ThreadInv
        <4>2. NoneFailed => said \subseteq Recorded(thread)
          BY <1>0, <2>2 DEF FileInv, NothingForgotten, NoneFailed
        <4>3. QED
          BY <2>2, <3>1, <4>1, <4>2
      <3>3. backup' \in Seq(Row) /\ NothingForgotten'
        BY <3>2, <2>1, <2>4, <1>0, RecordedConcat
           DEF KeepThread, FileInv, NothingForgotten, NoneFailed
      <3>4. /\ DOMAIN thread' = {1}
            /\ thread'[1].type = "summary"
        BY <2>4 DEF SummaryRow
      <3>5. AnswersFollowMessages' /\ ThreadInv' /\ RunsRecordedFirst'
        BY <3>4, <1>0, <2>2 DEF AnswersFollowMessages, ThreadInv, RunsRecordedFirst, RunTypes,
           NoMeta, TypeOK
      <3>6. QED
        BY <3>1, <3>3, <3>5 DEF FileInv
    <2>5. CASE KeepThread /\ thread' = <<>> /\ reply'[c] = "failed"
      <3>1. backup' \in Seq(Row) /\ said' \subseteq Recorded(backup)'
        BY <2>1, <2>5, <1>0, RecordedConcat DEF KeepThread, FileInv, NothingForgotten
      <3>2. NothingForgotten' /\ AnswersFollowMessages' /\ ThreadInv' /\ RunsRecordedFirst'
        BY <3>1, <2>5, <2>2, <1>0 DEF NothingForgotten, AnswersFollowMessages, ThreadInv,
           RunsRecordedFirst, NoneFailed, NoMeta, TypeOK
      <3>3. QED
        BY <3>1, <3>2, <2>5 DEF FileInv
    <2>6. CASE UNCHANGED <<thread, backup>>
      <3>1. FileInv'
        BY <1>0, <2>2, <2>6, FilesUntouched
      <3>2. ThreadInv' /\ RunsRecordedFirst'
        BY <1>0, <2>2, <2>6, MetaUntouched DEF ThreadInv, TypeOK
      <3>3. QED
        BY <2>1, <2>6, <3>1, <3>2
    <2>7. QED
      <3>1. reply'[c] = "ok" \/ reply'[c] = "failed"
        BY <1>0 DEF TypeOK
      <3>2. QED
        BY <2>4, <2>5, <2>6, <1>0 DEF TypeOK
  <1>3. TypeOK'
    BY <1>0, <1>2, SMTT(30) DEF TypeOK, Meta, Status, Kinds, Messages, PCs, Replies, Events, Holding
  <1>4. OneAtATime'
    BY <1>0, <1>1, <1>2 DEF TypeOK, OneAtATime, Holding
  <1>5. StageInv'
    BY <1>0, <1>1, <1>2, SMTT(30) DEF TypeOK, StageInv, Meta, NoMeta, Status, PCs, Replies, Holding, LifeInv
  <1>6. LifeInv'
    BY <1>0, <1>1, <1>2, SMTT(30) DEF TypeOK, StageInv, LifeInv, Meta, NoMeta, Status, Events, Holding
  <1>7. SavedInv'
    BY <1>0, <1>1, <1>2, SMTT(30) DEF TypeOK, StageInv, LifeInv, SavedInv, Meta, NoMeta, Status, Events, Holding
  <1>8. QED
    BY <1>2, <1>3, <1>4, <1>5, <1>6, <1>7 DEF IInv

(* A new session is told and written.                                      *)
LEMMA CreateInv ==
    ASSUME IInv, NEW m \in Modes, Create(m)
    PROVE  IInv'
  <1> USE SessionAssumption DEF memVars, cmdVars, diskVars, histVars, Create
  <1>0. /\ TypeOK /\ OneAtATime /\ StageInv /\ LifeInv
    BY DEF IInv
  <1>1. /\ thread' = <<>> /\ backup' = <<>> /\ said' = {} /\ runs' = {} /\ unsaved' = {}
        /\ meta' # NoMeta
        /\ \A c \in Commands : pc[c] \notin Holding
    BY <1>0 DEF LifeInv, OneAtATime, NoMeta
  <1>2. FileInv' /\ RunsRecordedFirst' /\ ThreadInv'
    BY <1>1 DEF FileInv, AnswersFollowMessages, NothingForgotten, RunsRecordedFirst, ThreadInv, NoMeta
  <1>3. TypeOK'
    BY <1>0, <1>1 DEF TypeOK, Modes, Meta, Status, Kinds, Messages, PCs, Replies, Events, Holding
  <1>4. OneAtATime'
    BY <1>0, <1>1 DEF OneAtATime
  <1>5. StageInv'
    BY <1>0, <1>1 DEF StageInv, Holding
  <1>6. LifeInv' /\ SavedInv'
    BY <1>0, <1>1 DEF LifeInv, SavedInv, Holding
  <1>7. QED
    BY <1>2, <1>3, <1>4, <1>5, <1>6 DEF IInv

(* Whatever the daemon was doing when it died, its files are as they were, *)
(* meta.json is unreadable, or the whole thread has become a backup.       *)
LEMMA DieInv ==
    ASSUME IInv, DieBetween \/ DieInRename \/ \E c \in Commands : DieWriting(c)
    PROVE  IInv'
  <1> USE SessionAssumption DEF memVars, cmdVars, diskVars, histVars, Release
  <1>0. /\ TypeOK /\ OneAtATime /\ StageInv /\ LifeInv /\ FileInv /\ RunsRecordedFirst
    BY DEF IInv
  <1>1. PICK S \in SUBSET Commands :
           /\ Die(S)
           /\ \A c \in Commands : pc[c] \in Holding => c \in S
           /\ \A c \in S : pc[c] # "done"
    <2>1. CASE DieBetween \/ DieInRename
      BY <2>1 DEF DieBetween, DieInRename, AtWork, Holding
    <2>2. ASSUME NEW c \in Commands, DieWriting(c)
          PROVE  \E S \in SUBSET Commands :
                    /\ Die(S)
                    /\ \A d \in Commands : pc[d] \in Holding => d \in S
                    /\ \A d \in S : pc[d] # "done"
      <3>1. /\ Die({c})
            /\ \A d \in Commands : pc[d] \in Holding => d = c
            /\ pc[c] # "done"
        BY <1>0, <2>2, Alone DEF DieWriting, Issue, Holding
      <3>2. WITNESS {c} \in SUBSET Commands
      <3>3. QED
        BY <3>1
    <2>3. QED
      BY <2>1, <2>2
  <1>2. /\ life = "live" /\ life' = "lost" /\ status' = "none" /\ lock' = Nobody
        /\ UNCHANGED <<mode, reply, snapshot, said, answered, told, unsaved>>
        /\ \A c \in Commands : /\ pc'[c] \notin Holding
                               /\ pc'[c] = "idle" => pc[c] = "idle"
                               /\ pc[c] = "done" => pc'[c] = "done"
                               /\ pc[c] = "died" => pc'[c] = "died"
    BY <1>0, <1>1 DEF TypeOK, Holding, Die
  <1>3. FileInv' /\ RunsRecordedFirst' /\ thread' \in Seq(Row) /\ backup' \in Seq(Row)
        /\ meta' \in Meta
    <2>1. CASE DieBetween
      BY <1>0, <1>2, <2>1, FilesUntouched, MetaUntouched DEF TypeOK, DieBetween
    <2>2. ASSUME NEW c \in Commands, DieWriting(c)
          PROVE  /\ FileInv' /\ RunsRecordedFirst' /\ thread' \in Seq(Row)
                 /\ backup' \in Seq(Row) /\ meta' \in Meta
      <3>1. UNCHANGED <<thread, backup>> /\ meta' = NoMeta /\ pc'[c] = "died"
        BY <2>2, <1>0 DEF DieWriting, Die, TypeOK
      <3>2. QED
        BY <1>0, <1>2, <3>1, FilesUntouched DEF TypeOK, RunsRecordedFirst, NoMeta, Meta, Status
    <2>3. CASE DieInRename
      <3>1. thread' = <<>> /\ backup' = backup \o thread /\ meta' = meta
        BY <2>3 DEF DieInRename, KeepThread
      <3>2. backup' \in Seq(Row) /\ said' \subseteq Recorded(backup)'
        BY <1>0, <1>2, <3>1, RecordedConcat DEF TypeOK, FileInv, NothingForgotten
      <3>3. FileInv' /\ RunsRecordedFirst'
        BY <1>0, <1>2, <3>1, <3>2, <2>3 DEF FileInv, AnswersFollowMessages, NothingForgotten,
           RunsRecordedFirst, NoMeta, DieInRename, Die
      <3>4. QED
        BY <1>0, <3>1, <3>2, <3>3 DEF TypeOK
    <2>4. QED
      BY <2>1, <2>2, <2>3
  <1>4. TypeOK'
    <2>1. pc' \in [Commands -> PCs] /\ runs' = {}
      BY <1>0, <1>1 DEF TypeOK, PCs, Holding, Die
    <2>2. kind' \in [Commands -> Kinds \cup {"none"}]
      <3>1. UNCHANGED kind \/ \E c \in Commands : Issue(c, "close")
        BY DEF DieBetween, DieInRename, DieWriting
      <3>2. QED
        BY <1>0, <3>1 DEF TypeOK, Issue, Kinds
    <2>3. QED
      BY <1>0, <1>2, <1>3, <2>1, <2>2 DEF TypeOK, Status
  <1>5. OneAtATime'
    BY <1>2 DEF OneAtATime
  <1>6. StageInv'
    BY <1>0, <1>2 DEF StageInv, Holding
  <1>7. LifeInv' /\ SavedInv' /\ ThreadInv'
    BY <1>2 DEF LifeInv, SavedInv, ThreadInv
  <1>8. QED
    BY <1>3, <1>4, <1>5, <1>6, <1>7 DEF IInv

(* The invariant speaks of the state only.                                 *)
LEMMA StutterInv == IInv /\ UNCHANGED vars => IInv'
  BY DEF IInv, TypeOK, OneAtATime, StageInv, LifeInv, SavedInv, ThreadInv, FileInv,
         NoneFailed, AnswersFollowMessages, NothingForgotten, RunsRecordedFirst,
         Recorded, Summarised, Readable, vars, memVars, cmdVars, diskVars, histVars

(* Every step keeps the invariant: one lemma per action.                   *)
LEMMA StepIInv == IInv /\ [Next]_vars => IInv'
  <1> SUFFICES ASSUME IInv, [Next]_vars PROVE IInv'
    OBVIOUS
  <1>1. CASE UNCHANGED vars
    BY <1>1, StutterInv
  <1>2. ASSUME NEW m \in Modes, Create(m) PROVE IInv'
    BY <1>2, CreateInv
  <1>3. ASSUME NEW c \in Commands, NEW k \in Kinds, Refuse(c, k) PROVE IInv'
    BY <1>3, RefuseInv
  <1>4. ASSUME NEW c \in Commands, NEW k \in Messages,
               Send(c, k) \/ SendToClosed(c, k) \/ SendFails(c, k)
        PROVE  IInv'
    BY <1>4, SendInv, SendToClosedInv
  <1>5. ASSUME NEW c \in Commands, Proceed(c) PROVE IInv'
    BY <1>5, ResumeInv, StartRunInv, RunReturnsInv, RunRaisesInv, EndSendInv, EndCloseInv,
       EndCompactInv DEF Proceed
  <1>6. ASSUME NEW c \in Commands, Close(c) \/ Compact(c) \/ Cancel(c) PROVE IInv'
    BY <1>6, CloseInv, CompactInv, CancelInv
  <1>7. CASE DieBetween \/ DieInRename \/ \E c \in Commands : DieWriting(c)
    BY <1>7, DieInv
  <1>8. QED
    BY <1>1, <1>2, <1>3, <1>4, <1>5, <1>6, <1>7 DEF Next, Proceed

(* Hence the invariant holds in every reachable state.                     *)
THEOREM InductiveInvariant == Spec => []IInv
  <1>1. Init => IInv
    BY InitIInv
  <1>2. IInv /\ [Next]_vars => IInv'
    BY StepIInv
  <1>3. QED
    BY <1>1, <1>2, PTL DEF Spec
-----------------------------------------------------------------------------
(* Type correctness of the session, its commands and its files.            *)
THEOREM SessionTypeCorrect == Spec => []TypeOK
  <1>1. IInv => TypeOK
    BY DEF IInv
  <1>2. QED
    BY <1>1, InductiveInvariant, PTL

(* send_message, close and compact exclude each other on a session.        *)
THEOREM MutualExclusion == Spec => []OneAtATime
  <1>1. IInv => OneAtATime
    BY DEF IInv
  <1>2. QED
    BY <1>1, InductiveInvariant, PTL

(* The rows that runs append stand behind the messages they answer.        *)
THEOREM AnswersInOrder == Spec => []AnswersFollowMessages
  <1>1. IInv => AnswersFollowMessages
    BY DEF IInv, FileInv
  <1>2. QED
    BY <1>1, InductiveInvariant, PTL

(* No overlap of commands and no death of the daemon loses a message.      *)
THEOREM MessagesKept == Spec => []NothingForgotten
  <1>1. IInv => NothingForgotten
    BY DEF IInv, FileInv
  <1>2. QED
    BY <1>1, InductiveInvariant, PTL

(* meta.json, if it can be read, names every run that the thread has       *)
(* anything of; and if not, a write of it failed or the daemon died in it. *)
THEOREM RunsRecorded == Spec => []RunsRecordedFirst
  <1>1. IInv => RunsRecordedFirst
    BY DEF IInv
  <1>2. QED
    BY <1>1, InductiveInvariant, PTL

(* Between commands meta.json is what memory is, and the last event tells  *)
(* the status, unless a write of it failed or was skipped by a             *)
(* cancellation since.                                                     *)
THEOREM StatusConsistent == Spec => []MetaAgrees
  <1>1. IInv => MetaAgrees
    <2> SUFFICES ASSUME IInv, life = "live", lock = Nobody PROVE MetaAgrees
      BY DEF MetaAgrees
    <2>1. \A c \in Commands : pc[c] \notin Holding
      BY SessionAssumption DEF IInv, OneAtATime
    <2>2. ASSUME unsaved = {}
          PROVE  /\ meta = [status |-> status, runs |-> runs]
                 /\ told = "waiting" => status = "waiting_for_input"
                 /\ status = "closed" => told = "closed"
      <3>1. meta.status = status /\ meta.runs = runs /\ meta \in Meta
        BY <2>1, <2>2 DEF IInv, SavedInv, TypeOK, Holding
      <3>2. meta = [status |-> status, runs |-> runs]
        BY <3>1 DEF Meta
      <3>3. QED
        BY <2>1, <2>2, <3>2 DEF IInv, SavedInv, Holding
    <2>3. \A c \in unsaved : reply[c] = "failed"
      BY DEF IInv, StageInv, TypeOK
    <2>4. meta.runs \subseteq runs /\ (told = "closed" => status = "closed")
      BY DEF IInv, LifeInv
    <2>5. QED
      BY <2>2, <2>3, <2>4 DEF MetaAgrees
  <1>2. QED
    BY <1>1, InductiveInvariant, PTL

(* A closed session stays closed, takes no message and starts no run.      *)
THEOREM ClosedStaysClosed == Spec => ClosedIsFinal
  <1>1. ASSUME IInv, [Next]_vars
        PROVE  [status = "closed" /\ life' = "live" =>
                   status' = "closed" /\ runs' = runs /\ said' = said]_vars
    <2> SUFFICES ASSUME Next, status = "closed", life' = "live"
                 PROVE  status' = "closed" /\ runs' = runs /\ said' = said
      BY <1>1
    <2> USE DEF memVars, cmdVars, diskVars, histVars
    <2>1. life = "live"
      BY <1>1 DEF IInv, LifeInv, TypeOK
    <2>2. \A c \in Commands : pc[c] \notin {"resuming", "received", "running"}
      BY <1>1 DEF IInv, StageInv
    <2>3. /\ \A m \in Modes : ~Create(m)
          /\ ~DieBetween /\ ~DieInRename /\ \A c \in Commands : ~DieWriting(c)
      BY <2>1 DEF Create, Die, DieBetween, DieInRename, DieWriting
    <2>4. ASSUME NEW c \in Commands,
                 \/ \E k \in Kinds : Refuse(c, k)
                 \/ \E k \in Messages : Send(c, k) \/ SendToClosed(c, k) \/ SendFails(c, k)
                 \/ Proceed(c)
                 \/ Close(c)
                 \/ Compact(c)
                 \/ Cancel(c)
          PROVE  status' = "closed" /\ runs' = runs /\ said' = said
      BY <2>2, <2>4 DEF Refuse, Send, SendToClosed, SendFails, Proceed, Resume, StartRun,
         RunReturns, RunRaises, EndSend, EndClose, EndCompact, Close, Compact, Cancel
    <2>5. QED
      BY <2>3, <2>4 DEF Next, Proceed
  <1>2. QED
    BY <1>1, InductiveInvariant, PTL DEF Spec, ClosedIsFinal

(* A one-shot session that is not closed has answered nothing yet.         *)
AnswerInv ==
    /\ OneAnswer
    /\ life = "new" => answered = {}
    /\ OneShot /\ answered # {} /\ life = "live" => status = "closed"

(* A one-shot session (agent.run) answers one message at most.             *)
THEOREM OneShotAnswersOnce == Spec => []OneAnswer
  <1>1. Init => AnswerInv
    BY DEF Init, AnswerInv, OneAnswer, OneShot
  <1>2. ASSUME IInv, AnswerInv, [Next]_vars PROVE AnswerInv'
    <2> USE <1>2 DEF memVars, cmdVars, diskVars, histVars
    <2>1. ASSUME NEW c \in Commands, RunReturns(c) PROVE AnswerInv'
      <3>1. status \in {"active", "waiting_for_input"} /\ life = "live"
        BY <2>1 DEF IInv, StageInv, LifeInv, RunReturns, OneAtATime, Holding, TypeOK,
           SessionAssumption
      <3>2. OneShot => answered = {}
        BY <3>1 DEF AnswerInv, OneShot
      <3>3. /\ life' = "live" /\ mode' = mode
            /\ OneShot => answered' = {c} /\ status' = "closed"
        BY <2>1, <3>1, <3>2 DEF RunReturns, OneShot
      <3>4. QED
        BY <3>3 DEF AnswerInv, OneAnswer, OneShot
    <2>2. ASSUME NEW c \in Commands,
                 \/ \E k \in Kinds : Refuse(c, k)
                 \/ \E k \in Messages : Send(c, k) \/ SendToClosed(c, k) \/ SendFails(c, k)
                 \/ Resume(c)
                 \/ StartRun(c)
                 \/ RunRaises(c)
                 \/ Cancel(c)
                 \/ EndSend(c)
                 \/ EndClose(c)
                 \/ EndCompact(c)
                 \/ Close(c)
                 \/ Compact(c)
          PROVE  AnswerInv'
      <3>1. UNCHANGED <<mode, life, answered>> /\ (UNCHANGED status \/ status' = "closed")
        BY <2>2 DEF Refuse, Send, SendToClosed, SendFails, Resume, StartRun, RunRaises,
           Cancel, EndSend, EndClose, EndCompact, Close, Compact
      <3>2. QED
        BY <3>1 DEF AnswerInv, OneAnswer, OneShot
    <2>3. ASSUME NEW m \in Modes, Create(m) PROVE AnswerInv'
      BY <2>3 DEF Create, AnswerInv, OneAnswer, OneShot
    <2>4. ASSUME NEW S, Die(S) PROVE AnswerInv'
      BY <2>4 DEF Die, AnswerInv, OneAnswer, OneShot
    <2>5. CASE UNCHANGED vars
      BY <2>5 DEF vars, AnswerInv, OneAnswer, OneShot
    <2>6. QED
      BY <2>1, <2>2, <2>3, <2>4, <2>5 DEF Next, DieBetween, DieWriting, DieInRename
  <1>3. AnswerInv => OneAnswer
    BY DEF AnswerInv
  <1>4. QED
    BY <1>1, <1>2, <1>3, InductiveInvariant, PTL DEF Spec
-----------------------------------------------------------------------------
(* The refinement of SessionTurns.                                         *)

InHand == {"received", "running"}

(* By mutual exclusion there is at most one message at work.               *)
LEMMA TurnValue ==
    ASSUME IInv
    PROVE  /\ \A c \in Commands : pc[c] \in InHand => Turn = c /\ c # Nobody
           /\ (\A c \in Commands : pc[c] \notin InHand) => Turn = Nobody
  <1>1. ASSUME NEW c \in Commands, pc[c] \in InHand PROVE InTurn = {c}
    BY <1>1 DEF IInv, OneAtATime, InHand, Holding, InTurn
  <1>2. \A c \in Commands : pc[c] \in InHand => Turn = c /\ c # Nobody
    BY <1>1, SessionAssumption DEF Turn
  <1>3. (\A c \in Commands : pc[c] \notin InHand) => Turn = Nobody
    BY DEF Turn, InTurn, InHand
  <1>4. QED
    BY <1>2, <1>3

(* The same in the next state.                                             *)
LEMMA TurnValueNext ==
    ASSUME IInv'
    PROVE  /\ \A c \in Commands : pc'[c] \in InHand => Turn' = c /\ c # Nobody
           /\ (\A c \in Commands : pc'[c] \notin InHand) => Turn' = Nobody
  <1>1. ASSUME NEW c \in Commands, pc'[c] \in InHand PROVE InTurn' = {c}
    BY <1>1 DEF IInv, OneAtATime, InHand, Holding, InTurn
  <1>2. \A c \in Commands : pc'[c] \in InHand => Turn' = c /\ c # Nobody
    BY <1>1, SessionAssumption DEF Turn
  <1>3. (\A c \in Commands : pc'[c] \notin InHand) => Turn' = Nobody
    BY DEF Turn, InTurn, InHand
  <1>4. QED
    BY <1>2, <1>3

(* The initial states are initial states of SessionTurns.                  *)
LEMMA InitRefines == Init => Turns!TurnsInit
  BY DEF Init, Turns!TurnsInit, Phase, Turn, InTurn

(* Every step is a step of SessionTurns or leaves its variables alone.     *)
LEMMA StepRefines ==
    ASSUME IInv, IInv', [Next]_vars
    PROVE  [Turns!TurnsNext]_(Turns!turnVars)
  <1> USE DEF memVars, cmdVars, diskVars, histVars, InHand
  <1> DEFINE Still == UNCHANGED <<Phase, Turn, said, answered>>
  <1>0. /\ TypeOK /\ OneAtATime /\ StageInv /\ LifeInv
    BY DEF IInv
  <1>1. /\ \A c \in Commands : pc[c] \in InHand => Turn = c /\ c # Nobody
        /\ (\A c \in Commands : pc[c] \notin InHand) => Turn = Nobody
    BY TurnValue
  <1>2. /\ \A c \in Commands : pc'[c] \in InHand => Turn' = c
        /\ (\A c \in Commands : pc'[c] \notin InHand) => Turn' = Nobody
    BY TurnValueNext
  <1>3. ASSUME NEW c \in Commands, lock = Nobody \/ pc[c] \in Holding
        PROVE  \A d \in Commands \ {c} : pc[d] \notin InHand
    BY <1>0, <1>3, Alone DEF Holding
  <1>4. CASE UNCHANGED vars
    BY <1>4 DEF vars, Turns!turnVars, Phase, Turn, InTurn
  <1>5. ASSUME NEW m \in Modes, Create(m) PROVE Turns!Open
    <2>1. Turn = Nobody /\ Turn' = Nobody
      BY <1>0, <1>1, <1>2, <1>5 DEF Create, LifeInv, OneAtATime, Holding
    <2>2. Turns!Open
      BY <2>1, <1>5, <1>0 DEF Create, Phase, Turns!Open
    <2>3. QED
      BY <2>2
  <1>6. ASSUME NEW c \in Commands,
               \/ \E k \in Kinds : Refuse(c, k)
               \/ \E k \in Messages : SendToClosed(c, k) \/ SendFails(c, k)
               \/ \E k \in Messages : Send(c, k) /\ status = "waiting_for_input"
               \/ Compact(c)
               \/ StartRun(c) /\ pc'[c] = "running"
               \/ Cancel(c) /\ pc[c] # "received"
               \/ EndSend(c)
               \/ EndClose(c)
               \/ EndCompact(c)
        PROVE  Still
    <2>1. pc[c] \in PCs /\ pc \in [Commands -> PCs]
      BY <1>0 DEF TypeOK
    <2>2. \A d \in Commands : pc'[d] \in InHand <=> pc[d] \in InHand
      BY <1>6, <2>1 DEF Refuse, SendToClosed, SendFails, Send, Compact, StartRun, Cancel,
         EndSend, EndClose, EndCompact, Issue, Acquire, Reply, Fail
    <2>3. Turn' = Turn
      <3>1. InTurn' = InTurn
        BY <2>2 DEF InTurn
      <3>2. QED
        BY <3>1 DEF Turn
    <2>4. UNCHANGED <<life, status, said, answered>>
      BY <1>6 DEF Refuse, SendToClosed, SendFails, Send, Compact, StartRun, Cancel,
         EndSend, EndClose, EndCompact, Acquire
    <2>5. QED
      BY <2>3, <2>4 DEF Phase
  <1>7. ASSUME NEW c \in Commands,
               \/ \E k \in Messages : Send(c, k) /\ status = "active"
               \/ Resume(c)
        PROVE  Turns!Say(c)
    <2>1. /\ life = "live" /\ life' = "live"
          /\ status \in {"active", "waiting_for_input"} /\ status' = status
          /\ c \notin said
          /\ said' = said \cup {c}
          /\ answered' = answered
      BY <1>7, <1>0 DEF Send, Resume, Acquire, AppendUser, Issue, StageInv, LifeInv,
         OneAtATime, Holding
    <2>2. /\ pc'[c] = "received"
          /\ pc[c] \notin InHand
          /\ lock = Nobody \/ pc[c] \in Holding
      BY <1>7, <1>0 DEF Send, Resume, Acquire, Issue, TypeOK, Holding
    <2>3. Turn = Nobody /\ Turn' = c
      BY <2>2, <1>1, <1>2, <1>3
    <2>4. Phase = "open" /\ Phase' = "open"
      BY <2>1 DEF Phase
    <2>5. QED
      BY <2>1, <2>3, <2>4 DEF Turns!Say
  <1>8. ASSUME NEW c \in Commands,
               \/ RunReturns(c)
               \/ RunRaises(c)
               \/ StartRun(c) /\ pc'[c] # "running"
               \/ Cancel(c) /\ pc[c] = "received"
        PROVE  Turns!Answer \/ Turns!GiveUp
    <2>1. /\ pc[c] \in InHand /\ pc[c] \in Holding
          /\ pc'[c] \notin InHand
          /\ \A d \in Commands \ {c} : pc'[d] = pc[d]
      BY <1>8, <1>0 DEF RunReturns, RunRaises, StartRun, Cancel, Reply, Fail, TypeOK, Holding
    <2>2. Turn = c /\ Turn' = Nobody /\ c # Nobody
      BY <2>1, <1>1, <1>2, <1>3
    <2>3. life = "live" /\ status # "closed" /\ status # "none"
      BY <2>1, <1>0 DEF LifeInv, StageInv, OneAtATime
    <2>4. CASE RunReturns(c)
      <3>1. Phase' \in {Phase, "closed"}
        BY <2>3, <2>4 DEF RunReturns, Phase
      <3>2. QED
        BY <2>2, <2>4, <3>1 DEF RunReturns, Turns!Answer
    <2>5. CASE RunRaises(c) \/ StartRun(c) \/ Cancel(c)
      BY <2>2, <2>5 DEF RunRaises, StartRun, Cancel, Phase, Turns!GiveUp
    <2>6. QED
      BY <1>8, <2>4, <2>5
  <1>9. ASSUME NEW c \in Commands, Close(c)
        PROVE  Turns!Close \/ Still
    <2>1. /\ pc[c] \notin InHand /\ pc'[c] \notin InHand
          /\ lock = Nobody
          /\ \A d \in Commands \ {c} : pc'[d] = pc[d]
      BY <1>9, <1>0 DEF Close, Issue, Acquire, Fail, Reply, TypeOK
    <2>2. Turn = Nobody /\ Turn' = Nobody
      BY <2>1, <1>1, <1>2, <1>3
    <2>3. QED
      BY <2>2, <1>9 DEF Close, Acquire, Phase, Turns!Close
  <1>10. CASE DieBetween \/ DieInRename \/ \E c \in Commands : DieWriting(c)
    <2>1. \E S : Die(S)
      BY <1>10 DEF DieBetween, DieInRename, DieWriting
    <2>2. life = "live" /\ life' = "lost" /\ UNCHANGED <<said, answered>>
      BY <2>1 DEF Die
    <2>3. \A c \in Commands : pc'[c] \notin InHand
      BY <2>2, SessionAssumption DEF LifeInv, IInv, OneAtATime, Holding
    <2>4. QED
      BY <2>2, <2>3, <1>2 DEF Phase, Turns!TurnsNext, Turns!Lose
  <1>11. ASSUME NEW c \in Commands, NEW k \in Messages, Send(c, k)
         PROVE  Still \/ Turns!Say(c)
    BY <1>6, <1>7, <1>11 DEF Send
  <1>12. ASSUME NEW c \in Commands, StartRun(c) \/ Cancel(c)
         PROVE  Still \/ Turns!Answer \/ Turns!GiveUp
    BY <1>6, <1>8, <1>12
  <1>13. Still => UNCHANGED Turns!turnVars
    BY DEF Turns!turnVars
  <1> HIDE DEF Still
  <1>14. CASE Next
    BY <1>5, <1>6, <1>7, <1>8, <1>9, <1>10, <1>11, <1>12, <1>13, <1>14
       DEF Next, Turns!TurnsNext
  <1>15. QED
    BY <1>4, <1>14

(* The commands of SessionManager implement the turns of SessionTurns.     *)
THEOREM TurnsRefined == Spec => TurnsSpec
  <1>1. Init => Turns!TurnsInit
    BY InitRefines
  <1>2. IInv /\ IInv' /\ [Next]_vars => [Turns!TurnsNext]_(Turns!turnVars)
    BY StepRefines
  <1>3. QED
    BY <1>1, <1>2, InductiveInvariant, PTL DEF Spec, TurnsSpec, Turns!TurnsSpec
=============================================================================
