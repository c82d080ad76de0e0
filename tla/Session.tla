-------------------------------- MODULE Session --------------------------------
(***************************************************************************)
(* core/session: one session of SessionManager and its files, meta.json    *)
(* and thread.jsonl, under concurrent session.send_message, close and      *)
(* compact commands.  Commands are tasks of one asyncio loop, so a step    *)
(* reaches from one await to the next; what a command awaits is the        *)
(* publication of an event, the agent run or the summarising LLM call.     *)
(* The run itself is AgentRun; here it returns or raises, and the messages *)
(* it appends to the thread are one row.  Sessions share nothing but the   *)
(* event bus, so one is modelled.  A file is written by truncating it      *)
(* first, so a write that fails, and a daemon killed in it, may leave a    *)
(* meta.json that nobody can read.  A session whose first meta.json is not *)
(* written is left out: no client learns its id.                           *)
(***************************************************************************)
EXTENDS Sequences, Naturals

CONSTANTS Commands,     (* the commands clients send, each once             *)
          Nobody,       (* the owner of a free lock                         *)
          MayFail       (* commands may be cancelled and their files fail   *)

ASSUME SessionAssumption ==
    /\ Nobody \notin Commands
    /\ MayFail \in BOOLEAN

VARIABLES
    mode,      (* Session.mode, which the client chooses at its creation    *)
    life,      (* "new", "live" (in _sessions) or "lost" with its daemon    *)
    status,    (* Session.status in memory                                  *)
    runs,      (* Session.run_ids in memory; a run is named by its command  *)
    lock,      (* the command that holds _locks[sid]                        *)
    kind,      (* what each command is                                      *)
    pc,        (* where each command stands                                 *)
    reply,     (* what each command was answered                            *)
    snapshot,  (* the messages a compaction summarises                      *)
    meta,      (* meta.json                                                 *)
    thread,    (* the rows of thread.jsonl                                  *)
    backup,    (* the rows of all thread_<ts>.jsonl.bak files               *)
    said,      (* history: messages appended to the thread                  *)
    answered,  (* history: messages whose run returned                      *)
    told,      (* history: the last session event published                 *)
    unsaved    (* history: who left meta.json behind what memory says       *)

memVars  == <<mode, life, status, runs, lock>>
cmdVars  == <<kind, pc, reply, snapshot>>
diskVars == <<meta, thread, backup>>
histVars == <<said, answered, told, unsaved>>
vars     == <<memVars, cmdVars, diskVars, histVars>>

(* A "slash" message is the content "/", which names no skill.             *)
Messages == {"send", "slash"}
Kinds    == Messages \cup {"close", "compact"}
Holding  == {"resuming", "received", "running", "ending", "closing", "compacting"}
PCs      == {"idle", "done", "died"} \cup Holding
Replies  == {"none", "ok", "busy", "closed", "not_found", "failed"}
Events   == {"none", "created", "resumed", "received", "waiting", "closed"}
Modes    == {"chat", "one_shot"}
OneShot  == mode = "one_shot"
Status   == {"none", "active", "waiting_for_input", "closed"}

(* A row is a user message, what a run appended (cut off if one of its     *)
(* tool calls has no result), or the summary of earlier messages; "of"     *)
(* names the messages it stands for.                                       *)
RunTypes      == {"answer", "cut"}
UserRow(c)    == [type |-> "user", of |-> {c}]
RunRow(c, t)  == [type |-> t, of |-> {c}]
SummaryRow(S) == [type |-> "summary", of |-> S]

Recorded(rows) ==
    UNION {rows[i].of : i \in {j \in DOMAIN rows : rows[j].type \notin RunTypes}}

(* read_messages gives nothing from an unanswered tool call on.            *)
Readable(rows) == {i \in DOMAIN rows : \A j \in 1 .. i : rows[j].type # "cut"}

Summarised(rows) ==
    UNION {rows[i].of : i \in {j \in Readable(rows) : rows[j].type \notin RunTypes}}

(* A meta.json that is not there, or that a broken write left behind.      *)
NoMeta == [status |-> "none", runs |-> {}]
-----------------------------------------------------------------------------
Init ==
    /\ mode = "none"
    /\ life = "new"
    /\ status = "none"
    /\ runs = {}
    /\ lock = Nobody
    /\ kind = [c \in Commands |-> "none"]
    /\ pc = [c \in Commands |-> "idle"]
    /\ reply = [c \in Commands |-> "none"]
    /\ snapshot = [c \in Commands |-> {}]
    /\ meta = NoMeta
    /\ thread = <<>>
    /\ backup = <<>>
    /\ said = {}
    /\ answered = {}
    /\ told = "none"
    /\ unsaved = {}

Create(m) ==
    /\ life = "new"
    /\ mode' = m
    /\ life' = "live"
    /\ status' = "active"
    /\ meta' = [status |-> "active", runs |-> {}]
    /\ told' = "created"
    /\ UNCHANGED <<runs, lock, cmdVars, thread, backup, said, answered, unsaved>>

WriteMeta ==
    /\ meta' = [status |-> status', runs |-> runs']
    /\ unsaved' = {}

(* The file is not opened, or it is truncated and not written.             *)
WriteMetaFails(c) ==
    /\ MayFail
    /\ meta' \in {meta, NoMeta}
    /\ unsaved' = unsaved \cup {c}

Issue(c, k) ==
    /\ pc[c] = "idle"
    /\ kind' = [kind EXCEPT ![c] = k]

Reply(c, r) ==
    /\ pc' = [pc EXCEPT ![c] = "done"]
    /\ reply' = [reply EXCEPT ![c] = r]

Release == lock' = Nobody

Fail(c) == Reply(c, "failed") /\ Release

(* The lock is free when a command looks at it, and it is taken in the     *)
(* same step: no command ever queues for it.                               *)
Acquire(c, stage) ==
    /\ life = "live"
    /\ lock = Nobody
    /\ lock' = c
    /\ pc' = [pc EXCEPT ![c] = stage]
    /\ UNCHANGED reply

(* _get_session fails, or the lock is taken.                               *)
Refuse(c, k) ==
    /\ Issue(c, k)
    /\ \/ life # "live" /\ Reply(c, "not_found")
       \/ life = "live" /\ lock # Nobody /\ Reply(c, "busy")
    /\ UNCHANGED <<memVars, snapshot, diskVars, histVars>>

AppendUser(c) ==
    /\ thread' = Append(thread, UserRow(c))
    /\ said' = said \cup {c}
    /\ told' = "received"
    /\ UNCHANGED unsaved

SendToClosed(c, k) ==
    /\ Issue(c, k)
    /\ life = "live"
    /\ lock = Nobody
    /\ status = "closed"
    /\ Reply(c, "closed")
    /\ UNCHANGED <<memVars, snapshot, diskVars, histVars>>

(* Mutant: the status is not looked at.                                    *)
SendWhateverTheStatus(c, k) ==
    /\ Issue(c, k)
    /\ \/ /\ status = "waiting_for_input"
          /\ Acquire(c, "resuming")
          /\ told' = "resumed"
          /\ UNCHANGED <<thread, said, unsaved>>
       \/ /\ status # "waiting_for_input"
          /\ Acquire(c, "received")
          /\ AppendUser(c)
    /\ UNCHANGED <<mode, life, status, runs, snapshot, meta, backup, answered>>

Send(c, k) ==
    /\ Issue(c, k)
    /\ \/ /\ status = "waiting_for_input"
          /\ Acquire(c, "resuming")
          /\ told' = "resumed"
          /\ UNCHANGED <<thread, said, unsaved>>
       \/ /\ status = "active"
          /\ Acquire(c, "received")
          /\ AppendUser(c)
    /\ UNCHANGED <<mode, life, status, runs, snapshot, meta, backup, answered>>

(* The message cannot be appended; it holds the lock in this step only.    *)
SendFails(c, k) ==
    /\ MayFail
    /\ Issue(c, k)
    /\ life = "live"
    /\ lock = Nobody
    /\ status = "active"
    /\ Reply(c, "failed")
    /\ UNCHANGED <<memVars, snapshot, diskVars, histVars>>

Resume(c) ==
    /\ pc[c] = "resuming"
    /\ pc' = [pc EXCEPT ![c] = "received"]
    /\ AppendUser(c)
    /\ UNCHANGED <<memVars, kind, reply, snapshot, meta, backup, answered>>

(* Mutant: run_ids is kept in memory until the run has ended.              *)
StartRunUnrecorded(c) ==
    /\ pc[c] = "received"
    /\ runs' = runs \cup {c}
    /\ \/ kind[c] = "slash" /\ Fail(c)
       \/ /\ kind[c] = "send"
          /\ pc' = [pc EXCEPT ![c] = "running"]
          /\ UNCHANGED <<lock, reply>>
    /\ UNCHANGED <<mode, life, status, kind, snapshot, diskVars, histVars>>

(* The run is recorded before it starts, and before the content is parsed: *)
(* a bare "/" raises IndexError after that.                                *)
StartRun(c) ==
    /\ pc[c] = "received"
    /\ runs' = runs \cup {c}
    /\ UNCHANGED status
    /\ \/ kind[c] = "slash" /\ WriteMeta /\ Fail(c)
       \/ /\ kind[c] = "send"
          /\ WriteMeta
          /\ pc' = [pc EXCEPT ![c] = "running"]
          /\ UNCHANGED <<lock, reply>>
       \/ WriteMetaFails(c) /\ Fail(c)
    /\ UNCHANGED <<mode, life, kind, snapshot, thread, backup, said, answered, told>>

AppendRun(c, t) == thread' = Append(thread, RunRow(c, t))

(* Mutant: a one-shot session waits for input like any other.              *)
RunReturnsToWaiting(c) ==
    /\ pc[c] = "running"
    /\ pc' = [pc EXCEPT ![c] = "ending"]
    /\ AppendRun(c, "answer")
    /\ answered' = answered \cup {c}
    /\ status' = "waiting_for_input"
    /\ told' = "waiting"
    /\ UNCHANGED <<mode, life, runs, lock, kind, reply, snapshot, meta, backup, said, unsaved>>

(* The run has appended its messages; the new status is published and only *)
(* then written.                                                           *)
RunReturns(c) ==
    /\ pc[c] = "running"
    /\ pc' = [pc EXCEPT ![c] = "ending"]
    /\ AppendRun(c, "answer")
    /\ answered' = answered \cup {c}
    /\ \/ OneShot /\ status' = "closed" /\ told' = "closed"
       \/ ~OneShot /\ status' = "waiting_for_input" /\ told' = "waiting"
    /\ UNCHANGED <<mode, life, runs, lock, kind, reply, snapshot, meta, backup, said, unsaved>>

(* Mutant: the lock is not given back when the run raises.                 *)
RunRaisesLocked(c) ==
    /\ MayFail
    /\ pc[c] = "running"
    /\ \/ \E t \in RunTypes : AppendRun(c, t)
       \/ UNCHANGED thread
    /\ Reply(c, "failed")
    /\ UNCHANGED <<memVars, kind, snapshot, meta, backup, histVars>>

(* The run is cancelled, after which it may still append its messages, or  *)
(* one of its files fails.  The status stays as it is and no event tells   *)
(* of it.                                                                  *)
RunRaises(c) ==
    /\ MayFail
    /\ pc[c] = "running"
    /\ \/ \E t \in RunTypes : AppendRun(c, t)
       \/ UNCHANGED thread
    /\ Fail(c)
    /\ UNCHANGED <<mode, life, status, runs, kind, snapshot, meta, backup, histVars>>

(* A command is cancelled while it publishes an event, or, after           *)
(* session.resumed, cannot append its message.  What it has done stays     *)
(* done; at the end of a message that is the new status, not yet in        *)
(* meta.json.                                                              *)
Cancel(c) ==
    /\ MayFail
    /\ pc[c] \in {"resuming", "received", "ending", "closing"}
    /\ unsaved' = IF pc[c] = "ending" THEN unsaved \cup {c} ELSE unsaved
    /\ Fail(c)
    /\ UNCHANGED <<mode, life, status, runs, kind, snapshot, diskVars, said, answered, told>>

(* Mutant: the lock is released after the answer without writing meta.json.*)
EndSendUnwritten(c) ==
    /\ pc[c] = "ending"
    /\ Reply(c, "ok")
    /\ Release
    /\ UNCHANGED <<mode, life, status, runs, kind, snapshot, diskVars, histVars>>

EndSend(c) ==
    /\ pc[c] = "ending"
    /\ UNCHANGED <<status, runs>>
    /\ \/ WriteMeta /\ Reply(c, "ok") /\ Release
       \/ WriteMetaFails(c) /\ Fail(c)
    /\ UNCHANGED <<mode, life, kind, snapshot, thread, backup, said, answered, told>>

(* A closed session may be closed again.  If meta.json cannot be written   *)
(* the session is closed all the same, and no event tells of it.           *)
Close(c) ==
    /\ Issue(c, "close")
    /\ status' = "closed"
    /\ UNCHANGED runs
    /\ \/ Acquire(c, "closing") /\ WriteMeta /\ told' = "closed"
       \/ /\ life = "live" /\ lock = Nobody
          /\ WriteMetaFails(c)
          /\ Fail(c)
          /\ UNCHANGED told
    /\ UNCHANGED <<mode, life, snapshot, thread, backup, said, answered>>

EndClose(c) ==
    /\ pc[c] = "closing"
    /\ Reply(c, "ok")
    /\ Release
    /\ UNCHANGED <<mode, life, status, runs, kind, snapshot, diskVars, histVars>>

(* Mutant: compaction does not look at the lock.                           *)
CompactUnlocked(c) ==
    /\ Issue(c, "compact")
    /\ life = "live"
    /\ pc' = [pc EXCEPT ![c] = "compacting"]
    /\ snapshot' = [snapshot EXCEPT ![c] = Summarised(thread)]
    /\ UNCHANGED <<memVars, reply, diskVars, histVars>>

(* The thread is read under the lock; the status is not looked at.         *)
Compact(c) ==
    /\ Issue(c, "compact")
    /\ Acquire(c, "compacting")
    /\ snapshot' = [snapshot EXCEPT ![c] = Summarised(thread)]
    /\ UNCHANGED <<mode, life, status, runs, diskVars, histVars>>

(* The old file is renamed; its name carries the second of its compaction, *)
(* and no two LLM calls are taken to end within the same one.              *)
KeepThread == backup' = backup \o thread

(* Mutant: every compaction renames the thread to the same name.           *)
EndCompactOneBackup(c) ==
    /\ pc[c] = "compacting"
    /\ \/ thread' = <<SummaryRow(snapshot[c])>> /\ backup' = thread /\ Reply(c, "ok")
       \/ Reply(c, "failed") /\ UNCHANGED <<thread, backup>>
    /\ Release
    /\ UNCHANGED <<mode, life, status, runs, kind, snapshot, meta, histVars>>

(* The summary replaces the thread; or it is not written after the old     *)
(* file was renamed; or the LLM gave none.                                 *)
EndCompact(c) ==
    /\ pc[c] = "compacting"
    /\ \/ thread' = <<SummaryRow(snapshot[c])>> /\ KeepThread /\ Reply(c, "ok")
       \/ MayFail /\ thread' = <<>> /\ KeepThread /\ Reply(c, "failed")
       \/ Reply(c, "failed") /\ UNCHANGED <<thread, backup>>
    /\ Release
    /\ UNCHANGED <<mode, life, status, runs, kind, snapshot, meta, histVars>>

(* The daemon is killed, and with it the commands in S.  Another one does  *)
(* not load the sessions it finds on disk.                                 *)
Die(S) ==
    /\ life = "live"
    /\ life' = "lost"
    /\ status' = "none"
    /\ runs' = {}
    /\ Release
    /\ pc' = [c \in Commands |-> IF c \in S THEN "died" ELSE pc[c]]
    /\ UNCHANGED <<mode, reply, snapshot, histVars>>

AtWork == {c \in Commands : pc[c] \in Holding}

(* Between two steps.                                                      *)
DieBetween == Die(AtWork) /\ UNCHANGED <<kind, diskVars>>

(* While a command writes meta.json, which has been truncated.             *)
DieWriting(c) ==
    /\ \/ pc[c] \in {"received", "ending"} /\ UNCHANGED kind
       \/ lock = Nobody /\ Issue(c, "close")
    /\ Die({c})
    /\ meta' = NoMeta
    /\ UNCHANGED <<thread, backup>>

(* Between write_compacted's renaming and its writing.                     *)
DieInRename ==
    /\ \E c \in Commands : pc[c] = "compacting"
    /\ Die(AtWork)
    /\ thread' = <<>>
    /\ KeepThread
    /\ UNCHANGED <<kind, meta>>

Next ==
    \/ \E m \in Modes : Create(m)
    \/ \E c \in Commands :
          \/ \E k \in Kinds : Refuse(c, k)
          \/ \E k \in Messages : Send(c, k) \/ SendToClosed(c, k) \/ SendFails(c, k)
          \/ Resume(c)
          \/ StartRun(c)
          \/ RunReturns(c)
          \/ RunRaises(c)
          \/ EndSend(c)
          \/ Close(c)
          \/ EndClose(c)
          \/ Compact(c)
          \/ EndCompact(c)
          \/ Cancel(c)
          \/ DieWriting(c)
    \/ DieBetween
    \/ DieInRename

(* What a command awaits comes to an end: clients read their events or     *)
(* disconnect, a run ends (AgentRun) and LLM calls have a time limit.      *)
Proceed(c) ==
    \/ Resume(c)
    \/ StartRun(c)
    \/ RunReturns(c)
    \/ RunRaises(c)
    \/ EndSend(c)
    \/ EndClose(c)
    \/ EndCompact(c)

Spec     == Init /\ [][Next]_vars
FairSpec == Spec /\ \A c \in Commands : WF_vars(Proceed(c))
-----------------------------------------------------------------------------
(* Properties.                                                             *)

Row  == [type : {"user", "answer", "cut", "summary"}, of : SUBSET Commands]
Meta == [status : Status, runs : SUBSET Commands]

TypeOK ==
    /\ mode \in Modes \cup {"none"}
    /\ life \in {"new", "live", "lost"}
    /\ status \in Status
    /\ runs \subseteq Commands
    /\ lock \in Commands \cup {Nobody}
    /\ kind \in [Commands -> Kinds \cup {"none"}]
    /\ pc \in [Commands -> PCs]
    /\ reply \in [Commands -> Replies]
    /\ snapshot \in [Commands -> SUBSET Commands]
    /\ meta \in Meta
    /\ thread \in Seq(Row)
    /\ backup \in Seq(Row)
    /\ said \subseteq Commands
    /\ answered \subseteq Commands
    /\ told \in Events
    /\ unsaved \subseteq Commands

(* Commands on a session exclude each other: whoever is between its first  *)
(* and its last step holds the lock.                                       *)
OneAtATime == \A c \in Commands : pc[c] \in Holding <=> lock = c

(* What a run appends follows the very message it answers: no other        *)
(* message, answer or summary gets in between.                             *)
AnswersFollowMessages ==
    \A i \in DOMAIN thread : thread[i].type \in RunTypes =>
        /\ i > 1
        /\ thread[i - 1] = [type |-> "user", of |-> thread[i].of]

(* No message is lost by a compaction that overlaps it, fails half way or  *)
(* cannot read it (behind a run that was cut off), or by a daemon that     *)
(* dies while it replaces the thread: what was appended is in the thread,  *)
(* in its summary, or in a backup beside it; and in the thread or its      *)
(* summary as long as no command on the session has failed.                *)
NothingForgotten ==
    /\ said \subseteq Recorded(thread) \cup Recorded(backup)
    /\ life = "live" /\ (\A c \in Commands : reply[c] # "failed") =>
          said \subseteq Recorded(thread)

(* A meta.json that can be read names every run that has messages in the   *)
(* thread, also when the daemon dies: a run is recorded before anything of *)
(* it is.  One that cannot be read is the work of a write that failed, or  *)
(* in which the daemon died.                                               *)
RunsRecordedFirst ==
    IF meta = NoMeta
    THEN life # "new" => \E c \in Commands : c \in unsaved \/ pc[c] = "died"
    ELSE \A i \in DOMAIN thread :
            thread[i].type \in RunTypes => thread[i].of \subseteq meta.runs

(* Between commands meta.json says what memory says, and the last event    *)
(* told clients that the session waits only if it does, and that it is     *)
(* closed exactly when it is -- unless a command that failed could not     *)
(* write meta.json, or was cancelled before it did, and none has written   *)
(* it since.  Then it is unreadable, or names an earlier state of the      *)
(* session, and a session may be closed without an event; but none is told *)
(* closed that is not.  (After a failed run there is no event: the last    *)
(* one then is "received".)                                                *)
MetaAgrees ==
    life = "live" /\ lock = Nobody =>
        /\ unsaved = {} =>
              /\ meta = [status |-> status, runs |-> runs]
              /\ told = "waiting" => status = "waiting_for_input"
              /\ status = "closed" => told = "closed"
        /\ \A c \in unsaved : reply[c] = "failed"
        /\ meta.runs \subseteq runs
        /\ told = "closed" => status = "closed"

(* A closed session stays closed, takes no message and starts no run.      *)
ClosedIsFinal ==
    [][status = "closed" /\ life' = "live" =>
          /\ status' = "closed"
          /\ runs' = runs
          /\ said' = said]_vars

(* A one-shot session (agent.run) answers one message at most, however     *)
(* many a client sends to it: its first answer closes it.                  *)
OneAnswer == OneShot => \A c, d \in answered : c = d

(* A session comes free again after every command, whatever became of it.  *)
SessionComesFree == lock # Nobody ~> lock = Nobody

(* The commands on a session keep the promise of SessionTurns.             *)
InTurn == {c \in Commands : pc[c] \in {"received", "running"}}

Phase == IF life = "new" THEN "absent"
         ELSE IF life = "lost" THEN "lost"
         ELSE IF status = "closed" THEN "closed"
         ELSE "open"

Turn == IF InTurn = {} THEN Nobody ELSE CHOOSE c \in InTurn : TRUE

Turns == INSTANCE SessionTurns WITH phase <- Phase, turn <- Turn

TurnsSpec == Turns!TurnsSpec
=============================================================================
