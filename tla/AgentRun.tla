------------------------------- MODULE AgentRun -------------------------------
(***************************************************************************)
(* core/runner.py, core/loop.py, core/context.py and the thread side of    *)
(* core/session/store.py: the conversation of one session.  A user message *)
(* goes to the thread, the thread is read back as the history of a run,    *)
(* the loop alternates LLM calls and tool calls, and what the run produced *)
(* is appended to the thread.  The lock of SessionManager (module Session) *)
(* lets one run or compaction at a time touch the thread.                  *)
(* What a message says is left out; what matters is who says it and which  *)
(* tool_use and tool_result blocks it carries.                             *)
(***************************************************************************)
EXTENDS Integers, Sequences, FiniteSetsExt

CONSTANTS UserMessages,   (* the messages of the user, each sent once       *)
          NoMessage,      (* "of" when no run is meant                      *)
          MaxSteps,       (* agent.max_steps                                *)
          MaxCalls,       (* bound: tool_use blocks in one reply            *)
          MaxStreams,     (* _MAX_STREAM_RETRIES                            *)
          Compacting,     (* messages whose runs come to fill the context   *)
                          (* up to compaction.auto_threshold, if it is set  *)
          Cancellable,    (* messages sent by agent.run, whose task is      *)
                          (* cancelled at shutdown                          *)
          AppendMayFail   (* writing thread.jsonl may fail                  *)

ASSUME AgentRunAssumption ==
    /\ NoMessage \notin UserMessages
    /\ MaxSteps \in Nat \ {0}
    /\ MaxCalls \in Nat \ {0}
    /\ MaxStreams \in Nat \ {0}
    /\ Compacting \subseteq UserMessages
    /\ Cancellable \subseteq UserMessages
    /\ AppendMayFail \in BOOLEAN

VARIABLES
    thread,    (* the rows of thread.jsonl                                  *)
    sent,      (* messages sent so far                                      *)
    run,       (* the message whose run is going on, or NoMessage           *)
    phase,     (* where the run stands                                      *)
    context,   (* ExecutionContext.messages                                 *)
    prefill,   (* prefill_len                                               *)
    step,      (* ExecutionContext.step                                     *)
    outcome,   (* ExecutionContext.status and reason                        *)
    stop,      (* stop_reason of the last reply                             *)
    calls,     (* how many tool calls the last reply has                    *)
    next,      (* which of them is invoked next                             *)
    attempt,   (* which stream of the LLM call is read, 0 outside of one    *)
    made,      (* history: the messages the run has produced                *)
    lost       (* history: the messages whose runs did not get all their    *)
               (* rows into the thread                                      *)

histVars == <<made, lost>>
loopVars == <<context, prefill, step, outcome, stop, calls, next, attempt>>
vars     == <<thread, sent, run, phase, loopVars, histVars>>

(* A message: who it is from and in what form (kind), the tool_use ids it  *)
(* requests or answers, and the run it belongs to.                         *)
Message(kind, ids, of) == [kind |-> kind, ids |-> ids, of |-> of]
FromUser(msg)          == msg.kind \in {"message", "results", "summary"}

UserMessage(m) == Message("message", {}, m)
ToolUse(i)     == <<run, step, i>>
Compacted(of)  == <<Message("summary", {}, of), Message("ack", {}, of)>>

StopReasons == {"tool_use", "max_tokens", "end_turn", "other"}
-----------------------------------------------------------------------------
(* Reading the thread back.                                                *)

(* The tool_use ids without a tool_result in the first n rows.             *)
OpenIds(rows, n) ==
    UNION {rows[i].ids \ UNION {rows[j].ids : j \in {k \in i + 1 .. n : rows[k].kind = "results"}}
             : i \in {k \in 1 .. n : rows[k].kind = "reply"}}

(* Mutant: the thread is taken as it is.                                   *)
UntrimmedMessages(rows) == rows

(* read_messages: nothing is kept from the first reply on that a later     *)
(* message does not balance.                                               *)
ReadMessages(rows) ==
    IF OpenIds(rows, Len(rows)) = {} THEN rows
    ELSE SubSeq(rows, 1, Max({n \in 0 .. Len(rows) : OpenIds(rows, n) = {}}))

(* What the Messages API accepts: the user speaks first, and the tool_use  *)
(* blocks of a reply are answered by the next message, which answers       *)
(* nothing else.                                                           *)
WellFormed(msgs) ==
    /\ msgs # <<>> => FromUser(msgs[1])
    /\ \A i \in DOMAIN msgs :
          /\ msgs[i].kind = "reply" /\ msgs[i].ids # {} =>
                /\ i < Len(msgs)
                /\ msgs[i + 1].kind = "results"
                /\ msgs[i + 1].ids = msgs[i].ids
          /\ msgs[i].kind = "results" =>
                /\ i > 1
                /\ msgs[i - 1].kind = "reply"
                /\ msgs[i].ids \subseteq msgs[i - 1].ids
-----------------------------------------------------------------------------
Init ==
    /\ thread = <<>>
    /\ sent = {}
    /\ run = NoMessage
    /\ phase = "idle"
    /\ context = <<>>
    /\ prefill = 0
    /\ step = 0
    /\ outcome = "none"
    /\ stop = "none"
    /\ calls = 0
    /\ next = 0
    /\ attempt = 0
    /\ made = <<>>
    /\ lost = {}

(* Mutant: the thread is read before the message is appended.              *)
HistoryReadTooEarly(m) == ReadMessages(thread)

History(m) == ReadMessages(Append(thread, UserMessage(m)))

(* send_message and the head of run_and_capture: the message goes to the   *)
(* thread, and the thread is the history the run starts from.  An empty    *)
(* history is replaced by the goal.                                        *)
Submit(m) ==
    /\ phase = "idle"
    /\ m \notin sent
    /\ sent' = sent \cup {m}
    /\ run' = m
    /\ thread' = Append(thread, UserMessage(m))
    /\ prefill' = Len(History(m))
    /\ context' = IF History(m) = <<>> THEN <<UserMessage(m)>> ELSE History(m)
    /\ step' = 0
    /\ outcome' = "running"
    /\ stop' = "none"
    /\ calls' = 0
    /\ next' = 0
    /\ made' = <<>>
    /\ phase' = "step"
    /\ UNCHANGED <<attempt, lost>>

BeginStep ==
    /\ phase = "step"
    /\ step' = step + 1
    /\ phase' = "chat"
    /\ attempt' = 1
    /\ UNCHANGED <<thread, sent, run, context, prefill, outcome, stop, calls, next, histVars>>

Say(msgs) ==
    /\ context' = context \o msgs
    /\ made' = made \o msgs

(* The LLM replies.  It requests tools only with stop_reason "tool_use",   *)
(* or "max_tokens" when the reply was cut off: such calls are not invoked  *)
(* but answered with errors at once.                                       *)
ChatReplies(reason, n) ==
    LET ids   == {ToolUse(i) : i \in 1 .. n}
        reply == Message("reply", ids, run)
    IN  /\ phase = "chat"
        /\ reason = "tool_use" => n > 0
        /\ reason \in {"end_turn", "other"} => n = 0
        /\ stop' = reason
        /\ calls' = n
        /\ next' = 1
        /\ attempt' = 0
        /\ Say(IF reason = "max_tokens" /\ n > 0
               THEN <<reply, Message("results", ids, run)>>
               ELSE <<reply>>)
        /\ phase' = IF reason = "tool_use" THEN "act" ELSE "check"
        /\ UNCHANGED <<thread, sent, run, prefill, step, outcome, lost>>

(* The stream drops; after a pause another one is read.                    *)
StreamDrops ==
    /\ phase = "chat"
    /\ attempt < MaxStreams
    /\ attempt' = attempt + 1
    /\ UNCHANGED <<thread, sent, run, phase, context, prefill, step, outcome, stop, calls,
                   next, histVars>>

(* The last stream drops too, or the LLM call raises otherwise; the loop   *)
(* is left at once.                                                        *)
ChatFails ==
    /\ phase = "chat"
    /\ outcome' = "llm_error"
    /\ attempt' = 0
    /\ phase' = "end"
    /\ UNCHANGED <<thread, sent, run, context, prefill, step, stop, calls, next, histVars>>

(* add_tool_result: results of one step share one message.                 *)
AddResult(msgs, id) ==
    LET last == Len(msgs)
    IN  IF msgs # <<>> /\ msgs[last].kind = "results"
        THEN [msgs EXCEPT ![last].ids = @ \cup {id}]
        ELSE Append(msgs, Message("results", {id}, run))

(* invoke_tool returns, with a result or an error, and the result is noted. *)
Act ==
    /\ phase = "act"
    /\ context' = AddResult(context, ToolUse(next))
    /\ made' = AddResult(made, ToolUse(next))
    /\ next' = next + 1
    /\ phase' = IF next = calls THEN "check" ELSE "act"
    /\ UNCHANGED <<thread, sent, run, prefill, step, outcome, stop, calls,
                   attempt, lost>>

(* Mutant: the step limit is looked at before the stop reason.             *)
TerminationLimitFirst == IF step >= MaxSteps THEN "exceeded_max_steps"
                         ELSE IF stop = "end_turn" THEN "success"
                         ELSE "running"

Termination == IF stop = "end_turn" THEN "success"
               ELSE IF step >= MaxSteps THEN "exceeded_max_steps"
               ELSE "running"

(* Mutant: the context is compacted whatever the last reply was.           *)
CheckCompactsAlways ==
    /\ phase = "check"
    /\ outcome' = Termination
    /\ \/ Termination # "running" /\ phase' = "end"
       \/ Termination = "running" /\ phase' = "step"
       \/ Termination = "running" /\ run \in Compacting /\ phase' = "compact"
    /\ UNCHANGED <<thread, sent, run, context, prefill, step, stop, calls, next,
                   attempt, histVars>>

(* Mutant: a truncated reply is not checked for the limit.                 *)
CheckSkipsTruncated ==
    /\ phase = "check"
    /\ stop # "max_tokens"
    /\ outcome' = Termination
    /\ \/ Termination # "running" /\ phase' = "end"
       \/ Termination = "running" /\ phase' = "step"
       \/ Termination = "running" /\ run \in Compacting /\ stop = "tool_use" /\ phase' = "compact"
    /\ UNCHANGED <<thread, sent, run, context, prefill, step, stop, calls, next,
                   attempt, histVars>>

(* The end of a step: has the run ended, and if not, is the context so     *)
(* full that it is compacted.                                              *)
Check ==
    /\ phase = "check"
    /\ outcome' = Termination
    /\ \/ Termination # "running" /\ phase' = "end"
       \/ Termination = "running" /\ phase' = "step"
       \/ Termination = "running" /\ run \in Compacting /\ stop = "tool_use" /\ phase' = "compact"
    /\ UNCHANGED <<thread, sent, run, context, prefill, step, stop, calls, next,
                   attempt, histVars>>

(* Compactor.compact replaces the messages of the context, or fails and    *)
(* leaves them.  prefill_len stays what it was.                            *)
Compact ==
    /\ phase = "compact"
    /\ \/ context' = Compacted(run)
       \/ UNCHANGED context
    /\ phase' = "step"
    /\ UNCHANGED <<thread, sent, run, prefill, step, outcome, stop, calls, next,
                   attempt, histVars>>

(* CancelledError at any await of the loop; there is none between a reply  *)
(* or the last result and the check.  (While the last step.finished of a   *)
(* run is published the run is already done, and keeps its status: then    *)
(* nothing changes.)                                                       *)
Cancel ==
    /\ run \in Cancellable
    /\ phase \in {"step", "chat", "act", "compact"}
    /\ outcome' = "cancelled"
    /\ phase' = "end"
    /\ attempt' = 0
    /\ UNCHANGED <<thread, sent, run, context, prefill, step, stop, calls, next, histVars>>

(* Mutant: the slice starts one message late.                              *)
NewMessagesOffByOne == SubSeq(context, prefill + 2, Len(context))

(* context.messages[prefill_len:]                                          *)
NewMessages == SubSeq(context, prefill + 1, Len(context))

EndRun ==
    /\ run' = NoMessage
    /\ phase' = "idle"
    /\ UNCHANGED <<sent, loopVars, made>>

(* The end of run_and_capture: what is new goes to the thread.             *)
Persist ==
    /\ phase = "end"
    /\ thread' = thread \o NewMessages
    /\ EndRun
    /\ UNCHANGED lost

(* The rows are written one by one; a write fails.                         *)
PersistFails ==
    /\ AppendMayFail
    /\ phase = "end"
    /\ NewMessages # <<>>
    /\ \E n \in 0 .. Len(NewMessages) - 1 : thread' = thread \o SubSeq(NewMessages, 1, n)
    /\ EndRun
    /\ lost' = lost \cup {run}

(* CancelledError while run.started or run.finished is being published:    *)
(* neither publish is inside the try, so nothing catches it before         *)
(* append_messages, and nothing is appended.  It may be a second           *)
(* cancellation of the run.                                                *)
CancelPublish ==
    /\ run \in Cancellable
    /\ phase = "end" \/ (phase = "step" /\ step = 0)
    /\ EndRun
    /\ lost' = lost \cup {run}
    /\ UNCHANGED thread

(* session.compact between two runs.                                       *)
CompactThread ==
    /\ phase = "idle"
    /\ thread' = Compacted(NoMessage)
    /\ UNCHANGED <<sent, run, phase, loopVars, histVars>>

RunStep ==
    \/ BeginStep
    \/ \E reason \in StopReasons, n \in 0 .. MaxCalls : ChatReplies(reason, n)
    \/ StreamDrops
    \/ ChatFails
    \/ Act
    \/ Check
    \/ Compact
    \/ Persist

Next ==
    \/ \E m \in UserMessages : Submit(m)
    \/ RunStep
    \/ Cancel
    \/ CancelPublish
    \/ PersistFails
    \/ CompactThread

(* LLM calls and tools have time limits, so every await of a run ends.     *)
Spec     == Init /\ [][Next]_vars
FairSpec == Spec /\ WF_vars(RunStep)
-----------------------------------------------------------------------------
(* Properties.                                                             *)

Ids   == UserMessages \X (1 .. MaxSteps) \X (1 .. MaxCalls)
IsMessage(msg) ==
    /\ msg.kind \in {"message", "reply", "results", "summary", "ack"}
    /\ msg.ids \subseteq Ids
    /\ msg.of \in UserMessages \cup {NoMessage}

Outcomes == {"none", "running", "success", "llm_error", "exceeded_max_steps", "cancelled"}

TypeOK ==
    /\ \A i \in DOMAIN thread : IsMessage(thread[i])
    /\ \A i \in DOMAIN context : IsMessage(context[i])
    /\ \A i \in DOMAIN made : IsMessage(made[i])
    /\ sent \subseteq UserMessages
    /\ run \in sent \cup {NoMessage}
    /\ phase \in {"idle", "step", "chat", "act", "check", "compact", "end"}
    /\ prefill \in Nat
    /\ step \in 0 .. MaxSteps
    /\ outcome \in Outcomes
    /\ stop \in StopReasons \cup {"none"}
    /\ calls \in 0 .. MaxCalls
    /\ next \in 0 .. MaxCalls + 1
    /\ attempt \in 0 .. MaxStreams
    /\ lost \subseteq sent

(* Every request to the LLM is one its API accepts, although earlier runs  *)
(* of the session may have been cancelled between a tool_use and its       *)
(* result, or lost some of their rows, and this one may have compacted its *)
(* context.  (What earlier runs append that have done so is the subject of *)
(* ThreadReplayable.)                                                      *)
RequestsWellFormed ==
    phase = "chat" /\ sent \cap Compacting \subseteq {run} => WellFormed(context)

(* store.py:80: what read_messages returns can be handed to the LLM.       *)
ThreadReplayable == phase = "idle" => WellFormed(ReadMessages(thread))

(* A run works on the message it was started for: the message, or a        *)
(* summary that was made of it, is in every request.  Only a tool_use that *)
(* an earlier run left unanswered in the thread can take it away, because  *)
(* read_messages drops the rest of the thread with it.                     *)
RunSeesItsMessage ==
    phase = "chat" /\ OpenIds(thread, Len(thread)) = {} =>
        \E i \in DOMAIN context :
            context[i].of = run /\ context[i].kind \in {"message", "summary"}

(* end_turn wins over the step limit, the limit is exact, and a run fails  *)
(* for the limit only when it got there without an end.                    *)
EndTurnWins ==
    phase = "end" =>
        /\ outcome # "running"
        /\ stop = "end_turn" <=> outcome = "success"
        /\ outcome = "exceeded_max_steps" => step = MaxSteps

(* loop.py:118-119: the context is compacted only when the run goes on and *)
(* its last message is the user's: every tool_use has its result.          *)
CompactsBetweenSteps ==
    phase = "compact" =>
        /\ outcome = "running"
        /\ sent \cap Compacting \subseteq {run} => WellFormed(context)
        /\ context[Len(context)].kind = "results"

(* What a run that does not fill its context appends is what it produced,  *)
(* from the first message on and in order, and all of it: a cancellation   *)
(* of the loop loses nothing, one while run.finished is being published    *)
(* everything, and a failing write the end.                                *)
ProducedIsKept ==
    [][phase = "end" /\ run \notin Compacting =>
          \E n \in 0 .. Len(made) :
              /\ thread' = thread \o SubSeq(made, 1, n)
              /\ run \in lost' \/ n = Len(made)]_vars

(* A run ends, whatever the LLM and the tools answer.                      *)
RunEnds == run # NoMessage ~> run = NoMessage
=============================================================================
