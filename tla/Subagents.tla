------------------------------- MODULE Subagents -------------------------------
(***************************************************************************)
(* core/subagent and the tools of core/runner.py: runs whose agents spawn  *)
(* agents, in the foreground, where the call waits for the child, or in    *)
(* the background, where agent_result asks for it later.  A spawn_agent    *)
(* call is made by invoke_tool (ToolInvocation), which asks for permission *)
(* once, limits each attempt to 120 s and repeats a failed one; a limit    *)
(* that passes cancels whatever the attempt waits for, down to the last    *)
(* foreground descendant and its request for permission.  All events of a  *)
(* child pass over its bus to the buses of its ancestors.                  *)
(* (The stop of the daemon, which cancels all of them, is left out.)       *)
(***************************************************************************)
EXTENDS Naturals, Sequences, SequencesExt

CONSTANTS Runs,        (* runs, each with an AgentRunner of its own         *)
          MaxKids,     (* bound on the subagents, of all runs together      *)
          MaxRetries,  (* _MAX_RETRIES                                      *)
          MaxSteps,    (* agent.max_steps                                   *)
          Limited      (* permissions.timeout_s > 0: a request for          *)
                       (* permission is denied when that time has passed    *)

Kids   == 1 .. MaxKids
Agents == Runs \cup Kids

ASSUME SubagentAssumption ==
    /\ MaxKids \in Nat /\ MaxRetries \in Nat /\ MaxSteps \in Nat \ {0}
    /\ Runs \cap Kids = {}
    /\ Limited \in BOOLEAN

VARIABLES
    at,        (* where each agent's loop, or the call that runs it, stands *)
    parent,    (* the agent whose call spawned it (a run: itself)           *)
    mode,      (* "run", "fore" or "back"                                   *)
    status,    (* context.status                                            *)
    step,      (* context.step                                              *)
    attempt,   (* the attempt of its spawn_agent call                       *)
    end,       (* how its task or call ended                                *)
    registry,  (* BackgroundTaskRegistry of each run's AgentRunner          *)
    told,      (* how a child ended, as agent_result said                   *)
    log        (* history: the events of each child on its parent's bus, a  *)
               (* "step" for the steps between two others                   *)

vars == <<at, parent, mode, status, step, attempt, end, registry, told, log>>

(* A child's id is taken in order.                                         *)
Unborn == {k \in Kids : at[k] = "unborn"}
NextKid == CHOOSE k \in Unborn : \A x \in Unborn : k <= x

Depth(a) == IF parent[a] = a THEN 0 ELSE IF parent[parent[a]] = parent[a] THEN 1 ELSE 2
RunOf(a) == parent[parent[a]]

Final == {"returned", "cancelled", "raised"}

Alive(a) == at[a] \notin {"unborn", "over"}

(* What a's call waits for, and what waits below.                          *)
Held(a)  == {k \in Kids : /\ parent[k] = a /\ k # a /\ Alive(k)
                          /\ mode[k] = "fore" \/ at[k] = "starting"}
Below(a) == Held(a) \cup UNION {Held(k) : k \in Held(a)}
-----------------------------------------------------------------------------
Init ==
    /\ at = [a \in Agents |-> IF a \in Runs THEN "looping" ELSE "unborn"]
    /\ parent = [a \in Agents |-> a]
    /\ mode = [a \in Agents |-> "run"]
    /\ status = [a \in Agents |-> "running"]
    /\ step = [a \in Agents |-> 0]
    /\ attempt = [a \in Agents |-> 0]
    /\ end = [a \in Agents |-> "none"]
    /\ registry = [r \in Runs |-> {}]
    /\ told = [k \in Kids |-> "nothing"]
    /\ log = [k \in Kids |-> <<>>]

Says(a, event) ==
    IF a \in Kids /\ Last(log[a]) # event THEN [log EXCEPT ![a] = Append(@, event)] ELSE log

(* AgentLoop.run, a turn: step.started is published and the model asked.   *)
Think(a) ==
    /\ at[a] = "looping"
    /\ status[a] = "running"
    /\ at' = [at EXCEPT ![a] = "thinking"]
    /\ step' = [step EXCEPT ![a] = @ + 1]
    /\ log' = Says(a, "step")
    /\ UNCHANGED <<parent, mode, status, attempt, end, registry, told>>

(* The termination check after the tool calls of a turn.                   *)
Spent(a) == IF step[a] >= MaxSteps THEN [status EXCEPT ![a] = "failed"] ELSE status

(* The model's last word, its failure, or a turn of other tools.           *)
Answer(a) ==
    /\ at[a] = "thinking"
    /\ at' = [at EXCEPT ![a] = "looping"]
    /\ \/ \E outcome \in {"success", "failed"} : status' = [status EXCEPT ![a] = outcome]
       \/ status' = Spent(a)
    /\ UNCHANGED <<parent, mode, step, attempt, end, registry, told, log>>

(* spawn_agent is given to agents of depth 0 and 1 only.  invoke_tool asks *)
(* the permission manager first.                                           *)
Call(a) ==
    /\ at[a] = "thinking"
    /\ Depth(a) < 2
    /\ at' = [at EXCEPT ![a] = "asking"]
    /\ UNCHANGED <<parent, mode, status, step, attempt, end, registry, told, log>>

(* check_and_wait returns: the first attempt begins, or the call fails for *)
(* good.                                                                   *)
Grant(a) ==
    /\ at[a] = "asking"
    /\ at' = [at EXCEPT ![a] = "trying"]
    /\ attempt' = [attempt EXCEPT ![a] = 1]
    /\ UNCHANGED <<parent, mode, status, step, end, registry, told, log>>

Deny(a) ==
    /\ at[a] = "asking"
    /\ at' = [at EXCEPT ![a] = "looping"]
    /\ status' = Spent(a)
    /\ UNCHANGED <<parent, mode, step, attempt, end, registry, told, log>>

(* An attempt of the call makes a child and publishes subagent.started.    *)
Spawn(a, m) ==
    /\ at[a] = "trying"
    /\ Unborn # {}
    /\ at' = [at EXCEPT ![a] = "calling", ![NextKid] = "starting"]
    /\ parent' = [parent EXCEPT ![NextKid] = a]
    /\ mode' = [mode EXCEPT ![NextKid] = m]
    /\ UNCHANGED <<status, step, attempt, end, registry, told, log>>

(* Mutant: attempts are not counted.                                       *)
RepeatsAlways(a) == TRUE

MayRepeat(a) == attempt[a] <= MaxRetries

CallReturns(a, F) ==
    /\ at' = [F EXCEPT ![a] = "looping"]
    /\ status' = Spent(a)
    /\ attempt' = [attempt EXCEPT ![a] = 0]

(* invoke_tool after an attempt of a's call: another one or none.  F is    *)
(* what became of the other agents.                                        *)
CallFails(a, F) ==
    \/ /\ MayRepeat(a)
       /\ at' = [F EXCEPT ![a] = "trying"]
       /\ attempt' = [attempt EXCEPT ![a] = IF @ <= MaxRetries THEN @ + 1 ELSE @]
       /\ UNCHANGED status
    \/ /\ ~MayRepeat(a)
       /\ CallReturns(a, F)

(* An attempt that raises before there is a child: the directory of the    *)
(* child's tasks cannot be made.                                           *)
NoTasks(a) ==
    /\ at[a] = "trying"
    /\ CallFails(a, at)
    /\ UNCHANGED <<parent, mode, step, end, registry, told, log>>

(* subagent.started is out.  The child's directory, and for a child in the *)
(* foreground its event file, are made or not.                             *)
Launch(k) ==
    /\ at[k] = "starting"
    /\ log' = [log EXCEPT ![k] = Append(@, "started")]
    /\ \/ /\ CallFails(parent[k], [at EXCEPT ![k] = "over"])
          /\ end' = [end EXCEPT ![k] = "raised"]
          /\ UNCHANGED registry
       \/ /\ mode[k] = "fore"
          /\ at' = [at EXCEPT ![k] = "looping"]
          /\ UNCHANGED <<status, attempt, end, registry>>
       \/ /\ mode[k] = "back"
          /\ CallReturns(parent[k], [at EXCEPT ![k] = "looping"])
          /\ registry' = [registry EXCEPT ![RunOf(k)] = @ \cup {k}]
          /\ UNCHANGED end
    /\ UNCHANGED <<parent, mode, step, told>>

(* A background child cannot open its event file.                          *)
Raise(k) ==
    /\ mode[k] = "back"
    /\ at[k] = "looping"
    /\ step[k] = 0
    /\ at' = [at EXCEPT ![k] = "over"]
    /\ end' = [end EXCEPT ![k] = "raised"]
    /\ UNCHANGED <<parent, mode, status, step, attempt, registry, told, log>>

(* The child's loop has returned, its file is closed; subagent.finished is *)
(* published, and a call that waits for the child gets its result.         *)
Finish(k) ==
    /\ k \in Kids
    /\ at[k] = "looping"
    /\ status[k] # "running"
    /\ at' = [at EXCEPT ![k] = "telling"]
    /\ UNCHANGED <<parent, mode, status, step, attempt, end, registry, told, log>>

Tell(k) ==
    /\ at[k] = "telling"
    /\ log' = Says(k, "finished")
    /\ end' = [end EXCEPT ![k] = "returned"]
    /\ LET over == [at EXCEPT ![k] = "over"]
       IN  \/ mode[k] = "back" /\ at' = over /\ UNCHANGED <<status, attempt>>
           \/ mode[k] = "fore" /\ status[k] = "success" /\ CallReturns(parent[k], over)
           \/ mode[k] = "fore" /\ status[k] = "failed" /\ CallFails(parent[k], over)
    /\ UNCHANGED <<parent, mode, step, registry, told>>

RunEnds(r) ==
    /\ at[r] = "looping"
    /\ status[r] # "running"
    /\ at' = [at EXCEPT ![r] = "over"]
    /\ end' = [end EXCEPT ![r] = "returned"]
    /\ UNCHANGED <<parent, mode, status, step, attempt, registry, told, log>>

(* Mutant: the child's own call is not waited for.                         *)
HeldNext(a) == Held(a)

Reached(a) == Below(a)

(* wait_for: 120 s have passed.  CancelledError goes through everything    *)
(* the attempt waits for; a child that waits for the model is marked       *)
(* failed, the others (those that ask for permission among them) are left  *)
(* running.  The call fails for good.                                      *)
TimeOut(a) ==
    /\ at[a] = "calling"
    /\ at' = [x \in Agents |-> IF x = a THEN "looping"
                               ELSE IF x \in Reached(a) THEN "over" ELSE at[x]]
    /\ end' = [x \in Agents |-> IF x \in Reached(a) THEN "cancelled" ELSE end[x]]
    /\ status' = [x \in Agents |-> IF x = a THEN Spent(a)[a]
                                   ELSE IF x \in Reached(a) /\ at[x] = "thinking" THEN "failed"
                                   ELSE status[x]]
    /\ attempt' = [attempt EXCEPT ![a] = 0]
    /\ UNCHANGED <<parent, mode, step, registry, told, log>>

(* Mutant: the child's context is asked, not its task.                     *)
ReplyFromContext(a, k) ==
    IF k \notin registry[RunOf(a)] THEN "unknown"
    ELSE IF status[k] = "running" THEN "still running" ELSE "returned"

(* agent_result looks in the registry of its own run.  The text for a      *)
(* child that returned does not depend on its status.                      *)
Reply(a, k) ==
    IF k \notin registry[RunOf(a)] THEN "unknown"
    ELSE IF end[k] = "none" THEN "still running" ELSE end[k]

Ask(a, k) ==
    /\ at[a] = "thinking"
    /\ Depth(a) < 2
    /\ log[k] # <<>>
    /\ told' = IF Reply(a, k) \in Final THEN [told EXCEPT ![k] = Reply(a, k)] ELSE told
    /\ at' = [at EXCEPT ![a] = "looping"]
    /\ status' = Spent(a)
    /\ UNCHANGED <<parent, mode, step, attempt, end, registry, log>>

Next ==
    \/ \E a \in Agents :
          \/ Think(a)
          \/ Answer(a)
          \/ Call(a)
          \/ Grant(a)
          \/ Deny(a)
          \/ \E m \in {"fore", "back"} : Spawn(a, m)
          \/ NoTasks(a)
          \/ TimeOut(a)
          \/ \E k \in Kids : Ask(a, k)
    \/ \E k \in Kids : Launch(k) \/ Raise(k) \/ Finish(k) \/ Tell(k)
    \/ \E r \in Runs : RunEnds(r)

(* A call goes on: a limited request is denied if nobody answers it, the   *)
(* pause before an attempt passes, and so does the limit of 120 s.         *)
Spec     == Init /\ [][Next]_vars
FairSpec ==
    /\ Spec
    /\ \A a \in Agents :
          /\ Limited => WF_vars(Grant(a) \/ Deny(a))
          /\ WF_vars(TimeOut(a))
          /\ WF_vars(NoTasks(a) \/ \E m \in {"fore", "back"} : Spawn(a, m))
-----------------------------------------------------------------------------
(* Properties.                                                             *)

TypeOK ==
    /\ at \in [Agents -> {"unborn", "starting", "looping", "thinking", "asking",
                          "trying", "calling", "telling", "over"}]
    /\ parent \in [Agents -> Agents]
    /\ mode \in [Agents -> {"run", "fore", "back"}]
    /\ status \in [Agents -> {"running", "success", "failed"}]
    /\ step \in [Agents -> 0 .. MaxSteps]
    /\ attempt \in [Agents -> 0 .. MaxRetries + 1]
    /\ end \in [Agents -> Final \cup {"none"}]
    /\ registry \in [Runs -> SUBSET Kids]
    /\ told \in [Kids -> Final \cup {"nothing"}]
    /\ log \in [Kids -> Seq({"started", "step", "finished"})]

(* A foreground child lives only while its parent's call waits for it, and *)
(* a call has one child at a time: neither a limit that passed, nor a      *)
(* repeated attempt, nor a cancelled run leaves one behind at work.        *)
ForegroundIsHeld ==
    \A k \in Kids :
        Alive(k) /\ mode[k] = "fore" =>
            /\ at[parent[k]] = "calling"
            /\ \A x \in Kids : Alive(x) /\ mode[x] = "fore" /\ parent[x] = parent[k] => x = k

(* A child's events lie between its subagent.started and its               *)
(* subagent.finished, each published once, and agent_result says how a     *)
(* child ended only when it has ended: it has published all it ever will.  *)
EndsAreTold ==
    \A k \in Kids :
        /\ \A i \in DOMAIN log[k] :
              /\ log[k][i] = "started" <=> i = 1
              /\ log[k][i] = "finished" => i = Len(log[k]) /\ Held(k) = {}
        /\ told[k] \in Final =>
              /\ end[k] = told[k]
              /\ ~Alive(k)
              /\ told[k] = "returned" <=> Last(log[k]) = "finished"

(* Every spawn_agent call comes to its end, from its first attempt on, and *)
(* from its request for permission on if that is limited.                  *)
InCall(a) == at[a] \in {"asking", "trying", "calling"}

SpawnEnds ==
    \A a \in Agents :
        InCall(a) /\ (at[a] = "asking" => Limited) ~> ~InCall(a)
=============================================================================
