---------------------------- MODULE SubagentsProofs ----------------------------
(***************************************************************************)
(* Proofs about Subagents for any number of runs, subagents, attempts and  *)
(* steps: who waits for whom, and what the bus and agent_result tell of a  *)
(* child.                                                                  *)
(***************************************************************************)
EXTENDS Subagents, SequenceTheorems, WellFoundedInduction, TLAPS

(* A child has another agent for a parent, and agents two calls below a    *)
(* run make no calls.                                                      *)
FamilyInv ==
    /\ \A r \in Runs : parent[r] = r /\ at[r] \notin {"unborn", "starting"}
    /\ \A k \in Kids :
          /\ at[k] = "unborn" => parent[k] = k
          /\ at[k] # "unborn" => at[parent[k]] # "unborn" /\ parent[k] # k
    /\ \A a \in Agents :
          at[a] \in {"asking", "trying", "calling"} => a \in Runs \/ parent[a] \in Runs

(* The children that calls wait for.                                       *)
Waited == {k \in Kids : k \in Held(parent[k])}

(* The parent's call waits for such a child and for no other.              *)
HeldInv ==
    \A k \in Waited :
        /\ at[parent[k]] = "calling"
        /\ \A x \in Waited : parent[x] = parent[k] => x = k

(* A turn is begun only within the limit.                                  *)
StepInv ==
    \A a \in Agents :
        /\ at[a] \in {"unborn", "starting"} => step[a] = 0
        /\ at[a] = "looping" /\ status[a] = "running" => step[a] < MaxSteps

(* A child that has not been launched.                                     *)
Fresh == {"unborn", "starting"}

(* What the events of a child in state s say, if it ended as e and         *)
(* agent_result told t of it.                                              *)
Fits(events, s, e, t) ==
    /\ s \in Fresh => events = <<>>
    /\ events = <<>> => s \in Fresh \/ e = "cancelled"
    /\ \A i \in DOMAIN events :
          /\ events[i] = "started" <=> i = 1
          /\ events[i] = "finished" => i = Len(events) /\ e = "returned"
    /\ e = "returned" => events # <<>> /\ Last(events) = "finished"
    /\ t \in Final => events # <<>> /\ e = t

(* A child is over when its task or call has ended, and its events say so  *)
(* when it returned.                                                       *)
LogInv ==
    /\ \A a \in Agents : end[a] \in Final <=> at[a] = "over"
    /\ \A k \in Kids : Fits(log[k], at[k], end[k], told[k])

IInv == TypeOK /\ FamilyInv /\ HeldInv /\ StepInv /\ LogInv
-----------------------------------------------------------------------------
(* Operators of the model.                                                 *)

States   == {"unborn", "starting", "looping", "thinking", "asking", "trying", "calling",
             "telling", "over"}
Statuses == {"running", "success", "failed"}
ChildEvents == {"started", "step", "finished"}

(* The assumption and what it says of the ids.                             *)
LEMMA Constants ==
    /\ MaxKids \in Nat /\ MaxRetries \in Nat /\ MaxSteps \in Nat /\ MaxSteps > 0
    /\ Runs \cap Kids = {} /\ Agents = Runs \cup Kids
    /\ Kids \subseteq Nat
  BY SubagentAssumption DEF Agents, Kids

(* The ids are taken in order, so there is a next one.                     *)
LEMMA NextIsUnborn ==
    ASSUME Unborn # {}
    PROVE  NextKid \in Unborn
  <1>1. Unborn \subseteq Nat
    BY Constants DEF Unborn
  <1>2. \E x \in Unborn : \A y \in Unborn : ~ (<<y, x>> \in OpToRel(<, Nat))
    BY <1>1, NatLessThanWellFounded, WFMin
  <1>3. PICK k \in Unborn : \A y \in Unborn : ~ (y < k)
    BY <1>1, <1>2 DEF OpToRel
  <1>4. \A y \in Unborn : k <= y
    BY <1>1, <1>3
  <1>5. QED
    BY <1>3, <1>4 DEF NextKid

(* Who is waited for.                                                      *)
LEMMA WaitedIs ==
    \A k : k \in Waited <=> /\ k \in Kids /\ parent[k] # k /\ Alive(k)
                            /\ mode[k] = "fore" \/ at[k] = "starting"
  BY DEF Waited, Held

(* invoke_tool goes on with the call of a.                                 *)
LEMMA CallGoesOn ==
    ASSUME TypeOK, NEW a \in Agents, NEW F \in [Agents -> States],
           CallReturns(a, F) \/ CallFails(a, F)
    PROVE  /\ at' \in [Agents -> States]
           /\ at'[a] \in {"looping", "trying"}
           /\ \A x \in Agents \ {a} : at'[x] = F[x] /\ status'[x] = status[x]
           /\ status' \in [Agents -> Statuses]
           /\ attempt' \in [Agents -> 0 .. MaxRetries + 1]
           /\ at'[a] = "looping" /\ status'[a] = "running" => ~ (step[a] >= MaxSteps)
  <1>1. Spent(a) \in [Agents -> Statuses]
    BY DEF TypeOK, Spent, Statuses
  <1>2. CASE CallReturns(a, F)
    <2>1. 0 \in 0 .. MaxRetries + 1
      BY Constants
    <2>2. at' \in [Agents -> States] /\ at'[a] = "looping" /\ \A x \in Agents \ {a} : at'[x] = F[x]
      BY <1>2 DEF CallReturns, States
    <2>3. attempt' \in [Agents -> 0 .. MaxRetries + 1]
      BY <1>2, <2>1 DEF CallReturns, TypeOK
    <2>4. status' = Spent(a)
      BY <1>2 DEF CallReturns
    <2>5. /\ \A x \in Agents \ {a} : status'[x] = status[x]
          /\ status'[a] = "running" => ~ (step[a] >= MaxSteps)
      BY <2>4 DEF Spent, TypeOK
    <2>6. QED
      BY <1>1, <2>2, <2>3, <2>4, <2>5
  <1>3. CASE /\ at' = [F EXCEPT ![a] = "trying"] /\ status' = status
             /\ attempt' = [attempt EXCEPT ![a] = IF @ <= MaxRetries THEN @ + 1 ELSE @]
    <2>1. at' \in [Agents -> States] /\ at'[a] = "trying" /\ \A x \in Agents \ {a} : at'[x] = F[x]
      BY <1>3 DEF States
    <2>2. attempt[a] \in 0 .. MaxRetries + 1 /\ attempt \in [Agents -> 0 .. MaxRetries + 1]
      BY DEF TypeOK
    <2>3. (IF attempt[a] <= MaxRetries THEN attempt[a] + 1 ELSE attempt[a]) \in 0 .. MaxRetries + 1
      BY <2>2, Constants
    <2>4. attempt' \in [Agents -> 0 .. MaxRetries + 1]
      BY <1>3, <2>2, <2>3
    <2>5. QED
      BY <1>3, <2>1, <2>4 DEF TypeOK, Statuses
  <1>4. QED
    BY <1>2, <1>3 DEF CallFails

(* Whom a limit that passes reaches: children at work, not the caller, and *)
(* with each all that it waits for.                                        *)
LEMMA ReachedIs ==
    ASSUME IInv, NEW a \in Agents, at[a] = "calling"
    PROVE  /\ Reached(a) \subseteq Kids
           /\ a \notin Reached(a)
           /\ \A k \in Reached(a) : k \in Waited /\ Alive(k)
           /\ \A k \in Waited : parent[k] = a \/ parent[k] \in Reached(a) => k \in Reached(a)
  <1>1. FamilyInv /\ HeldInv
    BY DEF IInv
  <1>2. \A k : k \in Reached(a) <=> k \in Held(a) \/ \E p \in Held(a) : k \in Held(p)
    BY DEF Reached, Below
  <1>3. \A k, p : k \in Held(p) <=> k \in Waited /\ parent[k] = p
    BY DEF Held, Waited
  <1>4. \A k \in Waited : k \in Kids /\ Alive(k) /\ parent[k] # k
    BY WaitedIs
  <1>5. \A k \in Waited : parent[k] \in Kids => parent[parent[k]] \in Runs
    <2> SUFFICES ASSUME NEW k \in Waited, parent[k] \in Kids PROVE parent[parent[k]] \in Runs
      OBVIOUS
    <2>1. at[parent[k]] = "calling" /\ parent[k] \in Agents /\ parent[k] \notin Runs
      BY <1>1, Constants DEF HeldInv
    <2>2. QED
      BY <1>1, <2>1 DEF FamilyInv
  <1>6. a \notin Reached(a)
    <2> SUFFICES ASSUME NEW p \in Held(a), a \in Held(p) PROVE FALSE
      BY <1>2, <1>3, <1>4
    <2>1. a \in Kids /\ parent[a] = p /\ p \in Kids
      BY <1>3, <1>4
    <2>2. parent[a] \in Runs
      BY <1>1, <2>1, Constants DEF FamilyInv
    <2>3. QED
      BY <2>1, <2>2, Constants
  <1>7. ASSUME NEW k \in Waited, parent[k] \in Reached(a)
        PROVE  parent[k] \in Held(a)
    <2> SUFFICES ASSUME NEW p \in Held(a), parent[k] \in Held(p) PROVE FALSE
      BY <1>2, <1>7
    <2>1. p \in Kids /\ parent[k] \in Kids /\ parent[parent[k]] = p
      BY <1>3, <1>4
    <2>2. QED
      BY <1>5, <2>1, Constants
  <1>8. QED
    BY <1>2, <1>3, <1>4, <1>6, <1>7

-----------------------------------------------------------------------------
(* The invariant.                                                          *)

(* It holds at the start.                                                  *)
LEMMA InitHolds == Init => IInv
  <1> SUFFICES ASSUME Init PROVE IInv
    OBVIOUS
  <1> USE DEF Init
  <1>1. TypeOK
    BY Constants, EmptySeq DEF TypeOK
  <1>2. FamilyInv
    BY Constants DEF FamilyInv
  <1>3. \A k \in Kids : parent[k] = k
    BY Constants
  <1>4. HeldInv
    BY <1>3, WaitedIs DEF HeldInv
  <1>5. StepInv
    BY Constants DEF StepInv
  <1>6. LogInv
    BY Constants DEF LogInv, Fits, Fresh, Final
  <1>7. QED
    BY <1>1, <1>2, <1>4, <1>5, <1>6 DEF IInv

(* Every variable keeps its type.                                          *)
LEMMA StepTypes ==
    ASSUME IInv, [Next]_vars
    PROVE  TypeOK'
  <1>1. /\ TypeOK /\ LogInv /\ StepInv
        /\ at \in [Agents -> States] /\ status \in [Agents -> Statuses]
        /\ log \in [Kids -> Seq(ChildEvents)]
    BY DEF IInv, TypeOK, States, Statuses, ChildEvents
  <1>2. ASSUME NEW k \in Kids, NEW e \in ChildEvents
        PROVE  Append(log[k], e) \in Seq(ChildEvents)
    BY <1>1, AppendProperties
  <1>3. ASSUME NEW a \in Agents, NEW e \in ChildEvents, log' = Says(a, e)
        PROVE  log' \in [Kids -> Seq(ChildEvents)]
    BY <1>1, <1>2, <1>3 DEF Says
  <1>4. CASE UNCHANGED vars
    BY <1>1, <1>4 DEF TypeOK, vars
  <1>5. ASSUME NEW a \in Agents, Think(a)
        PROVE  TypeOK'
    <2>1. step[a] + 1 \in 0 .. MaxSteps
      BY <1>1, <1>5, Constants DEF Think, StepInv, TypeOK
    <2>2. log' \in [Kids -> Seq(ChildEvents)]
      BY <1>3, <1>5 DEF Think, ChildEvents
    <2>3. QED
      BY <1>1, <1>5, <2>1, <2>2 DEF Think, TypeOK, ChildEvents
  <1>6. ASSUME NEW a \in Agents, Answer(a) \/ \E k \in Kids : Ask(a, k)
        PROVE  TypeOK'
    <2>1. Spent(a) \in [Agents -> Statuses]
      BY <1>1 DEF Spent, Statuses
    <2>2. CASE Answer(a)
      <3>1. at' \in [Agents -> States]
        BY <1>1, <2>2 DEF Answer, States
      <3>2. ASSUME NEW o \in {"success", "failed"}
            PROVE  [status EXCEPT ![a] = o] \in [Agents -> Statuses]
        BY <1>1 DEF Statuses
      <3>3. status' \in [Agents -> Statuses]
        BY <2>1, <2>2, <3>2 DEF Answer
      <3>4. QED
        BY <1>1, <2>2, <3>1, <3>3 DEF Answer, TypeOK, Statuses, States
    <2>3. ASSUME NEW k \in Kids, Ask(a, k)
          PROVE  TypeOK'
      BY <1>1, <2>1, <2>3 DEF Ask, TypeOK, Statuses, Final
    <2>4. QED
      BY <1>6, <2>2, <2>3
  <1>7. ASSUME NEW a \in Agents, Call(a)
        PROVE  TypeOK'
    <2>1. 1 \in 0 .. MaxRetries + 1
      BY Constants
    <2>2. QED
      BY <1>1, <1>7, <2>1 DEF Call, TypeOK
  <1>8. ASSUME NEW a \in Agents, Grant(a)
         PROVE  TypeOK'
    <2>1. 1 \in 0 .. MaxRetries + 1
      BY Constants
    <2>2. QED
      BY <1>1, <1>8, <2>1 DEF Grant, TypeOK
  <1>9. ASSUME NEW a \in Agents, Deny(a)
         PROVE  TypeOK'
    <2>1. Spent(a) \in [Agents -> Statuses]
      BY <1>1 DEF Spent, Statuses
    <2>2. QED
      BY <1>1, <1>9, <2>1 DEF Deny, TypeOK, Statuses
  <1>10. ASSUME NEW a \in Agents, NEW m \in {"fore", "back"}, Spawn(a, m)
        PROVE  TypeOK'
    <2>1. NextKid \in Agents
      BY <1>10, NextIsUnborn, Constants DEF Spawn, Unborn
    <2>2. QED
      BY <1>1, <1>10, <2>1 DEF Spawn, TypeOK
  <1>11. ASSUME NEW a \in Agents, NoTasks(a)
        PROVE  TypeOK'
    <2>1. /\ at' \in [Agents -> States] /\ status' \in [Agents -> Statuses]
          /\ attempt' \in [Agents -> 0 .. MaxRetries + 1]
      BY <1>1, <1>11, CallGoesOn DEF NoTasks
    <2>2. QED
      BY <1>1, <1>11, <2>1 DEF NoTasks, TypeOK, States, Statuses
  <1>12. ASSUME NEW a \in Agents, TimeOut(a)
         PROVE  TypeOK'
    <2>1. Spent(a)[a] \in Statuses
      BY <1>1 DEF Spent, Statuses
    <2>2. at' \in [Agents -> States] /\ status' \in [Agents -> Statuses]
      BY <1>1, <1>12, <2>1 DEF TimeOut, States, Statuses
    <2>3. end' \in [Agents -> Final \cup {"none"}]
      BY <1>1, <1>12 DEF TimeOut, TypeOK, Final
    <2>4. attempt' \in [Agents -> 0 .. MaxRetries + 1]
      <3>1. 0 \in 0 .. MaxRetries + 1
        BY Constants
      <3>2. QED
        BY <1>1, <1>12, <3>1 DEF TimeOut, TypeOK
    <2>5. QED
      BY <1>1, <1>12, <2>2, <2>3, <2>4 DEF TimeOut, TypeOK, States, Statuses
  <1>13. ASSUME NEW k \in Kids, Launch(k)
         PROVE  TypeOK'
    <2> DEFINE p == parent[k]
    <2>1. p \in Agents /\ k \in Agents
      BY <1>1, Constants DEF TypeOK
    <2>2. log' \in [Kids -> Seq(ChildEvents)]
      BY <1>1, <1>2, <1>13 DEF Launch, ChildEvents
    <2>3. /\ [at EXCEPT ![k] = "over"] \in [Agents -> States]
          /\ [at EXCEPT ![k] = "looping"] \in [Agents -> States]
          /\ [end EXCEPT ![k] = "raised"] \in [Agents -> Final \cup {"none"}]
      BY <1>1, <2>1 DEF States, TypeOK, Final
    <2>4. registry' \in [Runs -> SUBSET Kids] /\ end' \in [Agents -> Final \cup {"none"}]
      <3>1. [registry EXCEPT ![RunOf(k)] = @ \cup {k}] \in [Runs -> SUBSET Kids]
        BY <1>1 DEF TypeOK
      <3>2. registry \in [Runs -> SUBSET Kids] /\ end \in [Agents -> Final \cup {"none"}]
        BY <1>1 DEF TypeOK
      <3>3. /\ registry' = registry \/ registry' = [registry EXCEPT ![RunOf(k)] = @ \cup {k}]
            /\ end' = end \/ end' = [end EXCEPT ![k] = "raised"]
        BY <1>13 DEF Launch
      <3>4. QED
        BY <2>3, <3>1, <3>2, <3>3
    <2>5. /\ at' \in [Agents -> States] /\ status' \in [Agents -> Statuses]
          /\ attempt' \in [Agents -> 0 .. MaxRetries + 1]
      <3>1. CASE CallFails(p, [at EXCEPT ![k] = "over"]) \/ CallReturns(p, [at EXCEPT ![k] = "looping"])
        BY <1>1, <2>1, <2>3, <3>1, CallGoesOn
      <3>2. CASE at' = [at EXCEPT ![k] = "looping"] /\ UNCHANGED <<status, attempt>>
        BY <1>1, <2>3, <3>2 DEF TypeOK
      <3>3. QED
        BY <1>13, <3>1, <3>2 DEF Launch
    <2>6. QED
      BY <1>1, <1>13, <2>2, <2>4, <2>5 DEF Launch, TypeOK, States, Statuses, ChildEvents
  <1>14. ASSUME NEW k \in Kids, Raise(k) \/ Finish(k)
         PROVE  TypeOK'
    <2>1. k \in Agents
      BY Constants
    <2>2. CASE Raise(k)
      BY <1>1, <2>1, <2>2 DEF Raise, TypeOK, Final
    <2>3. CASE Finish(k)
      BY <1>1, <2>1, <2>3 DEF Finish, TypeOK
    <2>4. QED
      BY <1>14, <2>2, <2>3
  <1>15. ASSUME NEW k \in Kids, Tell(k)
         PROVE  TypeOK'
    <2> DEFINE p == parent[k]
               over == [at EXCEPT ![k] = "over"]
    <2>1. p \in Agents /\ k \in Agents
      BY <1>1, Constants DEF TypeOK
    <2>2. log' \in [Kids -> Seq(ChildEvents)]
      BY <1>3, <1>15, <2>1 DEF Tell, ChildEvents
    <2>3. over \in [Agents -> States] /\ end' \in [Agents -> Final \cup {"none"}]
      BY <1>1, <1>15, <2>1 DEF Tell, States, TypeOK, Final
    <2>4. \/ at' = over /\ UNCHANGED <<status, attempt>>
          \/ CallReturns(p, over) \/ CallFails(p, over)
      BY <1>15 DEF Tell
    <2> HIDE DEF over
    <2>5. /\ at' \in [Agents -> States] /\ status' \in [Agents -> Statuses]
          /\ attempt' \in [Agents -> 0 .. MaxRetries + 1]
      BY <1>1, <2>1, <2>3, <2>4, CallGoesOn DEF TypeOK
    <2>6. QED
      BY <1>1, <1>15, <2>2, <2>3, <2>5 DEF Tell, TypeOK, States, Statuses, ChildEvents
  <1>16. ASSUME NEW r \in Runs, RunEnds(r)
         PROVE  TypeOK'
    BY <1>1, <1>16, Constants DEF RunEnds, TypeOK, Final
  <1>17. QED
    BY <1>4, <1>5, <1>6, <1>7, <1>10, <1>11, <1>12, <1>13, <1>14, <1>15, <1>16,
       <1>8, <1>9 DEF Next

(* A step that neither makes a child nor leaves one behind.                *)
Quiet ==
    /\ UNCHANGED <<parent, mode>>
    /\ \A a \in Agents :
          /\ at[a] = "unborn" <=> at'[a] = "unborn"
          /\ at[a] = "over" => at'[a] = "over"
          /\ at'[a] = "starting" => at[a] = "starting"
          /\ at'[a] = "calling" => at[a] = "calling"
          /\ at'[a] \in {"asking", "trying"} => InCall(a) \/ Depth(a) < 2
    /\ \A k \in Waited :
          \/ at'[parent[k]] = "calling"
          \/ at'[k] = "over"
          \/ mode[k] = "back" /\ at'[k] # "starting"

(* An agent spawns only if it is a run or the child of one.                *)
LEMMA Shallow ==
    ASSUME TypeOK, FamilyInv, NEW a \in Agents, at[a] # "unborn", Depth(a) < 2
    PROVE  a \in Runs \/ parent[a] \in Runs
  <1>1. parent[a] = a \/ parent[parent[a]] = parent[a]
    BY DEF Depth
  <1>2. parent[a] \in Agents
    BY DEF TypeOK
  <1>3. QED
    BY <1>1, <1>2, Constants DEF FamilyInv

(* Such a step keeps the families and who waits for whom.                 *)
LEMMA QuietHolds ==
    ASSUME TypeOK, TypeOK', FamilyInv, HeldInv, Quiet
    PROVE  FamilyInv' /\ HeldInv'
  <1>1. FamilyInv'
    <2>1. \A r \in Runs : parent'[r] = r /\ at'[r] \notin {"unborn", "starting"}
      BY Constants DEF Quiet, FamilyInv
    <2>2. ASSUME NEW k \in Kids
          PROVE  /\ at'[k] = "unborn" => parent'[k] = k
                 /\ at'[k] # "unborn" => at'[parent'[k]] # "unborn" /\ parent'[k] # k
      <3>1. k \in Agents /\ parent[k] \in Agents /\ parent' = parent
        BY Constants DEF TypeOK, Quiet
      <3>2. QED
        BY <3>1 DEF Quiet, FamilyInv
    <2>3. ASSUME NEW a \in Agents, at'[a] \in {"asking", "trying", "calling"}
          PROVE  a \in Runs \/ parent'[a] \in Runs
      <3>1. at[a] # "unborn" /\ parent' = parent
        BY <2>3 DEF Quiet
      <3>2. InCall(a) \/ Depth(a) < 2
        BY <2>3 DEF Quiet, InCall
      <3>3. QED
        BY <3>1, <3>2, Shallow DEF FamilyInv, InCall
    <2>4. QED
      BY <2>1, <2>2, <2>3 DEF FamilyInv
  <1>2. ASSUME NEW k \in Waited'
        PROVE  k \in Waited /\ k \in Kids /\ at'[parent[k]] = "calling" /\ parent'[k] = parent[k]
    <2>1. /\ k \in Kids /\ parent'[k] # k /\ at'[k] \notin {"unborn", "over"}
          /\ mode'[k] = "fore" \/ at'[k] = "starting"
      BY <1>2 DEF Waited, Held, Alive
    <2>2. k \in Agents /\ UNCHANGED <<parent, mode>>
      BY <2>1, Constants DEF Quiet
    <2>3. /\ parent[k] # k /\ at[k] \notin {"unborn", "over"}
          /\ mode[k] = "fore" \/ at[k] = "starting"
      BY <2>1, <2>2 DEF Quiet
    <2>4. k \in Waited
      BY <2>1, <2>3, WaitedIs DEF Alive
    <2>5. QED
      BY <2>1, <2>2, <2>4 DEF Quiet
  <1>3. HeldInv'
    <2>1. \A k \in Waited' : at'[parent'[k]] = "calling"
      BY <1>2
    <2>2. ASSUME NEW k \in Waited', NEW x \in Waited', parent'[x] = parent'[k]
          PROVE  x = k
      BY <1>2, <2>2 DEF HeldInv
    <2>3. QED
      BY <2>1, <2>2 DEF HeldInv
  <1>4. QED
    BY <1>1, <1>3

(* The step of an agent that no call waits with.                           *)
LEMMA OwnStep ==
    ASSUME IInv, NEW a \in Agents,
           NEW s \in {"looping", "thinking", "asking", "trying", "telling", "over"},
           at[a] \in {"looping", "thinking", "asking", "trying", "telling"},
           s \in {"asking", "trying"} => InCall(a) \/ Depth(a) < 2,
           at' = [at EXCEPT ![a] = s], UNCHANGED <<parent, mode>>
    PROVE  Quiet
  <1>1. at \in [Agents -> States] /\ HeldInv
    BY DEF IInv, TypeOK, States
  <1>2. at'[a] = s /\ \A x \in Agents \ {a} : at'[x] = at[x]
    BY <1>1
  <1>3. ASSUME NEW k \in Waited
        PROVE  at'[parent[k]] = "calling"
    <2>1. at[parent[k]] = "calling" /\ parent[k] # a
      BY <1>1 DEF HeldInv
    <2>2. parent[k] \in Agents
      BY WaitedIs, Constants DEF IInv, TypeOK
    <2>3. QED
      BY <1>2, <2>1, <2>2
  <1>4. \A x \in Agents :
          /\ at[x] = "unborn" <=> at'[x] = "unborn"
          /\ at[x] = "over" => at'[x] = "over"
          /\ at'[x] = "starting" => at[x] = "starting"
          /\ at'[x] = "calling" => at[x] = "calling"
          /\ at'[x] \in {"asking", "trying"} => InCall(x) \/ Depth(x) < 2
    BY <1>2 DEF InCall
  <1>5. QED
    BY <1>3, <1>4 DEF Quiet

(* A call comes to an end with the child it waits for.                     *)
LEMMA CallStep ==
    ASSUME IInv, NEW k \in Waited, NEW s \in {"over", "looping"}, NEW F,
           F = [at EXCEPT ![k] = s],
           CallReturns(parent[k], F) \/ CallFails(parent[k], F),
           s = "over" \/ mode[k] = "back",
           at[k] \in {"starting", "telling"},
           UNCHANGED <<parent, mode>>
    PROVE  /\ Quiet
           /\ at'[parent[k]] \in {"looping", "trying"}
           /\ at'[k] = s
           /\ parent[k] \in Agents /\ at[parent[k]] = "calling"
           /\ \A x \in Agents \ {k, parent[k]} : at'[x] = at[x]
  <1>1. /\ TypeOK /\ HeldInv
        /\ at \in [Agents -> States]
    BY DEF IInv, TypeOK, States
  <1>2. k \in Kids /\ k \in Agents /\ parent[k] # k /\ parent[k] \in Agents
    BY <1>1, WaitedIs, Constants DEF TypeOK
  <1>3. F \in [Agents -> States] /\ F[k] = s /\ \A x \in Agents \ {k} : F[x] = at[x]
    BY <1>1, <1>2 DEF States
  <1>4. /\ at'[parent[k]] \in {"looping", "trying"}
        /\ \A x \in Agents \ {parent[k]} : at'[x] = F[x]
    BY <1>1, <1>2, <1>3, CallGoesOn
  <1>5. at[parent[k]] = "calling"
    BY <1>1 DEF HeldInv
  <1>6. /\ at'[k] = s
        /\ \A x \in Agents \ {k, parent[k]} : at'[x] = at[x]
    BY <1>2, <1>3, <1>4
  <1>7. ASSUME NEW j \in Waited
        PROVE  at'[parent[j]] = "calling" \/ j = k
    <2>1. at[parent[j]] = "calling" /\ parent[j] \in Agents /\ parent[j] # k
      BY <1>1, WaitedIs, Constants DEF HeldInv, TypeOK
    <2>2. parent[j] = parent[k] => j = k
      BY <1>1 DEF HeldInv
    <2>3. QED
      BY <1>6, <2>1, <2>2
  <1>8. Quiet
    <2>1. \A x \in Agents :
            /\ at[x] = "unborn" <=> at'[x] = "unborn"
            /\ at[x] = "over" => at'[x] = "over"
            /\ at'[x] = "starting" => at[x] = "starting"
            /\ at'[x] = "calling" => at[x] = "calling"
            /\ at'[x] \in {"asking", "trying"} => InCall(x)
      BY <1>2, <1>4, <1>5, <1>6 DEF InCall
    <2>2. QED
      BY <1>6, <1>7, <2>1 DEF Quiet
  <1>9. QED
    BY <1>2, <1>4, <1>5, <1>6, <1>8

(* A child that starts, and a foreground child that ends, is waited for.   *)
LEMMA IsWaited ==
    ASSUME IInv, NEW k \in Kids,
           at[k] = "starting" \/ (at[k] = "telling" /\ mode[k] = "fore")
    PROVE  k \in Waited
  <1>1. parent[k] # k
    BY DEF IInv, FamilyInv
  <1>2. QED
    BY <1>1, WaitedIs DEF Alive

(* Every step but Spawn is quiet.                                          *)
LEMMA OthersQuiet ==
    ASSUME IInv, TypeOK', [Next]_vars,
           ~ \E a \in Agents : \E m \in {"fore", "back"} : Spawn(a, m)
    PROVE  Quiet
  <1>1. TypeOK /\ HeldInv /\ Kids \subseteq Agents /\ Runs \subseteq Agents
    BY Constants DEF IInv
  <1>2. CASE UNCHANGED vars
    <2>1. \A k \in Waited : at[parent[k]] = "calling"
      BY <1>1 DEF HeldInv
    <2>2. QED
      BY <1>2, <2>1 DEF vars, Quiet, InCall
  <1>3. ASSUME NEW a \in Agents, Think(a)
        PROVE  Quiet
    BY <1>3, OwnStep DEF Think
  <1>4. ASSUME NEW a \in Agents, Answer(a) \/ \E k \in Kids : Ask(a, k)
        PROVE  Quiet
    <2>1. /\ at[a] = "thinking" /\ at' = [at EXCEPT ![a] = "looping"]
          /\ UNCHANGED <<parent, mode>>
      BY <1>4 DEF Answer, Ask
    <2>2. QED
      BY <2>1, OwnStep
  <1>5. ASSUME NEW a \in Agents, Call(a)
        PROVE  Quiet
    BY <1>5, OwnStep DEF Call
  <1>6. ASSUME NEW a \in Agents, Grant(a) \/ Deny(a)
         PROVE  Quiet
    <2>1. /\ \E s \in {"looping", "trying"} : at' = [at EXCEPT ![a] = s]
          /\ at[a] = "asking" /\ UNCHANGED <<parent, mode>>
      BY <1>6 DEF Grant, Deny
    <2>2. QED
      BY <2>1, OwnStep DEF InCall
  <1>7. ASSUME NEW a \in Agents, NoTasks(a)
        PROVE  Quiet
    <2>1. \E s \in {"looping", "trying"} : at' = [at EXCEPT ![a] = s]
      BY <1>7 DEF NoTasks, CallFails, CallReturns
    <2>2. QED
      BY <1>7, <2>1, OwnStep DEF NoTasks, InCall
  <1>8. ASSUME NEW a \in Agents, TimeOut(a)
        PROVE  Quiet
    <2>1. /\ at[a] = "calling" /\ UNCHANGED <<parent, mode>>
          /\ at' = [x \in Agents |-> IF x = a THEN "looping"
                                     ELSE IF x \in Reached(a) THEN "over" ELSE at[x]]
      BY <1>8 DEF TimeOut
    <2>2. /\ Reached(a) \subseteq Kids /\ a \notin Reached(a)
          /\ \A k \in Reached(a) : k \in Waited /\ Alive(k)
          /\ \A k \in Waited : parent[k] = a \/ parent[k] \in Reached(a) => k \in Reached(a)
      BY <2>1, ReachedIs
    <2>3. /\ at'[a] = "looping" /\ \A k \in Reached(a) : at'[k] = "over" /\ at[k] # "unborn"
          /\ \A x \in Agents : x # a /\ x \notin Reached(a) => at'[x] = at[x]
      BY <1>1, <2>1, <2>2 DEF Alive
    <2>4. ASSUME NEW k \in Waited
          PROVE  at'[parent[k]] = "calling" \/ at'[k] = "over"
      <3>1. at[parent[k]] = "calling" /\ parent[k] \in Agents
        BY <1>1, WaitedIs DEF HeldInv, TypeOK
      <3>2. QED
        BY <2>2, <2>3, <3>1
    <2>5. \A x \in Agents :
            /\ at[x] = "unborn" <=> at'[x] = "unborn"
            /\ at[x] = "over" => at'[x] = "over"
            /\ at'[x] = "starting" => at[x] = "starting"
            /\ at'[x] = "calling" => at[x] = "calling"
            /\ at'[x] \in {"asking", "trying"} => InCall(x)
      BY <2>1, <2>3 DEF InCall
    <2>6. QED
      BY <2>1, <2>4, <2>5 DEF Quiet
  <1>9. ASSUME NEW k \in Kids, Launch(k)
        PROVE  Quiet
    <2>1. k \in Waited /\ at[k] = "starting" /\ UNCHANGED <<parent, mode>>
      BY <1>9, IsWaited DEF Launch
    <2>2. CASE CallFails(parent[k], [at EXCEPT ![k] = "over"])
      BY <2>1, <2>2, CallStep
    <2>3. CASE mode[k] = "back" /\ CallReturns(parent[k], [at EXCEPT ![k] = "looping"])
      BY <2>1, <2>3, CallStep
    <2>4. CASE at' = [at EXCEPT ![k] = "looping"]
      <3>1. at'[k] = "looping" /\ \A x \in Agents \ {k} : at'[x] = at[x]
        BY <1>1, <2>4 DEF TypeOK
      <3>2. \A j \in Waited : at'[parent[j]] = "calling"
        BY <1>1, <2>1, <3>1, WaitedIs DEF HeldInv, TypeOK
      <3>3. QED
        BY <1>1, <2>1, <3>1, <3>2 DEF Quiet, InCall
    <2>5. QED
      BY <1>9, <2>2, <2>3, <2>4 DEF Launch
  <1>10. ASSUME NEW k \in Kids, Raise(k) \/ Finish(k)
        PROVE  Quiet
    <2>1. k \in Agents
      BY <1>1
    <2>2. QED
      BY <1>10, <2>1, OwnStep DEF Raise, Finish
  <1>11. ASSUME NEW k \in Kids, Tell(k)
         PROVE  Quiet
    <2>1. k \in Agents /\ at[k] = "telling" /\ UNCHANGED <<parent, mode>>
      BY <1>1, <1>11 DEF Tell
    <2>2. CASE at' = [at EXCEPT ![k] = "over"]
      BY <2>1, <2>2, OwnStep
    <2>3. CASE mode[k] = "fore" /\ (\/ CallReturns(parent[k], [at EXCEPT ![k] = "over"])
                                    \/ CallFails(parent[k], [at EXCEPT ![k] = "over"]))
      BY <2>1, <2>3, IsWaited, CallStep
    <2>4. QED
      BY <1>11, <2>2, <2>3 DEF Tell
  <1>12. ASSUME NEW r \in Runs, RunEnds(r)
         PROVE  Quiet
    <2>1. r \in Agents
      BY <1>1
    <2>2. QED
      BY <1>12, <2>1, OwnStep DEF RunEnds
  <1>13. QED
    BY <1>2, <1>3, <1>4, <1>5, <1>7, <1>8, <1>9, <1>10, <1>11, <1>12, <1>6
       DEF Next

(* A call begins to wait for the child it makes; it waited for none, and   *)
(* the child had none.                                                     *)
LEMMA StepFamily ==
    ASSUME IInv, TypeOK', [Next]_vars
    PROVE  FamilyInv' /\ HeldInv'
  <1>1. TypeOK /\ FamilyInv /\ HeldInv
    BY DEF IInv
  <1>2. CASE ~ \E a \in Agents : \E m \in {"fore", "back"} : Spawn(a, m)
    BY <1>1, <1>2, OthersQuiet, QuietHolds
  <1>3. ASSUME NEW a \in Agents, NEW m \in {"fore", "back"}, Spawn(a, m)
        PROVE  FamilyInv' /\ HeldInv'
    <2> DEFINE n == NextKid
    <2>1. n \in Kids /\ n \in Agents /\ at[n] = "unborn" /\ n \notin Runs
      BY <1>3, NextIsUnborn, Constants DEF Spawn, Unborn
    <2>2. /\ at' = [at EXCEPT ![a] = "calling", ![n] = "starting"]
          /\ parent' = [parent EXCEPT ![n] = a] /\ mode' = [mode EXCEPT ![n] = m]
          /\ at[a] = "trying"
      BY <1>3 DEF Spawn
    <2> HIDE DEF n
    <2>3. a # n
      BY <2>1, <2>2
    <2>4. /\ at'[a] = "calling" /\ at'[n] = "starting" /\ parent'[n] = a /\ mode'[n] = m
          /\ \A x \in Agents \ {a, n} : at'[x] = at[x]
          /\ \A x \in Agents \ {n} : parent'[x] = parent[x] /\ mode'[x] = mode[x]
      BY <1>1, <2>1, <2>2, <2>3 DEF TypeOK
    <2>5. FamilyInv'
      <3>1. \A r \in Runs : parent'[r] = r /\ at'[r] \notin {"unborn", "starting"}
        BY <1>1, <2>1, <2>4, Constants DEF FamilyInv
      <3>2. ASSUME NEW k \in Kids
            PROVE  /\ at'[k] = "unborn" => parent'[k] = k
                   /\ at'[k] # "unborn" => at'[parent'[k]] # "unborn" /\ parent'[k] # k
        <4>1. k \in Agents /\ parent[k] \in Agents
          BY <1>1, Constants DEF TypeOK
        <4>2. CASE k = n
          BY <2>3, <2>4, <4>2
        <4>3. CASE k # n
          <5>1. \A x \in Agents \ {n} : at'[x] = "unborn" <=> at[x] = "unborn"
            BY <2>2, <2>4
          <5>2. parent'[k] = parent[k] /\ (at'[k] = "unborn" <=> at[k] = "unborn")
            BY <2>4, <4>1, <4>3, <5>1
          <5>3. at[k] # "unborn" => at[parent[k]] # "unborn" /\ parent[k] # k
            BY <1>1 DEF FamilyInv
          <5>4. at[k] # "unborn" => parent[k] # n /\ at'[parent[k]] # "unborn"
            BY <2>1, <4>1, <5>1, <5>3
          <5>5. at[k] = "unborn" => parent[k] = k
            BY <1>1 DEF FamilyInv
          <5>6. QED
            BY <5>2, <5>3, <5>4, <5>5
        <4>4. QED
          BY <4>2, <4>3
      <3>3. ASSUME NEW x \in Agents, at'[x] \in {"asking", "trying", "calling"}
            PROVE  x \in Runs \/ parent'[x] \in Runs
        BY <1>1, <2>1, <2>2, <2>4, <3>3 DEF FamilyInv
      <3>4. QED
        BY <3>1, <3>2, <3>3 DEF FamilyInv
    <2>6. ASSUME NEW k \in Waited'
          PROVE  k = n \/ (k \in Waited /\ parent'[k] = parent[k] /\ parent[k] # a)
      <3>1. /\ k \in Kids /\ parent'[k] # k /\ at'[k] \notin {"unborn", "over"}
            /\ mode'[k] = "fore" \/ at'[k] = "starting"
        BY <2>6 DEF Waited, Held, Alive
      <3> SUFFICES ASSUME k # n PROVE k \in Waited /\ parent'[k] = parent[k] /\ parent[k] # a
        OBVIOUS
      <3>2. k \in Agents /\ parent'[k] = parent[k] /\ mode'[k] = mode[k]
        BY <2>4, <3>1, Constants
      <3>3. at'[k] = at[k] \/ k = a
        BY <2>4, <3>2
      <3>4. k \in Waited
        BY <2>2, <2>4, <3>1, <3>2, <3>3, WaitedIs DEF Alive
      <3>5. parent[k] # a
        BY <1>1, <2>2, <3>4 DEF HeldInv
      <3>6. QED
        BY <3>2, <3>4, <3>5
    <2>7. HeldInv'
      <3>1. ASSUME NEW k \in Waited'
            PROVE  at'[parent'[k]] = "calling"
        <4>1. CASE k = n
          BY <2>4, <4>1
        <4>2. CASE k \in Waited /\ parent'[k] = parent[k] /\ parent[k] # a
          <5>1. at[parent[k]] = "calling" /\ parent[k] \in Agents
            BY <1>1, <4>2, WaitedIs, Constants DEF HeldInv, TypeOK
          <5>2. QED
            BY <2>1, <2>4, <4>2, <5>1
        <4>3. QED
          BY <2>6, <4>1, <4>2
      <3>2. ASSUME NEW k \in Waited', NEW x \in Waited', parent'[x] = parent'[k]
            PROVE  x = k
        BY <1>1, <2>4, <2>6, <3>2 DEF HeldInv
      <3>3. QED
        BY <3>1, <3>2 DEF HeldInv
    <2>8. QED
      BY <2>5, <2>7
  <1>4. QED
    BY <1>2, <1>3

(* A turn within the limit is one step more; every return to the loop      *)
(* passes the check of the limit.                                          *)
LEMMA StepSteps ==
    ASSUME IInv, TypeOK', [Next]_vars
    PROVE  StepInv'
  <1>1. TypeOK /\ StepInv /\ HeldInv /\ Kids \subseteq Agents /\ Runs \subseteq Agents
    BY Constants DEF IInv
  <1>2. \A a \in Agents : step[a] \in 0 .. MaxSteps /\ step[a] \in Nat /\ MaxSteps \in Nat
    BY <1>1, Constants DEF TypeOK
  <1>3. ASSUME UNCHANGED step,
               \A x \in Agents :
                  /\ at'[x] \in {"unborn", "starting"} => step[x] = 0
                  /\ at'[x] = "looping" /\ status'[x] = "running" => step[x] < MaxSteps
        PROVE  StepInv'
    BY <1>3 DEF StepInv
  <1>4. ASSUME NEW a \in Agents
        PROVE  /\ Spent(a)[a] = "running" => step[a] < MaxSteps
               /\ \A x \in Agents \ {a} : Spent(a)[x] = status[x]
    BY <1>1, <1>2 DEF Spent, TypeOK
  <1>5. CASE UNCHANGED vars
    BY <1>1, <1>5 DEF StepInv, vars
  <1>6. ASSUME NEW a \in Agents, Think(a)
        PROVE  StepInv'
    <2>1. /\ at'[a] = "thinking" /\ \A x \in Agents \ {a} : at'[x] = at[x] /\ step'[x] = step[x]
          /\ status' = status
      BY <1>1, <1>6 DEF Think, TypeOK
    <2>2. QED
      BY <1>1, <2>1 DEF StepInv
  <1>7. ASSUME NEW a \in Agents, Answer(a) \/ \E k \in Kids : Ask(a, k)
        PROVE  StepInv'
    <2>1. /\ at'[a] = "looping" /\ \A x \in Agents \ {a} : at'[x] = at[x]
          /\ step' = step
      BY <1>1, <1>7 DEF Answer, Ask, TypeOK
    <2>2. /\ status' = Spent(a) \/ \E o \in {"success", "failed"} : status' = [status EXCEPT ![a] = o]
      BY <1>7 DEF Answer, Ask
    <2>3. /\ status'[a] = "running" => step[a] < MaxSteps
          /\ \A x \in Agents \ {a} : status'[x] = status[x]
      <3>1. CASE status' = Spent(a)
        BY <1>4, <3>1
      <3>2. ASSUME NEW o \in {"success", "failed"}, status' = [status EXCEPT ![a] = o]
            PROVE  status'[a] # "running" /\ \A x \in Agents \ {a} : status'[x] = status[x]
        BY <1>1, <3>2 DEF TypeOK
      <3>3. QED
        BY <2>2, <3>1, <3>2
    <2>4. QED
      BY <1>1, <1>3, <2>1, <2>3 DEF StepInv
  <1>8. ASSUME NEW a \in Agents, Call(a)
        PROVE  StepInv'
    BY <1>1, <1>8 DEF Call, StepInv, TypeOK
  <1>9. ASSUME NEW a \in Agents, Grant(a)
         PROVE  StepInv'
    BY <1>1, <1>9 DEF Grant, StepInv, TypeOK
  <1>10. ASSUME NEW a \in Agents, Deny(a)
         PROVE  StepInv'
    <2>1. /\ at' = [at EXCEPT ![a] = "looping"] /\ status' = Spent(a) /\ step' = step
      BY <1>10 DEF Deny
    <2>2. /\ status'[a] = "running" => step[a] < MaxSteps
          /\ \A x \in Agents \ {a} : status'[x] = status[x]
      BY <1>4, <2>1
    <2>3. QED
      BY <1>1, <1>3, <2>1, <2>2 DEF StepInv, TypeOK
  <1>11. ASSUME NEW a \in Agents, NEW m \in {"fore", "back"}, Spawn(a, m)
        PROVE  StepInv'
    <2> DEFINE n == NextKid
    <2>1. n \in Agents /\ at[n] = "unborn"
      BY <1>1, <1>11, NextIsUnborn DEF Spawn, Unborn
    <2>2. /\ at' = [at EXCEPT ![a] = "calling", ![n] = "starting"]
          /\ UNCHANGED <<status, step>>
      BY <1>11 DEF Spawn
    <2> HIDE DEF n
    <2>3. /\ \A x \in Agents \ {a, n} : at'[x] = at[x]
          /\ at'[n] = "starting" /\ (a # n => at'[a] = "calling")
      BY <1>1, <2>1, <2>2 DEF TypeOK
    <2>4. QED
      BY <1>1, <2>1, <2>2, <2>3 DEF StepInv
  <1>12. ASSUME NEW a \in Agents, NoTasks(a)
         PROVE  StepInv'
    <2>1. CallFails(a, at) /\ UNCHANGED step /\ at \in [Agents -> States]
      BY <1>1, <1>12 DEF NoTasks, TypeOK, States
    <2>2. /\ at'[a] \in {"looping", "trying"}
          /\ \A x \in Agents \ {a} : at'[x] = at[x] /\ status'[x] = status[x]
          /\ at'[a] = "looping" /\ status'[a] = "running" => ~ (step[a] >= MaxSteps)
      BY <1>1, <2>1, CallGoesOn
    <2>3. QED
      BY <1>1, <1>2, <2>1, <2>2 DEF StepInv
  <1>13. ASSUME NEW a \in Agents, TimeOut(a)
         PROVE  StepInv'
    <2>1. \A x \in Agents :
            /\ at'[x] = IF x = a THEN "looping" ELSE IF x \in Reached(a) THEN "over" ELSE at[x]
            /\ status'[x] = IF x = a THEN Spent(a)[a]
                            ELSE IF x \in Reached(a) /\ at[x] = "thinking" THEN "failed" ELSE status[x]
      BY <1>13 DEF TimeOut
    <2>2. step' = step
      BY <1>13 DEF TimeOut
    <2>3. QED
      BY <1>1, <1>4, <2>1, <2>2 DEF StepInv
  <1>14. ASSUME NEW k \in Kids, NEW F, NEW s \in {"over", "looping"},
                F = [at EXCEPT ![k] = s], s = "over" \/ at[k] = "starting",
                CallReturns(parent[k], F) \/ CallFails(parent[k], F), parent[k] # k,
                UNCHANGED step
         PROVE  StepInv'
    <2>1. /\ parent[k] \in Agents /\ F \in [Agents -> States] /\ F[k] = s
          /\ \A x \in Agents \ {k} : F[x] = at[x]
      BY <1>1, <1>14 DEF TypeOK, States
    <2>2. /\ at'[parent[k]] \in {"looping", "trying"}
          /\ \A x \in Agents \ {parent[k]} : at'[x] = F[x] /\ status'[x] = status[x]
          /\ at'[parent[k]] = "looping" /\ status'[parent[k]] = "running" => ~ (step[parent[k]] >= MaxSteps)
      <3> DEFINE p == parent[k]
      <3>1. p \in Agents /\ (CallReturns(p, F) \/ CallFails(p, F))
        BY <1>14, <2>1
      <3> HIDE DEF p
      <3>2. /\ at'[p] \in {"looping", "trying"}
            /\ \A x \in Agents \ {p} : at'[x] = F[x] /\ status'[x] = status[x]
            /\ at'[p] = "looping" /\ status'[p] = "running" => ~ (step[p] >= MaxSteps)
        BY <1>1, <2>1, <3>1, CallGoesOn
      <3>3. QED
        BY <3>2 DEF p
    <2>3. at'[k] = s /\ \A x \in Agents \ {k, parent[k]} : at'[x] = at[x]
      BY <1>1, <1>14, <2>1, <2>2
    <2>4. at'[k] = "looping" => step[k] < MaxSteps
      BY <1>1, <1>14, <2>3, Constants DEF StepInv
    <2>5. step[parent[k]] < MaxSteps \/ step[parent[k]] >= MaxSteps
      BY <1>2, <2>1
    <2>6. QED
      BY <1>1, <1>14, <2>2, <2>3, <2>4, <2>5 DEF StepInv
  <1>15. ASSUME NEW k \in Kids, Launch(k)
         PROVE  StepInv'
    <2>1. at[k] = "starting" /\ step' = step /\ parent[k] # k
      BY <1>15 DEF Launch, IInv, FamilyInv
    <2>2. CASE CallFails(parent[k], [at EXCEPT ![k] = "over"])
      BY <1>14, <2>1, <2>2
    <2>3. CASE CallReturns(parent[k], [at EXCEPT ![k] = "looping"])
      BY <1>14, <2>1, <2>3
    <2>4. CASE at' = [at EXCEPT ![k] = "looping"] /\ status' = status
      <3>1. at'[k] = "looping" /\ \A x \in Agents \ {k} : at'[x] = at[x]
        BY <1>1, <2>4 DEF TypeOK
      <3>2. step[k] < MaxSteps
        BY <1>1, <2>1, Constants DEF StepInv
      <3>3. QED
        BY <1>1, <2>1, <2>4, <3>1, <3>2 DEF StepInv
    <2>5. QED
      BY <1>15, <2>2, <2>3, <2>4 DEF Launch
  <1>16. ASSUME NEW a \in Agents, NEW s \in {"telling", "over"}, at' = [at EXCEPT ![a] = s],
                UNCHANGED <<status, step>>
         PROVE  StepInv'
    <2>1. at'[a] = s /\ \A x \in Agents \ {a} : at'[x] = at[x]
      BY <1>1, <1>16 DEF TypeOK
    <2>2. QED
      BY <1>1, <1>16, <2>1 DEF StepInv
  <1>17. ASSUME NEW k \in Kids, Tell(k)
         PROVE  StepInv'
    <2>1. at[k] = "telling" /\ step' = step /\ parent[k] # k
      BY <1>17 DEF Tell, IInv, FamilyInv
    <2>2. CASE CallReturns(parent[k], [at EXCEPT ![k] = "over"]) \/ CallFails(parent[k], [at EXCEPT ![k] = "over"])
      BY <1>14, <2>1, <2>2
    <2>3. QED
      BY <1>1, <1>16, <1>17, <2>1, <2>2 DEF Tell
  <1>18. ASSUME NEW k \in Kids, Raise(k) \/ Finish(k)
         PROVE  StepInv'
    BY <1>1, <1>16, <1>18 DEF Raise, Finish
  <1>19. ASSUME NEW r \in Runs, RunEnds(r)
         PROVE  StepInv'
    BY <1>1, <1>16, <1>19 DEF RunEnds
  <1>20. QED
    BY <1>5, <1>6, <1>7, <1>8, <1>11, <1>12, <1>13, <1>15, <1>17, <1>18, <1>19,
       <1>9, <1>10 DEF Next

(* The events of a child with one more.                                    *)
LEMMA OneMore ==
    ASSUME NEW events \in Seq(ChildEvents), NEW e \in ChildEvents
    PROVE  LET more == Append(events, e)
           IN  /\ more \in Seq(ChildEvents) /\ more # <<>> /\ Last(more) = e
               /\ Len(events) \in Nat /\ Len(more) = Len(events) + 1
               /\ DOMAIN events = 1 .. Len(events)
               /\ \A i \in DOMAIN more :
                     \/ i = Len(more) /\ more[i] = e
                     \/ i \in DOMAIN events /\ more[i] = events[i] /\ i # Len(more)
               /\ events # <<>> => Len(more) # 1 /\ 1 \in DOMAIN events
               /\ events = <<>> => Len(more) = 1
  <1> DEFINE more == Append(events, e)
             n == Len(events)
  <1>1. /\ more \in Seq(ChildEvents) /\ n \in Nat /\ Len(more) = n + 1
        /\ DOMAIN events = 1 .. n
        /\ more[n + 1] = e /\ \A i \in 1 .. n : more[i] = events[i]
    BY AppendProperties, LenProperties
  <1>2. DOMAIN more = 1 .. n + 1
    BY <1>1, LenProperties
  <1>3. /\ events # <<>> => n \in Nat \ {0}
        /\ events = <<>> => n = 0
    BY EmptySeq
  <1>4. more # <<>>
    BY <1>1, EmptySeq
  <1>5. Last(more) = e
    BY <1>1 DEF Last
  <1> HIDE DEF more, n
  <1>6. /\ \A i \in 1 .. n + 1 : i = n + 1 \/ (i \in 1 .. n /\ i # n + 1)
        /\ events # <<>> => n + 1 # 1 /\ 1 \in 1 .. n
        /\ events = <<>> => n + 1 = 1
    BY <1>1, <1>3
  <1>7. QED
    BY <1>1, <1>2, <1>4, <1>5, <1>6 DEF more, n

(* A child at work publishes a step or its end, one that is launched its   *)
(* start.                                                                  *)
LEMMA FitsOn ==
    ASSUME NEW events \in Seq(ChildEvents), NEW s, NEW e, NEW t, Fits(events, s, e, t),
           e \notin Final
    PROVE  /\ t \notin Final
           /\ events # <<>> =>
                /\ Last(events) # "finished"
                /\ \A u : u \notin Fresh => Fits(Append(events, "step"), u, e, t)
                /\ \A u : u \notin Fresh => Fits(Append(events, "finished"), u, "returned", t)
           /\ events = <<>> =>
                \A u, f : u \notin Fresh /\ f # "returned" => Fits(Append(events, "started"), u, f, t)
  <1>1. t \notin Final /\ e # "returned" /\ "returned" \in Final
    BY DEF Fits, Final
  <1>2. ASSUME events # <<>>
        PROVE  /\ Last(events) # "finished"
               /\ \A i \in DOMAIN events : (events[i] = "started" <=> i = 1) /\ events[i] # "finished"
    <2>1. \A i \in DOMAIN events : (events[i] = "started" <=> i = 1) /\ events[i] # "finished"
      BY <1>1 DEF Fits
    <2>2. Len(events) \in Nat \ {0} /\ DOMAIN events = 1 .. Len(events)
      BY <1>2, EmptySeq, LenProperties
    <2>3. Len(events) \in DOMAIN events
      BY <2>2
    <2>4. QED
      BY <2>1, <2>3 DEF Last
  <1>3. ASSUME events # <<>>, NEW u, u \notin Fresh
        PROVE  /\ Fits(Append(events, "step"), u, e, t)
               /\ Fits(Append(events, "finished"), u, "returned", t)
    <2>1. "step" \in ChildEvents /\ "finished" \in ChildEvents
      BY DEF ChildEvents
    <2>2. ASSUME NEW x \in {"step", "finished"}, NEW f, f = "returned" <=> x = "finished"
          PROVE  Fits(Append(events, x), u, f, t)
      <3> DEFINE more == Append(events, x)
      <3>1. /\ more # <<>> /\ Last(more) = x
            /\ \A i \in DOMAIN more :
                  \/ i = Len(more) /\ more[i] = x
                  \/ i \in DOMAIN events /\ more[i] = events[i] /\ i # Len(more)
            /\ Len(more) # 1
        BY <1>3, <2>1, OneMore
      <3> HIDE DEF more
      <3>2. ASSUME NEW i \in DOMAIN more
            PROVE  /\ more[i] = "started" <=> i = 1
                   /\ more[i] = "finished" => i = Len(more) /\ f = "returned"
        BY <1>2, <1>3, <2>2, <3>1
      <3>3. QED
        BY <1>1, <1>3, <2>2, <3>1, <3>2 DEF Fits, more
    <2>3. QED
      BY <1>1, <2>2
  <1>4. ASSUME events = <<>>, NEW u, NEW f, u \notin Fresh, f # "returned"
        PROVE  Fits(Append(events, "started"), u, f, t)
    <2> DEFINE more == Append(events, "started")
    <2>1. DOMAIN events = {}
      BY <1>4
    <2>2. /\ more # <<>> /\ Last(more) = "started" /\ Len(more) = 1
          /\ \A i \in DOMAIN more : i = Len(more) /\ more[i] = "started"
      BY <1>4, <2>1, OneMore DEF ChildEvents
    <2> HIDE DEF more
    <2>3. QED
      BY <1>1, <1>4, <2>2 DEF Fits, more
  <1>5. QED
    BY <1>1, <1>2, <1>3, <1>4

(* A child that publishes nothing and goes on, or ends untold.             *)
LEMMA FitsStill ==
    ASSUME NEW events, NEW s, NEW e, NEW t, Fits(events, s, e, t)
    PROVE  /\ \A u : (u \in Fresh <=> s \in Fresh) => Fits(events, u, e, t)
           /\ e \notin Final => \A u : u \notin Fresh => Fits(events, u, "cancelled", t)
           /\ e \notin Final /\ s \notin Fresh => \A u : u \notin Fresh => Fits(events, u, "raised", t)
  BY DEF Fits, Final

(* Nothing is published or ended.                                          *)
LEMMA LogStays ==
    ASSUME IInv, UNCHANGED <<log, end, told>>,
           \A a \in Agents : at'[a] = "over" <=> at[a] = "over",
           \A k \in Kids : at'[k] \in Fresh <=> at[k] \in Fresh
    PROVE  LogInv'
  <1>1. LogInv
    BY DEF IInv
  <1>2. \A k \in Kids : Fits(log[k], at'[k], end[k], told[k])
    BY <1>1, FitsStill DEF LogInv
  <1>3. QED
    BY <1>1, <1>2 DEF LogInv

(* A child is launched, publishes its steps and its end; nothing is        *)
(* published for a child that is over.                                     *)
LEMMA StepLog ==
    ASSUME IInv, TypeOK', [Next]_vars
    PROVE  LogInv'
  <1>1. /\ TypeOK /\ LogInv /\ HeldInv /\ Kids \subseteq Agents /\ Runs \subseteq Agents
        /\ at \in [Agents -> States] /\ log \in [Kids -> Seq(ChildEvents)]
    BY Constants DEF IInv, TypeOK, States, ChildEvents
  <1>2. ASSUME NEW a \in Agents
        PROVE  /\ end[a] \in Final <=> at[a] = "over"
               /\ a \in Kids => Fits(log[a], at[a], end[a], told[a])
    BY <1>1 DEF LogInv
  <1>3. ASSUME UNCHANGED <<log, end, told>>, NEW a \in Agents, NEW s \in States \ ({"over"} \cup Fresh),
               at' = [at EXCEPT ![a] = s], at[a] # "over", at[a] \notin Fresh
        PROVE  LogInv'
    <2>1. at'[a] = s /\ \A x \in Agents \ {a} : at'[x] = at[x]
      BY <1>1, <1>3
    <2>2. s # "over" /\ s \notin Fresh
      OBVIOUS
    <2>3. /\ \A x \in Agents : at'[x] = "over" <=> at[x] = "over"
          /\ \A x \in Agents : at'[x] \in Fresh <=> at[x] \in Fresh
      BY <1>3, <2>1, <2>2
    <2>4. QED
      BY <1>1, <1>3, <2>3, LogStays
  <1>4. ASSUME NEW k \in Agents, UNCHANGED told, at'[k] \notin Fresh,
               \A x \in Agents \ {k} :
                  /\ end'[x] = end[x]
                  /\ at'[x] = "over" <=> at[x] = "over"
                  /\ at'[x] \in Fresh <=> at[x] \in Fresh,
               \A x \in Kids \ {k} : log'[x] = log[x],
               end'[k] \in Final <=> at'[k] = "over",
               k \in Kids => Fits(log'[k], at'[k], end'[k], told[k])
        PROVE  LogInv'
    <2>1. \A x \in Kids \ {k} : Fits(log'[x], at'[x], end'[x], told'[x])
      BY <1>1, <1>2, <1>4, FitsStill
    <2>2. QED
      BY <1>1, <1>2, <1>4, <2>1 DEF LogInv
  <1>5. CASE UNCHANGED vars
    BY <1>1, <1>5 DEF LogInv, vars
  <1>6. ASSUME NEW a \in Agents, Think(a)
        PROVE  LogInv'
    <2>1. /\ at[a] = "looping" /\ at'[a] = "thinking" /\ \A x \in Agents \ {a} : at'[x] = at[x]
          /\ UNCHANGED <<end, told>> /\ log' = Says(a, "step")
      BY <1>1, <1>6 DEF Think
    <2>2. \A x \in Kids \ {a} : log'[x] = log[x]
      BY <1>1, <2>1 DEF Says
    <2>3. ASSUME a \in Kids
          PROVE  Fits(log'[a], at'[a], end'[a], told[a])
      <3>1. log[a] \in Seq(ChildEvents) /\ end[a] \notin Final /\ Fits(log[a], at[a], end[a], told[a])
        BY <1>1, <1>2, <2>1, <2>3
      <3>2. log[a] # <<>>
        BY <2>1, <3>1 DEF Fits, Fresh, Final
      <3>3. log'[a] = log[a] \/ log'[a] = Append(log[a], "step")
        BY <1>1, <2>1, <2>3 DEF Says
      <3>4. at'[a] \notin Fresh /\ at[a] \notin Fresh /\ end'[a] = end[a]
        BY <2>1 DEF Fresh
      <3>5. Fits(log[a], at'[a], end[a], told[a])
        BY <3>1, <3>4, FitsStill
      <3>6. Fits(Append(log[a], "step"), at'[a], end[a], told[a])
        BY <3>1, <3>2, <3>4, FitsOn
      <3>7. QED
        BY <3>3, <3>4, <3>5, <3>6
    <2>4. end'[a] \in Final <=> at'[a] = "over"
      BY <1>2, <2>1
    <2>5. at'[a] \notin Fresh
      BY <2>1 DEF Fresh
    <2>6. QED
      BY <1>4, <2>1, <2>2, <2>3, <2>4, <2>5
  <1>7. ASSUME NEW a \in Agents, Answer(a) \/ Call(a) \/ Grant(a) \/ Deny(a)
        PROVE  LogInv'
    BY <1>3, <1>7 DEF Answer, Call, Grant, Deny, States, Fresh
  <1>8. ASSUME NEW a \in Agents, NEW m \in {"fore", "back"}, Spawn(a, m)
        PROVE  LogInv'
    <2> DEFINE n == NextKid
    <2>1. n \in Kids /\ n \in Agents /\ at[n] = "unborn"
      BY <1>1, <1>8, NextIsUnborn DEF Spawn, Unborn
    <2>2. /\ at' = [at EXCEPT ![a] = "calling", ![n] = "starting"]
          /\ at[a] = "trying" /\ UNCHANGED <<log, end, told>>
      BY <1>8 DEF Spawn
    <2> HIDE DEF n
    <2>3. /\ \A x \in Agents \ {a, n} : at'[x] = at[x]
          /\ at'[n] = "starting" /\ at'[a] = "calling"
      BY <1>1, <2>1, <2>2
    <2>4. QED
      BY <1>1, <2>1, <2>2, <2>3, LogStays DEF Fresh
  <1>9. ASSUME NEW a \in Agents, NoTasks(a)
        PROVE  LogInv'
    <2>1. /\ \E s \in {"looping", "trying"} : at' = [at EXCEPT ![a] = s]
          /\ at[a] = "trying" /\ UNCHANGED <<log, end, told>>
      BY <1>9 DEF NoTasks, CallFails, CallReturns
    <2>2. QED
      BY <1>3, <2>1 DEF States, Fresh
  <1>10. ASSUME NEW a \in Agents, TimeOut(a)
         PROVE  LogInv'
    <2>1. /\ at[a] = "calling" /\ UNCHANGED <<log, told>>
          /\ \A x \in Agents :
                /\ at'[x] = IF x = a THEN "looping" ELSE IF x \in Reached(a) THEN "over" ELSE at[x]
                /\ end'[x] = IF x \in Reached(a) THEN "cancelled" ELSE end[x]
      BY <1>10 DEF TimeOut
    <2>2. a \notin Reached(a) /\ \A k \in Reached(a) : Alive(k)
      BY <2>1, ReachedIs
    <2>3. \A x \in Agents : end'[x] \in Final <=> at'[x] = "over"
      BY <1>2, <2>1, <2>2 DEF Final
    <2>4. ASSUME NEW k \in Kids
          PROVE  Fits(log[k], at'[k], end'[k], told[k])
      <3>1. k \in Agents /\ Fits(log[k], at[k], end[k], told[k])
        BY <1>1, <1>2
      <3>2. CASE k \in Reached(a)
        <4>1. at'[k] = "over" /\ end'[k] = "cancelled" /\ end[k] \notin Final /\ "over" \notin Fresh
          BY <1>2, <2>1, <2>2, <3>1, <3>2 DEF Alive, Fresh
        <4>2. QED
          BY <3>1, <4>1, FitsStill
      <3>3. CASE k \notin Reached(a)
        <4>1. end'[k] = end[k] /\ (at'[k] \in Fresh <=> at[k] \in Fresh)
          BY <2>1, <3>1, <3>3 DEF Fresh
        <4>2. QED
          BY <3>1, <4>1, FitsStill
      <3>4. QED
        BY <3>2, <3>3
    <2>5. QED
      BY <2>1, <2>3, <2>4 DEF LogInv
  <1>11. ASSUME NEW a \in Agents, NEW k \in Kids, Ask(a, k)
         PROVE  LogInv'
    <2>1. /\ at[a] = "thinking" /\ at'[a] = "looping" /\ \A x \in Agents \ {a} : at'[x] = at[x]
          /\ UNCHANGED <<log, end>> /\ log[k] # <<>>
          /\ \/ told' = told
             \/ end[k] \in Final /\ told' = [told EXCEPT ![k] = end[k]]
      BY <1>1, <1>11 DEF Ask, Reply, Final
    <2>2. \A x \in Agents : at'[x] = "over" <=> at[x] = "over"
      BY <2>1
    <2>3. ASSUME NEW x \in Kids
          PROVE  Fits(log[x], at'[x], end[x], told'[x])
      <3>1. Fits(log[x], at[x], end[x], told[x]) /\ (at'[x] \in Fresh <=> at[x] \in Fresh)
        BY <1>1, <1>2, <2>1 DEF Fresh
      <3>2. Fits(log[x], at'[x], end[x], told[x])
        BY <3>1, FitsStill
      <3>3. told'[x] = told[x] \/ (told'[x] = end[x] /\ log[x] # <<>>)
        BY <1>1, <2>1 DEF TypeOK
      <3>4. QED
        BY <3>2, <3>3 DEF Fits
    <2>4. QED
      BY <1>1, <2>1, <2>2, <2>3 DEF LogInv
  <1>12. ASSUME NEW k \in Kids, Launch(k)
         PROVE  LogInv'
    <2>1. /\ at[k] = "starting" /\ k \in Waited /\ k \in Agents /\ told' = told
          /\ log' = [log EXCEPT ![k] = Append(log[k], "started")]
      BY <1>1, <1>12, IsWaited DEF Launch
    <2>2. log[k] \in Seq(ChildEvents) /\ end[k] \notin Final /\ Fits(log[k], at[k], end[k], told[k])
      BY <1>1, <1>2, <2>1
    <2>3. /\ log'[k] = Append(log[k], "started") /\ \A x \in Kids \ {k} : log'[x] = log[x]
          /\ log[k] = <<>>
      BY <1>1, <2>1, <2>2 DEF Fits, Fresh
    <2>4. /\ \A x \in Agents \ {k} :
                /\ at'[x] = "over" <=> at[x] = "over"
                /\ at'[x] \in Fresh <=> at[x] \in Fresh
          /\ \/ at'[k] = "over" /\ end' = [end EXCEPT ![k] = "raised"]
             \/ at'[k] = "looping" /\ end' = end
      <3>1. CASE /\ CallFails(parent[k], [at EXCEPT ![k] = "over"])
                 /\ end' = [end EXCEPT ![k] = "raised"]
        <4>1. /\ at'[parent[k]] \in {"looping", "trying"} /\ at'[k] = "over"
              /\ at[parent[k]] = "calling"
              /\ \A x \in Agents \ {k, parent[k]} : at'[x] = at[x]
          BY <1>12, <2>1, <3>1, CallStep DEF Launch
        <4>2. QED
          BY <3>1, <4>1 DEF Fresh
      <3>2. CASE /\ mode[k] = "back" /\ end' = end
                 /\ CallReturns(parent[k], [at EXCEPT ![k] = "looping"])
        <4>1. /\ at'[parent[k]] \in {"looping", "trying"} /\ at'[k] = "looping"
              /\ at[parent[k]] = "calling"
              /\ \A x \in Agents \ {k, parent[k]} : at'[x] = at[x]
          BY <1>12, <2>1, <3>2, CallStep DEF Launch
        <4>2. QED
          BY <3>2, <4>1 DEF Fresh
      <3>3. CASE at' = [at EXCEPT ![k] = "looping"] /\ end' = end
        BY <1>1, <2>1, <3>3
      <3>4. QED
        BY <1>12, <3>1, <3>2, <3>3 DEF Launch
    <2>5. \A x \in Agents \ {k} : end'[x] = end[x]
      BY <1>1, <2>1, <2>4 DEF TypeOK
    <2>6. \/ end'[k] = "raised" /\ at'[k] = "over"
          \/ end'[k] = end[k] /\ at'[k] = "looping"
      <3>1. [end EXCEPT ![k] = "raised"][k] = "raised"
        BY <1>1, <2>1 DEF TypeOK
      <3>2. QED
        BY <2>4, <3>1
    <2>7. at'[k] \notin Fresh /\ end'[k] # "returned" /\ (end'[k] \in Final <=> at'[k] = "over")
      BY <2>2, <2>6 DEF Fresh, Final
    <2>8. Fits(log'[k], at'[k], end'[k], told[k])
      <3>1. \A u, f : u \notin Fresh /\ f # "returned"
                        => Fits(Append(log[k], "started"), u, f, told[k])
        BY <2>2, <2>3, FitsOn
      <3>2. Fits(Append(log[k], "started"), at'[k], end'[k], told[k])
        BY <2>7, <3>1
      <3>3. QED
        BY <2>3, <3>2
    <2>9. QED
      BY <1>4, <2>1, <2>3, <2>4, <2>5, <2>7, <2>8
  <1>13. ASSUME NEW k \in Kids, Raise(k)
         PROVE  LogInv'
    <2>1. /\ at[k] = "looping" /\ at'[k] = "over" /\ end'[k] = "raised"
          /\ \A x \in Agents \ {k} : at'[x] = at[x] /\ end'[x] = end[x]
          /\ UNCHANGED <<log, told>> /\ k \in Agents
      BY <1>1, <1>13 DEF Raise, TypeOK
    <2>2. Fits(log[k], at[k], end[k], told[k]) /\ end[k] \notin Final
      BY <1>2, <2>1
    <2>3. at'[k] \notin Fresh /\ at[k] \notin Fresh /\ end'[k] \in Final
      BY <2>1 DEF Fresh, Final
    <2>4. Fits(log'[k], at'[k], end'[k], told[k])
      BY <2>1, <2>2, <2>3, FitsStill
    <2>5. QED
      BY <1>4, <2>1, <2>3, <2>4
  <1>14. ASSUME NEW k \in Kids, Finish(k)
         PROVE  LogInv'
    BY <1>1, <1>3, <1>14 DEF Finish, States, Fresh
  <1>15. ASSUME NEW k \in Kids, Tell(k)
         PROVE  LogInv'
    <2>1. /\ at[k] = "telling" /\ k \in Agents /\ told' = told /\ log' = Says(k, "finished")
          /\ end' = [end EXCEPT ![k] = "returned"]
      BY <1>1, <1>15 DEF Tell
    <2>2. log[k] \in Seq(ChildEvents) /\ end[k] \notin Final /\ Fits(log[k], at[k], end[k], told[k])
      BY <1>1, <1>2, <2>1
    <2>3. log[k] # <<>>
      BY <2>1, <2>2 DEF Fits, Fresh, Final
    <2>4. log'[k] = Append(log[k], "finished") /\ \A x \in Kids \ {k} : log'[x] = log[x]
      BY <1>1, <2>1, <2>2, <2>3, FitsOn DEF Says
    <2>5. end'[k] = "returned" /\ \A x \in Agents \ {k} : end'[x] = end[x]
      BY <1>1, <2>1 DEF TypeOK
    <2>6. /\ at'[k] = "over"
          /\ \A x \in Agents \ {k} :
                /\ at'[x] = "over" <=> at[x] = "over"
                /\ at'[x] \in Fresh <=> at[x] \in Fresh
      <3>1. CASE at' = [at EXCEPT ![k] = "over"]
        BY <1>1, <2>1, <3>1
      <3>2. CASE mode[k] = "fore" /\ (\/ CallReturns(parent[k], [at EXCEPT ![k] = "over"])
                                      \/ CallFails(parent[k], [at EXCEPT ![k] = "over"]))
        <4>1. k \in Waited /\ UNCHANGED <<parent, mode>>
          BY <1>15, <2>1, <3>2, IsWaited DEF Tell
        <4>2. /\ at'[parent[k]] \in {"looping", "trying"} /\ at'[k] = "over"
              /\ at[parent[k]] = "calling"
              /\ \A x \in Agents \ {k, parent[k]} : at'[x] = at[x]
          BY <2>1, <3>2, <4>1, CallStep
        <4>3. QED
          BY <4>2 DEF Fresh
      <3>3. QED
        BY <1>15, <3>1, <3>2 DEF Tell
    <2>7. at'[k] \notin Fresh /\ end'[k] \in Final
      BY <2>5, <2>6 DEF Fresh, Final
    <2>8. Fits(log'[k], at'[k], end'[k], told[k])
      BY <2>2, <2>3, <2>4, <2>5, <2>7, FitsOn
    <2>9. QED
      BY <1>4, <2>1, <2>4, <2>5, <2>6, <2>7, <2>8
  <1>16. ASSUME NEW r \in Runs, RunEnds(r)
         PROVE  LogInv'
    <2>1. /\ at'[r] = "over" /\ end'[r] = "returned" /\ r \in Agents /\ r \notin Kids
          /\ \A x \in Agents \ {r} : at'[x] = at[x] /\ end'[x] = end[x]
          /\ UNCHANGED <<log, told>>
      BY <1>1, <1>16, Constants DEF RunEnds, TypeOK
    <2>2. at'[r] \notin Fresh /\ end'[r] \in Final
      BY <2>1 DEF Fresh, Final
    <2>3. QED
      BY <1>4, <2>1, <2>2
  <1>17. QED
    BY <1>5, <1>6, <1>7, <1>8, <1>9, <1>10, <1>11, <1>12, <1>13, <1>14, <1>15, <1>16 DEF Next
-----------------------------------------------------------------------------
(* Theorems.                                                               *)

(* The invariant holds.                                                    *)
THEOREM Invariant == Spec => []IInv
  <1>1. Init => IInv
    BY InitHolds
  <1>2. IInv /\ [Next]_vars => IInv'
    <2> SUFFICES ASSUME IInv, [Next]_vars PROVE IInv'
      OBVIOUS
    <2>1. TypeOK'
      BY StepTypes
    <2>2. QED
      BY <2>1, StepFamily, StepSteps, StepLog DEF IInv
  <1>3. QED
    BY <1>1, <1>2, PTL DEF Spec

(* Every variable keeps its type.                                          *)
THEOREM TypeCorrect == Spec => []TypeOK
  <1>1. IInv => TypeOK
    BY DEF IInv
  <1>2. QED
    BY <1>1, Invariant, PTL

(* A foreground child lives only while the call that made it waits for it, *)
(* and a call waits for one child at a time.                               *)
THEOREM NoneIsLeftBehind == Spec => []ForegroundIsHeld
  <1>1. ASSUME IInv PROVE ForegroundIsHeld
    <2>1. ASSUME NEW k \in Kids, Alive(k), mode[k] = "fore"
          PROVE  k \in Waited
      <3>1. parent[k] # k
        BY <1>1, <2>1 DEF IInv, FamilyInv, Alive
      <3>2. QED
        BY <2>1, <3>1, WaitedIs
    <2>2. QED
      BY <1>1, <2>1 DEF ForegroundIsHeld, IInv, HeldInv
  <1>2. QED
    BY <1>1, Invariant, PTL

(* The events of a child lie between its start and its end, and            *)
(* agent_result says how it ended only when it has.                        *)
THEOREM ChildrenAreTold == Spec => []EndsAreTold
  <1>1. ASSUME IInv PROVE EndsAreTold
    <2> SUFFICES ASSUME NEW k \in Kids
                 PROVE  /\ \A i \in DOMAIN log[k] :
                              /\ log[k][i] = "started" <=> i = 1
                              /\ log[k][i] = "finished" => i = Len(log[k]) /\ Held(k) = {}
                        /\ told[k] \in Final =>
                              /\ end[k] = told[k]
                              /\ ~Alive(k)
                              /\ told[k] = "returned" <=> Last(log[k]) = "finished"
      BY DEF EndsAreTold
    <2>1. /\ Fits(log[k], at[k], end[k], told[k])
          /\ end[k] \in Final <=> at[k] = "over"
          /\ log[k] \in Seq(ChildEvents)
      BY <1>1, Constants DEF IInv, LogInv, TypeOK, ChildEvents
    <2>2. ASSUME at[k] = "over"
          PROVE  Held(k) = {}
      <3>1. \A x : x \in Held(k) => x \in Waited /\ parent[x] = k
        BY DEF Held, Waited
      <3>2. QED
        BY <1>1, <2>2, <3>1 DEF IInv, HeldInv
    <2>3. ASSUME log[k] # <<>>, Last(log[k]) = "finished"
          PROVE  end[k] = "returned"
      <3>1. Len(log[k]) \in Nat \ {0} /\ DOMAIN log[k] = 1 .. Len(log[k])
        BY <2>1, <2>3, EmptySeq, LenProperties
      <3>2. Len(log[k]) \in DOMAIN log[k]
        BY <3>1
      <3>3. QED
        BY <2>1, <2>3, <3>2 DEF Fits, Last
    <2>4. QED
      BY <2>1, <2>2, <2>3 DEF Fits, Alive, Final
  <1>2. QED
    BY <1>1, Invariant, PTL
=============================================================================
