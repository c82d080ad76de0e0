-------------------------- MODULE PermissionProofs --------------------------
(***************************************************************************)
(* Proofs about PermissionManager for any calls, sessions, tools, clients  *)
(* and policy: type correctness, the safety invariants by one inductive    *)
(* invariant, and the refinement of PermissionGate.                        *)
(***************************************************************************)
EXTENDS PermissionManager, TLAPS

(* The states a call can be in.  Needed beside the properties: an answered *)
(* future is answered for good, a call that is done has left _pending, and *)
(* a call before its wait_for has no deadline.                             *)
CallInv ==
    \A c \in Calls :
        /\ pc[c] = "idle" => /\ req[c] = NoRequest
                             /\ future[c] = "none"
        /\ pc[c] # "idle" => req[c] \in Requests
        /\ pc[c] # "done" => result[c] = NoResult
        /\ pc[c] = "emitting" => future[c] \in {"open"} \cup Answers
        /\ pc[c] = "waiting" => c \in expired \/ future[c] \in {"open"} \cup Answers
        /\ pc[c] \in {"idle", "emitting"} => c \notin expired
        /\ c \in pending => pc[c] \in Waiting \cup {"aborted"}
        /\ pc[c] = "done" \/ c \in expired => future[c] # "open"

IInv ==
    /\ TypeOK
    /\ CallInv
    /\ PendingIsAnswerable
    /\ RulesWereGiven
    /\ AllowedByConsent
    /\ ForcedAsk
    /\ DecisionSource
    /\ DiskAgrees
-----------------------------------------------------------------------------
(* The two answers that make rules, and the rules they make.               *)
LEMMA AlwaysAnswers ==
    /\ Always = {"always_allow", "always_deny"}
    /\ \A d \in Always : RuleOf[d] \in {"allow", "deny"} /\ d \in Answers
    /\ RuleOf["always_allow"] = "allow"
    /\ RuleOf["always_deny"] = "deny"
  BY DEF Always, RuleOf, Answers

(* What a request names is a session and a tool.                           *)
LEMMA RequestType ==
    \A r \in Requests : r.session \in Sessions /\ r.tool \in Tools
  BY PermissionAssumption DEF Request

(* What applying an answer does to the rules, whatever happens to the file. *)
LEMMA RememberEffect ==
    ASSUME TypeOK, NEW r \in Requests, NEW v \in {"allow", "deny"}, Remember(r, v)
    PROVE  /\ sessionAlways' \in [Sessions -> [Tools -> Rule]]
           /\ persistentAlways' = [persistentAlways EXCEPT ![r.tool] = v]
           /\ persistentAlways' \in [Tools -> Rule]
           /\ policyFile' \in [Tools -> Rule]
           /\ diskFailed' \in BOOLEAN
           /\ consent' = consent \cup {<<r.tool, v>>}
           /\ consent' \subseteq Tools \X {"allow", "deny"}
           /\ \A s \in Sessions, t \in Tools : sessionAlways'[s][t] \in {v, sessionAlways[s][t]}
           /\ \A s \in Sessions, t \in Tools : 
                 sessionAlways'[s][t] # sessionAlways[s][t] => t = r.tool
           /\ \A t \in Tools : policyFile'[t] \in {"none", policyFile[t], persistentAlways'[t]}
           /\ ~diskFailed' => policyFile' = persistentAlways'
  <1>1. r.session \in Sessions /\ r.tool \in Tools
    BY RequestType
  <1>2. /\ persistentAlways' = [persistentAlways EXCEPT ![r.tool] = v]
        /\ persistentAlways' \in [Tools -> Rule]
    BY <1>1 DEF Remember, TypeOK, Rule
  <1>3. SavePolicyFile(persistentAlways')
    BY <1>2 DEF Remember
  <1>4. /\ policyFile' \in [Tools -> Rule]
        /\ diskFailed' \in BOOLEAN
        /\ \A t \in Tools : policyFile'[t] \in {"none", policyFile[t], persistentAlways'[t]}
        /\ ~diskFailed' => policyFile' = persistentAlways'
    BY <1>2, <1>3 DEF SavePolicyFile, TypeOK, Rule
  <1>5. /\ sessionAlways' \in [Sessions -> [Tools -> Rule]]
        /\ \A s \in Sessions, t \in Tools : sessionAlways'[s][t] \in {v, sessionAlways[s][t]}
        /\ \A s \in Sessions, t \in Tools :
              sessionAlways'[s][t] # sessionAlways[s][t] => t = r.tool
    BY <1>1 DEF Remember, TypeOK, Rule
  <1>6. /\ consent' = consent \cup {<<r.tool, v>>}
        /\ consent' \subseteq Tools \X {"allow", "deny"}
    BY <1>1 DEF Remember, TypeOK
  <1>7. QED
    BY <1>2, <1>4, <1>5, <1>6

(* A step that leaves the caches, the file and the call table of every     *)
(* other call alone.                                                       *)
LEMMA ReturnEffect ==
    ASSUME TypeOK, NEW c \in Calls, NEW a \in BOOLEAN,
           NEW d \in Answers \cup {"auto_allow", "auto_deny", "timeout"},
           Return(c, a, d)
    PROVE  /\ pc' \in [Calls -> {"idle", "emitting", "waiting", "done", "aborted"}]
           /\ result' \in [Calls -> Results]
           /\ pc'[c] = "done"
           /\ result'[c].allowed = a
           /\ result'[c].decision = d
           /\ \A x \in Calls \ {c} : pc'[x] = pc[x] /\ result'[x] = result[x]
  BY DEF Return, TypeOK, Results

(* The invariant holds when the daemon has loaded its policy file.         *)
LEMMA InitIInv == Init => IInv
  <1> SUFFICES ASSUME Init PROVE IInv
    OBVIOUS
  <1> USE PermissionAssumption
  <1>1. TypeOK
    BY DEF Init, TypeOK, Results, NoResult, Answers, Rule
  <1>2. CallInv /\ PendingIsAnswerable /\ AllowedByConsent /\ ForcedAsk /\ DecisionSource
    BY DEF Init, CallInv, PendingIsAnswerable, AllowedByConsent, ForcedAsk, DecisionSource,
           NoResult, Waiting
  <1>3. RulesWereGiven /\ DiskAgrees
    BY DEF Init, RulesWereGiven, DiskAgrees
  <1>4. QED
    BY <1>1, <1>2, <1>3 DEF IInv

(* Applying an answer that the future of a waiting call holds.             *)
LEMMA ApplyInv ==
    ASSUME IInv, NEW c \in Calls, pc[c] \in Waiting, c \notin expired,
           future[c] \in Answers, ApplyResponse(c, future[c]),
           UNCHANGED <<req, future, pending, expired, clients>>
    PROVE  IInv'
  <1> USE DEF IInv
  <1>0. PICK a \in BOOLEAN : Return(c, a, future[c]) /\ (a => future[c] \in Allowing)
    <2>1. CASE future[c] \in Allowing
      <3>1. (future[c] \in Allowing) = TRUE
        BY <2>1
      <3>2. Return(c, TRUE, future[c])
        BY <3>1, Zenon DEF ApplyResponse
      <3>3. QED
        BY <2>1, <3>2
    <2>2. CASE future[c] \notin Allowing
      <3>1. (future[c] \in Allowing) = FALSE
        BY <2>2
      <3>2. Return(c, FALSE, future[c])
        BY <3>1, Zenon DEF ApplyResponse
      <3>3. QED
        BY <3>2
    <2>3. QED
      BY <2>1, <2>2
  <1>1. /\ pc' \in [Calls -> {"idle", "emitting", "waiting", "done", "aborted"}]
        /\ result' \in [Calls -> Results]
        /\ pc'[c] = "done"
        /\ result'[c].allowed => future[c] \in Allowing
        /\ result'[c].decision = future[c]
        /\ \A x \in Calls \ {c} : pc'[x] = pc[x] /\ result'[x] = result[x]
    BY <1>0, ReturnEffect
  <1>2. req[c] \in Requests
    BY DEF CallInv, Waiting
  <1>3. CASE future[c] \in Always /\ Remember(req[c], RuleOf[future[c]])
    <2> DEFINE v == RuleOf[future[c]]
               r == req[c]
    <2> v \in {"allow", "deny"}
      BY <1>3, AlwaysAnswers
    <2> HIDE DEF v, r
    <2>1. r \in Requests /\ r.tool \in Tools /\ Remember(r, v)
      BY <1>2, <1>3, RequestType DEF r, v
    <2>2. TypeOK'
      BY <1>1, <2>1, RememberEffect DEF TypeOK
    <2>3. RulesWereGiven'
      <3>1. SUFFICES ASSUME NEW t \in Tools, NEW w \in {"allow", "deny"},
                            w \in {policyFile'[t], persistentAlways'[t]}
                                    \cup {sessionAlways'[s][t] : s \in Sessions}
                     PROVE  <<t, w>> \in consent'
        BY DEF RulesWereGiven
      <3>2. /\ consent' = consent \cup {<<r.tool, v>>}
            /\ \A s \in Sessions : \/ sessionAlways'[s][t] = sessionAlways[s][t]
                                   \/ sessionAlways'[s][t] = v /\ t = r.tool
            /\ \/ persistentAlways'[t] = persistentAlways[t]
               \/ persistentAlways'[t] = v /\ t = r.tool
            /\ policyFile'[t] \in {"none", policyFile[t], persistentAlways'[t]}
        BY <2>1, RememberEffect DEF TypeOK
      <3>3. \/ w \in {policyFile[t], persistentAlways[t]}
                      \cup {sessionAlways[s][t] : s \in Sessions}
            \/ w = v /\ t = r.tool
        BY <3>1, <3>2
      <3>4. QED
        BY <3>2, <3>3 DEF RulesWereGiven
    <2>4. DiskAgrees'
      BY <2>1, RememberEffect DEF DiskAgrees
    <2>5. consent \subseteq consent'
      BY <2>1, RememberEffect
    <2>6. AllowedByConsent'
      BY <1>1, <2>5 DEF AllowedByConsent, StaticAllow, RuleMayDecide, DenyPatternHit,
                        AllowPatternHit, OutsideCwd, StaticRule
    <2>7. CallInv' /\ PendingIsAnswerable' /\ ForcedAsk' /\ DecisionSource'
      BY <1>1 DEF CallInv, PendingIsAnswerable, ForcedAsk, DecisionSource, Waiting, Answers,
                  Allowing, OutsideCwd, DenyPatternHit
    <2>8. QED
      BY <2>2, <2>3, <2>4, <2>6, <2>7
  <1>4. CASE future[c] \notin Always /\ UNCHANGED ruleVars
    <2>1. TypeOK'
      BY <1>1, <1>4 DEF TypeOK, ruleVars
    <2>2. RulesWereGiven' /\ DiskAgrees'
      BY <1>4 DEF RulesWereGiven, DiskAgrees, ruleVars
    <2>3. AllowedByConsent'
      BY <1>1, <1>4 DEF AllowedByConsent, StaticAllow, RuleMayDecide, DenyPatternHit,
                        AllowPatternHit, OutsideCwd, StaticRule, ruleVars
    <2>4. CallInv' /\ PendingIsAnswerable' /\ ForcedAsk' /\ DecisionSource'
      BY <1>1 DEF CallInv, PendingIsAnswerable, ForcedAsk, DecisionSource, Waiting, Answers,
                  Allowing, OutsideCwd, DenyPatternHit
    <2>5. QED
      BY <2>1, <2>2, <2>3, <2>4
  <1>5. QED
    BY <1>3, <1>4 DEF ApplyResponse

(* A step that leaves results and rules alone keeps what they satisfy.     *)
LEMMA SameDecisions ==
    ASSUME IInv, UNCHANGED <<result, ruleVars>>,
           \A c \in Calls : req'[c] = req[c] \/ (pc'[c] # "done" /\ result[c] = NoResult),
           \A c \in Calls : pc'[c] = "done" <=> pc[c] = "done",
           \A c \in Calls : future[c] \in Answers => future'[c] = future[c],
           \A c \in Calls : pc[c] = "done" => (c \in expired <=> c \in expired')
    PROVE  /\ RulesWereGiven' /\ DiskAgrees'
           /\ AllowedByConsent' /\ ForcedAsk' /\ DecisionSource'
  <1> USE DEF IInv
  <1>1. RulesWereGiven' /\ DiskAgrees'
    BY DEF RulesWereGiven, DiskAgrees, ruleVars
  <1>2. AllowedByConsent'
    BY DEF AllowedByConsent, StaticAllow, RuleMayDecide, DenyPatternHit, AllowPatternHit,
           OutsideCwd, StaticRule, ruleVars, NoResult, Allowing, Answers
  <1>3. ForcedAsk' /\ DecisionSource'
    BY DEF ForcedAsk, DecisionSource, OutsideCwd, DenyPatternHit, CallInv, NoResult, Answers
  <1>4. QED
    BY <1>1, <1>2, <1>3

(* A request the tiers decide is decided by the table or by a given rule,  *)
(* and not at all when it leaves the working directory.                    *)
LEMMA TierSound ==
    ASSUME TypeOK, RulesWereGiven, NEW r \in Requests
    PROVE  /\ Evaluate(r) = "allow" => \/ StaticAllow(r)
                                       \/ RuleMayDecide(r) /\ <<r.tool, "allow">> \in consent
           /\ OutsideCwd(r) /\ ~DenyPatternHit(r) => Evaluate(r) = "ask"
  <1>1. r.session \in Sessions /\ r.tool \in Tools
    BY RequestType
  <1>2. CachedRule(r) = "allow" => <<r.tool, "allow">> \in consent
    BY <1>1 DEF CachedRule, RulesWereGiven
  <1>3. QED
    BY <1>2 DEF Evaluate, StaticAllow, RuleMayDecide

(* The gates decide at once, or the question is registered first.          *)
LEMMA CheckInv ==
    ASSUME IInv, NEW c \in Calls, NEW r \in Requests, Check(c, r)
    PROVE  IInv'
  <1> USE DEF IInv
  <1>1. /\ pc[c] = "idle" /\ req' = [req EXCEPT ![c] = r]
        /\ UNCHANGED <<expired, ruleVars, clients>>
        /\ future[c] = "none" /\ c \notin expired /\ c \notin pending
        /\ result[c] = NoResult
    BY DEF Check, CallInv, Waiting
  <1>2. CASE /\ Evaluate(r) # "ask"
             /\ Return(c, Evaluate(r) = "allow",
                       IF Evaluate(r) = "allow" THEN "auto_allow" ELSE "auto_deny")
             /\ UNCHANGED <<future, pending>>
    <2>1. PICK a \in BOOLEAN, d \in {"auto_allow", "auto_deny"} :
             Return(c, a, d) /\ (a => Evaluate(r) = "allow")
      <3>1. CASE Evaluate(r) = "allow"
        <4>1. (Evaluate(r) = "allow") = TRUE
          BY <3>1
        <4>2. Return(c, TRUE, "auto_allow")
          BY <1>2, <3>1, <4>1, Zenon
        <4>3. QED
          BY <3>1, <4>2
      <3>2. CASE Evaluate(r) # "allow"
        <4>1. (Evaluate(r) = "allow") = FALSE
          BY <3>2
        <4>2. Return(c, FALSE, "auto_deny")
          BY <1>2, <3>2, <4>1, Zenon
        <4>3. QED
          BY <4>2
      <3>3. QED
        BY <3>1, <3>2
    <2>2. /\ pc' \in [Calls -> {"idle", "emitting", "waiting", "done", "aborted"}]
          /\ result' \in [Calls -> Results]
          /\ pc'[c] = "done"
          /\ result'[c].allowed => Evaluate(r) = "allow"
          /\ result'[c].decision \in {"auto_allow", "auto_deny"}
          /\ \A x \in Calls \ {c} : pc'[x] = pc[x] /\ result'[x] = result[x]
      BY <2>1, ReturnEffect
    <2>3. /\ req'[c] = r
          /\ \A x \in Calls \ {c} : req'[x] = req[x]
      BY <1>1 DEF TypeOK
    <2>4. TypeOK'
      BY <1>1, <1>2, <2>2 DEF TypeOK, ruleVars
    <2>5. RulesWereGiven' /\ DiskAgrees'
      BY <1>1 DEF RulesWereGiven, DiskAgrees, ruleVars
    <2>6. CallInv' /\ PendingIsAnswerable'
      BY <1>1, <1>2, <2>2, <2>3 DEF CallInv, PendingIsAnswerable, Waiting
    <2>7. AllowedByConsent'
      <3>1. ASSUME NEW x \in Calls, result'[x].allowed
            PROVE  \/ StaticAllow(req'[x])
                   \/ future'[x] \in Allowing /\ result'[x].decision = future'[x]
                   \/ RuleMayDecide(req'[x]) /\ <<req'[x].tool, "allow">> \in consent'
        <4>1. CASE x = c
          BY <1>1, <2>2, <2>3, <3>1, <4>1, TierSound DEF ruleVars
        <4>2. CASE x # c
          BY <1>1, <1>2, <2>2, <2>3, <3>1, <4>2 DEF AllowedByConsent, ruleVars
        <4>3. QED
          BY <4>1, <4>2
      <3>2. QED
        BY <3>1 DEF AllowedByConsent, StaticAllow, RuleMayDecide, DenyPatternHit,
                    AllowPatternHit, OutsideCwd, StaticRule
    <2>8. ForcedAsk'
      <3>1. Evaluate(r) # "ask" => ~ (OutsideCwd(r) /\ ~DenyPatternHit(r))
        BY TierSound
      <3>2. QED
        BY <1>2, <2>2, <2>3, <3>1 DEF ForcedAsk, OutsideCwd, DenyPatternHit
    <2>9. DecisionSource'
      BY <1>1, <1>2, <2>2 DEF DecisionSource, Answers
    <2>10. QED
      BY <2>4, <2>5, <2>6, <2>7, <2>8, <2>9
  <1>3. CASE /\ Evaluate(r) = "ask"
             /\ future' = [future EXCEPT ![c] = "open"]
             /\ pending' = pending \cup {c}
             /\ pc' = [pc EXCEPT ![c] = "emitting"]
             /\ UNCHANGED result
    <2>1. TypeOK'
      BY <1>1, <1>3 DEF TypeOK, ruleVars
    <2>2. CallInv' /\ PendingIsAnswerable'
      BY <1>1, <1>3 DEF CallInv, PendingIsAnswerable, Waiting, TypeOK
    <2>3. /\ UNCHANGED <<result, ruleVars>>
          /\ \A x \in Calls : req'[x] = req[x] \/ (pc'[x] # "done" /\ result[x] = NoResult)
          /\ \A x \in Calls : pc'[x] = "done" <=> pc[x] = "done"
          /\ \A x \in Calls : future[x] \in Answers => future'[x] = future[x]
          /\ \A x \in Calls : pc[x] = "done" => (x \in expired <=> x \in expired')
      BY <1>1, <1>3 DEF TypeOK, Answers
    <2>4. /\ RulesWereGiven' /\ DiskAgrees'
          /\ AllowedByConsent' /\ ForcedAsk' /\ DecisionSource'
      BY <2>3, SameDecisions
    <2>5. QED
      BY <2>1, <2>2, <2>4
  <1>4. QED
    BY <1>2, <1>3 DEF Check

(* The question is published: the call waits or has its answer.            *)
LEMMA EmitDoneInv ==
    ASSUME IInv, NEW c \in Calls, EmitDone(c)
    PROVE  IInv'
  <1> USE DEF IInv
  <1>1. CASE /\ future[c] = "open"
             /\ pc' = [pc EXCEPT ![c] = "waiting"]
             /\ UNCHANGED <<result, ruleVars>>
    <2>1. pc[c] = "emitting" /\ UNCHANGED <<req, future, pending, expired, clients>>
      BY DEF EmitDone
    <2>2. TypeOK'
      BY <1>1, <2>1 DEF TypeOK, ruleVars
    <2>3. CallInv' /\ PendingIsAnswerable'
      BY <1>1, <2>1 DEF CallInv, PendingIsAnswerable, Waiting, TypeOK
    <2>4. /\ UNCHANGED <<result, ruleVars>>
          /\ \A x \in Calls : req'[x] = req[x] \/ (pc'[x] # "done" /\ result[x] = NoResult)
          /\ \A x \in Calls : pc'[x] = "done" <=> pc[x] = "done"
          /\ \A x \in Calls : future[x] \in Answers => future'[x] = future[x]
          /\ \A x \in Calls : pc[x] = "done" => (x \in expired <=> x \in expired')
      BY <1>1, <2>1 DEF TypeOK, Answers
    <2>5. /\ RulesWereGiven' /\ DiskAgrees'
          /\ AllowedByConsent' /\ ForcedAsk' /\ DecisionSource'
      BY <2>4, SameDecisions
    <2>6. QED
      BY <2>2, <2>3, <2>5
  <1>2. CASE future[c] \in Answers /\ ApplyResponse(c, future[c])
    <2>1. /\ pc[c] \in Waiting /\ c \notin expired
          /\ UNCHANGED <<req, future, pending, expired, clients>>
      BY DEF EmitDone, CallInv, Waiting
    <2>2. QED
      BY <1>2, <2>1, ApplyInv
  <1>3. QED
    BY <1>1, <1>2 DEF EmitDone

(* A woken call takes the answer, or the timeout, and applies it.          *)
LEMMA WakeInv ==
    ASSUME IInv, NEW c \in Calls, Wake(c)
    PROVE  IInv'
  <1> USE DEF IInv
  <1>1. CASE /\ c \in expired
             /\ pending' = pending \ {c}
             /\ Return(c, FALSE, "timeout")
             /\ UNCHANGED ruleVars
    <2>1. pc[c] = "waiting" /\ UNCHANGED <<req, future, expired, clients>>
      BY DEF Wake
    <2>2. /\ pc' \in [Calls -> {"idle", "emitting", "waiting", "done", "aborted"}]
          /\ result' \in [Calls -> Results]
          /\ pc'[c] = "done"
          /\ result'[c] = [allowed |-> FALSE, decision |-> "timeout"]
          /\ \A x \in Calls \ {c} : pc'[x] = pc[x] /\ result'[x] = result[x]
      BY <1>1 DEF Return, TypeOK, Results
    <2>3. TypeOK'
      BY <1>1, <2>1, <2>2 DEF TypeOK, ruleVars
    <2>4. RulesWereGiven' /\ DiskAgrees'
      BY <1>1 DEF RulesWereGiven, DiskAgrees, ruleVars
    <2>5. CallInv' /\ PendingIsAnswerable'
      <3>1. future[c] # "open"
        BY <1>1, <2>1 DEF CallInv
      <3>2. QED
        BY <1>1, <2>1, <2>2, <3>1 DEF CallInv, PendingIsAnswerable, Waiting
    <2>6. AllowedByConsent'
      BY <1>1, <2>1, <2>2 DEF AllowedByConsent, StaticAllow, RuleMayDecide, DenyPatternHit,
                              AllowPatternHit, OutsideCwd, StaticRule, ruleVars
    <2>7. ForcedAsk' /\ DecisionSource'
      BY <1>1, <2>1, <2>2 DEF ForcedAsk, DecisionSource, OutsideCwd, DenyPatternHit, Answers
    <2>8. QED
      BY <2>3, <2>4, <2>5, <2>6, <2>7
  <1>2. CASE /\ c \notin expired
             /\ future[c] \in Answers
             /\ ApplyResponse(c, future[c])
             /\ UNCHANGED pending
    <2>1. pc[c] \in Waiting /\ UNCHANGED <<req, future, pending, expired, clients>>
      BY <1>2 DEF Wake, Waiting
    <2>2. QED
      BY <1>2, <2>1, ApplyInv
  <1>3. QED
    BY <1>1, <1>2 DEF Wake

(* The steps that decide nothing: deadline, cancellation, answer and the   *)
(* clients' coming and going.                                              *)
LEMMA UndecidingInv ==
    ASSUME IInv, NEW c \in Calls,
           \/ TimerFires(c)
           \/ Abort(c)
           \/ \E k \in Clients, d \in Answers : Respond(k, c, d)
    PROVE  IInv'
  <1> USE DEF IInv
  <1>1. TypeOK'
    <2>1. CASE TimerFires(c)
      BY <2>1 DEF TimerFires, TypeOK, ruleVars
    <2>2. CASE Abort(c)
      BY <2>2 DEF Abort, TypeOK, ruleVars
    <2>3. CASE \E k \in Clients, d \in Answers : Respond(k, c, d)
      BY <2>3 DEF Respond, TypeOK, ruleVars
    <2>4. QED
      BY <2>1, <2>2, <2>3
  <1>2. CallInv' /\ PendingIsAnswerable'
    <2>1. CASE TimerFires(c)
      BY <2>1 DEF TimerFires, TypeOK, CallInv, PendingIsAnswerable, Waiting, Answers
    <2>2. CASE Abort(c)
      BY <2>2 DEF Abort, TypeOK, CallInv, PendingIsAnswerable, Waiting, Answers
    <2>3. CASE \E k \in Clients, d \in Answers : Respond(k, c, d)
      BY <2>3 DEF Respond, TypeOK, CallInv, PendingIsAnswerable, Waiting, Answers
    <2>4. QED
      BY <2>1, <2>2, <2>3
  <1>3. /\ UNCHANGED <<result, ruleVars>>
        /\ \A x \in Calls : req'[x] = req[x] \/ (pc'[x] # "done" /\ result[x] = NoResult)
        /\ \A x \in Calls : pc'[x] = "done" <=> pc[x] = "done"
        /\ \A x \in Calls : future[x] \in Answers => future'[x] = future[x]
        /\ \A x \in Calls : pc[x] = "done" => (x \in expired <=> x \in expired')
    <2>1. CASE TimerFires(c)
      BY <2>1 DEF TimerFires, TypeOK, Answers
    <2>2. CASE Abort(c)
      BY <2>2 DEF Abort, TypeOK, Answers, Waiting
    <2>3. CASE \E k \in Clients, d \in Answers : Respond(k, c, d)
      BY <2>3 DEF Respond, TypeOK, Answers
    <2>4. QED
      BY <2>1, <2>2, <2>3
  <1>4. QED
    BY <1>1, <1>2, <1>3, SameDecisions

(* Clients come and go without a trace.                                    *)
LEMMA ClientsInv ==
    ASSUME IInv, UNCHANGED <<callVars, ruleVars>>, clients' \subseteq Clients
    PROVE  IInv'
  BY DEF IInv, callVars, ruleVars, TypeOK, CallInv, PendingIsAnswerable, RulesWereGiven,
         AllowedByConsent, ForcedAsk, DecisionSource, DiskAgrees, StaticAllow, RuleMayDecide,
         DenyPatternHit, AllowPatternHit, OutsideCwd, StaticRule

(* A killed daemon comes back with rules that were given: the file's.      *)
LEMMA RestartInv ==
    ASSUME IInv, Restart
    PROVE  IInv'
  <1> USE DEF IInv, Restart
  <1>1. TypeOK'
    BY DEF TypeOK, Rule
  <1>2. CallInv' /\ PendingIsAnswerable'
    BY DEF TypeOK, CallInv, PendingIsAnswerable, Waiting, Answers
  <1>3. RulesWereGiven' /\ DiskAgrees'
    BY DEF RulesWereGiven, DiskAgrees
  <1>4. AllowedByConsent'
    BY DEF TypeOK, AllowedByConsent, StaticAllow, RuleMayDecide, DenyPatternHit,
           AllowPatternHit, OutsideCwd, StaticRule, Allowing
  <1>5. ForcedAsk' /\ DecisionSource'
    BY DEF TypeOK, ForcedAsk, DecisionSource, OutsideCwd, DenyPatternHit, Waiting, Answers
  <1>6. QED
    BY <1>1, <1>2, <1>3, <1>4, <1>5

(* Every step keeps the invariant.                                         *)
LEMMA StepIInv == IInv /\ [Next]_vars => IInv'
  <1> SUFFICES ASSUME IInv, [Next]_vars PROVE IInv'
    OBVIOUS
  <1>1. ASSUME NEW c \in Calls, NEW r \in Requests, Check(c, r) PROVE IInv'
    BY <1>1, CheckInv
  <1>2. ASSUME NEW c \in Calls, EmitDone(c) PROVE IInv'
    BY <1>2, EmitDoneInv
  <1>3. ASSUME NEW c \in Calls, Wake(c) PROVE IInv'
    BY <1>3, WakeInv
  <1>4. ASSUME NEW c \in Calls,
               \/ TimerFires(c)
               \/ Abort(c)
               \/ \E k \in Clients, d \in Answers : Respond(k, c, d)
        PROVE IInv'
    BY <1>4, UndecidingInv
  <1>5. ASSUME NEW k \in Clients, Disconnect(k) \/ Connect(k) PROVE IInv'
    <2>1. UNCHANGED <<callVars, ruleVars>> /\ clients' \subseteq Clients
      BY <1>5 DEF Disconnect, Connect, IInv, TypeOK
    <2>2. QED
      BY <2>1, ClientsInv
  <1>6. CASE Restart
    BY <1>6, RestartInv
  <1>7. CASE UNCHANGED vars
    BY <1>7, ClientsInv DEF vars, IInv, TypeOK
  <1>8. QED
    BY <1>1, <1>2, <1>3, <1>4, <1>5, <1>6, <1>7 DEF Next
-----------------------------------------------------------------------------
(* Hence the invariant holds in every reachable state.                     *)
LEMMA InductiveInvariant == Spec => []IInv
  BY InitIInv, StepIInv, PTL DEF Spec

(* Every variable keeps its type.                                          *)
THEOREM PermissionTypeCorrect == Spec => []TypeOK
  BY InductiveInvariant, PTL DEF IInv

(* No tool runs without consent, for any number of calls, sessions and     *)
(* clients, any policy table, lost saves and restarts; and no cached rule  *)
(* decides a command that leaves the working directory.                    *)
THEOREM ConsentHolds == Spec => []NothingBeyondConsent
  BY InductiveInvariant, PTL DEF IInv, NothingBeyondConsent

(* An answer decides the call it was given to, and only in time.           *)
THEOREM DecisionSourceHolds == Spec => []DecisionSource
  BY InductiveInvariant, PTL DEF IInv

(* An open request can be answered, an answered one is out of the table.   *)
THEOREM AnswerableHolds == Spec => []PendingIsAnswerable
  BY InductiveInvariant, PTL DEF IInv

(* Caches and file hold only rules somebody gave; the file is up to date   *)
(* unless the last save failed.                                            *)
THEOREM RulesHold == Spec => []RulesAreSound
  BY InductiveInvariant, PTL DEF IInv, RulesAreSound
-----------------------------------------------------------------------------
(* The refinement of PermissionGate.                                       *)

(* The initial states are initial states of PermissionGate.                *)
LEMMA InitRefines == Init => Gate!GateInit
  <1> SUFFICES ASSUME Init PROVE Gate!GateInit
    OBVIOUS
  <1>1. consent \in SUBSET (Tools \X {"allow", "deny"})
    BY InitIInv DEF IInv, TypeOK
  <1>2. Said = [c \in Calls |-> "none"] /\ Verdict = [c \in Calls |-> "none"]
    BY DEF Init, Said, Verdict, Answers
  <1>3. req = [c \in Calls |-> NoRequest]
    BY DEF Init
  <1>4. QED
    BY <1>1, <1>2, <1>3 DEF Gate!GateInit

(* A call returns what its answer says, and an answer that is a rule joins *)
(* the rules.                                                              *)
LEMMA ApplyEffect ==
    ASSUME IInv, NEW c \in Calls, future[c] \in Answers, pc[c] \in Waiting,
           ApplyResponse(c, future[c])
    PROVE  /\ pc' = [pc EXCEPT ![c] = "done"]
           /\ \E a \in BOOLEAN :
                 /\ a <=> future[c] \in Allowing
                 /\ result' = [result EXCEPT ![c] = [allowed |-> a, decision |-> future[c]]]
           /\ future[c] \in Always => consent' = consent \cup {<<req[c].tool, RuleOf[future[c]]>>}
           /\ future[c] \notin Always => UNCHANGED ruleVars
  <1>1. \E a \in BOOLEAN : (a <=> future[c] \in Allowing) /\ Return(c, a, future[c])
    <2>1. CASE future[c] \in Allowing
      <3>1. (future[c] \in Allowing) = TRUE
        BY <2>1
      <3>2. Return(c, TRUE, future[c])
        BY <3>1, Zenon DEF ApplyResponse
      <3>3. QED
        BY <2>1, <3>2
    <2>2. CASE future[c] \notin Allowing
      <3>1. (future[c] \in Allowing) = FALSE
        BY <2>2
      <3>2. Return(c, FALSE, future[c])
        BY <3>1, Zenon DEF ApplyResponse
      <3>3. QED
        BY <2>2, <3>2
    <2>3. QED
      BY <2>1, <2>2
  <1>2. /\ future[c] \in Always => Remember(req[c], RuleOf[future[c]])
        /\ future[c] \notin Always => UNCHANGED ruleVars
    BY DEF ApplyResponse
  <1>3. QED
    BY <1>1, <1>2 DEF Return, Remember

(* A call that takes its answer follows it, as the gate does.              *)
LEMMA FollowRefines ==
    ASSUME IInv, NEW c \in Calls, future[c] \in Answers, pc[c] \in Waiting,
           ApplyResponse(c, future[c]), UNCHANGED <<req, future>>
    PROVE  Gate!Follow(c)
  <1> USE DEF IInv
  <1>1. PICK a \in BOOLEAN :
           /\ a <=> future[c] \in Allowing
           /\ result' = [result EXCEPT ![c] = [allowed |-> a, decision |-> future[c]]]
           /\ pc' = [pc EXCEPT ![c] = "done"]
    BY ApplyEffect
  <1>2. Verdict[c] = "none" /\ Said[c] = future[c] /\ Said[c] # "none"
    BY DEF Verdict, Said, Waiting, Answers
  <1>3. /\ pc'[c] = "done" /\ result'[c].allowed = a
        /\ \A x \in Calls \ {c} : pc'[x] = pc[x] /\ result'[x] = result[x]
    BY <1>1 DEF TypeOK
  <1>4. Verdict' = [Verdict EXCEPT ![c] = IF Said[c] \in Gate!Allowing THEN "allow" ELSE "deny"]
    BY <1>1, <1>2, <1>3 DEF Verdict, Gate!Allowing, Allowing
  <1>5. consent' = IF Said[c] \in DOMAIN Gate!RuleOf
                   THEN consent \cup {<<req[c].tool, Gate!RuleOf[Said[c]]>>}
                   ELSE consent
    BY <1>2, ApplyEffect DEF Gate!RuleOf, RuleOf, Always, ruleVars
  <1>6. UNCHANGED <<req, Said>>
    BY DEF Said
  <1>7. QED
    BY <1>2, <1>4, <1>5, <1>6 DEF Gate!Follow

(* A check is a submission that is decided or left open.                   *)
LEMMA SubmitRefines ==
    ASSUME IInv, NEW c \in Calls, NEW r \in Requests, Check(c, r)
    PROVE  Gate!Submit(c, r)
  <1> USE DEF IInv
  <1>1. /\ pc[c] = "idle" /\ req[c] = NoRequest /\ future[c] = "none"
        /\ req' = [req EXCEPT ![c] = r]
        /\ consent' = consent
    BY DEF Check, CallInv, ruleVars
  <1>2. \A x \in Calls : future'[x] = future[x] \/ (x = c /\ future'[x] = "open")
    BY DEF Check, TypeOK
  <1>3. Said' = Said
    BY <1>1, <1>2 DEF Said, Answers
  <1>4. Evaluate(r) = "allow" => \/ r \in {q \in Requests : StaticAllow(q)}
                                 \/ Gate!ByRule(r, "allow")
    BY TierSound DEF Gate!ByRule
  <1>5. \E v \in {"none", "allow", "deny"} :
           /\ v = "allow" => Evaluate(r) = "allow"
           /\ Verdict' = [Verdict EXCEPT ![c] = v]
    <2>1. CASE Evaluate(r) = "ask"
      <3>1. pc' = [pc EXCEPT ![c] = "emitting"] /\ result' = result
        BY <2>1 DEF Check
      <3>2. Verdict' = [Verdict EXCEPT ![c] = "none"]
        BY <3>1, <1>1 DEF Verdict, TypeOK
      <3>3. QED
        BY <3>2
    <2>2. CASE Evaluate(r) = "allow"
      <3>1. (Evaluate(r) = "allow") = TRUE
        BY <2>2
      <3>2. Return(c, TRUE, "auto_allow")
        BY <2>2, <3>1, Zenon DEF Check
      <3>3. Verdict' = [Verdict EXCEPT ![c] = "allow"]
        BY <3>2 DEF Return, Verdict, TypeOK
      <3>4. QED
        BY <2>2, <3>3
    <2>3. CASE Evaluate(r) \notin {"ask", "allow"}
      <3>1. (Evaluate(r) = "allow") = FALSE /\ Evaluate(r) # "ask" /\ Evaluate(r) # "allow"
        BY <2>3
      <3>2. Return(c, FALSE, "auto_deny")
        BY <3>1, Zenon DEF Check
      <3>3. Verdict' = [Verdict EXCEPT ![c] = "deny"]
        BY <3>2 DEF Return, Verdict, TypeOK
      <3>4. QED
        BY <3>3
    <2>4. QED
      BY <2>1, <2>2, <2>3
  <1>6. QED
    BY <1>1, <1>3, <1>4, <1>5 DEF Gate!Submit

(* Every step is a step of PermissionGate or leaves its variables alone.   *)
LEMMA StepRefines ==
    ASSUME IInv, IInv', [Next]_vars
    PROVE  [Gate!GateNext]_(Gate!gateVars)
  <1> USE DEF IInv
  <1> DEFINE Still == UNCHANGED <<req, Said, Verdict, consent>>
  <1>1. ASSUME NEW c \in Calls, NEW r \in Requests, Check(c, r) PROVE Gate!Submit(c, r)
    BY <1>1, SubmitRefines
  <1>2. ASSUME NEW c \in Calls, EmitDone(c) PROVE Gate!Follow(c) \/ Still
    <2>1. CASE future[c] \in Answers /\ ApplyResponse(c, future[c])
      BY <1>2, <2>1, FollowRefines DEF EmitDone, Waiting
    <2>2. CASE pc' = [pc EXCEPT ![c] = "waiting"] /\ UNCHANGED <<result, ruleVars>>
      BY <1>2, <2>2 DEF EmitDone, Said, Verdict, TypeOK, ruleVars
    <2>3. QED
      BY <1>2, <2>1, <2>2 DEF EmitDone
  <1>3. ASSUME NEW c \in Calls, Wake(c) PROVE Gate!Follow(c) \/ Gate!Refuse(c)
    <2>1. CASE future[c] \in Answers /\ ApplyResponse(c, future[c])
      BY <1>3, <2>1, FollowRefines DEF Wake, Waiting
    <2>2. CASE Return(c, FALSE, "timeout") /\ UNCHANGED ruleVars
      <3>1. pc[c] = "waiting" /\ UNCHANGED <<req, future>>
        BY <1>3 DEF Wake
      <3>2. req[c] # NoRequest
        BY <3>1, PermissionAssumption DEF CallInv
      <3>3. Verdict[c] = "none" /\ Verdict' = [Verdict EXCEPT ![c] = "deny"]
        BY <2>2, <3>1 DEF Return, Verdict, TypeOK
      <3>4. UNCHANGED <<req, Said, consent>>
        BY <2>2, <3>1 DEF Said, ruleVars
      <3>5. QED
        BY <3>2, <3>3, <3>4 DEF Gate!Refuse
    <2>3. QED
      BY <1>3, <2>1, <2>2 DEF Wake
  <1>4. ASSUME NEW c \in Calls, TimerFires(c) \/ Abort(c) PROVE Still
    <2>1. \A x \in Calls : \/ future'[x] = future[x]
                          \/ (future[x] = "open" /\ future'[x] = "cancelled")
      BY <1>4 DEF TimerFires, Abort, TypeOK
    <2>2. \A x \in Calls : pc'[x] = "done" <=> pc[x] = "done"
      BY <1>4 DEF TimerFires, Abort, TypeOK, Waiting
    <2>3. UNCHANGED <<req, result, consent>>
      BY <1>4 DEF TimerFires, Abort, ruleVars
    <2>4. QED
      BY <2>1, <2>2, <2>3 DEF Said, Verdict, Answers
  <1>5. ASSUME NEW c \in Calls, NEW k \in Clients, NEW d \in Answers, Respond(k, c, d)
        PROVE  Gate!Say(c, d) \/ Still
    <2>1. /\ UNCHANGED <<req, pc, result, consent>>
          /\ c \in pending
          /\ future' = [future EXCEPT ![c] = IF @ = "open" THEN d ELSE @]
      BY <1>5 DEF Respond, ruleVars
    <2>2. UNCHANGED Verdict
      BY <2>1 DEF Verdict
    <2>3. CASE future[c] = "open"
      <3>1. Said[c] = "none" /\ Said' = [Said EXCEPT ![c] = d]
        <4>1. future'[c] = d /\ \A x \in Calls \ {c} : future'[x] = future[x]
          BY <2>1, <2>3 DEF TypeOK
        <4>2. Said[c] = "none"
          BY <2>3 DEF Said, Answers
        <4>3. \A x \in Calls : Said'[x] = IF x = c THEN d ELSE Said[x]
          BY <4>1 DEF Said
        <4>4. Said' = [x \in Calls |-> Said'[x]] /\ Said = [x \in Calls |-> Said[x]]
          BY DEF Said
        <4>5. QED
          BY <4>2, <4>3, <4>4
      <3>2. req[c] # NoRequest
        BY <2>1, PermissionAssumption DEF CallInv, Waiting
      <3>3. QED
        BY <2>1, <2>2, <3>1, <3>2 DEF Gate!Say
    <2>4. CASE future[c] # "open"
      <3>1. future' = future
        BY <2>1, <2>4 DEF TypeOK
      <3>2. QED
        BY <2>1, <2>2, <3>1 DEF Said
    <2>5. QED
      BY <2>3, <2>4
  <1>6. ASSUME NEW k \in Clients, Disconnect(k) \/ Connect(k) PROVE Still
    BY <1>6 DEF Disconnect, Connect, callVars, ruleVars, Said, Verdict
  <1>7. CASE Restart
    <2>1. \A x \in Calls : \/ future'[x] = future[x]
                          \/ (future[x] = "open" /\ future'[x] = "cancelled")
      BY <1>7 DEF Restart, TypeOK
    <2>2. \A x \in Calls : pc'[x] = "done" <=> pc[x] = "done"
      BY <1>7 DEF Restart, TypeOK, Waiting
    <2>3. UNCHANGED <<req, result, consent>>
      BY <1>7 DEF Restart
    <2>4. Still
      BY <2>1, <2>2, <2>3 DEF Said, Verdict, Answers
    <2>5. QED
      BY <2>4 DEF Gate!gateVars
  <1>8. CASE UNCHANGED vars
    BY <1>8 DEF vars, callVars, ruleVars, Said, Verdict, Gate!gateVars
  <1>9. Still => UNCHANGED Gate!gateVars
    BY DEF Gate!gateVars
  <1>10. Gate!Answers = Answers
    BY DEF Gate!Answers, Answers
  <1> HIDE DEF Still
  <1>11. QED
    BY <1>1, <1>2, <1>3, <1>4, <1>5, <1>6, <1>7, <1>8, <1>9, <1>10 DEF Next, Gate!GateNext

(* check_and_wait implements PermissionGate: no interleaving of answers,   *)
(* deadlines, cancellations and restarts decides a call any other way.     *)
THEOREM GateRefined == Spec => GateSpec
  <1>1. Init => Gate!GateInit
    BY InitRefines
  <1>2. IInv /\ IInv' /\ [Next]_vars => [Gate!GateNext]_(Gate!gateVars)
    BY StepRefines
  <1>3. QED
    BY <1>1, <1>2, InductiveInvariant, PTL DEF Spec, GateSpec, Gate!GateSpec

(* Only an answer in time, or a restart, changes the cached rules.         *)
THEOREM RulesChangeInTime == Spec => RulesOnlyFromTimelyAnswers
  <1>1. ASSUME IInv, [Next]_vars
        PROVE  [sessionAlways' # sessionAlways \/ persistentAlways' # persistentAlways =>
                   \/ persistentAlways' = policyFile /\ clients' = {}
                   \/ \E c \in Calls \ expired :
                         /\ pc[c] \in Waiting
                         /\ pc'[c] = "done"
                         /\ result'[c].decision \in Always]_vars
    <2> SUFFICES ASSUME Next, sessionAlways' # sessionAlways \/ persistentAlways' # persistentAlways
                 PROVE  \/ persistentAlways' = policyFile /\ clients' = {}
                        \/ \E c \in Calls \ expired :
                              /\ pc[c] \in Waiting
                              /\ pc'[c] = "done"
                              /\ result'[c].decision \in Always
      BY <1>1
    <2>1. ASSUME NEW c \in Calls, EmitDone(c) \/ Wake(c)
          PROVE  /\ c \notin expired /\ pc[c] \in Waiting
                 /\ pc'[c] = "done" /\ result'[c].decision \in Always
      <3>1. /\ future[c] \in Answers /\ ApplyResponse(c, future[c])
            /\ pc[c] \in Waiting /\ c \notin expired
        BY <1>1, <2>1 DEF EmitDone, Wake, ruleVars, IInv, CallInv, Waiting
      <3>2. /\ pc' = [pc EXCEPT ![c] = "done"]
            /\ \E a \in BOOLEAN :
                  result' = [result EXCEPT ![c] = [allowed |-> a, decision |-> future[c]]]
            /\ future[c] \in Always
        BY <1>1, <3>1, ApplyEffect DEF ruleVars
      <3>3. QED
        BY <1>1, <3>1, <3>2 DEF IInv, TypeOK
    <2>2. CASE Restart
      BY <2>2 DEF Restart
    <2>3. ASSUME NEW c \in Calls,
                 \/ \E r \in Requests : Check(c, r)
                 \/ TimerFires(c)
                 \/ Abort(c)
                 \/ \E k \in Clients, d \in Answers : Respond(k, c, d)
          PROVE  FALSE
      BY <2>3 DEF Check, TimerFires, Abort, Respond, ruleVars
    <2>4. ASSUME NEW k \in Clients, Disconnect(k) \/ Connect(k) PROVE FALSE
      BY <2>4 DEF Disconnect, Connect, ruleVars
    <2>5. QED
      BY <2>1, <2>2, <2>3, <2>4 DEF Next
  <1>2. QED
    BY <1>1, InductiveInvariant, PTL DEF Spec, RulesOnlyFromTimelyAnswers
(* evaluate and check_and_wait, which both spell out the tiers, agree.     *)
THEOREM StaticTiersAgree == Spec => []TiersAgree
  <1>1. TypeOK => TiersAgree
    <2> SUFFICES ASSUME NEW r \in Requests, CachedRule(r) = "none",
                        Policy[r.tool] = "absent" => DefaultPolicy[r.tool] = "absent"
                 PROVE  Evaluate(r) = StaticEvaluate(r)
      BY DEF TiersAgree
    <2>1. CASE Policy[r.tool] = "absent"
      BY <2>1 DEF Evaluate, StaticEvaluate, StaticRule, DenyPatternHit, AllowPatternHit,
         OutsideCwd
    <2>2. CASE Policy[r.tool] # "absent"
      BY <2>2 DEF Evaluate, StaticEvaluate, StaticRule, DenyPatternHit, AllowPatternHit,
         OutsideCwd
    <2>3. QED
      BY <2>1, <2>2
  <1>2. QED
    BY <1>1, PermissionTypeCorrect, PTL
=============================================================================
