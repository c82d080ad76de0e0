-------------------------- MODULE PermissionManager --------------------------
(***************************************************************************)
(* core/permissions: PermissionManager.check_and_wait, respond and         *)
(* _apply_response, the policy tiers and policy.toml, as the coroutines of *)
(* one asyncio loop interleave.  A coroutine runs from one await to the    *)
(* next in one step, so the steps of a call are: the synchronous tiers up  *)
(* to the request event (Check), the end of that event's publication       *)
(* (EmitDone), the timer of wait_for (TimerFires) and the step that        *)
(* resumes after the wait (Wake).  Clients answer, come and go at any      *)
(* time; the daemon may be killed between two steps and started again.     *)
(***************************************************************************)
EXTENDS FiniteSets

CONSTANTS Calls,         (* tool_use ids, each submitted at most once       *)
          Clients,       (* socket clients that may answer                  *)
          Sessions,
          Tools,
          Bash,          (* the one tool whose command is pattern-matched   *)
          Policy,        (* tool -> default of its ToolPolicy, or "absent"  *)
          DefaultPolicy, (* the same for DEFAULT_POLICIES                   *)
          Requests,      (* the calls a run may make                        *)
          TimeoutOn,     (* permission.timeout_s > 0                        *)
          SaveMayFail    (* writing policy.toml may fail                    *)

(* Which pattern lists a bash command matches; other tools match none.     *)
Hit     == {"deny_pattern", "outside_cwd", "allow_pattern"}
Request == [session : Sessions, tool : Tools, hits : SUBSET Hit]
PolicyDefault == {"allow", "deny", "ask", "absent"}
NoRequest == [session |-> "none", tool |-> "none", hits |-> {}]

ASSUME PermissionAssumption ==
    /\ Bash \in Tools
    /\ Policy \in [Tools -> PolicyDefault]
    /\ DefaultPolicy \in [Tools -> PolicyDefault]
    /\ Requests \subseteq {r \in Request : r.tool # Bash => r.hits = {}}
    /\ NoRequest \notin Requests
    /\ TimeoutOn \in BOOLEAN
    /\ SaveMayFail \in BOOLEAN

VARIABLES
    req,              (* what each call asks for                            *)
    pc,               (* where the coroutine of each call stands            *)
    future,           (* the Future each pending call waits for             *)
    pending,          (* keys of _pending                                   *)
    expired,          (* calls whose wait_for deadline has passed           *)
    result,           (* what check_and_wait returned                       *)
    sessionAlways,    (* _session_always                                    *)
    persistentAlways, (* _persistent_always                                 *)
    policyFile,       (* the [always] table of policy.toml                  *)
    clients,          (* connected clients                                  *)
    consent,          (* history: every rule a person made                  *)
    diskFailed        (* history: the last save of this process failed      *)

callVars == <<req, pc, future, pending, expired, result>>
ruleVars == <<sessionAlways, persistentAlways, policyFile, consent, diskFailed>>
vars     == <<callVars, ruleVars, clients>>

Answers  == {"allow_once", "always_allow", "deny_once", "always_deny"}
Allowing == {"allow_once", "always_allow"}
RuleOf   == [always_allow |-> "allow", always_deny |-> "deny"]
Always   == DOMAIN RuleOf

NoResult  == [allowed |-> FALSE, decision |-> "none"]
Rule      == {"none", "allow", "deny"}
Waiting   == {"emitting", "waiting"}
-----------------------------------------------------------------------------
(* The synchronous tiers.                                                  *)

DenyPatternHit(r)  == Policy[r.tool] # "absent" /\ "deny_pattern" \in r.hits
AllowPatternHit(r) == Policy[r.tool] # "absent" /\ "allow_pattern" \in r.hits
OutsideCwd(r)      == "outside_cwd" \in r.hits

(* The session's own rule shadows the persistent one.                      *)
CachedRule(r) == IF sessionAlways[r.session][r.tool] # "none"
                 THEN sessionAlways[r.session][r.tool]
                 ELSE persistentAlways[r.tool]

(* Mutant: the default of the table comes before the allow patterns.       *)
StaticRuleDefaultFirst(r) == IF Policy[r.tool] \notin {"absent", "ask"} THEN Policy[r.tool]
                             ELSE "ask"

StaticRule(r) == IF AllowPatternHit(r) THEN "allow"
                 ELSE IF Policy[r.tool] = "absent" THEN "ask"
                 ELSE Policy[r.tool]

(* Mutant: the caches are consulted before the outside-cwd rule.           *)
EvaluateCacheFirst(r) == IF DenyPatternHit(r) THEN "deny"
                         ELSE IF CachedRule(r) # "none" THEN CachedRule(r)
                         ELSE IF OutsideCwd(r) THEN "ask"
                         ELSE StaticRule(r)

Evaluate(r) == IF DenyPatternHit(r) THEN "deny"
               ELSE IF OutsideCwd(r) THEN "ask"
               ELSE IF CachedRule(r) # "none" THEN CachedRule(r)
               ELSE StaticRule(r)

(* policy.evaluate: the static part alone, which falls back on the default *)
(* table for a tool the manager's own table does not name.                 *)
StaticEvaluate(r) ==
    LET policy == IF Policy[r.tool] # "absent" THEN Policy[r.tool]
                  ELSE DefaultPolicy[r.tool]
    IN  IF policy = "absent" THEN "ask"
        ELSE IF "deny_pattern" \in r.hits THEN "deny"
        ELSE IF OutsideCwd(r) THEN "ask"
        ELSE IF "allow_pattern" \in r.hits THEN "allow"
        ELSE policy
-----------------------------------------------------------------------------
Init ==
    /\ req     = [c \in Calls |-> NoRequest]
    /\ pc      = [c \in Calls |-> "idle"]
    /\ future  = [c \in Calls |-> "none"]
    /\ pending = {}
    /\ expired = {}
    /\ result  = [c \in Calls |-> NoResult]
    /\ sessionAlways = [s \in Sessions |-> [t \in Tools |-> "none"]]
    /\ policyFile \in [Tools -> Rule]
    /\ persistentAlways = policyFile
    /\ clients = Clients
    /\ consent = {k \in Tools \X {"allow", "deny"} : policyFile[k[1]] = k[2]}
    /\ diskFailed = FALSE

Return(c, allowed, decision) ==
    /\ pc' = [pc EXCEPT ![c] = "done"]
    /\ result' = [result EXCEPT ![c] = [allowed |-> allowed, decision |-> decision]]

(* write_text truncates, then writes: a save that fails leaves the old     *)
(* file, or a file that lost part of its entries.  The exception is logged *)
(* and dropped.                                                            *)
SavePolicyFile(always) ==
    \/ /\ policyFile' = always
       /\ diskFailed' = FALSE
    \/ /\ SaveMayFail
       /\ \/ policyFile' = policyFile
          \/ \E kept \in SUBSET Tools :
                policyFile' = [t \in Tools |-> IF t \in kept THEN always[t] ELSE "none"]
       /\ diskFailed' = TRUE

(* Mutant: the rule is stored for every tool.                              *)
RememberForAllTools(r, rule) ==
    /\ sessionAlways' = [sessionAlways EXCEPT ![r.session][r.tool] = rule]
    /\ persistentAlways' = [t \in Tools |-> rule]
    /\ SavePolicyFile([t \in Tools |-> rule])
    /\ consent' = consent \cup {<<r.tool, rule>>}

Remember(r, rule) ==
    /\ sessionAlways' = [sessionAlways EXCEPT ![r.session][r.tool] = rule]
    /\ persistentAlways' = [persistentAlways EXCEPT ![r.tool] = rule]
    /\ SavePolicyFile([persistentAlways EXCEPT ![r.tool] = rule])
    /\ consent' = consent \cup {<<r.tool, rule>>}

ApplyResponse(c, d) ==
    /\ Return(c, d \in Allowing, d)
    /\ \/ d \in Always /\ Remember(req[c], RuleOf[d])
       \/ d \notin Always /\ UNCHANGED ruleVars

(* check_and_wait up to its first await: an answer from the tiers, or the  *)
(* request registered and its event on the way to the clients.             *)
Check(c, r) ==
    /\ pc[c] = "idle"
    /\ req' = [req EXCEPT ![c] = r]
    /\ \/ /\ Evaluate(r) # "ask"
          /\ Return(c, Evaluate(r) = "allow",
                    IF Evaluate(r) = "allow" THEN "auto_allow" ELSE "auto_deny")
          /\ UNCHANGED <<future, pending>>
       \/ /\ Evaluate(r) = "ask"
          /\ future' = [future EXCEPT ![c] = "open"]
          /\ pending' = pending \cup {c}
          /\ pc' = [pc EXCEPT ![c] = "emitting"]
          /\ UNCHANGED result
    /\ UNCHANGED <<expired, ruleVars, clients>>

(* The event is published.  A future answered meanwhile does not suspend   *)
(* the coroutine: wait_for returns it at once, whatever the timeout.       *)
EmitDone(c) ==
    /\ pc[c] = "emitting"
    /\ \/ /\ future[c] = "open"
          /\ pc' = [pc EXCEPT ![c] = "waiting"]
          /\ UNCHANGED <<result, ruleVars>>
       \/ /\ future[c] \in Answers
          /\ ApplyResponse(c, future[c])
    /\ UNCHANGED <<req, future, pending, expired, clients>>

(* Mutant: the deadline counts only while a client is connected.           *)
TimerNeedsClient(c) ==
    /\ clients # {}
    /\ TimeoutOn
    /\ pc[c] = "waiting"
    /\ c \notin expired
    /\ expired' = expired \cup {c}
    /\ future' = [future EXCEPT ![c] = IF @ = "open" THEN "cancelled" ELSE @]
    /\ UNCHANGED <<req, pc, pending, result, ruleVars, clients>>

(* The deadline passes: the waiting task is cancelled, and with it a future *)
(* still open.  One already answered keeps its value, but the task wakes   *)
(* up cancelled all the same.                                              *)
TimerFires(c) ==
    /\ TimeoutOn
    /\ pc[c] = "waiting"
    /\ c \notin expired
    /\ expired' = expired \cup {c}
    /\ future' = [future EXCEPT ![c] = IF @ = "open" THEN "cancelled" ELSE @]
    /\ UNCHANGED <<req, pc, pending, result, ruleVars, clients>>

(* Mutant: an answer that raced the deadline is still followed.            *)
WakeHonoursLateAnswer(c) ==
    /\ pc[c] = "waiting"
    /\ \/ /\ future[c] = "cancelled"
          /\ pending' = pending \ {c}
          /\ Return(c, FALSE, "timeout")
          /\ UNCHANGED ruleVars
       \/ /\ future[c] \in Answers
          /\ ApplyResponse(c, future[c])
          /\ UNCHANGED pending
    /\ UNCHANGED <<req, future, expired, clients>>

Wake(c) ==
    /\ pc[c] = "waiting"
    /\ \/ /\ c \in expired
          /\ pending' = pending \ {c}
          /\ Return(c, FALSE, "timeout")
          /\ UNCHANGED ruleVars
       \/ /\ c \notin expired
          /\ future[c] \in Answers
          /\ ApplyResponse(c, future[c])
          /\ UNCHANGED pending
    /\ UNCHANGED <<req, future, expired, clients>>

(* The emitter raises, or the task is cancelled from outside (the time     *)
(* limit of the spawn_agent call it runs under, or shutdown).  Neither is  *)
(* a TimeoutError, so the entry stays in _pending.                         *)
Abort(c) ==
    /\ pc[c] \in Waiting
    /\ pc' = [pc EXCEPT ![c] = "aborted"]
    /\ future' = [future EXCEPT ![c] =
                     IF pc[c] = "waiting" /\ @ = "open" THEN "cancelled" ELSE @]
    /\ UNCHANGED <<req, pending, expired, result, ruleVars, clients>>

(* Mutant: respond looks the entry up without popping it.                  *)
RespondKeepsEntry(k, c, d) ==
    /\ k \in clients
    /\ c \in pending
    /\ future' = [future EXCEPT ![c] = IF @ = "open" THEN d ELSE @]
    /\ UNCHANGED <<req, pc, pending, expired, result, ruleVars, clients>>

(* permission.respond.  An id that is not pending changes nothing.         *)
Respond(k, c, d) ==
    /\ k \in clients
    /\ c \in pending
    /\ pending' = pending \ {c}
    /\ future' = [future EXCEPT ![c] = IF @ = "open" THEN d ELSE @]
    /\ UNCHANGED <<req, pc, expired, result, ruleVars, clients>>

(* A connection ends; _handle_connection does not touch _pending.          *)
Disconnect(k) ==
    /\ k \in clients
    /\ clients' = clients \ {k}
    /\ UNCHANGED <<callVars, ruleVars>>

Connect(k) ==
    /\ k \in Clients \ clients
    /\ clients' = clients \cup {k}
    /\ UNCHANGED <<callVars, ruleVars>>

(* The daemon dies and is started again: only policy.toml survives.        *)
Restart ==
    /\ pc' = [c \in Calls |-> IF pc[c] \in Waiting THEN "aborted" ELSE pc[c]]
    /\ future' = [c \in Calls |-> IF future[c] = "open" THEN "cancelled" ELSE future[c]]
    /\ pending' = {}
    /\ sessionAlways' = [s \in Sessions |-> [t \in Tools |-> "none"]]
    /\ persistentAlways' = policyFile
    /\ clients' = {}
    /\ diskFailed' = FALSE
    /\ UNCHANGED <<req, expired, result, policyFile, consent>>

Next ==
    \/ \E c \in Calls :
          \/ \E r \in Requests : Check(c, r)
          \/ EmitDone(c)
          \/ TimerFires(c)
          \/ Wake(c)
          \/ Abort(c)
          \/ \E k \in Clients, d \in Answers : Respond(k, c, d)
    \/ \E k \in Clients : Disconnect(k) \/ Connect(k)
    \/ Restart

(* The loop runs what is ready, timers included, and clients read what is  *)
(* written to them; nobody is obliged to answer.                           *)
Fairness == \A c \in Calls : /\ WF_vars(EmitDone(c))
                             /\ WF_vars(TimerFires(c))
                             /\ WF_vars(Wake(c))

Spec     == Init /\ [][Next]_vars
FairSpec == Spec /\ Fairness
-----------------------------------------------------------------------------
(* Properties.                                                             *)

Results == [allowed : BOOLEAN,
            decision : Answers \cup {"none", "auto_allow", "auto_deny", "timeout"}]

TypeOK ==
    /\ req \in [Calls -> Requests \cup {NoRequest}]
    /\ pc \in [Calls -> {"idle", "emitting", "waiting", "done", "aborted"}]
    /\ future \in [Calls -> {"none", "open", "cancelled"} \cup Answers]
    /\ pending \subseteq Calls
    /\ expired \subseteq Calls
    /\ result \in [Calls -> Results]
    /\ sessionAlways \in [Sessions -> [Tools -> Rule]]
    /\ persistentAlways \in [Tools -> Rule]
    /\ policyFile \in [Tools -> Rule]
    /\ clients \subseteq Clients
    /\ consent \subseteq Tools \X {"allow", "deny"}
    /\ diskFailed \in BOOLEAN

StaticAllow(r)   == ~DenyPatternHit(r) /\ ~OutsideCwd(r) /\ StaticRule(r) = "allow"
RuleMayDecide(r) == ~DenyPatternHit(r) /\ ~OutsideCwd(r)

(* A call still waited for can be answered as long as its future is open,  *)
(* and an entry that is still there has no answer a second one could       *)
(* replace: pop and set_result in respond go together.                     *)
PendingIsAnswerable ==
    \A c \in Calls : pc[c] \in Waiting =>
        /\ future[c] = "open" => c \in pending
        /\ c \in pending => future[c] \in {"open", "cancelled"}

(* No tool runs on a decision nobody made: an allowed call is allowed by   *)
(* the policy table, by an answer to itself, or, unless its command matches *)
(* a deny pattern or leaves the working directory, by a rule somebody made *)
(* for its tool, in this life of the daemon or an earlier one.             *)
AllowedByConsent ==
    \A c \in Calls : result[c].allowed =>
        \/ StaticAllow(req[c])
        \/ future[c] \in Allowing /\ result[c].decision = future[c]
        \/ RuleMayDecide(req[c]) /\ <<req[c].tool, "allow">> \in consent

(* A command that leaves the working directory is put to a person each     *)
(* time; no cache answers for it, neither way ("forced ASK").              *)
ForcedAsk ==
    \A c \in Calls :
        pc[c] = "done" /\ OutsideCwd(req[c]) /\ ~DenyPatternHit(req[c])
            => result[c].decision \in Answers \cup {"timeout"}

(* Both at once: nothing runs beyond what people or the policy consented   *)
(* to, and no consent given once covers a command that must be asked.      *)
NothingBeyondConsent == AllowedByConsent /\ ForcedAsk

(* An answer decides exactly the call it was given to and only if the      *)
(* deadline had not passed when the coroutine resumed; past the deadline   *)
(* the call is refused, even if the answer had already reached the future. *)
DecisionSource ==
    \A c \in Calls : pc[c] = "done" =>
        /\ result[c].decision \in Answers => result[c].decision = future[c] /\ c \notin expired
        /\ result[c].decision = "timeout" <=> c \in expired
        /\ c \in expired => ~result[c].allowed

(* Caches and policy.toml hold only rules that some person made, whatever  *)
(* saves failed and whenever the daemon died.                              *)
RulesWereGiven ==
    \A t \in Tools, v \in {"allow", "deny"} :
        v \in {policyFile[t], persistentAlways[t]} \cup {sessionAlways[s][t] : s \in Sessions}
            => <<t, v>> \in consent

(* The tiers are written twice: evaluate, which tools and tests ask, says  *)
(* what check_and_wait does as long as no rule interferes, for every tool  *)
(* that the manager's own table names or no table does.                    *)
TiersAgree ==
    \A r \in Requests :
        (Policy[r.tool] = "absent" => DefaultPolicy[r.tool] = "absent") /\ CachedRule(r) = "none"
            => Evaluate(r) = StaticEvaluate(r)

(* Unless its last save failed, a daemon killed now comes back with the    *)
(* rules it has.                                                           *)
DiskAgrees == ~diskFailed => policyFile = persistentAlways

(* The rules in memory and on disk are rules people made, and they are the *)
(* same, but for a save that failed.                                       *)
RulesAreSound == RulesWereGiven /\ DiskAgrees

(* Rules change only when a call returns with an "always" answer that came *)
(* in time, or by a restart: an answer to a call that timed out or was     *)
(* aborted never leaves a rule behind.                                     *)
RulesOnlyFromTimelyAnswers ==
    [][sessionAlways' # sessionAlways \/ persistentAlways' # persistentAlways =>
          \/ /\ persistentAlways' = policyFile
             /\ clients' = {}
          \/ \E c \in Calls \ expired :
                /\ pc[c] \in Waiting
                /\ pc'[c] = "done"
                /\ result'[c].decision \in Always]_vars

(* With a timeout configured, a call that was put to a person comes to an  *)
(* end whatever the clients do.                                            *)
AskedCallEnds == \A c \in Calls : pc[c] \in Waiting ~> pc[c] \notin Waiting

(* manager.py:192: when the clients are gone, their requests are refused,  *)
(* so that no future hangs for ever.                                       *)
NoHangWhenClientsGone ==
    \A c \in Calls : pc[c] \in Waiting /\ clients = {}
                        ~> pc[c] \notin Waiting \/ clients # {}

(* check_and_wait keeps the promise of PermissionGate.                     *)
Said == [c \in Calls |-> IF future[c] \in Answers THEN future[c] ELSE "none"]

Verdict == [c \in Calls |-> IF pc[c] # "done" THEN "none"
                            ELSE IF result[c].allowed THEN "allow" ELSE "deny"]

Gate == INSTANCE PermissionGate WITH
    StaticallyAllowed <- {r \in Requests : StaticAllow(r)},
    RuleDecidable     <- {r \in Requests : RuleMayDecide(r)},
    NotSubmitted      <- NoRequest,
    said    <- Said,
    verdict <- Verdict,
    rules   <- consent

GateSpec == Gate!GateSpec
=============================================================================
