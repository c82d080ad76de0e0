--------------------------- MODULE PermissionGate ---------------------------
(***************************************************************************)
(* What the permission layer promises, without futures, timers, caches or  *)
(* files: a tool call is submitted once, is decided at most once, and is   *)
(* allowed only by the static policy, by a person's answer to that very    *)
(* call, or by a standing rule that a person made for its tool.            *)
(***************************************************************************)
CONSTANTS Calls,               (* tool_use ids                             *)
          Tools,               (* tool names                               *)
          Requests,            (* the calls a run may submit               *)
          StaticallyAllowed,   (* requests the policy table alone allows   *)
          RuleDecidable,       (* requests a standing rule may decide      *)
          NotSubmitted         (* the request of a call not made yet       *)

VARIABLES req,      (* what each call asked for                            *)
          said,     (* the answer a person gave to each call               *)
          verdict,  (* what the call was told: "none", "allow" or "deny"   *)
          rules     (* standing rules <<tool, "allow"/"deny">> ever made   *)

gateVars == <<req, said, verdict, rules>>

Answers  == {"allow_once", "always_allow", "deny_once", "always_deny"}
Allowing == {"allow_once", "always_allow"}
RuleOf   == [always_allow |-> "allow", always_deny |-> "deny"]

ByRule(r, v) == r \in RuleDecidable /\ <<r.tool, v>> \in rules

GateInit ==
    /\ req     = [c \in Calls |-> NotSubmitted]
    /\ said    = [c \in Calls |-> "none"]
    /\ verdict = [c \in Calls |-> "none"]
    /\ rules \in SUBSET (Tools \X {"allow", "deny"})

(* A call is decided on the spot, or is left open for a person.            *)
Submit(c, r) ==
    /\ req[c] = NotSubmitted
    /\ req' = [req EXCEPT ![c] = r]
    /\ \E v \in {"none", "allow", "deny"} :
          /\ v = "allow" => r \in StaticallyAllowed \/ ByRule(r, "allow")
          /\ verdict' = [verdict EXCEPT ![c] = v]
    /\ UNCHANGED <<said, rules>>

Say(c, d) ==
    /\ req[c] # NotSubmitted
    /\ said[c] = "none"
    /\ said' = [said EXCEPT ![c] = d]
    /\ UNCHANGED <<req, verdict, rules>>

(* The answer takes effect; an "always" answer becomes a rule with it.     *)
Follow(c) ==
    /\ verdict[c] = "none"
    /\ said[c] # "none"
    /\ verdict' = [verdict EXCEPT ![c] =
                      IF said[c] \in Allowing THEN "allow" ELSE "deny"]
    /\ rules' = IF said[c] \in DOMAIN RuleOf
                THEN rules \cup {<<req[c].tool, RuleOf[said[c]]>>}
                ELSE rules
    /\ UNCHANGED <<req, said>>

(* Nobody answered in time: the call is refused and no rule is made.       *)
Refuse(c) ==
    /\ req[c] # NotSubmitted
    /\ verdict[c] = "none"
    /\ verdict' = [verdict EXCEPT ![c] = "deny"]
    /\ UNCHANGED <<req, said, rules>>

GateNext ==
    \E c \in Calls :
        \/ \E r \in Requests : Submit(c, r)
        \/ \E d \in Answers : Say(c, d)
        \/ Follow(c)
        \/ Refuse(c)

GateSpec == GateInit /\ [][GateNext]_gateVars
=============================================================================
