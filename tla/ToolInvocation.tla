---------------------------- MODULE ToolInvocation ----------------------------
(***************************************************************************)
(* core/tools/invocation.py: invoke_tool, for calls of several runs (a     *)
(* session's own run and its subagents) that share the event bus and the   *)
(* permission manager.  The steps of a call lie between its awaits: the    *)
(* publication of its events, the permission decision, the tool itself     *)
(* and the pause before another attempt.  The permission manager is taken  *)
(* as PermissionGate promises it: one decision, or none if the call is     *)
(* cancelled meanwhile.                                                    *)
(***************************************************************************)
EXTENDS Naturals, Sequences

CONSTANTS Calls,        (* tool_use ids                                     *)
          MaxRetries,   (* _MAX_RETRIES                                     *)
          Cancellable   (* the runs may be cancelled                        *)

ASSUME InvocationAssumption ==
    /\ MaxRetries \in Nat
    /\ Cancellable \in BOOLEAN

VARIABLES
    pc,        (* where each call stands                                    *)
    decision,  (* what the permission manager decided                       *)
    attempt,   (* attempts started                                          *)
    effects,   (* history: times the tool ran to an end of its own          *)
    events,    (* history: the call's events in the order of the log        *)
    result     (* the ToolResult: "none", "ok" or its error_type            *)

vars == <<pc, decision, attempt, effects, events, result>>

Granted   == {"allow_once", "always_allow"}
Denied    == {"deny_once", "always_deny", "timeout"}
Decisions == Granted \cup Denied \cup {"auto_allow", "auto_deny"}
Retryable == {"runtime_error", "rate_limited"}
(* How an attempt may end badly: the tool answers with an error_type, of   *)
(* which "runtime_error" is the default and bash's own "timeout" the one   *)
(* that is not retried, or it raises.                                      *)
ToolErrors == {"runtime_error", "rate_limited", "timeout"}

Started        == [type |-> "started", class |-> "none", attempt |-> 0]
Requested      == [type |-> "requested", class |-> "none", attempt |-> 0]
Decided(d)     == [type |-> "decided", class |-> d, attempt |-> 0]
Finished       == [type |-> "finished", class |-> "none", attempt |-> 0]
Failed(e, n)   == [type |-> "failed", class |-> e, attempt |-> n]
-----------------------------------------------------------------------------
Init ==
    /\ pc = [c \in Calls |-> "idle"]
    /\ decision = [c \in Calls |-> "none"]
    /\ attempt = [c \in Calls |-> 0]
    /\ effects = [c \in Calls |-> 0]
    /\ events = [c \in Calls |-> <<>>]
    /\ result = [c \in Calls |-> "none"]

Goto(c, label) == pc' = [pc EXCEPT ![c] = label]
Publish(c, es) == events' = [events EXCEPT ![c] = @ \o es]

Return(c, r) ==
    /\ Goto(c, "returned")
    /\ result' = [result EXCEPT ![c] = r]

(* _fail publishes the failure and returns the error it names.             *)
Fail(c, e, n, es) ==
    /\ Publish(c, Append(es, Failed(e, n)))
    /\ Return(c, e)

Start(c) ==
    /\ pc[c] = "idle"
    /\ Publish(c, <<Started>>)
    /\ Goto(c, "lookup")
    /\ UNCHANGED <<decision, attempt, effects, result>>

(* The tool is unknown, or its parameters do not fit.                      *)
Reject(c, e) ==
    /\ pc[c] = "lookup"
    /\ Fail(c, e, 1, <<>>)
    /\ UNCHANGED <<decision, attempt, effects>>

(* The permission manager decides at once or asks the clients.             *)
Ask(c) ==
    /\ pc[c] = "lookup"
    /\ Publish(c, <<Requested>>)
    /\ Goto(c, "asking")
    /\ UNCHANGED <<decision, attempt, effects, result>>

Invoke(c) ==
    /\ attempt' = [attempt EXCEPT ![c] = @ + 1]
    /\ Goto(c, "invoking")

(* Mutant: any decision but an explicit denial lets the tool run.          *)
DecideLenient(c, d) ==
    /\ decision' = [decision EXCEPT ![c] = d]
    /\ \/ /\ d = "auto_allow"
          /\ pc[c] = "lookup"
          /\ Invoke(c)
          /\ UNCHANGED <<events, result>>
       \/ /\ d \in Granted \cup {"timeout"}
          /\ pc[c] = "asking"
          /\ Publish(c, <<Decided(d)>>)
          /\ Invoke(c)
          /\ UNCHANGED result
       \/ /\ d = "auto_deny"
          /\ pc[c] = "lookup"
          /\ Fail(c, "permission_denied", 1, <<>>)
          /\ UNCHANGED attempt
       \/ /\ d \in Denied \ {"timeout"}
          /\ pc[c] = "asking"
          /\ Fail(c, "permission_denied", 1, <<Decided(d)>>)
          /\ UNCHANGED attempt
    /\ UNCHANGED effects

Decide(c, d) ==
    /\ decision' = [decision EXCEPT ![c] = d]
    /\ \/ /\ d = "auto_allow"
          /\ pc[c] = "lookup"
          /\ Invoke(c)
          /\ UNCHANGED <<events, result>>
       \/ /\ d \in Granted
          /\ pc[c] = "asking"
          /\ Publish(c, <<Decided(d)>>)
          /\ Invoke(c)
          /\ UNCHANGED result
       \/ /\ d = "auto_deny"
          /\ pc[c] = "lookup"
          /\ Fail(c, "permission_denied", 1, <<>>)
          /\ UNCHANGED attempt
       \/ /\ d \in Denied
          /\ pc[c] = "asking"
          /\ Fail(c, "permission_denied", 1, <<Decided(d)>>)
          /\ UNCHANGED attempt
    /\ UNCHANGED effects

Ran(c) == effects' = [effects EXCEPT ![c] = @ + 1]

Succeed(c) ==
    /\ pc[c] = "invoking"
    /\ Ran(c)
    /\ Publish(c, <<Finished>>)
    /\ Return(c, "ok")
    /\ UNCHANGED <<decision, attempt>>

(* Mutant: whatever went wrong is tried again.                             *)
MayRetryAnything(c, e) == attempt[c] <= MaxRetries

MayRetry(c, e) == e \in Retryable /\ attempt[c] <= MaxRetries

ToolFails(c, e) ==
    /\ pc[c] = "invoking"
    /\ Ran(c)
    /\ \/ /\ MayRetry(c, e)
          /\ Publish(c, <<Failed(e, attempt[c])>>)
          /\ Goto(c, "pausing")
          /\ UNCHANGED result
       \/ /\ ~MayRetry(c, e)
          /\ Fail(c, e, attempt[c], <<>>)
    /\ UNCHANGED <<decision, attempt>>

(* wait_for gives up; the attempt is cancelled and not repeated.           *)
ToolTimesOut(c) ==
    /\ pc[c] = "invoking"
    /\ Fail(c, "timeout", attempt[c], <<>>)
    /\ UNCHANGED <<decision, attempt, effects>>

(* Mutant: the last attempt is never started.                              *)
RetryTooFew(c) ==
    /\ pc[c] = "pausing"
    /\ attempt[c] < MaxRetries
    /\ Invoke(c)
    /\ UNCHANGED <<decision, effects, events, result>>

Retry(c) ==
    /\ pc[c] = "pausing"
    /\ Invoke(c)
    /\ UNCHANGED <<decision, effects, events, result>>

(* CancelledError is no Exception: it leaves invoke_tool without an event. *)
Cancel(c) ==
    /\ Cancellable
    /\ pc[c] \in {"lookup", "asking", "invoking", "pausing"}
    /\ Goto(c, "cancelled")
    /\ UNCHANGED <<decision, attempt, effects, events, result>>

Proceed(c) ==
    \/ \E e \in {"runtime_error", "schema_error"} : Reject(c, e)
    \/ Ask(c)
    \/ \E d \in Decisions : Decide(c, d)
    \/ Succeed(c)
    \/ \E e \in ToolErrors : ToolFails(c, e)
    \/ ToolTimesOut(c)
    \/ Retry(c)

Next == \E c \in Calls : Start(c) \/ Proceed(c) \/ Cancel(c)

(* The clock of wait_for, of the permission manager and of the pause runs. *)
Spec     == Init /\ [][Next]_vars
FairSpec == Spec /\ \A c \in Calls : WF_vars(Proceed(c))
-----------------------------------------------------------------------------
(* Properties.                                                             *)

Labels  == {"idle", "lookup", "asking", "invoking", "pausing", "returned", "cancelled"}
Errors  == ToolErrors \cup {"permission_denied", "schema_error"}
Event   == {Started, Requested, Finished}
             \cup {Decided(d) : d \in Granted \cup Denied}
             \cup {Failed(e, n) : e \in Errors, n \in 1 .. MaxRetries + 1}

TypeOK ==
    /\ pc \in [Calls -> Labels]
    /\ decision \in [Calls -> Decisions \cup {"none"}]
    /\ attempt \in [Calls -> 0 .. MaxRetries + 1]
    /\ effects \in [Calls -> 0 .. MaxRetries + 1]
    /\ events \in [Calls -> Seq(Event)]
    /\ result \in [Calls -> Errors \cup {"none", "ok"}]

(* One decision covers all attempts of a call, and nothing runs without    *)
(* it: a tool that keeps failing takes effect at most 1 + _MAX_RETRIES     *)
(* times, is not asked about again, and has no effect after a refusal.     *)
OneConsentBoundsEffects ==
    \A c \in Calls :
        /\ effects[c] <= attempt[c] /\ attempt[c] <= MaxRetries + 1
        /\ attempt[c] > 0 => decision[c] \in Granted \cup {"auto_allow"}
        /\ \A i, j \in DOMAIN events[c] :
              events[c][i].type = "requested" /\ events[c][j].type = "requested" => i = j

(* What the log says of a returned call is what the run is told: it begins *)
(* with tool_call.started, ends with the one event that decides the result, *)
(* and the failures before that are the retried attempts, in order.        *)
LogTellsTheResult ==
    \A c \in Calls : pc[c] = "returned" =>
        LET log  == events[c]
            last == Len(log)
            failures == {i \in DOMAIN log : log[i].type = "failed"}
        IN  /\ log[1] = Started
            /\ log[last] = IF result[c] = "ok" THEN Finished
                           ELSE Failed(result[c], IF attempt[c] = 0 THEN 1 ELSE attempt[c])
            /\ \A i \in DOMAIN log : log[i].type = "finished" => i = last
            /\ \A i \in failures \ {last} :
                  /\ log[i].class \in Retryable
                  /\ log[i].attempt = attempt[c] - (last - i)

(* Whatever the tool does and whoever answers, invoke_tool comes to an end. *)
CallEnds ==
    \A c \in Calls :
        pc[c] # "idle" ~> pc[c] \in {"returned", "cancelled"}
=============================================================================
