------------------------- MODULE ToolInvocationProofs -------------------------
(***************************************************************************)
(* Proofs about ToolInvocation for any calls and any number of retries:    *)
(* type correctness, and that one consent bounds the effects of a call.    *)
(***************************************************************************)
EXTENDS ToolInvocation, SequenceTheorems, TLAPS

(* What holds of the questions in the log of a call.                       *)
LogOK(asked, log) ==
    /\ log \in Seq(Event)
    /\ \A i, j \in DOMAIN log :
          log[i].type = "requested" /\ log[j].type = "requested" => i = j
    /\ ~asked => \A i \in DOMAIN log : log[i].type # "requested"

(* What holds of one call, given the values of its variables.  The bounds  *)
(* on attempts and effects follow from the label the call stands at, not   *)
(* from each other, and so does whether it has asked its question.         *)
CallOK(p, d, n, ran, log, r) ==
    /\ p \in Labels
    /\ d \in Decisions \cup {"none"}
    /\ n \in 0 .. MaxRetries + 1
    /\ ran \in 0 .. n
    /\ r \in Errors \cup {"none", "ok"}
    /\ LogOK(p \notin {"idle", "lookup"}, log)
    /\ p \in {"idle", "lookup", "asking"} => n = 0
    /\ p = "invoking" => ran < n
    /\ p = "pausing" => n > 0 /\ n <= MaxRetries
    /\ n > 0 => d \in Granted \cup {"auto_allow"}

CallInv(c) == CallOK(pc[c], decision[c], attempt[c], effects[c], events[c], result[c])

IInv == TypeOK /\ \A c \in Calls : CallInv(c)
-----------------------------------------------------------------------------
(* What the log of a call is after an event is added to it.                *)
LEMMA AppendEvent ==
    ASSUME NEW log \in Seq(Event), NEW e \in Event
    PROVE  /\ Append(log, e) \in Seq(Event)
           /\ DOMAIN Append(log, e) = DOMAIN log \cup {Len(log) + 1}
           /\ \A i \in DOMAIN log : Append(log, e)[i] = log[i]
           /\ Append(log, e)[Len(log) + 1] = e
           /\ Len(log) + 1 \notin DOMAIN log
  OBVIOUS

(* Events come one or two at a time.                                       *)
LEMMA Concatenate ==
    ASSUME NEW log \in Seq(Event), NEW e \in Event, NEW f \in Event
    PROVE  /\ log \o <<e>> = Append(log, e)
           /\ log \o <<e, f>> = Append(Append(log, e), f)
  <1>1. log \o <<e>> = Append(log, e)
    OBVIOUS
  <1>2. log \o <<e, f>> = Append(Append(log, e), f)
    OBVIOUS
  <1>3. QED
    BY <1>1, <1>2

(* Appending to a sequence that is written out.                            *)
LEMMA AppendToOne ==
    ASSUME NEW e \in Event, NEW f \in Event
    PROVE  Append(<<e>>, f) = <<e, f>>
  <1> DEFINE s == Append(<<e>>, f)
             t == <<e, f>>
  <1>1. s \in Seq(Event) /\ t \in Seq(Event)
    OBVIOUS
  <1>2. Len(s) = 2 /\ s[1] = e /\ s[2] = f
    OBVIOUS
  <1>3. Len(t) = 2 /\ t[1] = e /\ t[2] = f
    OBVIOUS
  <1> HIDE DEF s, t
  <1>4. \A i \in 1 .. Len(s) : s[i] = t[i]
    BY <1>2, <1>3
  <1>5. s = t
    BY <1>1, <1>2, <1>3, <1>4, SeqEqual
  <1>6. QED
    BY <1>5 DEF s, t

(* The failures that a call publishes are events.                          *)
LEMMA EventTypes ==
    /\ Started \in Event /\ Started.type # "requested"
    /\ Requested \in Event
    /\ Finished \in Event /\ Finished.type # "requested"
    /\ \A d \in Granted \cup Denied : Decided(d) \in Event /\ Decided(d).type # "requested"
    /\ \A e \in Errors, n \in 1 .. MaxRetries + 1 :
          Failed(e, n) \in Event /\ Failed(e, n).type # "requested"
  <1>1. /\ Started \in Event /\ Requested \in Event /\ Finished \in Event
    BY DEF Event
  <1>2. ASSUME NEW d \in Granted \cup Denied PROVE Decided(d) \in Event
    BY DEF Event
  <1>3. ASSUME NEW e \in Errors, NEW n \in 1 .. MaxRetries + 1 PROVE Failed(e, n) \in Event
    BY DEF Event
  <1>4. /\ Started.type # "requested"
        /\ Finished.type # "requested"
        /\ \A d : Decided(d).type # "requested"
        /\ \A e, n : Failed(e, n).type # "requested"
    BY DEF Started, Finished, Decided, Failed
  <1>5. QED
    BY <1>1, <1>2, <1>3, <1>4

(* An event that is no question leaves the questions as they are.          *)
LEMMA LogOtherEvent ==
    ASSUME NEW asked \in BOOLEAN, NEW log, LogOK(asked, log),
           NEW e \in Event, e.type # "requested"
    PROVE  LogOK(asked, Append(log, e))
  BY AppendEvent DEF LogOK

(* The first question is the only one.                                     *)
LEMMA LogQuestion ==
    ASSUME NEW log, LogOK(FALSE, log)
    PROVE  LogOK(TRUE, Append(log, Requested))
  BY AppendEvent, EventTypes DEF LogOK
-----------------------------------------------------------------------------
(* Initially no call has begun.                                            *)
LEMMA InitIInv == Init => IInv
  BY InvocationAssumption DEF Init, IInv, CallInv, CallOK, LogOK, TypeOK, Labels, Decisions

(* An action of one call keeps the invariant if it keeps it for that call. *)
LEMMA OneCall ==
    ASSUME IInv, NEW c \in Calls,
           NEW p, NEW d, NEW n, NEW ran, NEW log, NEW r,
           CallOK(p, d, n, ran, log, r),
           pc' = [pc EXCEPT ![c] = p],
           decision' = [decision EXCEPT ![c] = d],
           attempt' = [attempt EXCEPT ![c] = n],
           effects' = [effects EXCEPT ![c] = ran],
           events' = [events EXCEPT ![c] = log],
           result' = [result EXCEPT ![c] = r]
    PROVE  IInv'
  <1> USE InvocationAssumption
  <1>1. TypeOK'
    <2>1. pc' \in [Calls -> Labels] /\ decision' \in [Calls -> Decisions \cup {"none"}]
      BY DEF IInv, TypeOK, CallOK
    <2>2. attempt' \in [Calls -> 0 .. MaxRetries + 1] /\ effects' \in [Calls -> 0 .. MaxRetries + 1]
      BY DEF IInv, TypeOK, CallOK
    <2>3. events' \in [Calls -> Seq(Event)]
      BY DEF IInv, TypeOK, CallOK, LogOK
    <2>4. result' \in [Calls -> Errors \cup {"none", "ok"}]
      BY DEF IInv, TypeOK, CallOK
    <2>5. QED
      BY <2>1, <2>2, <2>3, <2>4 DEF TypeOK
  <1>2. CallInv(c)'
    <2>1. /\ pc'[c] = p /\ decision'[c] = d /\ attempt'[c] = n
          /\ effects'[c] = ran /\ events'[c] = log /\ result'[c] = r
      BY DEF IInv, TypeOK
    <2>2. QED
      BY <2>1 DEF CallInv
  <1>3. ASSUME NEW b \in Calls \ {c} PROVE CallInv(b)'
    <2>1. /\ pc'[b] = pc[b] /\ decision'[b] = decision[b] /\ attempt'[b] = attempt[b]
          /\ effects'[b] = effects[b] /\ events'[b] = events[b] /\ result'[b] = result[b]
      BY DEF IInv, TypeOK
    <2>2. QED
      BY <2>1 DEF CallInv, IInv
  <1>4. QED
    BY <1>1, <1>2, <1>3 DEF IInv

(* A variable that an action leaves alone, in the form OneCall wants.      *)
LEMMA Same ==
    ASSUME TypeOK, NEW c \in Calls
    PROVE  /\ decision = [decision EXCEPT ![c] = decision[c]]
           /\ attempt = [attempt EXCEPT ![c] = attempt[c]]
           /\ effects = [effects EXCEPT ![c] = effects[c]]
           /\ events = [events EXCEPT ![c] = events[c]]
           /\ result = [result EXCEPT ![c] = result[c]]
  BY DEF TypeOK

(* What an event or two add to the log of a call.                          *)
LEMMA LogGrows ==
    ASSUME NEW asked \in BOOLEAN, NEW log, LogOK(asked, log)
    PROVE  /\ \A e \in Event : e.type # "requested" => LogOK(asked, log \o <<e>>)
           /\ \A e, f \in Event : e.type # "requested" /\ f.type # "requested" =>
                 LogOK(asked, log \o <<e, f>>)
           /\ ~asked => LogOK(TRUE, log \o <<Requested>>)
           /\ LogOK(TRUE, log)
  <1>1. log \in Seq(Event)
    BY DEF LogOK
  <1>2. ASSUME NEW e \in Event, e.type # "requested" PROVE LogOK(asked, log \o <<e>>)
    <2>1. LogOK(asked, Append(log, e))
      BY <1>2, LogOtherEvent
    <2>2. log \o <<e>> = Append(log, e)
      BY <1>1, Concatenate
    <2>3. QED
      BY <2>1, <2>2
  <1>3. ASSUME NEW e \in Event, NEW f \in Event, e.type # "requested", f.type # "requested"
        PROVE  LogOK(asked, log \o <<e, f>>)
    <2>1. LogOK(asked, Append(log, e))
      BY <1>3, LogOtherEvent
    <2>2. LogOK(asked, Append(Append(log, e), f))
      BY <1>3, <2>1, LogOtherEvent
    <2>3. QED
      BY <1>1, <2>2, Concatenate
  <1>4. ASSUME ~asked PROVE LogOK(TRUE, log \o <<Requested>>)
    <2>1. LogOK(FALSE, log)
      BY <1>4 DEF LogOK
    <2>2. LogOK(TRUE, Append(log, Requested))
      BY <2>1, LogQuestion
    <2>3. log \o <<Requested>> = Append(log, Requested)
      BY <1>1, Concatenate, EventTypes
    <2>4. QED
      BY <2>2, <2>3
  <1>5. LogOK(TRUE, log)
    BY DEF LogOK
  <1>6. QED
    BY <1>2, <1>3, <1>4, <1>5
-----------------------------------------------------------------------------
(* Start announces the call.                                               *)
LEMMA StartInv ==
    ASSUME IInv, NEW c \in Calls, Start(c)
    PROVE  IInv'
  <1> DEFINE log == events[c] \o <<Started>>
  <1>1. TypeOK /\ CallInv(c)
    BY DEF IInv
  <1>2. LogOK(FALSE, events[c])
    BY <1>1 DEF CallInv, CallOK, Start, LogOK
  <1>3. LogOK(FALSE, log)
    BY <1>2, LogGrows, EventTypes
  <1>4. CallOK("lookup", decision[c], attempt[c], effects[c], log, result[c])
    BY <1>1, <1>3 DEF CallInv, CallOK, Start, Labels, LogOK
  <1>5. /\ pc' = [pc EXCEPT ![c] = "lookup"]
        /\ events' = [events EXCEPT ![c] = log]
        /\ decision' = [decision EXCEPT ![c] = decision[c]]
        /\ attempt' = [attempt EXCEPT ![c] = attempt[c]]
        /\ effects' = [effects EXCEPT ![c] = effects[c]]
        /\ result' = [result EXCEPT ![c] = result[c]]
    BY <1>1, Same DEF Start, Goto, Publish
  <1> HIDE DEF log
  <1>6. QED
    BY <1>4, <1>5, OneCall

(* A failure is published and returned.                                    *)
LEMMA FailInv ==
    ASSUME IInv, NEW c \in Calls, pc[c] # "idle", NEW e \in Errors,
           NEW n \in 1 .. MaxRetries + 1, Fail(c, e, n, <<>>),
           NEW d \in Decisions \cup {"none"}, NEW ran \in 0 .. attempt[c],
           attempt[c] > 0 => d = decision[c],
           decision' = [decision EXCEPT ![c] = d],
           effects' = [effects EXCEPT ![c] = ran],
           UNCHANGED attempt
    PROVE  IInv'
  <1> DEFINE log == events[c] \o <<Failed(e, n)>>
  <1>1. TypeOK /\ CallInv(c)
    BY DEF IInv
  <1>2. LogOK(TRUE, events[c])
    BY <1>1 DEF CallInv, CallOK, LogOK
  <1>3. LogOK(TRUE, log)
    BY <1>2, LogGrows, EventTypes
  <1>4. CallOK("returned", d, attempt[c], ran, log, e)
    BY <1>1, <1>3 DEF CallInv, CallOK, Labels, LogOK
  <1>5. events' = [events EXCEPT ![c] = log]
    BY DEF Fail, Publish
  <1>6. QED
    BY <1>1, <1>4, <1>5, Same, OneCall DEF Fail, Return, Goto

(* The call is rejected before anything is decided.                        *)
LEMMA RejectInv ==
    ASSUME IInv, NEW c \in Calls, NEW e \in {"runtime_error", "schema_error"}, Reject(c, e)
    PROVE  IInv'
  <1>1. TypeOK /\ CallInv(c)
    BY DEF IInv
  <1>2. e \in Errors /\ 1 \in 1 .. MaxRetries + 1
    BY InvocationAssumption DEF Errors, ToolErrors
  <1>3. decision[c] \in Decisions \cup {"none"} /\ effects[c] \in 0 .. attempt[c]
    BY <1>1 DEF CallInv, CallOK
  <1>4. QED
    BY <1>1, <1>2, <1>3, Same, FailInv DEF Reject

(* The question is published once.                                         *)
LEMMA AskInv ==
    ASSUME IInv, NEW c \in Calls, Ask(c)
    PROVE  IInv'
  <1> DEFINE log == events[c] \o <<Requested>>
  <1>1. TypeOK /\ CallInv(c)
    BY DEF IInv
  <1>2. LogOK(FALSE, events[c])
    BY <1>1 DEF CallInv, CallOK, Ask, LogOK
  <1>3. LogOK(TRUE, log)
    BY <1>2, LogGrows
  <1>4. CallOK("asking", decision[c], attempt[c], effects[c], log, result[c])
    BY <1>1, <1>3 DEF CallInv, CallOK, Ask, Labels, LogOK
  <1>5. /\ pc' = [pc EXCEPT ![c] = "asking"]
        /\ events' = [events EXCEPT ![c] = log]
        /\ decision' = [decision EXCEPT ![c] = decision[c]]
        /\ attempt' = [attempt EXCEPT ![c] = attempt[c]]
        /\ effects' = [effects EXCEPT ![c] = effects[c]]
        /\ result' = [result EXCEPT ![c] = result[c]]
    BY <1>1, Same DEF Ask, Goto, Publish
  <1> HIDE DEF log
  <1>6. QED
    BY <1>4, <1>5, OneCall

(* The decision: the tool runs, or the call fails; every way it is decided *)
(* is a case.                                                              *)
LEMMA DecideInv ==
    ASSUME IInv, NEW c \in Calls, NEW d \in Decisions, Decide(c, d)
    PROVE  IInv'
  <1>1. TypeOK /\ CallInv(c)
    BY DEF IInv
  <1>2. LogOK(TRUE, events[c])
    BY <1>1 DEF CallInv, CallOK, LogOK
  <1>3. pc[c] \in {"lookup", "asking"} /\ attempt[c] = 0 /\ effects[c] = 0
    BY <1>1, InvocationAssumption DEF CallInv, CallOK, Decide
  <1>4. 1 \in 1 .. MaxRetries + 1 /\ "permission_denied" \in Errors
    BY InvocationAssumption DEF Errors
  <1>5. decision' = [decision EXCEPT ![c] = d]
        /\ effects' = [effects EXCEPT ![c] = effects[c]]
    BY <1>1, Same DEF Decide
  <1>6. ASSUME NEW log, LogOK(TRUE, log), d \in Granted \cup {"auto_allow"}, Invoke(c),
               events' = [events EXCEPT ![c] = log], UNCHANGED result
        PROVE  IInv'
    <2>1. CallOK("invoking", d, attempt[c] + 1, effects[c], log, result[c])
      BY <1>1, <1>3, <1>6, InvocationAssumption DEF CallInv, CallOK, Labels, LogOK
    <2>2. /\ pc' = [pc EXCEPT ![c] = "invoking"]
          /\ attempt' = [attempt EXCEPT ![c] = attempt[c] + 1]
          /\ result' = [result EXCEPT ![c] = result[c]]
      BY <1>1, <1>6, Same DEF Invoke, Goto
    <2>3. QED
      BY <1>5, <1>6, <2>1, <2>2, OneCall
  <1>7. ASSUME NEW log, LogOK(TRUE, log), Return(c, "permission_denied"),
               events' = [events EXCEPT ![c] = log], UNCHANGED attempt
        PROVE  IInv'
    <2>1. CallOK("returned", d, attempt[c], effects[c], log, "permission_denied")
      BY <1>1, <1>3, <1>4, <1>7 DEF CallInv, CallOK, Labels, LogOK
    <2>2. /\ pc' = [pc EXCEPT ![c] = "returned"]
          /\ attempt' = [attempt EXCEPT ![c] = attempt[c]]
          /\ result' = [result EXCEPT ![c] = "permission_denied"]
      BY <1>1, <1>7, Same DEF Return, Goto
    <2>3. QED
      BY <1>5, <1>7, <2>1, <2>2, OneCall
  <1>8. CASE d = "auto_allow"
    <2>1. Invoke(c) /\ UNCHANGED <<events, result>>
      BY <1>8 DEF Decide, Granted, Denied
    <2>2. QED
      BY <1>1, <1>2, <1>6, <1>8, <2>1, Same
  <1>9. CASE d \in Granted
    <2>1. Publish(c, <<Decided(d)>>) /\ Invoke(c) /\ UNCHANGED result
      BY <1>9 DEF Decide, Granted, Denied
    <2>2. LogOK(TRUE, events[c] \o <<Decided(d)>>)
      BY <1>2, <1>9, LogGrows, EventTypes
    <2>3. QED
      BY <1>6, <1>9, <2>1, <2>2 DEF Publish
  <1>10. CASE d = "auto_deny"
    <2>1. Fail(c, "permission_denied", 1, <<>>) /\ UNCHANGED attempt
      BY <1>10 DEF Decide, Granted, Denied
    <2>2. LogOK(TRUE, events[c] \o <<Failed("permission_denied", 1)>>)
      BY <1>2, <1>4, LogGrows, EventTypes
    <2>3. events' = [events EXCEPT ![c] = events[c] \o <<Failed("permission_denied", 1)>>]
      BY <2>1 DEF Fail, Publish
    <2>4. QED
      BY <1>7, <2>1, <2>2, <2>3 DEF Fail
  <1>11. CASE d \in Denied
    <2>1. Fail(c, "permission_denied", 1, <<Decided(d)>>) /\ UNCHANGED attempt
      BY <1>11 DEF Decide, Granted, Denied
    <2>2. LogOK(TRUE, events[c] \o <<Decided(d), Failed("permission_denied", 1)>>)
      BY <1>2, <1>4, <1>11, LogGrows, EventTypes
    <2>3. events' = [events EXCEPT ![c] = events[c] \o <<Decided(d), Failed("permission_denied", 1)>>]
      <3>1. Append(<<Decided(d)>>, Failed("permission_denied", 1))
               = <<Decided(d), Failed("permission_denied", 1)>>
        BY <1>4, <1>11, AppendToOne, EventTypes
      <3>2. QED
        BY <2>1, <3>1 DEF Fail, Publish
    <2>4. QED
      BY <1>7, <2>1, <2>2, <2>3 DEF Fail
  <1>12. QED
    BY <1>8, <1>9, <1>10, <1>11 DEF Decisions

(* The tool has answered.                                                  *)
LEMMA SucceedInv ==
    ASSUME IInv, NEW c \in Calls, Succeed(c)
    PROVE  IInv'
  <1> DEFINE log == events[c] \o <<Finished>>
  <1>1. TypeOK /\ CallInv(c)
    BY DEF IInv
  <1>2. LogOK(TRUE, events[c])
    BY <1>1 DEF CallInv, CallOK, LogOK
  <1>3. LogOK(TRUE, log)
    BY <1>2, LogGrows, EventTypes
  <1> HIDE DEF log
  <1>4. pc[c] = "invoking" /\ effects[c] + 1 \in 0 .. attempt[c]
    BY <1>1, InvocationAssumption DEF CallInv, CallOK, Succeed
  <1>5. LogOK("returned" \notin {"idle", "lookup"}, log)
    BY <1>3 DEF LogOK
  <1>6. CallOK("returned", decision[c], attempt[c], effects[c] + 1, log, "ok")
    BY <1>1, <1>4, <1>5 DEF CallInv, CallOK, Labels
  <1>7. /\ pc' = [pc EXCEPT ![c] = "returned"]
        /\ events' = [events EXCEPT ![c] = log]
        /\ decision' = [decision EXCEPT ![c] = decision[c]]
        /\ attempt' = [attempt EXCEPT ![c] = attempt[c]]
        /\ effects' = [effects EXCEPT ![c] = effects[c] + 1]
        /\ result' = [result EXCEPT ![c] = "ok"]
    BY <1>1, Same DEF Succeed, Return, Goto, Publish, Ran, log
  <1>8. QED
    BY <1>6, <1>7, OneCall

(* An attempt fails: it is repeated, or the call fails with it.            *)
LEMMA ToolFailsInv ==
    ASSUME IInv, NEW c \in Calls, NEW e \in ToolErrors, ToolFails(c, e)
    PROVE  IInv'
  <1> DEFINE log == events[c] \o <<Failed(e, attempt[c])>>
  <1>1. TypeOK /\ CallInv(c)
    BY DEF IInv
  <1>2. /\ e \in Errors
        /\ effects[c] + 1 \in 0 .. attempt[c]
        /\ attempt[c] \in 1 .. MaxRetries + 1
    BY <1>1, InvocationAssumption DEF CallInv, CallOK, ToolFails, Errors
  <1>3. decision' = [decision EXCEPT ![c] = decision[c]]
        /\ attempt' = [attempt EXCEPT ![c] = attempt[c]]
        /\ effects' = [effects EXCEPT ![c] = effects[c] + 1]
    BY <1>1, Same DEF ToolFails, Ran
  <1>4. CASE MayRetry(c, e)
    <2>1. LogOK(TRUE, events[c])
      BY <1>1 DEF CallInv, CallOK, LogOK
    <2>2. LogOK(TRUE, log)
      BY <1>2, <2>1, LogGrows, EventTypes
    <2>3. /\ pc' = [pc EXCEPT ![c] = "pausing"]
          /\ events' = [events EXCEPT ![c] = log]
          /\ result' = [result EXCEPT ![c] = result[c]]
      BY <1>1, <1>4, Same DEF ToolFails, Goto, Publish
    <2> HIDE DEF log
    <2>4. LogOK("pausing" \notin {"idle", "lookup"}, log)
      BY <2>2 DEF LogOK
    <2>5. attempt[c] > 0 /\ attempt[c] <= MaxRetries
      BY <1>2, <1>4, InvocationAssumption DEF MayRetry
    <2>6. CallOK("pausing", decision[c], attempt[c], effects[c] + 1, log, result[c])
      BY <1>1, <1>2, <2>4, <2>5 DEF CallInv, CallOK, Labels
    <2>7. QED
      BY <1>3, <2>3, <2>6, OneCall
  <1>5. CASE ~MayRetry(c, e)
    <2>1. Fail(c, e, attempt[c], <<>>) /\ pc[c] # "idle" /\ UNCHANGED attempt
      BY <1>5 DEF ToolFails
    <2>2. decision[c] \in Decisions \cup {"none"}
      BY <1>1 DEF CallInv, CallOK
    <2>3. QED
      BY <1>2, <1>3, <2>1, <2>2, FailInv
  <1>6. QED
    BY <1>4, <1>5

(* An attempt exceeds its time.                                            *)
LEMMA ToolTimesOutInv ==
    ASSUME IInv, NEW c \in Calls, ToolTimesOut(c)
    PROVE  IInv'
  <1>1. TypeOK /\ CallInv(c)
    BY DEF IInv
  <1>2. /\ "timeout" \in Errors
        /\ effects[c] \in 0 .. attempt[c]
        /\ attempt[c] \in 1 .. MaxRetries + 1
        /\ decision[c] \in Decisions \cup {"none"}
    BY <1>1, InvocationAssumption DEF CallInv, CallOK, ToolTimesOut, Errors, ToolErrors
  <1>3. /\ decision' = [decision EXCEPT ![c] = decision[c]]
        /\ effects' = [effects EXCEPT ![c] = effects[c]]
    BY <1>1, Same DEF ToolTimesOut
  <1>4. Fail(c, "timeout", attempt[c], <<>>) /\ pc[c] # "idle" /\ UNCHANGED attempt
    BY DEF ToolTimesOut
  <1>5. QED
    BY <1>2, <1>3, <1>4, FailInv

(* The pause is over.                                                      *)
LEMMA RetryInv ==
    ASSUME IInv, NEW c \in Calls, Retry(c)
    PROVE  IInv'
  <1>1. TypeOK /\ CallInv(c)
    BY DEF IInv
  <1>2. CallOK("invoking", decision[c], attempt[c] + 1, effects[c], events[c], result[c])
    BY <1>1, InvocationAssumption DEF CallInv, CallOK, Retry, Labels, LogOK
  <1>3. /\ pc' = [pc EXCEPT ![c] = "invoking"]
        /\ attempt' = [attempt EXCEPT ![c] = attempt[c] + 1]
        /\ decision' = [decision EXCEPT ![c] = decision[c]]
        /\ effects' = [effects EXCEPT ![c] = effects[c]]
        /\ events' = [events EXCEPT ![c] = events[c]]
        /\ result' = [result EXCEPT ![c] = result[c]]
    BY <1>1, Same DEF Retry, Invoke, Goto
  <1>4. QED
    BY <1>2, <1>3, OneCall

(* The run is cancelled.                                                   *)
LEMMA CancelInv ==
    ASSUME IInv, NEW c \in Calls, Cancel(c)
    PROVE  IInv'
  <1>1. TypeOK /\ CallInv(c)
    BY DEF IInv
  <1>2. CallOK("cancelled", decision[c], attempt[c], effects[c], events[c], result[c])
    BY <1>1, InvocationAssumption DEF CallInv, CallOK, Cancel, Labels, LogOK
  <1>3. /\ pc' = [pc EXCEPT ![c] = "cancelled"]
        /\ attempt' = [attempt EXCEPT ![c] = attempt[c]]
        /\ decision' = [decision EXCEPT ![c] = decision[c]]
        /\ effects' = [effects EXCEPT ![c] = effects[c]]
        /\ events' = [events EXCEPT ![c] = events[c]]
        /\ result' = [result EXCEPT ![c] = result[c]]
    BY <1>1, Same DEF Cancel, Goto
  <1>4. QED
    BY <1>2, <1>3, OneCall
-----------------------------------------------------------------------------
(* The invariant is inductive.                                             *)
LEMMA StepIInv == IInv /\ [Next]_vars => IInv'
  <1> SUFFICES ASSUME IInv, [Next]_vars PROVE IInv'
    OBVIOUS
  <1>1. CASE UNCHANGED vars
    BY <1>1 DEF vars, IInv, TypeOK, CallInv
  <1>2. ASSUME NEW c \in Calls, Start(c) PROVE IInv'
    BY <1>2, StartInv
  <1>3. ASSUME NEW c \in Calls, Cancel(c) PROVE IInv'
    BY <1>3, CancelInv
  <1>4. ASSUME NEW c \in Calls, Proceed(c) PROVE IInv'
    BY <1>4, RejectInv, AskInv, DecideInv, SucceedInv, ToolFailsInv, ToolTimesOutInv, RetryInv
       DEF Proceed
  <1>5. QED
    BY <1>1, <1>2, <1>3, <1>4 DEF Next

(* Hence it holds in every state.                                          *)
LEMMA Invariance == Spec => []IInv
  <1>1. Init => IInv
    BY InitIInv
  <1>2. IInv /\ [Next]_vars => IInv'
    BY StepIInv
  <1>3. QED
    BY <1>1, <1>2, PTL DEF Spec

(* The types are right, and with them the bound 1 + _MAX_RETRIES on the    *)
(* attempts of invoke_tool, for any _MAX_RETRIES.                          *)
THEOREM InvocationTypeCorrect == Spec => []TypeOK
  <1>1. IInv => TypeOK
    BY DEF IInv
  <1>2. QED
    BY <1>1, Invariance, PTL

(* One decision of the permission manager covers the bounded number of     *)
(* attempts of a call, nothing runs without it, and it is asked for once.  *)
THEOREM ConsentBoundsEffects == Spec => []OneConsentBoundsEffects
  <1>1. IInv => OneConsentBoundsEffects
    <2> SUFFICES ASSUME NEW c \in Calls, CallInv(c)
                 PROVE  /\ effects[c] <= attempt[c] /\ attempt[c] <= MaxRetries + 1
                        /\ attempt[c] > 0 => decision[c] \in Granted \cup {"auto_allow"}
                        /\ \A i, j \in DOMAIN events[c] :
                              events[c][i].type = "requested" /\ events[c][j].type = "requested"
                                 => i = j
      BY DEF IInv, OneConsentBoundsEffects
    <2>1. effects[c] <= attempt[c] /\ attempt[c] <= MaxRetries + 1
      BY InvocationAssumption DEF CallInv, CallOK
    <2>2. attempt[c] > 0 => decision[c] \in Granted \cup {"auto_allow"}
      BY DEF CallInv, CallOK
    <2>3. QED
      BY <2>1, <2>2 DEF CallInv, CallOK, LogOK
  <1>2. QED
    BY <1>1, Invariance, PTL
-----------------------------------------------------------------------------
(* What the log tells.                                                     *)

(* Nothing but the start, the question and the decision.                   *)
Calm(log) ==
    /\ log # <<>> /\ log[1] = Started
    /\ \A i \in DOMAIN log : log[i].type \notin {"finished", "failed"}

(* The failures so far are those of the retried attempts up to the k-th;   *)
(* nothing comes between them, so the last n rows tell of the last n.      *)
Graded(log, k) ==
    /\ log # <<>> /\ log[1] = Started
    /\ \A i \in DOMAIN log :
          /\ log[i].type # "finished"
          /\ log[i].type = "failed" =>
                log[i].class \in Retryable /\ log[i].attempt = k - (Len(log) - i)

Told(n, log, r) ==
    /\ log[1] = Started
    /\ log[Len(log)] = IF r = "ok" THEN Finished ELSE Failed(r, IF n = 0 THEN 1 ELSE n)
    /\ \A i \in DOMAIN log : log[i].type = "finished" => i = Len(log)
    /\ \A i \in {j \in DOMAIN log : log[j].type = "failed"} \ {Len(log)} :
          log[i].class \in Retryable /\ log[i].attempt = n - (Len(log) - i)

TellOK(p, n, log, r) ==
    /\ log \in Seq(Event)
    /\ p = "idle" => log = <<>>
    /\ p \in {"lookup", "asking"} => Calm(log)
    /\ p = "invoking" => Graded(log, n - 1)
    /\ p = "pausing" => Graded(log, n)
    /\ p = "returned" => Told(n, log, r)

TellInv == \A c \in Calls : TellOK(pc[c], attempt[c], events[c], result[c])

(* The types of the events.                                                *)
LEMMA TypesTold ==
    /\ Started.type = "started" /\ Requested.type = "requested" /\ Finished.type = "finished"
    /\ \A d : Decided(d).type = "decided"
    /\ \A e, n : /\ Failed(e, n).type = "failed"
                 /\ Failed(e, n).class = e
                 /\ Failed(e, n).attempt = n
  BY DEF Started, Requested, Finished, Decided, Failed

(* A log with one more event.                                              *)
LEMMA OneMore ==
    ASSUME NEW log \in Seq(Event), log # <<>>, log[1] = Started, NEW e \in Event
    PROVE  LET more == log \o <<e>>
           IN  /\ more \in Seq(Event) /\ more # <<>> /\ more[1] = Started
               /\ Len(log) \in Nat /\ Len(more) = Len(log) + 1 /\ more[Len(more)] = e
               /\ DOMAIN log = 1 .. Len(log)
               /\ \A i \in DOMAIN more : i = Len(more) \/ (i \in DOMAIN log /\ more[i] = log[i])
  <1> DEFINE more == log \o <<e>>
             n == Len(log)
  <1>1. n \in Nat /\ n > 0 /\ DOMAIN log = 1 .. n
    BY EmptySeq
  <1>2. more = Append(log, e)
    BY Concatenate
  <1>3. /\ more \in Seq(Event) /\ Len(more) = n + 1 /\ more[n + 1] = e
        /\ \A i \in 1 .. n : more[i] = log[i]
    BY <1>2, AppendProperties
  <1> HIDE DEF more, n
  <1>4. DOMAIN more = 1 .. n + 1 /\ 1 \in 1 .. n
    BY <1>1, <1>3
  <1>5. \A i \in 1 .. n + 1 : i = n + 1 \/ i \in 1 .. n
    BY <1>1
  <1>6. more # <<>> /\ more[1] = Started
    BY <1>1, <1>3, <1>4, EmptySeq
  <1>7. QED
    BY <1>1, <1>3, <1>4, <1>5, <1>6 DEF more, n

(* The question and the decision leave a log calm; a calm log is graded    *)
(* whatever the attempt.                                                   *)
LEMMA CalmGrows ==
    ASSUME NEW log \in Seq(Event), Calm(log)
    PROVE  /\ \A e \in Event : e.type \notin {"finished", "failed"} => Calm(log \o <<e>>)
           /\ \A k : Graded(log, k)
  <1>1. ASSUME NEW e \in Event, e.type \notin {"finished", "failed"}
        PROVE  Calm(log \o <<e>>)
    BY <1>1, OneMore DEF Calm
  <1>2. QED
    BY <1>1 DEF Calm, Graded

(* The last event of a call tells its result.                              *)
LEMMA LastIsTold ==
    ASSUME NEW log \in Seq(Event), NEW n \in Nat, Graded(log, n - 1)
    PROVE  /\ Told(n, log \o <<Finished>>, "ok")
           /\ \A e \in Errors : \A k \in 1 .. MaxRetries + 1 :
                 k = (IF n = 0 THEN 1 ELSE n) => Told(n, log \o <<Failed(e, k)>>, e)
  <1>1. ASSUME NEW e \in Event, NEW r,
               e = IF r = "ok" THEN Finished ELSE Failed(r, IF n = 0 THEN 1 ELSE n)
        PROVE  Told(n, log \o <<e>>, r)
    <2> DEFINE more == log \o <<e>>
    <2>1. /\ more \in Seq(Event) /\ more[1] = Started
          /\ Len(log) \in Nat /\ Len(more) = Len(log) + 1 /\ more[Len(more)] = e
          /\ DOMAIN log = 1 .. Len(log)
          /\ \A i \in DOMAIN more : i = Len(more) \/ (i \in DOMAIN log /\ more[i] = log[i])
      BY OneMore DEF Graded
    <2> HIDE DEF more
    <2>2. \A i \in DOMAIN more : more[i].type = "finished" => i = Len(more)
      BY <2>1 DEF Graded
    <2>3. ASSUME NEW i \in DOMAIN more, more[i].type = "failed", i # Len(more)
          PROVE  more[i].class \in Retryable /\ more[i].attempt = n - (Len(more) - i)
      <3>1. /\ i \in 1 .. Len(log) /\ more[i] = log[i]
            /\ log[i].class \in Retryable /\ log[i].attempt = n - 1 - (Len(log) - i)
        BY <2>1, <2>3 DEF Graded
      <3>2. n - 1 - (Len(log) - i) = n - (Len(more) - i)
        BY <2>1, <3>1
      <3>3. QED
        BY <3>1, <3>2
    <2>4. QED
      BY <1>1, <2>1, <2>2, <2>3 DEF Told, more
  <1>2. "ok" \notin Errors
    BY DEF Errors, ToolErrors
  <1>3. QED
    BY <1>1, <1>2, EventTypes

(* A failure that is retried is one more graded row.                       *)
LEMMA RetriedIsGraded ==
    ASSUME NEW log \in Seq(Event), NEW n \in 1 .. MaxRetries + 1, Graded(log, n - 1),
           NEW e \in Errors, e \in Retryable
    PROVE  Graded(log \o <<Failed(e, n)>>, n)
  <1> DEFINE more == log \o <<Failed(e, n)>>
  <1>1. n \in Int /\ Failed(e, n) \in Event
    BY InvocationAssumption, EventTypes
  <1>2. /\ more \in Seq(Event) /\ more # <<>> /\ more[1] = Started
        /\ Len(log) \in Nat /\ Len(more) = Len(log) + 1 /\ more[Len(more)] = Failed(e, n)
        /\ DOMAIN log = 1 .. Len(log)
        /\ \A i \in DOMAIN more : i = Len(more) \/ (i \in DOMAIN log /\ more[i] = log[i])
    BY <1>1, OneMore DEF Graded
  <1> HIDE DEF more
  <1>3. ASSUME NEW i \in DOMAIN more
        PROVE  /\ more[i].type # "finished"
               /\ more[i].type = "failed" =>
                     more[i].class \in Retryable /\ more[i].attempt = n - (Len(more) - i)
    <2>1. CASE i = Len(more)
      BY <1>1, <1>2, <2>1, TypesTold
    <2>2. CASE i # Len(more)
      <3>1. i \in 1 .. Len(log) /\ more[i] = log[i]
        BY <1>2, <1>3, <2>2
      <3>2. n - 1 - (Len(log) - i) = n - (Len(more) - i)
        BY <1>1, <1>2, <3>1
      <3>3. QED
        BY <1>2, <3>1, <3>2 DEF Graded
    <2>3. QED
      BY <2>1, <2>2
  <1>4. QED
    BY <1>2, <1>3 DEF Graded, more

(* An action of one call keeps TellInv if it keeps it for that call.       *)
LEMMA OneTells ==
    ASSUME IInv, TellInv, NEW c \in Calls, NEW p, NEW n, NEW log, NEW r, TellOK(p, n, log, r),
           pc' = [pc EXCEPT ![c] = p],
           attempt' = [attempt EXCEPT ![c] = n],
           events' = [events EXCEPT ![c] = log],
           result' = [result EXCEPT ![c] = r]
    PROVE  TellInv'
  <1>1. pc'[c] = p /\ attempt'[c] = n /\ events'[c] = log /\ result'[c] = r
    BY DEF IInv, TypeOK
  <1>2. ASSUME NEW b \in Calls \ {c}
        PROVE  /\ pc'[b] = pc[b] /\ attempt'[b] = attempt[b]
               /\ events'[b] = events[b] /\ result'[b] = result[b]
    BY DEF IInv, TypeOK
  <1>3. ASSUME NEW b \in Calls
        PROVE  TellOK(pc'[b], attempt'[b], events'[b], result'[b])
    BY <1>1, <1>2 DEF TellInv
  <1>4. QED
    BY <1>3 DEF TellInv, TellOK, Told, Graded, Calm

(* A failure that ends the call, after calm events or retried attempts.    *)
LEMMA FailTells ==
    ASSUME IInv, TellInv, NEW c \in Calls, NEW e \in Errors, NEW n \in 1 .. MaxRetries + 1,
           Fail(c, e, n, <<>>), UNCHANGED attempt,
           n = (IF attempt[c] = 0 THEN 1 ELSE attempt[c]), Graded(events[c], attempt[c] - 1)
    PROVE  TellInv'
  <1> DEFINE log == events[c] \o <<Failed(e, n)>>
  <1>1. TypeOK /\ attempt[c] \in Nat /\ events[c] \in Seq(Event)
    BY InvocationAssumption DEF IInv, TypeOK
  <1>2. Told(attempt[c], log, e)
    BY <1>1, LastIsTold
  <1>3. log \in Seq(Event)
    BY <1>1, EventTypes, OneMore DEF Graded
  <1>4. /\ pc' = [pc EXCEPT ![c] = "returned"]
        /\ attempt' = [attempt EXCEPT ![c] = attempt[c]]
        /\ events' = [events EXCEPT ![c] = log]
        /\ result' = [result EXCEPT ![c] = e]
    BY <1>1, Same DEF Fail, Return, Goto, Publish
  <1> HIDE DEF log
  <1>5. TellOK("returned", attempt[c], log, e)
    BY <1>2, <1>3 DEF TellOK
  <1>6. QED
    BY <1>4, <1>5, OneTells

(* The permission decision.                                                *)
LEMMA DecideTells ==
    ASSUME IInv, TellInv, NEW c \in Calls, NEW d \in Decisions, Decide(c, d)
    PROVE  TellInv'
  <1>1. TypeOK /\ CallInv(c) /\ events[c] \in Seq(Event)
    BY DEF IInv, TypeOK
  <1>2. pc[c] \in {"lookup", "asking"} /\ attempt[c] = 0 /\ Calm(events[c])
    BY <1>1 DEF TellInv, TellOK, CallInv, CallOK, Decide
  <1>3. \A k : Graded(events[c], k)
    BY <1>1, <1>2, CalmGrows
  <1>4. 1 \in 1 .. MaxRetries + 1 /\ "permission_denied" \in Errors
    BY InvocationAssumption DEF Errors
  <1>5. ASSUME NEW log \in Seq(Event), Calm(log), Invoke(c),
               events' = [events EXCEPT ![c] = log], UNCHANGED result
        PROVE  TellInv'
    <2>1. TellOK("invoking", 1, log, result[c])
      BY <1>5, CalmGrows DEF TellOK
    <2>2. /\ pc' = [pc EXCEPT ![c] = "invoking"]
          /\ attempt' = [attempt EXCEPT ![c] = 1]
          /\ result' = [result EXCEPT ![c] = result[c]]
      BY <1>1, <1>2, <1>5, Same DEF Invoke, Goto
    <2>3. QED
      BY <1>5, <2>1, <2>2, OneTells
  <1>6. CASE d = "auto_allow"
    <2>1. Invoke(c) /\ UNCHANGED <<events, result>>
      BY <1>6 DEF Decide, Granted, Denied
    <2>2. QED
      BY <1>1, <1>2, <1>5, <2>1, Same
  <1>7. CASE d \in Granted
    <2>1. Publish(c, <<Decided(d)>>) /\ Invoke(c) /\ UNCHANGED result
      BY <1>7 DEF Decide, Granted, Denied
    <2>2. events[c] \o <<Decided(d)>> \in Seq(Event) /\ Calm(events[c] \o <<Decided(d)>>)
      BY <1>1, <1>2, <1>7, CalmGrows, EventTypes, TypesTold, OneMore DEF Calm
    <2>3. QED
      BY <1>5, <2>1, <2>2 DEF Publish
  <1>8. CASE d = "auto_deny"
    <2>1. Fail(c, "permission_denied", 1, <<>>) /\ UNCHANGED attempt
      BY <1>8 DEF Decide, Granted, Denied
    <2>2. QED
      BY <1>2, <1>3, <1>4, <2>1, FailTells
  <1>9. CASE d \in Denied
    <2> DEFINE log == events[c] \o <<Decided(d)>>
               more == log \o <<Failed("permission_denied", 1)>>
    <2>1. Fail(c, "permission_denied", 1, <<Decided(d)>>) /\ UNCHANGED attempt
      BY <1>9 DEF Decide, Granted, Denied
    <2>2. Decided(d) \in Event /\ Failed("permission_denied", 1) \in Event
      BY <1>4, <1>9, EventTypes
    <2>3. log \in Seq(Event) /\ Calm(log)
      BY <1>1, <1>2, <2>2, CalmGrows, TypesTold, OneMore DEF Calm
    <2>4. events' = [events EXCEPT ![c] = more]
      <3>1. Append(<<Decided(d)>>, Failed("permission_denied", 1))
               = <<Decided(d), Failed("permission_denied", 1)>>
        BY <2>2, AppendToOne
      <3>2. events' = [events EXCEPT ![c] =
               events[c] \o <<Decided(d), Failed("permission_denied", 1)>>]
        BY <2>1, <3>1 DEF Fail, Publish
      <3>3. log = Append(events[c], Decided(d))
        BY <1>1, <2>2, Concatenate
      <3>4. more = Append(log, Failed("permission_denied", 1))
        <4> HIDE DEF log
        <4>1. QED
          BY <2>2, <2>3, Concatenate
      <3>5. events[c] \o <<Decided(d), Failed("permission_denied", 1)>>
               = Append(Append(events[c], Decided(d)), Failed("permission_denied", 1))
        BY <1>1, <2>2, Concatenate
      <3>6. QED
        BY <3>2, <3>3, <3>4, <3>5
    <2> HIDE DEF log
    <2>5. Told(0, more, "permission_denied") /\ more \in Seq(Event)
      <3>1. Graded(log, 0 - 1)
        BY <2>3, CalmGrows
      <3>2. QED
        BY <1>4, <2>2, <2>3, <3>1, LastIsTold, OneMore DEF Calm
    <2> HIDE DEF more
    <2>6. TellOK("returned", attempt[c], more, "permission_denied")
      BY <1>2, <2>5 DEF TellOK
    <2>7. /\ pc' = [pc EXCEPT ![c] = "returned"]
          /\ attempt' = [attempt EXCEPT ![c] = attempt[c]]
          /\ result' = [result EXCEPT ![c] = "permission_denied"]
      BY <1>1, <2>1, Same DEF Fail, Return, Goto
    <2>8. QED
      BY <2>4, <2>6, <2>7, OneTells
  <1>10. QED
    BY <1>6, <1>7, <1>8, <1>9 DEF Decisions

(* The events of a call are told in order by every action.                 *)
LEMMA StepTells == IInv /\ TellInv /\ [Next]_vars => TellInv'
  <1> SUFFICES ASSUME IInv, TellInv, [Next]_vars PROVE TellInv'
    OBVIOUS
  <1> USE DEF Goto, Publish, Return
  <1>1. TypeOK
    BY DEF IInv
  <1>2. ASSUME NEW c \in Calls
        PROVE  /\ events[c] \in Seq(Event) /\ attempt[c] \in 0 .. MaxRetries + 1
               /\ TellOK(pc[c], attempt[c], events[c], result[c])
               /\ CallInv(c)
    BY <1>1 DEF TypeOK, TellInv, IInv
  <1>3. CASE UNCHANGED vars
    BY <1>3 DEF vars, TellInv, TellOK, Told, Graded, Calm
  <1>4. ASSUME NEW c \in Calls, Start(c) PROVE TellInv'
    <2> DEFINE log == events[c] \o <<Started>>
    <2>1. events[c] = <<>> /\ Started \in Event
      BY <1>2, <1>4, EventTypes DEF Start, TellOK
    <2>2. log = <<Started>>
      BY <2>1
    <2>3. log \in Seq(Event) /\ Len(log) = 1 /\ log[1] = Started
      BY <2>1, <2>2
    <2>4. /\ pc' = [pc EXCEPT ![c] = "lookup"]
          /\ attempt' = [attempt EXCEPT ![c] = attempt[c]]
          /\ events' = [events EXCEPT ![c] = log]
          /\ result' = [result EXCEPT ![c] = result[c]]
      BY <1>1, <1>4, Same DEF Start
    <2> HIDE DEF log
    <2>5. Calm(log)
      <3>1. DOMAIN log = 1 .. 1 /\ log # <<>>
        BY <2>3, EmptySeq
      <3>2. \A i \in DOMAIN log : log[i] = Started
        BY <2>3, <3>1
      <3>3. QED
        BY <2>3, <3>1, <3>2, TypesTold DEF Calm
    <2>6. TellOK("lookup", attempt[c], log, result[c])
      BY <2>3, <2>5 DEF TellOK
    <2>7. QED
      BY <2>4, <2>6, OneTells
  <1>5. ASSUME NEW c \in Calls, NEW e \in {"runtime_error", "schema_error"}, Reject(c, e)
        PROVE  TellInv'
    <2>1. /\ attempt[c] = 0 /\ Calm(events[c]) /\ Fail(c, e, 1, <<>>) /\ UNCHANGED attempt
          /\ e \in Errors /\ 1 \in 1 .. MaxRetries + 1
      BY <1>2, <1>5, InvocationAssumption DEF Reject, TellOK, CallInv, CallOK, Errors, ToolErrors
    <2>2. Graded(events[c], attempt[c] - 1)
      BY <1>2, <2>1, CalmGrows
    <2>3. QED
      BY <2>1, <2>2, FailTells
  <1>6. ASSUME NEW c \in Calls, Ask(c) PROVE TellInv'
    <2> DEFINE log == events[c] \o <<Requested>>
    <2>1. log \in Seq(Event) /\ Calm(log)
      BY <1>2, <1>6, CalmGrows, EventTypes, TypesTold, OneMore DEF Ask, TellOK, Calm
    <2>2. /\ pc' = [pc EXCEPT ![c] = "asking"]
          /\ attempt' = [attempt EXCEPT ![c] = attempt[c]]
          /\ events' = [events EXCEPT ![c] = log]
          /\ result' = [result EXCEPT ![c] = result[c]]
      BY <1>1, <1>6, Same DEF Ask
    <2> HIDE DEF log
    <2>3. TellOK("asking", attempt[c], log, result[c])
      BY <2>1 DEF TellOK
    <2>4. QED
      BY <2>2, <2>3, OneTells
  <1>7. ASSUME NEW c \in Calls, NEW d \in Decisions, Decide(c, d) PROVE TellInv'
    BY <1>7, DecideTells
  <1>8. ASSUME NEW c \in Calls, Succeed(c) PROVE TellInv'
    <2> DEFINE log == events[c] \o <<Finished>>
    <2>1. Graded(events[c], attempt[c] - 1) /\ attempt[c] \in Nat
      BY <1>2, <1>8, InvocationAssumption DEF Succeed, TellOK
    <2>2. log \in Seq(Event) /\ Told(attempt[c], log, "ok")
      BY <1>2, <2>1, LastIsTold, EventTypes, OneMore DEF Graded
    <2>3. /\ pc' = [pc EXCEPT ![c] = "returned"]
          /\ attempt' = [attempt EXCEPT ![c] = attempt[c]]
          /\ events' = [events EXCEPT ![c] = log]
          /\ result' = [result EXCEPT ![c] = "ok"]
      BY <1>1, <1>8, Same DEF Succeed
    <2> HIDE DEF log
    <2>4. TellOK("returned", attempt[c], log, "ok")
      BY <2>2 DEF TellOK
    <2>5. QED
      BY <2>3, <2>4, OneTells
  <1>9. ASSUME NEW c \in Calls, NEW e \in ToolErrors, ToolFails(c, e) PROVE TellInv'
    <2> DEFINE log == events[c] \o <<Failed(e, attempt[c])>>
    <2>1. Graded(events[c], attempt[c] - 1) /\ attempt[c] \in 1 .. MaxRetries + 1 /\ e \in Errors
      BY <1>2, <1>9, InvocationAssumption DEF ToolFails, TellOK, CallInv, CallOK, Errors
    <2>2. CASE MayRetry(c, e)
      <3>1. Graded(log, attempt[c])
        BY <1>2, <2>1, <2>2, RetriedIsGraded DEF MayRetry
      <3>2. log \in Seq(Event)
        BY <1>2, <2>1, EventTypes, OneMore DEF Graded
      <3>3. /\ pc' = [pc EXCEPT ![c] = "pausing"]
            /\ attempt' = [attempt EXCEPT ![c] = attempt[c]]
            /\ events' = [events EXCEPT ![c] = log]
            /\ result' = [result EXCEPT ![c] = result[c]]
        BY <1>1, <1>9, <2>2, Same DEF ToolFails
      <3> HIDE DEF log
      <3>4. TellOK("pausing", attempt[c], log, result[c])
        BY <3>1, <3>2 DEF TellOK
      <3>5. QED
        BY <3>3, <3>4, OneTells
    <2>3. CASE ~MayRetry(c, e)
      <3>1. Fail(c, e, attempt[c], <<>>) /\ UNCHANGED attempt
        BY <1>9, <2>3 DEF ToolFails
      <3>2. attempt[c] = (IF attempt[c] = 0 THEN 1 ELSE attempt[c])
        BY <2>1, InvocationAssumption
      <3>3. QED
        BY <2>1, <3>1, <3>2, FailTells
    <2>4. QED
      BY <2>2, <2>3
  <1>10. ASSUME NEW c \in Calls, ToolTimesOut(c) PROVE TellInv'
    <2>1. /\ Graded(events[c], attempt[c] - 1) /\ attempt[c] \in 1 .. MaxRetries + 1
          /\ "timeout" \in Errors
      BY <1>2, <1>10, InvocationAssumption
         DEF ToolTimesOut, TellOK, CallInv, CallOK, Errors, ToolErrors
    <2>2. Fail(c, "timeout", attempt[c], <<>>) /\ UNCHANGED attempt
      BY <1>10 DEF ToolTimesOut
    <2>3. attempt[c] = (IF attempt[c] = 0 THEN 1 ELSE attempt[c])
      BY <2>1, InvocationAssumption
    <2>4. QED
      BY <2>1, <2>2, <2>3, FailTells
  <1>11. ASSUME NEW c \in Calls, Retry(c) PROVE TellInv'
    <2>1. Graded(events[c], attempt[c]) /\ attempt[c] = (attempt[c] + 1) - 1
      BY <1>2, <1>11, InvocationAssumption DEF Retry, TellOK
    <2>2. TellOK("invoking", attempt[c] + 1, events[c], result[c])
      BY <1>2, <2>1 DEF TellOK
    <2>3. /\ pc' = [pc EXCEPT ![c] = "invoking"]
          /\ attempt' = [attempt EXCEPT ![c] = attempt[c] + 1]
          /\ events' = [events EXCEPT ![c] = events[c]]
          /\ result' = [result EXCEPT ![c] = result[c]]
      BY <1>1, <1>11, Same DEF Retry, Invoke
    <2>4. QED
      BY <2>2, <2>3, OneTells
  <1>12. ASSUME NEW c \in Calls, Cancel(c) PROVE TellInv'
    <2>1. TellOK("cancelled", attempt[c], events[c], result[c])
      BY <1>2 DEF TellOK
    <2>2. /\ pc' = [pc EXCEPT ![c] = "cancelled"]
          /\ attempt' = [attempt EXCEPT ![c] = attempt[c]]
          /\ events' = [events EXCEPT ![c] = events[c]]
          /\ result' = [result EXCEPT ![c] = result[c]]
      BY <1>1, <1>12, Same DEF Cancel
    <2>3. QED
      BY <2>1, <2>2, OneTells
  <1>13. QED
    BY <1>3, <1>4, <1>5, <1>6, <1>7, <1>8, <1>9, <1>10, <1>11, <1>12 DEF Next, Proceed

(* What the log of a returned call says is what the run is told, whatever  *)
(* was retried, for any _MAX_RETRIES.                                      *)
THEOREM ResultIsLogged == Spec => []LogTellsTheResult
  <1>1. Init => TellInv
    <2> SUFFICES ASSUME Init, NEW c \in Calls
                 PROVE  TellOK(pc[c], attempt[c], events[c], result[c])
      BY DEF TellInv
    <2>1. pc[c] = "idle" /\ events[c] = <<>>
      BY DEF Init
    <2>2. QED
      BY <2>1, EmptySeq DEF TellOK
  <1>2. TellInv => LogTellsTheResult
    <2> SUFFICES ASSUME TellInv, NEW c \in Calls, pc[c] = "returned"
                 PROVE  Told(attempt[c], events[c], result[c])
      BY DEF LogTellsTheResult, Told
    <2>1. QED
      BY DEF TellInv, TellOK
  <1>3. QED
    BY <1>1, <1>2, Invariance, StepTells, PTL DEF Spec
=============================================================================
