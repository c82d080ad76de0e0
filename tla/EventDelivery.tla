----------------------------- MODULE EventDelivery -----------------------------
(***************************************************************************)
(* core/events, transport/ipc_broadcaster.py and the event side of         *)
(* core/runner.py and core/app.py: how the events of runs reach clients    *)
(* and the events.jsonl files, and what a client sees that subscribes,     *)
(* with or without a replay, while runs go on.                             *)
(* EventBus.publish calls its handlers in the order of registration: the   *)
(* broadcaster, which awaits drain for each subscriber in turn, then the   *)
(* writer of every run so far, which awaits nothing.  Runs share the bus;  *)
(* each publishes one event at a time.  A step reaches to the next await.  *)
(***************************************************************************)
EXTENDS Naturals, Sequences, SequencesExt

CONSTANTS Runs,       (* the runs of the daemon, each of a session of its own *)
          Clients,    (* connections                                        *)
          Finished,   (* number of the event run.finished; run.started is 1 *)
          NoRun       (* replay_from_run is not given                       *)

(* The event of SessionManager that follows a run.                         *)
Waiting == Finished + 1

ASSUME EventAssumption == Finished \in Nat /\ Finished > 1 /\ NoRun \notin Runs

VARIABLES
    begun,      (* the last event of each run that was handed to the bus    *)
    todo,       (* the subscribers it is still to be pushed to              *)
    inFlight,   (* runs whose event is on the bus                           *)
    dead,       (* subscribers found dead by that push                      *)
    cut,        (* runs that were cancelled or failed                       *)
    open,       (* runs whose EventWriter has its file open                 *)
    file,       (* the lines of each run's events.jsonl: the events of each *)
                (* run in it, in order                                      *)
    persisted,  (* runs whose messages are in thread.jsonl                  *)
    subs,       (* IpcEventBroadcaster._subscriptions                       *)
    client,     (* what each client does                                    *)
    wants,      (* the scope and replay_from_run it subscribed with         *)
    inbox,      (* the events written to its connection, of each run        *)
    done,       (* history: events every handler has had                    *)
    racing      (* history: runs and events that were on the bus while the  *)
                (* client was between the replay and its subscription       *)

busVars    == <<begun, todo, inFlight, dead, cut>>
diskVars   == <<open, file, persisted>>
clientVars == <<subs, client, wants, inbox>>
histVars   == <<done, racing>>
vars       == <<busVars, diskVars, clientVars, histVars>>

(* What a client may ask for: all runs, or one run, from a run's start or  *)
(* from now on.                                                            *)
Requests == [scope : {Runs}, replay : Runs \cup {NoRun}]
              \cup {[scope |-> {r}, replay |-> r] : r \in Runs}
Listens  == {"replaying", "subscribed"}

NoEvents == [r \in Runs |-> <<>>]
-----------------------------------------------------------------------------
Init ==
    /\ begun = [r \in Runs |-> 0]
    /\ todo = [r \in Runs |-> <<>>]
    /\ inFlight = {}
    /\ dead = [r \in Runs |-> {}]
    /\ cut = {}
    /\ open = {}
    /\ file = [r \in Runs |-> NoEvents]
    /\ persisted = {}
    /\ subs = <<>>
    /\ client = [k \in Clients |-> "away"]
    /\ wants \in [Clients -> Requests]
    /\ inbox = [k \in Clients |-> NoEvents]
    /\ done = [r \in Runs |-> {}]
    /\ racing = [k \in Clients |-> {}]

(* A list of clients without those outside K.                              *)
Keep(list, K) ==
    LET kept[i \in 0 .. Len(list)] ==
            IF i = 0 THEN <<>>
            ELSE IF list[i] \in K THEN Append(kept[i - 1], list[i]) ELSE kept[i - 1]
    IN  kept[Len(list)]

(* _matches_scope: session events carry no run_id and are global.          *)
Matches(k, r, n) ==
    IF n = Waiting THEN wants[k].scope = Runs ELSE r \in wants[k].scope

(* The bus takes an event; the broadcaster goes over a copy of the         *)
(* subscriptions.                                                          *)
Take(r, n) ==
    /\ r \notin inFlight
    /\ inFlight' = inFlight \cup {r}
    /\ begun' = [begun EXCEPT ![r] = n]
    /\ todo' = [todo EXCEPT ![r] = Keep(subs, {k \in Clients : Matches(k, r, n)})]
    /\ racing' = [k \in Clients |-> IF client[k] = "replaying"
                                    THEN racing[k] \cup {<<r, n>>} ELSE racing[k]]
    /\ UNCHANGED <<dead, cut, file, persisted, clientVars, done>>

(* run_and_capture opens the run's file, subscribes the writer and         *)
(* publishes run.started; then come the events of the loop.                *)
Publish(r) ==
    /\ r \notin cut
    /\ begun[r] < Finished - 1
    /\ Take(r, begun[r] + 1)
    /\ open' = IF begun[r] = 0 THEN open \cup {r} ELSE open

(* Mutant: a cancelled run tells nothing more.                             *)
FinishUncut(r) ==
    /\ begun[r] \in 1 .. Finished - 1
    /\ r \in open \ cut
    /\ Take(r, Finished)
    /\ UNCHANGED open

(* run.finished comes when the loop has ended or was cancelled, the event  *)
(* of the session when the run's messages are stored.                      *)
Finish(r) ==
    /\ begun[r] \in 1 .. Finished - 1
    /\ r \in open
    /\ Take(r, Finished)
    /\ UNCHANGED open

TellSession(r) ==
    /\ begun[r] = Finished
    /\ r \in persisted \ cut
    /\ Take(r, Waiting)
    /\ UNCHANGED open

(* One subscriber: the line is written and drain returns, or the           *)
(* connection is found to be lost.                                         *)
Push(r) ==
    /\ todo[r] # <<>>
    /\ LET k     == Head(todo[r])
           alive == client[k] \in Listens
       IN  /\ todo' = [todo EXCEPT ![r] = Tail(@)]
           /\ inbox' = IF alive THEN [inbox EXCEPT ![k][r] = Append(@, begun[r])]
                       ELSE inbox
           /\ dead' = IF alive THEN dead ELSE [dead EXCEPT ![r] = @ \cup {k}]
    /\ UNCHANGED <<begun, inFlight, cut, diskVars, subs, client, wants, histVars>>

(* Mutant: a run that was cancelled closes its file at once.               *)
HeardUnlessCut == open \ cut

(* The writers that have their file open take the event.                   *)
Heard == open

(* The last drain has returned: dead connections are dropped, and all open *)
(* files get the event.  After run.finished the run closes its file and    *)
(* appends its messages to the thread, which may fail.                     *)
Deliver(r) ==
    /\ r \in inFlight
    /\ todo[r] = <<>>
    /\ inFlight' = inFlight \ {r}
    /\ subs' = Keep(subs, Clients \ dead[r])
    /\ file' = [x \in Runs |-> IF x \in Heard THEN [file[x] EXCEPT ![r] = Append(@, begun[r])]
                               ELSE file[x]]
    /\ dead' = [dead EXCEPT ![r] = {}]
    /\ done' = [done EXCEPT ![r] = @ \cup {begun[r]}]
    /\ \/ /\ begun[r] = Finished
          /\ open' = open \ {r}
          /\ \/ persisted' = persisted \cup {r} /\ UNCHANGED cut
             \/ cut' = cut \cup {r} /\ UNCHANGED persisted
       \/ begun[r] # Finished /\ UNCHANGED <<open, persisted, cut>>
    /\ UNCHANGED <<begun, todo, client, wants, inbox, racing>>

(* The task of the run is cancelled (agent.run at shutdown).  An event     *)
(* that is on the bus goes no further: the writers come after the          *)
(* broadcaster and do not get it.  run.started and run.finished are        *)
(* published outside the try: the file is closed and the run is over       *)
(* at once, with nothing appended to the thread.                           *)
CancelRun(r) ==
    /\ \/ r \in open \ cut /\ begun[r] < Finished
       \/ r \in inFlight /\ begun[r] >= Finished
    /\ cut' = cut \cup {r}
    /\ inFlight' = inFlight \ {r}
    /\ todo' = [todo EXCEPT ![r] = <<>>]
    /\ dead' = [dead EXCEPT ![r] = {}]
    /\ open' = IF r \in inFlight /\ begun[r] \in {1, Finished} THEN open \ {r} ELSE open
    /\ UNCHANGED <<begun, file, persisted, clientVars, histVars>>

(* Mutant: only the file of a run that has ended is replayed.              *)
ReplayOfEnded(r) == IF r \in {NoRun} \cup open THEN NoEvents ELSE file[r]

Replay(r) == IF r = NoRun THEN NoEvents ELSE file[r]

(* event.subscribe.  _replay_events reads the file and writes its lines at *)
(* once, and awaits drain if there were any; only then is the client       *)
(* subscribed.                                                             *)
Subscribe(k) ==
    /\ client[k] = "away"
    /\ inbox' = [inbox EXCEPT ![k] = Replay(wants[k].replay)]
    /\ \/ /\ inbox'[k] = NoEvents
          /\ client' = [client EXCEPT ![k] = "subscribed"]
          /\ subs' = Append(subs, k)
       \/ /\ inbox'[k] # NoEvents
          /\ client' = [client EXCEPT ![k] = "replaying"]
          /\ UNCHANGED subs
    /\ racing' = [racing EXCEPT ![k] = {<<x, begun[x]>> : x \in inFlight}]
    /\ UNCHANGED <<busVars, diskVars, wants, done>>

(* Mutant: a repeated request subscribes the connection once more.         *)
SubscribedTwice(k) ==
    /\ client[k] \in {"replaying", "leaving"}
    /\ client' = [client EXCEPT ![k] = IF @ = "leaving" THEN "gone" ELSE "subscribed"]
    /\ subs' = subs \o <<k, k>>
    /\ UNCHANGED <<busVars, diskVars, wants, inbox, histVars>>

(* The replay is drained.  The handler subscribes the connection even if   *)
(* it was lost meanwhile.                                                  *)
Subscribed(k) ==
    /\ client[k] \in {"replaying", "leaving"}
    /\ client' = [client EXCEPT ![k] = IF @ = "leaving" THEN "gone" ELSE "subscribed"]
    /\ subs' = Append(subs, k)
    /\ UNCHANGED <<busVars, diskVars, wants, inbox, histVars>>

(* _handle_connection ends.  Nothing that was written to the connection is *)
(* asked for any more.                                                     *)
Disconnect(k) ==
    /\ client[k] \in Listens
    /\ client' = [client EXCEPT ![k] = IF @ = "replaying" THEN "leaving" ELSE "gone"]
    /\ subs' = Keep(subs, Clients \ {k})
    /\ inbox' = [inbox EXCEPT ![k] = NoEvents]
    /\ racing' = [racing EXCEPT ![k] = {}]
    /\ UNCHANGED <<busVars, diskVars, wants, done>>

Next ==
    \/ \E r \in Runs :
          \/ Publish(r)
          \/ Finish(r)
          \/ TellSession(r)
          \/ Push(r)
          \/ Deliver(r)
          \/ CancelRun(r)
    \/ \E k \in Clients :
          \/ Subscribe(k)
          \/ Subscribed(k)
          \/ Disconnect(k)

(* Clients read what is written to them or disconnect, so a drain ends,    *)
(* and a run comes to its end (AgentRun).                                  *)
Spec     == Init /\ [][Next]_vars
FairSpec == /\ Spec
            /\ \A r \in Runs : WF_vars(Push(r) \/ Deliver(r)) /\ WF_vars(Finish(r))
            /\ \A r \in Runs : WF_vars(TellSession(r))
-----------------------------------------------------------------------------
(* Properties.                                                             *)

Events == 1 .. Waiting

TypeOK ==
    /\ begun \in [Runs -> 0 .. Waiting]
    /\ todo \in [Runs -> Seq(Clients)]
    /\ inFlight \subseteq Runs
    /\ dead \in [Runs -> SUBSET Clients]
    /\ cut \subseteq Runs
    /\ open \subseteq Runs
    /\ file \in [Runs -> [Runs -> Seq(Events)]]
    /\ persisted \subseteq Runs
    /\ subs \in Seq(Clients)
    /\ client \in [Clients -> {"away", "leaving", "gone"} \cup Listens]
    /\ wants \in [Clients -> Requests]
    /\ inbox \in [Clients -> [Runs -> Seq(Events)]]
    /\ done \in [Runs -> SUBSET Events]
    /\ racing \in [Clients -> SUBSET (Runs \X Events)]

Rising(rows) == \A i, j \in DOMAIN rows : i < j => rows[i] < rows[j]

(* The run was cancelled while run.started or run.finished was on the bus. *)
Silenced(r) == r \in cut \ inFlight /\ begun[r] \in {1, Finished} \ done[r]

(* The file of a run has the run's own events, each once and in order: all *)
(* that went through the bus.  Once it is closed, run.finished is the last *)
(* of them, whether the loop ended, failed or was cancelled, unless the    *)
(* cancellation came while run.started or run.finished was on the bus.     *)
(* (It also has events of runs that overlap it, since they share the bus.) *)
FileComplete ==
    \A r \in Runs :
        LET own == file[r][r]
        IN  /\ Rising(own)
            /\ Range(own) = done[r] \ {Waiting}
            /\ begun[r] > 0 /\ r \notin open =>
                  Silenced(r) \/ (own # <<>> /\ Last(own) = Finished)

(* A client sees the events of a run in their order and none twice, in     *)
(* what is replayed and what comes live, whichever runs overlap.  If it    *)
(* sees that the session waits, it can read the answer: the messages of    *)
(* the run are in the thread.  (run.finished does not tell.)               *)
SeenInOrder ==
    \A k \in Clients, r \in Runs :
        /\ Rising(inbox[k][r])
        /\ Waiting \in Range(inbox[k][r]) => r \in persisted

(* A client that subscribes with a replay has every event of the run that  *)
(* is in its file, but for those that were on the bus while it was between *)
(* the replay and the subscription.                                        *)
OnlyRacingMissed ==
    \A k \in Clients, r \in Runs :
        client[k] = "subscribed" /\ wants[k].replay = r
            => \A n \in Range(file[r][r]) \ Range(inbox[k][r]) : <<r, n>> \in racing[k]

(* The client follows the run and has seen it start, live or replayed from *)
(* the run's own file.                                                     *)
Follows(k, r) ==
    /\ client[k] = "subscribed"
    /\ r \in wants[k].scope
    /\ wants[k].replay \in {r, NoRun}
    /\ 1 \in Range(inbox[k][r])

(* It sees run.finished then, or goes, unless run.finished was on the bus  *)
(* while it was between the replay and the subscription, or the run was    *)
(* cancelled while it was on the bus (or while run.started was).  (The     *)
(* file of another run may end before the run does.)                       *)
EndIsTold ==
    \A k \in Clients, r \in Runs :
        Follows(k, r) ~>
            \/ client[k] # "subscribed"
            \/ Silenced(r)
            \/ Finished \in Range(inbox[k][r])
            \/ <<r, Finished>> \in racing[k]
=============================================================================
