---------------------------------- MODULE Tui ----------------------------------
(***************************************************************************)
(* tui/app.py and the SocketClient it uses: the terminal interface of one  *)
(* user, connected to a daemon whose runs (its own session's and those of  *)
(* other sessions: it subscribes with scope "global") ask for permissions. *)
(* Events and replies come over one stream, in order; an action of the     *)
(* user that awaits a reply in the message pump of the App stops all other *)
(* input until then, one that awaits it in a worker does not.              *)
(*                                                                         *)
(* Other clients (another terminal interface, or kama chat) may answer the *)
(* same requests.  Assumed: a command reaches the daemon at once, and      *)
(* requests, which all have the same time limit, time out in the order     *)
(* they were asked.  Rendering, completion and the events that only print  *)
(* are left out.                                                           *)
(***************************************************************************)
EXTENDS Naturals, Sequences, FiniteSets, SequencesExt

CONSTANTS MaxRequests,  (* bound on the requests asked, by any run          *)
          MaxSends,     (* bound on the messages submitted                  *)
          MaxCompacts,  (* bound on the /compact commands                   *)
          MaxLosses,    (* bound on the connections lost                    *)
          MaxOthers,    (* bound on the session events of other sessions    *)
          MaxBacklog    (* bound on the lines not yet heard when a request  *)
                        (* is asked or ends, or another session changes     *)

ASSUME TuiAssumption == MaxRequests \in Nat

Requests == 1 .. MaxRequests

VARIABLES
    link,        (* _socket_loop: "down", "subscribing", "creating", "up",  *)
                 (* or "dead" when the loop or the App has ended            *)
    busy,        (* _busy                                                   *)
    prompt,      (* the prompt takes input                                  *)
    pending,     (* _pending_permission_blocks                              *)
    selects,     (* the mounted PermissionSelect widgets, oldest first      *)
    awaited,     (* SocketClient._pending: commands without a reply         *)
    inbox,       (* events and replies on their way from the daemon         *)
    subscribed,  (* the daemon sends this connection events                 *)
    holder,      (* the command that holds the lock of the session          *)
    open,        (* requests the permission manager waits for               *)
    asked, sends, compacts, losses, others,  (* counters for the bounds     *)
    heard,       (* history: requests the interface was told of             *)
    picked,      (* history: requests the user has decided                  *)
    overtaken    (* history: requests another client denied while an older  *)
                 (* one was open, and this interface is told of the denial  *)

user    == <<busy, prompt, pending, selects, awaited, heard, picked>>
daemon  == <<subscribed, holder, open, overtaken>>
counts  == <<asked, sends, compacts, losses, others>>
vars    == <<link, user, inbox, daemon, counts>>

None      == <<"none", 0>>
Subscribe == <<"event.subscribe", 0>>
Create    == <<"session.create", 0>>
Close     == <<"session.close", 0>>

Responses == {<<"permission.respond", r>> : r \in Requests}
Connected == link \in {"subscribing", "creating", "up"}

(* The message pump awaits a reply: no key is handled.                     *)
PumpWaits == awaited \cap (Responses \cup {Close}) # {}

(* A command is sent, and handled up to its first await; its future is     *)
(* kept until the reply is heard.                                          *)
Await(command) == awaited' = awaited \cup {command}
Tell(messages) == inbox' = inbox \o messages

(* A second command for the session is refused while one holds the lock.   *)
Refused(command) == Tell(<< <<"error", command>> >>)

(* The daemon reads a command and runs its handler, in a task of its own,  *)
(* up to the first await; a HandlerError is answered at once.              *)
Enter(command) ==
    \/ holder = None /\ holder' = command /\ UNCHANGED inbox
    \/ holder # None /\ Refused(command) /\ UNCHANGED holder

(* The permission manager ignores a decision for a request it no longer    *)
(* has.  The tool call that wakes up tells a denial after the reply.       *)
Respond(r, decision) ==
    /\ open' = open \ {r}
    /\ Tell(<< <<"result", <<"permission.respond", r>> >> >>
             \o IF decision = "deny" /\ r \in open
                THEN << <<"permission.denied", r>> >> ELSE <<>>)

CloseSession ==
    IF holder = None
      THEN Tell(<< <<"session.closed", None>>, <<"result", Close>> >>)
      ELSE Refused(Close)
-----------------------------------------------------------------------------
Init ==
    /\ link = "down" /\ busy = FALSE /\ prompt = FALSE
    /\ pending = {} /\ selects = <<>> /\ awaited = {}
    /\ inbox = <<>>
    /\ subscribed = FALSE /\ holder = None /\ open = {}
    /\ asked = 0 /\ sends = 0 /\ compacts = 0 /\ losses = 0 /\ others = 0
    /\ heard = {} /\ picked = {} /\ overtaken = {}

(* The connection.                                                         *)
Connect ==
    /\ link = "down"
    /\ link' = "subscribing"
    /\ Await(Subscribe)
    /\ subscribed' = TRUE /\ Tell(<< <<"result", Subscribe>> >>)
    /\ UNCHANGED <<busy, prompt, pending, selects, heard, picked, holder, open,
                   overtaken, counts>>

(* The stream ends.  run_event_loop cancels every future: a message's      *)
(* worker just ends, but what awaits in the socket loop ends the loop with *)
(* it, what awaits in the message pump the App.  The runs of the session   *)
(* go on, as runs of another session than the next.                        *)
Lose ==
    /\ Connected /\ losses < MaxLosses
    /\ losses' = losses + 1
    /\ link' = IF PumpWaits \/ link # "up" THEN "dead" ELSE "down"
    /\ awaited' = {} /\ prompt' = FALSE
    /\ inbox' = <<>> /\ subscribed' = FALSE /\ holder' = None
    /\ UNCHANGED <<busy, pending, selects, heard, picked, open, overtaken,
                   asked, sends, compacts, others>>

(* What the user does.  Enter submits what an enabled prompt holds.        *)
Enters == prompt /\ ~PumpWaits

Submit ==
    /\ sends < MaxSends /\ Enters /\ link = "up" /\ ~busy
    /\ sends' = sends + 1
    /\ busy' = TRUE /\ prompt' = FALSE
    /\ Await(<<"session.send_message", sends'>>)
    /\ Enter(<<"session.send_message", sends'>>)
    /\ UNCHANGED <<link, pending, selects, heard, picked, subscribed, open,
                   overtaken, asked, compacts, losses, others>>

Compact ==
    /\ compacts < MaxCompacts /\ Enters /\ link = "up" /\ ~busy
    /\ compacts' = compacts + 1
    /\ Await(<<"session.compact", compacts'>>)
    /\ Enter(<<"session.compact", compacts'>>)
    /\ UNCHANGED <<link, busy, prompt, pending, selects, heard, picked,
                   subscribed, open, overtaken, asked, sends, losses, others>>

(* The prompt returns once nothing is pending.                             *)
Freed(left) == prompt' = (prompt \/ left = {})

(* A key decides for the widget that has the focus, or for the first one.  *)
Decidable(r) == Contains(selects, r)

(* It takes its widget with it.                                            *)
Taken(r) == RemoveAt(selects, CHOOSE i \in DOMAIN selects : selects[i] = r)

(* Allow or deny; whether once or always makes no difference here.         *)
Decisions == {"allow", "deny"}

Pick(r) ==
    /\ Decidable(r) /\ ~PumpWaits /\ link # "dead"
    /\ selects' = Taken(r)
    /\ pending' = pending \ {r}
    /\ picked' = picked \cup {r}
    /\ IF Connected
         THEN /\ Await(<<"permission.respond", r>>)
              /\ \E decision \in Decisions : Respond(r, decision)
              /\ UNCHANGED prompt
         ELSE Freed(pending') /\ UNCHANGED <<awaited, inbox, open>>
    /\ UNCHANGED <<link, busy, heard, subscribed, holder, overtaken, counts>>

Quit ==
    /\ link # "dead" /\ ~PumpWaits
    /\ IF link = "up"
         THEN Await(Close) /\ CloseSession /\ UNCHANGED link
         ELSE link' = "dead" /\ UNCHANGED <<awaited, inbox>>
    /\ UNCHANGED <<busy, prompt, pending, selects, heard, picked, daemon, counts>>
-----------------------------------------------------------------------------
(* A run ends: its session waits for input, then the command returns.      *)
(* A compaction, or a run that raises, only returns.                       *)
TurnWaits ==
    /\ holder[1] = "session.send_message"
    /\ inbox' = Append(inbox, <<"session.waiting_for_input", None>>)
    /\ holder' = <<"leaving", holder[2]>>
    /\ UNCHANGED <<link, user, subscribed, open, overtaken, counts>>

TurnReturns ==
    /\ holder[1] = "leaving"
    /\ inbox' = Append(inbox, <<"result", <<"session.send_message", holder[2]>> >>)
    /\ holder' = None
    /\ UNCHANGED <<link, user, subscribed, open, overtaken, counts>>

CommandEnds ==
    /\ holder[1] \in {"session.send_message", "session.compact"}
    /\ \E how \in {"error"} \cup (IF holder[1] = "session.compact" THEN {"result"} ELSE {}) :
          inbox' = Append(inbox, <<how, holder>>)
    /\ holder' = None
    /\ UNCHANGED <<link, user, subscribed, open, overtaken, counts>>

(* Runs ask (a request nobody is told of is left out); a request times     *)
(* out, or is cancelled with the run that asked.                           *)
Ask ==
    /\ asked < MaxRequests /\ subscribed /\ Len(inbox) < MaxBacklog
    /\ asked' = asked + 1
    /\ open' = open \cup {asked'}
    /\ inbox' = Append(inbox, <<"permission.requested", asked'>>)
    /\ UNCHANGED <<link, user, subscribed, holder, overtaken, sends, compacts,
                   losses, others>>

Expires ==
    \E r \in open :
        /\ \A o \in open : r <= o
        /\ Len(inbox) < MaxBacklog
        /\ open' = open \ {r}
        /\ inbox' = IF subscribed THEN Append(inbox, <<"permission.denied", r>>) ELSE inbox
        /\ UNCHANGED <<link, user, subscribed, holder, overtaken, counts>>

Vanishes ==
    \E r \in open :
        /\ open' = open \ {r}
        /\ UNCHANGED <<link, user, inbox, subscribed, holder, overtaken, counts>>

(* Another client decides a request, in any order.  Only a denial is told  *)
(* to this interface in an event it handles: the request that was allowed  *)
(* stays on its screen.                                                    *)
AnsweredElsewhere ==
    \E r \in open, decision \in Decisions :
        LET told == decision = "deny" /\ subscribed
        IN  /\ Len(inbox) < MaxBacklog
            /\ open' = open \ {r}
            /\ inbox' = IF told THEN Append(inbox, <<"permission.denied", r>>) ELSE inbox
            /\ overtaken' = IF told /\ \E o \in open : o < r
                              THEN overtaken \cup {r} ELSE overtaken
            /\ UNCHANGED <<link, user, subscribed, holder, counts>>

(* Another session's turn ends, or another client closes its session.      *)
OtherSession ==
    /\ others < MaxOthers /\ subscribed /\ Len(inbox) < MaxBacklog
    /\ others' = others + 1
    /\ \E event \in {"session.waiting_for_input", "session.closed"} :
          inbox' = Append(inbox, <<event, None>>)
    /\ UNCHANGED <<link, user, daemon, asked, sends, compacts, losses>>
-----------------------------------------------------------------------------
(* What the interface does with a line of the stream, and what the daemon  *)
(* answers to what it sends in turn.                                       *)
Hear(message, answers) ==
    /\ inbox # <<>> /\ message = Head(inbox)
    /\ inbox' = Tail(inbox) \o answers
    /\ UNCHANGED <<daemon, counts>>

HearsSession ==
    \E event \in {"session.waiting_for_input", "session.closed"} :
        /\ Hear(<<event, None>>, <<>>)
        /\ busy' = FALSE
        /\ prompt' = (event = "session.waiting_for_input")
        /\ UNCHANGED <<link, pending, selects, awaited, heard, picked>>

HearsRequested ==
    \E r \in Requests :
        /\ Hear(<<"permission.requested", r>>, <<>>)
        /\ pending' = pending \cup {r}
        /\ selects' = Append(selects, r)
        /\ prompt' = FALSE
        /\ heard' = heard \cup {r}
        /\ UNCHANGED <<link, busy, awaited, picked>>

(* query_one takes the first select, whoever's it is.                      *)
OneLess == IF selects = <<>> THEN selects ELSE Tail(selects)

(* Mutant: the widget goes whether or not the request was pending.         *)
DropDeniedAlways(r) ==
    /\ pending' = pending \ {r}
    /\ selects' = OneLess
    /\ Freed(pending')

(* A request the user has decided is not pending any more.                 *)
DropDenied(r) ==
    IF r \in pending
      THEN /\ pending' = pending \ {r}
           /\ selects' = OneLess
           /\ Freed(pending')
      ELSE UNCHANGED <<pending, selects, prompt>>

HearsDenied ==
    \E r \in Requests :
        /\ Hear(<<"permission.denied", r>>, <<>>)
        /\ DropDenied(r)
        /\ UNCHANGED <<link, busy, awaited, heard, picked>>

(* A reply resolves its future, and what awaits it goes on.                *)
Replied(how, command, answers) ==
    /\ Hear(<<how, command>>, answers)
    /\ command \in awaited

HearsJoined ==
    \/ /\ Replied("result", Subscribe, << <<"result", Create>> >>)
       /\ link' = "creating"
       /\ awaited' = (awaited \ {Subscribe}) \cup {Create}
       /\ UNCHANGED <<busy, prompt, pending, selects, heard, picked>>
    \/ /\ Replied("result", Create, <<>>)
       /\ link' = "up" /\ prompt' = TRUE
       /\ awaited' = awaited \ {Create}
       /\ UNCHANGED <<busy, pending, selects, heard, picked>>

(* A message that is refused, or whose run raised, gives the prompt back.  *)
(* Mutant: an error reply is shown and nothing else.                       *)
AfterSendShown(how) == UNCHANGED <<busy, prompt>> /\ how \in {"result", "error"}

AfterSend(how) ==
    IF how = "error" THEN busy' = FALSE /\ prompt' = TRUE ELSE UNCHANGED <<busy, prompt>>

HearsSent ==
    \E m \in 1 .. MaxSends, how \in {"result", "error"} :
        /\ Replied(how, <<"session.send_message", m>>, <<>>)
        /\ awaited' = awaited \ {<<"session.send_message", m>>}
        /\ AfterSend(how)
        /\ UNCHANGED <<link, pending, selects, heard, picked>>

HearsCompacted ==
    \E c \in 1 .. MaxCompacts, how \in {"result", "error"} :
        /\ Replied(how, <<"session.compact", c>>, <<>>)
        /\ awaited' = awaited \ {<<"session.compact", c>>}
        /\ UNCHANGED <<link, busy, prompt, pending, selects, heard, picked>>

HearsResponded ==
    \E r \in Requests :
        /\ Replied("result", <<"permission.respond", r>>, <<>>)
        /\ awaited' = awaited \ {<<"permission.respond", r>>}
        /\ Freed(pending)
        /\ UNCHANGED <<link, busy, pending, selects, heard, picked>>

HearsClosed ==
    \E how \in {"result", "error"} :
        /\ Replied(how, Close, <<>>)
        /\ awaited' = {} /\ link' = "dead"
        /\ UNCHANGED <<busy, prompt, pending, selects, heard, picked>>
-----------------------------------------------------------------------------
User   == Submit \/ Compact \/ Quit \/ \E r \in Requests : Pick(r)
Hears  == HearsSession \/ HearsRequested \/ HearsDenied \/ HearsJoined \/ HearsSent
          \/ HearsCompacted \/ HearsResponded \/ HearsClosed
Serves == TurnReturns \/ CommandEnds

(* What happens after the interface has ended is not followed.             *)
Next == /\ link # "dead"
        /\ \/ Connect \/ Lose \/ User \/ Hears \/ Serves \/ TurnWaits
           \/ Ask \/ Expires \/ Vanishes \/ AnsweredElsewhere \/ OtherSession

(* The daemon serves every command and ends every run, and both event      *)
(* loops go on; nothing is asked of the user or the network.               *)
Spec == /\ Init /\ [][Next]_vars
        /\ WF_vars(link # "dead" /\ Hears)
        /\ WF_vars(link # "dead" /\ Serves)
-----------------------------------------------------------------------------
(* Every request the interface was told of and the permission manager      *)
(* still waits for blocks the prompt until the user has decided it, and    *)
(* has a widget to decide it by: no time-out, lost connection, answer to   *)
(* another request or denial in its turn takes that widget away.  A denial *)
(* heard takes the first widget, whoever's it is, so one that another      *)
(* client gave out of turn may leave an open request without: at most one  *)
(* request for each such denial, whatever is heard and decided after it.   *)
Undecided   == (open \cap heard) \ picked
Undecidable == {r \in Undecided : ~Contains(selects, r)}

OpenRequestsShown ==
    /\ Undecided \subseteq pending
    /\ Cardinality(Undecidable) <= Cardinality(overtaken)

(* A message that was submitted ends with an interface that takes another, *)
(* its prompt given back, whether the message was run, refused because a   *)
(* compaction held the session, or failed, unless the connection is lost   *)
(* or the App ends.                                                        *)
Submitted == /\ link = "up" /\ busy
             /\ \E m \in 1 .. MaxSends : <<"session.send_message", m>> \in awaited

PromptComesBack == Submitted ~> ((~busy /\ prompt) \/ link # "up")
=============================================================================
