---------------------------------- MODULE Chat ---------------------------------
(***************************************************************************)
(* cli/commands/chat.py: the line-oriented client.  One coroutine reads a  *)
(* line, sends it and awaits the reply, over and over, while the event     *)
(* loop of its SocketClient hands events to ChatPrinter.handle.  The line  *)
(* is a decision when a permission request is shown, a message otherwise.  *)
(* Its daemon also runs other sessions, whose requests it is told of.      *)
(* Printing, and lines that are empty or no decision, are left out.        *)
(***************************************************************************)
EXTENDS Naturals, Sequences

CONSTANTS MaxRequests,   (* bound on the requests asked                     *)
          MaxMessages    (* bound on the messages sent                      *)

VARIABLES
    at,        (* the coroutine: "reading", "sending", "deciding", "over"   *)
    shown,     (* printer.pending_permission_id, 0 when None                *)
    inbox,     (* events and replies on their way from the daemon           *)
    running,   (* a run of the chat's own session is under way              *)
    open,      (* requests the permission manager waits for                 *)
    own,       (* those asked by a run of the chat's own session            *)
    asked, sent,
    offered,   (* history: shown, open, and a line being read               *)
    expired    (* history: requests that timed out                          *)

vars == <<at, shown, inbox, running, open, own, asked, sent, offered, expired>>

Init ==
    /\ at = "reading" /\ shown = 0 /\ inbox = <<>> /\ running = FALSE
    /\ open = {} /\ own = {} /\ asked = 0 /\ sent = 0
    /\ offered = {} /\ expired = {}

Offer == offered' = offered \cup
             (IF at' = "reading" /\ shown' \in open' THEN {shown'} ELSE {})
-----------------------------------------------------------------------------
(* A line is a message: the loop awaits the whole run of it.               *)
TypeMessage ==
    /\ at = "reading" /\ shown = 0 /\ sent < MaxMessages
    /\ at' = "sending" /\ running' = TRUE /\ sent' = sent + 1
    /\ UNCHANGED <<shown, inbox, open, own, asked, offered, expired>>

(* A line is a decision on the request shown last.                         *)
TypeDecision ==
    /\ at = "reading" /\ shown # 0
    /\ at' = "deciding" /\ shown' = 0
    /\ open' = open \ {shown}
    /\ inbox' = Append(inbox, <<"result", 0>>)
    /\ UNCHANGED <<running, own, asked, sent, offered, expired>>

(* End of input: the session, which no run holds, is closed.               *)
Leave ==
    /\ at = "reading"
    /\ at' = "over"
    /\ UNCHANGED <<shown, inbox, running, open, own, asked, sent, offered, expired>>

(* ChatPrinter.handle, and the reply that ends what the loop awaits; an    *)
(* error ends the chat.                                                    *)
Hear ==
    /\ inbox # <<>> /\ at # "over"
    /\ inbox' = Tail(inbox)
    /\ LET kind == Head(inbox)[1] IN
         /\ at' = CASE kind = "result" -> "reading"
                    [] kind = "error"  -> "over"
                    [] OTHER           -> at
         /\ shown' = CASE kind = "permission.requested"      -> Head(inbox)[2]
                       [] kind = "session.waiting_for_input" -> 0
                       [] OTHER                              -> shown
    /\ UNCHANGED <<running, open, own, asked, sent, expired>>
    /\ Offer
-----------------------------------------------------------------------------
(* The daemon.  A run asks for one tool call at a time and ends when none  *)
(* of its requests is open; it returns, or raises.                         *)
Ask(mine) ==
    /\ asked < MaxRequests
    /\ mine => running /\ own \cap open = {}
    /\ asked' = asked + 1
    /\ open' = open \cup {asked'}
    /\ own' = IF mine THEN own \cup {asked'} ELSE own
    /\ inbox' = Append(inbox, <<"permission.requested", asked'>>)
    /\ UNCHANGED <<at, shown, running, sent, offered, expired>>

Expire ==
    \E r \in open :
        /\ open' = open \ {r}
        /\ expired' = expired \cup {r}
        /\ UNCHANGED <<at, shown, inbox, running, own, asked, sent, offered>>

RunEnds ==
    /\ running /\ own \cap open = {}
    /\ running' = FALSE
    /\ \/ inbox' = inbox \o << <<"session.waiting_for_input", 0>>, <<"result", 0>> >>
       \/ inbox' = Append(inbox, <<"error", 0>>)
    /\ UNCHANGED <<at, shown, open, own, asked, sent, offered, expired>>

OtherTurnEnds ==
    /\ inbox = <<>> /\ asked > 0
    /\ inbox' = << <<"session.waiting_for_input", 0>> >>
    /\ UNCHANGED <<at, shown, running, open, own, asked, sent, offered, expired>>

Next == \/ TypeMessage \/ TypeDecision \/ Leave \/ Hear
        \/ \E mine \in BOOLEAN : Ask(mine)
        \/ Expire \/ RunEnds \/ OtherTurnEnds

Spec == Init /\ [][Next]_vars
-----------------------------------------------------------------------------
(* A request of the chat's own run times out only after the chat showed it *)
(* while it was reading a line, which would have been the decision.        *)
OwnRequestsDecidable == shown \in own \cap expired => shown \in offered
=============================================================================
