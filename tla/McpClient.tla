------------------------------- MODULE McpClient -------------------------------
(***************************************************************************)
(* core/mcp: one McpClient, the calls that share its stream, and the part  *)
(* of McpServerManager and McpTool that makes them.  Requests are lines on *)
(* one pipe or socket and so are the answers; one asyncio.Lock is meant to *)
(* keep a request and its answer together.  A call may time out, or be     *)
(* given up by invoke_tool, at every await: its answer then arrives when   *)
(* another call reads.  A step reaches from one await to the next.         *)
(* The MCP server is another program: what it sends is not decided here.   *)
(***************************************************************************)
EXTENDS Naturals, Sequences, SequencesExt

CONSTANTS ToolCalls,    (* the calls of tools                               *)
          Initialize,   (* the call "initialize" of the handshake           *)
          ListTools,    (* the call "tools/list" that follows it            *)
          Nobody,       (* the holder of a free lock; no call               *)
          ServerIds,    (* bound: ids the server may give its own requests  *)
          MaxLines      (* bound: lines the server has sent but nobody read *)

Calls == ToolCalls \cup {Initialize, ListTools}

ASSUME McpAssumption ==
    /\ Initialize # ListTools
    /\ {Initialize, ListTools} \cap ToolCalls = {}
    /\ Nobody \notin Calls
    /\ ServerIds \subseteq Nat \ {0}
    /\ MaxLines \in Nat

VARIABLES
    lastId,    (* McpClient._id                                             *)
    id,        (* req_id of each call, 0 before it starts                   *)
    pc,        (* where each call stands                                    *)
    lock,      (* the call inside "async with self._lock"                   *)
    waiters,   (* the calls queued for the lock                             *)
    stream,    (* lines from the server that are not read yet               *)
    open,      (* the server holds its end of the stream                    *)
    asked,     (* calls whose request the server has                        *)
    answered,  (* calls the server has answered                             *)
    served,    (* ids of the requests the server has sent of its own        *)
    got        (* whose answer each call returned                           *)

callVars   == <<lastId, id, pc, got>>
lockVars   == <<lock, waiters>>
serverVars == <<stream, open, asked, answered, served>>
vars       == <<callVars, lockVars, serverVars>>

Answering == {"result", "error"}
Ended     == {"returned", "mcp_error", "unavailable", "failed", "given_up"}

(* A line: an answer with the id of its request, a request of the server's *)
(* own with an id of its own, a line without an id that is skipped (a      *)
(* notification, or no JSON), or one that cannot be handled: JSON that is  *)
(* no object, or more than _STREAM_LIMIT bytes.                            *)
Line == [kind : Answering \cup {"request", "notice", "bad"}, id : Nat,
         of : Calls \cup {Nobody}]

Answer(c, k) == [kind |-> k, id |-> id[c], of |-> c]
Request(n)   == [kind |-> "request", id |-> n, of |-> Nobody]
Noise(k)     == [kind |-> k, id |-> 0, of |-> Nobody]
-----------------------------------------------------------------------------
Init ==
    /\ lastId = 0
    /\ id = [c \in Calls |-> 0]
    /\ pc = [c \in Calls |-> "idle"]
    /\ lock = Nobody
    /\ waiters = <<>>
    /\ stream = <<>>
    /\ open = TRUE
    /\ asked = {}
    /\ answered = {}
    /\ served = {}
    /\ got = [c \in Calls |-> Nobody]

(* _connect makes the handshake, start_all lists the tools of a server     *)
(* that has answered, and only then are there tools to call.               *)
MayStart(c) ==
    /\ c = ListTools => pc[Initialize] = "returned"
    /\ c \in ToolCalls => pc[ListTools] = "returned"

(* The lock is taken and the line is written; drain is awaited.            *)
Write(c) ==
    /\ lock' = c
    /\ asked' = IF open THEN asked \cup {c} ELSE asked
    /\ UNCHANGED <<stream, open, answered, served>>

(* The id is drawn before the lock is asked for, which is free for a call  *)
(* only if nobody waits for it.                                            *)
Start(c) ==
    /\ pc[c] = "idle"
    /\ MayStart(c)
    /\ lastId' = lastId + 1
    /\ id' = [id EXCEPT ![c] = lastId + 1]
    /\ UNCHANGED got
    /\ \/ /\ lock = Nobody /\ waiters = <<>>
          /\ pc' = [pc EXCEPT ![c] = "writing"]
          /\ Write(c)
          /\ UNCHANGED waiters
       \/ /\ lock # Nobody \/ waiters # <<>>
          /\ pc' = [pc EXCEPT ![c] = "waiting"]
          /\ waiters' = Append(waiters, c)
          /\ UNCHANGED <<lock, serverVars>>

(* A released lock goes to the call that has waited longest.               *)
Granted(c) ==
    /\ lock = Nobody
    /\ waiters # <<>>
    /\ c = Head(waiters)
    /\ waiters' = Tail(waiters)
    /\ pc' = [pc EXCEPT ![c] = "writing"]
    /\ Write(c)
    /\ UNCHANGED <<lastId, id, got>>

(* Mutant: the lock covers the writing only.                               *)
DrainedUnlocked(c) ==
    /\ pc[c] = "writing"
    /\ pc' = [pc EXCEPT ![c] = "reading"]
    /\ lock' = Nobody
    /\ UNCHANGED <<lastId, id, got, waiters, serverVars>>

Drained(c) ==
    /\ pc[c] = "writing"
    /\ pc' = [pc EXCEPT ![c] = "reading"]
    /\ UNCHANGED <<lastId, id, got, lockVars, serverVars>>

(* The call ends and leaves "async with".                                  *)
Leave(c, how) ==
    /\ pc' = [pc EXCEPT ![c] = how]
    /\ lock' = Nobody
    /\ UNCHANGED <<lastId, id, waiters>>

(* Mutant: any line with an id is taken for the call's own answer.         *)
IsAnyAnswer(c, line) == line.kind \in Answering \cup {"request"}

(* Only the id is looked at, not whether the line is an answer at all.     *)
IsOwnAnswer(c, line) == line.kind \in Answering \cup {"request"} /\ line.id = id[c]

(* The loop of _call, once per line: its own answer ends it, answers to    *)
(* others, requests with other ids and lines without an id are skipped; a  *)
(* request has no error and no result, and is taken for an empty result.   *)
ReadLine(c) ==
    /\ pc[c] = "reading"
    /\ stream # <<>>
    /\ stream' = Tail(stream)
    /\ LET line == Head(stream)
       IN  \/ /\ IsOwnAnswer(c, line)
              /\ Leave(c, IF line.kind = "error" THEN "mcp_error" ELSE "returned")
              /\ got' = [got EXCEPT ![c] = line.of]
           \/ /\ line.kind = "bad"
              /\ Leave(c, "failed")
              /\ UNCHANGED got
           \/ /\ line.kind # "bad" /\ ~IsOwnAnswer(c, line)
              /\ UNCHANGED <<callVars, lockVars>>
    /\ UNCHANGED <<open, asked, answered, served>>

(* End of file, or a pipe that breaks under the writer.                    *)
Disconnected(c) ==
    /\ ~open
    /\ \/ pc[c] = "reading" /\ stream = <<>> /\ Leave(c, "unavailable")
       \/ pc[c] = "writing" /\ Leave(c, "failed")
    /\ UNCHANGED <<got, serverVars>>

(* No line for 30 seconds: the deadline may also fire in the pass of the   *)
(* loop in which a line arrives.                                           *)
ReadTimesOut(c) ==
    /\ pc[c] = "reading"
    /\ Leave(c, "unavailable")
    /\ UNCHANGED <<got, serverVars>>

(* Mutant: only a call that reads can be given up.                         *)
GiveUpReading(c) ==
    /\ c \in ToolCalls
    /\ pc[c] = "reading"
    /\ Leave(c, "given_up")
    /\ UNCHANGED <<got, serverVars>>

(* The time limit of invoke_tool, or the cancellation of its run, at any   *)
(* await.  Whatever the server answers stays in the stream.                *)
GiveUp(c) ==
    /\ c \in ToolCalls
    /\ \/ /\ pc[c] = "waiting"
          /\ pc' = [pc EXCEPT ![c] = "given_up"]
          /\ \E i \in DOMAIN waiters :
                waiters[i] = c /\ waiters' = RemoveAt(waiters, i)
          /\ UNCHANGED <<lastId, id, lock>>
       \/ /\ pc[c] \in {"writing", "reading"}
          /\ Leave(c, "given_up")
    /\ UNCHANGED <<got, serverVars>>

(* The server: it answers what it was asked, once, in any order, early,    *)
(* late or never; it says other things; it goes away, of itself or in      *)
(* stop_all.                                                               *)
ServerAnswers(c, k) ==
    /\ open
    /\ c \in asked \ answered
    /\ Len(stream) < MaxLines
    /\ stream' = Append(stream, Answer(c, k))
    /\ answered' = answered \cup {c}
    /\ UNCHANGED <<callVars, lockVars, open, asked, served>>

(* It may send requests too (a ping), whose ids it numbers on its own.     *)
ServerRequests(n) ==
    /\ open
    /\ n \notin served
    /\ Len(stream) < MaxLines
    /\ stream' = Append(stream, Request(n))
    /\ served' = served \cup {n}
    /\ UNCHANGED <<callVars, lockVars, open, asked, answered>>

ServerSays(k) ==
    /\ open
    /\ Len(stream) < MaxLines
    /\ stream' = Append(stream, Noise(k))
    /\ UNCHANGED <<callVars, lockVars, open, asked, answered, served>>

ServerGoes ==
    /\ open
    /\ open' = FALSE
    /\ UNCHANGED <<callVars, lockVars, stream, asked, answered, served>>

Next ==
    \/ \E c \in Calls :
          \/ Start(c)
          \/ Granted(c)
          \/ Drained(c)
          \/ ReadLine(c)
          \/ Disconnected(c)
          \/ ReadTimesOut(c)
          \/ GiveUp(c)
          \/ \E k \in Answering : ServerAnswers(c, k)
    \/ \E n \in ServerIds : ServerRequests(n)
    \/ \E k \in {"notice", "bad"} : ServerSays(k)
    \/ ServerGoes

(* The loop runs what is ready, and invoke_tool's limit fires; the server  *)
(* need not do anything, nor ever fall silent.                             *)
Spec     == Init /\ [][Next]_vars
FairSpec == /\ Spec
            /\ \A c \in Calls : WF_vars(Granted(c)) /\ WF_vars(GiveUp(c))
-----------------------------------------------------------------------------
(* Properties.                                                             *)

TypeOK ==
    /\ lastId \in Nat
    /\ id \in [Calls -> Nat]
    /\ pc \in [Calls -> {"idle", "waiting", "writing", "reading"} \cup Ended]
    /\ lock \in Calls \cup {Nobody}
    /\ waiters \in Seq(Calls)
    /\ stream \in Seq(Line)
    /\ open \in BOOLEAN
    /\ asked \subseteq Calls
    /\ answered \subseteq asked
    /\ served \subseteq ServerIds
    /\ got \in [Calls -> Calls \cup {Nobody}]

(* What a call returns is the server's answer to that very call, however   *)
(* many answers to calls that timed out or were given up come first, or    *)
(* nothing at all, if the server sent a request of its own with the id     *)
(* the call has: never the answer to another call.                         *)
OwnAnswer ==
    \A c \in Calls : pc[c] \in {"returned", "mcp_error"} =>
        got[c] = c \/ (got[c] = Nobody /\ pc[c] = "returned" /\ id[c] \in served)

(* One call at a time is between its request and its answer, so no other   *)
(* call reads away the answer of one that still waits for it.              *)
NoAnswerStolen ==
    \A c \in Calls : pc[c] \in {"writing", "reading"} =>
        /\ lock = c
        /\ c \in answered => \E i \in DOMAIN stream : stream[i].of = c

(* The call of a tool ends, even if the server keeps talking and never     *)
(* answers; what ends it then is the limit of invoke_tool.                 *)
CallEnds == \A c \in ToolCalls : pc[c] # "idle" ~> pc[c] \in Ended
=============================================================================
