----------------------------- MODULE AgentRunProofs -----------------------------
(***************************************************************************)
(* Proofs about AgentRun for any number of messages, steps, calls and      *)
(* streams: what is sent to the LLM is well formed, a run works on its own *)
(* message, its outcome is that of its last reply, and what it produced is *)
(* kept.                                                                   *)
(***************************************************************************)
EXTENDS AgentRun, SequenceTheorems, WellFoundedInduction, TLAPS

Kinds == {"message", "reply", "results", "summary", "ack"}
Rows  == [kind : Kinds, ids : SUBSET Ids, of : UserMessages \cup {NoMessage}]

TypeInv ==
    /\ thread \in Seq(Rows) /\ context \in Seq(Rows) /\ made \in Seq(Rows)
    /\ sent \subseteq UserMessages
    /\ run \in sent \cup {NoMessage}
    /\ phase \in {"idle", "step", "chat", "act", "check", "compact", "end"}
    /\ prefill \in Nat
    /\ step \in 0 .. MaxSteps
    /\ outcome \in Outcomes
    /\ stop \in StopReasons \cup {"none"}
    /\ calls \in 0 .. MaxCalls
    /\ next \in 0 .. MaxCalls + 1
    /\ attempt \in 0 .. MaxStreams
    /\ lost \subseteq sent

(* What is known of the outcome and the counters at each phase.            *)
StageInv ==
    /\ phase = "idle" <=> run = NoMessage
    /\ phase \in {"step", "compact"} => step < MaxSteps
    /\ phase \in {"chat", "act", "check"} => step > 0
    /\ phase \in {"step", "chat", "act", "check", "compact"} => outcome = "running"
    /\ phase \in {"step", "chat", "compact"} => stop # "end_turn"
    /\ phase = "act" => stop = "tool_use" /\ 1 <= next /\ next <= calls
    /\ EndTurnWins

(* The results in rows follow the reply they belong to, and no two replies *)
(* request the same tool_use.                                              *)
Paired(rows) ==
    /\ \A j \in DOMAIN rows : rows[j].kind = "results" =>
          j > 1 /\ rows[j - 1].kind = "reply" /\ rows[j].ids \subseteq rows[j - 1].ids
    /\ \A i, j \in DOMAIN rows :
          rows[i].kind = "reply" /\ rows[j].kind = "reply" /\ rows[i].ids \cap rows[j].ids # {}
             => i = j

(* Every tool_use of the first n rows has its result in the next row.      *)
Balanced(rows, n) ==
    \A i \in 1 .. n :
        rows[i].kind = "reply" /\ rows[i].ids # {} =>
            i < Len(rows) /\ rows[i + 1].kind = "results" /\ rows[i + 1].ids = rows[i].ids

Starts(rows) == rows # <<>> => FromUser(rows[1])

(* While tools are invoked, the last reply has results up to the next one. *)
Uses(n) == {ToolUse(i) : i \in 1 .. n}

Acting(rows) ==
    \/ /\ next = 1
       /\ rows # <<>>
       /\ rows[Len(rows)].kind = "reply" /\ rows[Len(rows)].ids = Uses(calls)
       /\ Balanced(rows, Len(rows) - 1)
    \/ /\ next > 1
       /\ Len(rows) > 1
       /\ rows[Len(rows)].kind = "results" /\ rows[Len(rows)].ids = Uses(next - 1)
       /\ rows[Len(rows) - 1].kind = "reply" /\ rows[Len(rows) - 1].ids = Uses(calls)
       /\ Balanced(rows, Len(rows) - 2)

(* The rows have tool_use ids of sent messages only, of this run those of  *)
(* the steps so far.                                                       *)
Fresh(rows) ==
    \A i \in DOMAIN rows : \A x \in rows[i].ids :
        /\ x[1] \in sent
        /\ x[1] = run => x[2] <= step /\ (phase = "chat" => x[2] < step)

RowsInv(rows) ==
    /\ Paired(rows)
    /\ Fresh(rows)
    /\ phase \in {"step", "chat", "check", "compact"} \/ (phase = "end" /\ outcome # "cancelled")
          => Balanced(rows, Len(rows))
    /\ phase = "act" => Acting(rows)

(* No run before this one filled its context.                              *)
Clean == sent \cap Compacting \subseteq {run}

ThreadInv ==
    /\ Starts(thread)
    /\ phase # "idle" => thread # <<>>
    /\ \A i \in DOMAIN thread : \A x \in thread[i].ids : x[1] \in sent \ {run}
    /\ Clean => Paired(thread)

ContextInv ==
    phase # "idle" => /\ context # <<>> /\ Starts(context)
                      /\ Fresh(context)
                      /\ Clean => RowsInv(context)

MadeInv ==
    phase # "idle" =>
        /\ RowsInv(made)
        /\ made # <<>> => made[1].kind = "reply"
        /\ \A i \in DOMAIN made : \A x \in made[i].ids : x[1] = run

(* What the run produced is the end of its context.                        *)
TailInv ==
    phase # "idle" /\ run \notin Compacting =>
        /\ Len(context) = prefill + Len(made)
        /\ \A i \in 1 .. Len(made) : context[prefill + i] = made[i]

SeesInv ==
    phase # "idle" /\ OpenIds(thread, Len(thread)) = {} =>
        \E i \in DOMAIN context :
            context[i].of = run /\ context[i].kind \in {"message", "summary"}

LastInv ==
    phase = "compact" => run \in Compacting /\ context[Len(context)].kind = "results"

(* A check that may lead to a compaction comes after results.              *)
CheckInv ==
    phase = "check" /\ stop = "tool_use" => context[Len(context)].kind = "results"

IInv ==
    /\ TypeInv
    /\ StageInv
    /\ ThreadInv
    /\ ContextInv
    /\ MadeInv
    /\ TailInv
    /\ SeesInv
    /\ LastInv
    /\ CheckInv
-----------------------------------------------------------------------------
(* A set of numbers with a bound has a greatest member.                    *)
LEMMA MaxIsGreatest ==
    ASSUME NEW n \in Nat, NEW S \in SUBSET (0 .. n), S # {}
    PROVE  Max(S) \in S /\ \A y \in S : y <= Max(S)
  <1> DEFINE T == {k \in Nat : n - k \in S}
  <1>1. T \subseteq Nat /\ T # {}
    <2>1. PICK x \in S : TRUE
      OBVIOUS
    <2>2. n - x \in Nat /\ n - (n - x) = x
      OBVIOUS
    <2>3. QED
      BY <2>1, <2>2
  <1>2. \E x \in T : \A y \in T : ~ (<<y, x>> \in OpToRel(<, Nat))
    <2> HIDE DEF T
    <2>1. QED
      BY <1>1, NatLessThanWellFounded, WFMin
  <1>3. PICK k \in T : \A y \in T : ~ (y < k)
    BY <1>1, <1>2 DEF OpToRel
  <1>4. \A y \in S : y <= n - k
    <2> SUFFICES ASSUME NEW y \in S PROVE y <= n - k
      OBVIOUS
    <2>1. n - y \in T
      OBVIOUS
    <2>2. QED
      BY <1>3, <2>1
  <1>5. \E x \in S : \A y \in S : x >= y
    BY <1>3, <1>4
  <1>6. QED
    BY <1>5 DEF Max

(* What OpenIds = {} says.                                                 *)
LEMMA ClosedIds ==
    ASSUME NEW rows \in Seq(Rows), NEW n \in 0 .. Len(rows)
    PROVE  OpenIds(rows, n) = {} <=>
             \A i \in 1 .. n : rows[i].kind = "reply" =>
                \A x \in rows[i].ids :
                   \E j \in i + 1 .. n : rows[j].kind = "results" /\ x \in rows[j].ids
  <1> DEFINE R(i) == {rows[j].ids : j \in {k \in i + 1 .. n : rows[k].kind = "results"}}
             I == {k \in 1 .. n : rows[k].kind = "reply"}
  <1>1. OpenIds(rows, n) = UNION {rows[i].ids \ UNION R(i) : i \in I}
    BY DEF OpenIds
  <1>2. \A i : \A x : x \in UNION R(i) <=>
           \E j \in i + 1 .. n : rows[j].kind = "results" /\ x \in rows[j].ids
    OBVIOUS
  <1>3. OpenIds(rows, n) = {} <=> \A i \in I : \A x \in rows[i].ids : x \in UNION R(i)
    <2> HIDE DEF R, I
    <2>1. QED
      BY <1>1
  <1> HIDE DEF R
  <1>4. QED
    BY <1>2, <1>3

(* read_messages keeps a prefix in which every tool_use is answered, and   *)
(* all of the thread if that is one.                                       *)
LEMMA ReadIsPrefix ==
    ASSUME NEW rows \in Seq(Rows), Starts(rows)
    PROVE  \E k \in 0 .. Len(rows) :
              /\ ReadMessages(rows) = SubSeq(rows, 1, k)
              /\ OpenIds(rows, k) = {}
              /\ OpenIds(rows, Len(rows)) = {} => k = Len(rows)
              /\ rows # <<>> => k > 0
  <1>1. CASE OpenIds(rows, Len(rows)) = {}
    <2>1. ReadMessages(rows) = SubSeq(rows, 1, Len(rows))
      BY <1>1, SubSeqFull DEF ReadMessages
    <2>2. QED
      BY <1>1, <2>1, EmptySeq
  <1>2. CASE OpenIds(rows, Len(rows)) # {}
    <2> DEFINE S == {n \in 0 .. Len(rows) : OpenIds(rows, n) = {}}
    <2>1. 0 \in S
      BY ClosedIds
    <2>2. rows # <<>> => 1 \in S
      BY ClosedIds, EmptySeq DEF Starts, FromUser
    <2>3. Max(S) \in S /\ \A y \in S : y <= Max(S)
      <3> HIDE DEF S
      <3>1. S \in SUBSET (0 .. Len(rows))
        BY DEF S
      <3>2. Len(rows) \in Nat /\ S # {}
        BY <2>1
      <3>3. QED
        BY <3>1, <3>2, MaxIsGreatest
    <2>4. ReadMessages(rows) = SubSeq(rows, 1, Max(S))
      BY <1>2 DEF ReadMessages
    <2> HIDE DEF S
    <2>5. Max(S) \in 0 .. Len(rows) /\ OpenIds(rows, Max(S)) = {}
      BY <2>3 DEF S
    <2>6. rows # <<>> => Max(S) > 0
      BY <2>2, <2>3, <2>5
    <2>7. QED
      BY <1>2, <2>4, <2>5, <2>6
  <1>3. QED
    BY <1>1, <1>2

(* Rows that start, pair and balance are what the API accepts.             *)
LEMMA AcceptedRows ==
    ASSUME NEW rows \in Seq(Rows), Starts(rows), Paired(rows), Balanced(rows, Len(rows))
    PROVE  WellFormed(rows)
  <1>1. \A i \in DOMAIN rows : i \in 1 .. Len(rows) /\ i > 0
    OBVIOUS
  <1>2. QED
    BY <1>1 DEF Starts, Paired, Balanced, WellFormed

(* What a prefix keeps of the rows.                                        *)
LEMMA PrefixFacts ==
    ASSUME NEW rows \in Seq(Rows), NEW k \in 0 .. Len(rows)
    PROVE  /\ SubSeq(rows, 1, k) \in Seq(Rows)
           /\ Len(SubSeq(rows, 1, k)) = k
           /\ \A i \in 1 .. k : SubSeq(rows, 1, k)[i] = rows[i]
           /\ Starts(rows) => Starts(SubSeq(rows, 1, k))
           /\ Paired(rows) => Paired(SubSeq(rows, 1, k))
  <1>1. /\ SubSeq(rows, 1, k) \in Seq(Rows)
        /\ Len(SubSeq(rows, 1, k)) = k
        /\ \A i \in 1 .. k : SubSeq(rows, 1, k)[i] = rows[i]
    BY SubSeqProperties, ElementOfSeq
  <1> DEFINE r == SubSeq(rows, 1, k)
  <1> HIDE DEF r
  <1>2. Starts(rows) => Starts(r)
    BY <1>1, EmptySeq DEF r, Starts
  <1>3. ASSUME Paired(rows) PROVE Paired(r)
    <2>1. DOMAIN r = 1 .. k /\ DOMAIN rows = 1 .. Len(rows) /\ \A i \in 1 .. k : r[i] = rows[i]
      BY <1>1 DEF r
    <2>2. \A j \in 1 .. k : j > 1 => j - 1 \in 1 .. k
      OBVIOUS
    <2>3. QED
      BY <1>3, <2>1, <2>2 DEF Paired
  <1>4. QED
    BY <1>1, <1>2, <1>3 DEF r

(* A prefix of paired rows without an open tool_use is balanced.           *)
LEMMA ClosedIsBalanced ==
    ASSUME NEW rows \in Seq(Rows), NEW k \in 0 .. Len(rows),
           Paired(rows), OpenIds(rows, k) = {}
    PROVE  Balanced(SubSeq(rows, 1, k), k)
  <1>1. ASSUME NEW i \in 1 .. k, rows[i].kind = "reply", NEW x \in rows[i].ids
        PROVE  i < k /\ rows[i + 1].kind = "results" /\ x \in rows[i + 1].ids
    <2>1. PICK j \in i + 1 .. k : rows[j].kind = "results" /\ x \in rows[j].ids
      BY <1>1, ClosedIds
    <2>2. j - 1 \in DOMAIN rows /\ i \in DOMAIN rows /\ j \in DOMAIN rows
      OBVIOUS
    <2>3. rows[j - 1].kind = "reply" /\ x \in rows[j - 1].ids
      BY <2>1, <2>2 DEF Paired
    <2>4. j - 1 = i
      BY <1>1, <2>2, <2>3 DEF Paired
    <2>5. QED
      BY <2>1, <2>4
  <1>2. ASSUME NEW i \in 1 .. k, rows[i].kind = "reply", rows[i].ids # {}
        PROVE  i < k /\ rows[i + 1].kind = "results" /\ rows[i + 1].ids = rows[i].ids
    <2>1. i < k /\ rows[i + 1].kind = "results" /\ rows[i].ids \subseteq rows[i + 1].ids
      BY <1>1, <1>2
    <2>2. rows[i + 1].ids \subseteq rows[i].ids
      <3>1. i + 1 \in DOMAIN rows /\ (i + 1) - 1 = i
        BY <2>1
      <3>2. QED
        BY <2>1, <3>1 DEF Paired
    <2>3. QED
      BY <2>1, <2>2
  <1>3. QED
    <2>1. \A i \in 1 .. k : i < k => i + 1 \in 1 .. k
      OBVIOUS
    <2>2. QED
      BY <1>2, <2>1, PrefixFacts DEF Balanced
-----------------------------------------------------------------------------
(* Growing rows.                                                           *)

Disjoint(rows, msg) ==
    \A i \in DOMAIN rows : rows[i].kind = "reply" => rows[i].ids \cap msg.ids = {}

(* What Append does to rows.                                               *)
LEMMA AppendFacts ==
    ASSUME NEW rows \in Seq(Rows), NEW msg \in Rows
    PROVE  /\ Append(rows, msg) \in Seq(Rows)
           /\ Append(rows, msg) # <<>>
           /\ Len(Append(rows, msg)) = Len(rows) + 1
           /\ DOMAIN Append(rows, msg) = 1 .. Len(rows) + 1
           /\ \A i \in 1 .. Len(rows) : Append(rows, msg)[i] = rows[i]
           /\ Append(rows, msg)[Len(rows) + 1] = msg
  BY AppendProperties

(* One more row leaves the balance of those before it.                     *)
LEMMA AppendKeepsBalance ==
    ASSUME NEW rows \in Seq(Rows), NEW msg \in Rows, NEW n \in 0 .. Len(rows),
           Balanced(rows, n)
    PROVE  Balanced(Append(rows, msg), n)
  BY AppendFacts DEF Balanced

(* A reply with new ids, or the results of the last reply, keep the pairs. *)
LEMMA AppendKeepsPairs ==
    ASSUME NEW rows \in Seq(Rows), NEW msg \in Rows, Paired(rows),
           msg.kind = "reply" => Disjoint(rows, msg),
           msg.kind = "results" => /\ rows # <<>>
                                   /\ rows[Len(rows)].kind = "reply"
                                   /\ msg.ids \subseteq rows[Len(rows)].ids
    PROVE  Paired(Append(rows, msg))
  <1> DEFINE r == Append(rows, msg)
             n == Len(rows) + 1
  <1>1. /\ n \in Nat /\ n > 0
        /\ DOMAIN r = 1 .. n /\ DOMAIN rows = 1 .. n - 1
        /\ \A i \in 1 .. n - 1 : r[i] = rows[i]
        /\ r[n] = msg
    BY AppendFacts
  <1>2. rows # <<>> => n > 1
    BY EmptySeq
  <1> HIDE DEF r, n
  <1>3. ASSUME NEW j \in 1 .. n, r[j].kind = "results"
        PROVE  j > 1 /\ r[j - 1].kind = "reply" /\ r[j].ids \subseteq r[j - 1].ids
    <2>1. CASE j = n
      <3>1. n - 1 = Len(rows)
        BY DEF n
      <3>2. QED
        BY <1>1, <1>2, <1>3, <2>1, <3>1
    <2>2. CASE j < n
      <3>1. j \in 1 .. n - 1 /\ (j > 1 => j - 1 \in 1 .. n - 1)
        BY <1>1, <2>2
      <3>2. QED
        BY <1>1, <1>3, <3>1 DEF Paired
    <2>3. QED
      BY <1>1, <2>1, <2>2
  <1>4. ASSUME NEW i \in 1 .. n, NEW j \in 1 .. n, r[i].kind = "reply", r[j].kind = "reply",
               r[i].ids \cap r[j].ids # {}
        PROVE  i = j
    <2>1. \A k \in 1 .. n : k = n \/ k \in 1 .. n - 1
      BY <1>1
    <2>2. QED
      BY <1>1, <1>4, <2>1 DEF Paired, Disjoint
  <1>5. QED
    BY <1>1, <1>3, <1>4 DEF Paired, r

(* What concatenation does to rows.                                        *)
LEMMA ConcatFacts ==
    ASSUME NEW rows \in Seq(Rows), NEW more \in Seq(Rows)
    PROVE  /\ rows \o more \in Seq(Rows)
           /\ Len(rows \o more) = Len(rows) + Len(more)
           /\ \A i \in 1 .. Len(rows) : (rows \o more)[i] = rows[i]
           /\ \A i \in 1 .. Len(more) : (rows \o more)[Len(rows) + i] = more[i]
           /\ \A i \in DOMAIN (rows \o more) :
                 \/ i \in DOMAIN rows
                 \/ \E j \in DOMAIN more : i = Len(rows) + j
  <1>1. /\ rows \o more \in Seq(Rows)
        /\ Len(rows \o more) = Len(rows) + Len(more)
        /\ \A i \in 1 .. Len(rows) + Len(more) :
              (rows \o more)[i] = IF i <= Len(rows) THEN rows[i] ELSE more[i - Len(rows)]
    BY ConcatProperties
  <1>2. \A i \in DOMAIN (rows \o more) :
            i \in DOMAIN rows \/ (i - Len(rows) \in DOMAIN more /\ i = Len(rows) + (i - Len(rows)))
    BY <1>1
  <1>3. QED
    BY <1>1, <1>2

(* A reply and its results, one after the other.                           *)
LEMMA PairFacts ==
    ASSUME NEW a \in Rows, NEW b \in Rows
    PROVE  <<a>> \o <<b>> = <<a, b>>
  <1>1. /\ <<a>> \in Seq(Rows) /\ <<b>> \in Seq(Rows) /\ <<a, b>> \in Seq(Rows)
        /\ Len(<<a>>) = 1 /\ Len(<<b>>) = 1 /\ Len(<<a, b>>) = 2
        /\ <<a>>[1] = a /\ <<b>>[1] = b /\ <<a, b>>[1] = a /\ <<a, b>>[2] = b
    OBVIOUS
  <1> DEFINE r == <<a>> \o <<b>>
             q == <<a, b>>
  <1>2. /\ r \in Seq(Rows) /\ Len(r) = 1 + 1 /\ r[1] = a /\ r[1 + 1] = b
    <2>1. 1 \in 1 .. 1
      OBVIOUS
    <2>2. QED
      BY <1>1, <2>1, ConcatFacts
  <1>3. q \in Seq(Rows) /\ Len(q) = 2 /\ q[1] = a /\ q[2] = b
    BY <1>1
  <1> HIDE DEF r, q
  <1>4. \A i \in 1 .. 2 : i = 1 \/ i = 2
    OBVIOUS
  <1>5. Len(r) = Len(q) /\ \A i \in 1 .. Len(r) : r[i] = q[i]
    BY <1>2, <1>3, <1>4
  <1>6. r = q
    BY <1>2, <1>3, <1>5, SeqEqual
  <1>7. QED
    BY <1>6 DEF r, q

(* Paired rows without common ids are paired together.                     *)
LEMMA ConcatKeepsPairs ==
    ASSUME NEW rows \in Seq(Rows), NEW more \in Seq(Rows), Paired(rows), Paired(more),
           \A i \in DOMAIN rows, j \in DOMAIN more : rows[i].ids \cap more[j].ids = {}
    PROVE  Paired(rows \o more)
  <1> DEFINE r == rows \o more
             n == Len(rows)
  <1>1. /\ n \in Nat
        /\ DOMAIN rows = 1 .. n /\ DOMAIN more = 1 .. Len(more)
        /\ DOMAIN r = 1 .. n + Len(more)
        /\ \A i \in DOMAIN rows : r[i] = rows[i]
        /\ \A j \in DOMAIN more : r[n + j] = more[j]
        /\ \A i \in DOMAIN r : i \in DOMAIN rows \/ \E j \in DOMAIN more : i = n + j
    BY ConcatFacts
  <1> HIDE DEF r, n
  <1>2. ASSUME NEW j \in DOMAIN r, r[j].kind = "results"
        PROVE  j > 1 /\ r[j - 1].kind = "reply" /\ r[j].ids \subseteq r[j - 1].ids
    <2>1. CASE j \in DOMAIN rows
      <3>1. j > 1 => j - 1 \in DOMAIN rows
        BY <1>1, <2>1
      <3>2. QED
        BY <1>1, <1>2, <2>1, <3>1 DEF Paired
    <2>2. ASSUME NEW k \in DOMAIN more, j = n + k
          PROVE  j > 1 /\ r[j - 1].kind = "reply" /\ r[j].ids \subseteq r[j - 1].ids
      <3>1. k > 1 /\ more[k - 1].kind = "reply" /\ more[k].ids \subseteq more[k - 1].ids
        BY <1>1, <1>2, <2>2 DEF Paired
      <3>2. k - 1 \in DOMAIN more /\ j - 1 = n + (k - 1) /\ j > 1
        BY <1>1, <2>2, <3>1
      <3>3. QED
        BY <1>1, <2>2, <3>1, <3>2
    <2>3. QED
      BY <1>1, <2>1, <2>2
  <1>3. ASSUME NEW i \in DOMAIN r, NEW j \in DOMAIN r, r[i].kind = "reply", r[j].kind = "reply",
               r[i].ids \cap r[j].ids # {}
        PROVE  i = j
    <2>1. CASE i \in DOMAIN rows /\ j \in DOMAIN rows
      BY <1>1, <1>3, <2>1 DEF Paired
    <2>2. ASSUME NEW a \in DOMAIN rows, NEW b \in DOMAIN more, {i, j} = {a, n + b}
          PROVE  FALSE
      <3>1. r[a].ids \cap r[n + b].ids = {}
        BY <1>1
      <3>2. (i = a /\ j = n + b) \/ (i = n + b /\ j = a)
        BY <2>2
      <3>3. QED
        BY <1>3, <3>1, <3>2
    <2>3. ASSUME NEW a \in DOMAIN more, NEW b \in DOMAIN more, i = n + a, j = n + b
          PROVE  i = j
      <3>1. r[i] = more[a] /\ r[j] = more[b]
        BY <1>1, <2>3
      <3>2. QED
        BY <1>3, <2>3, <3>1 DEF Paired
    <2>4. QED
      <3>1. /\ i \in DOMAIN rows \/ \E a \in DOMAIN more : i = n + a
            /\ j \in DOMAIN rows \/ \E b \in DOMAIN more : j = n + b
        BY <1>1
      <3>2. QED
        BY <2>1, <2>2, <2>3, <3>1
  <1>4. QED
    BY <1>2, <1>3 DEF Paired, r
-----------------------------------------------------------------------------
(* The steps.                                                              *)

(* The invariant holds at first.                                           *)
LEMMA InitIInv == Init => IInv
  <1> SUFFICES ASSUME Init PROVE IInv
    OBVIOUS
  <1>1. <<>> \in Seq(Rows) /\ Len(<<>>) = 0
    BY EmptySeq
  <1>2. TypeInv
    <2>1. thread \in Seq(Rows) /\ context \in Seq(Rows) /\ made \in Seq(Rows)
      BY <1>1 DEF Init
    <2>2. sent \subseteq UserMessages /\ run \in sent \cup {NoMessage}
      BY DEF Init
    <2>3. lost \subseteq sent
      BY DEF Init
    <2>4. /\ phase = "idle" /\ outcome = "none" /\ stop = "none"
          /\ prefill = 0 /\ step = 0 /\ calls = 0 /\ next = 0 /\ attempt = 0
      BY DEF Init
    <2>5. QED
      BY <2>1, <2>2, <2>3, <2>4, AgentRunAssumption DEF TypeInv, Outcomes, StopReasons
  <1>3. StageInv
    BY DEF Init, StageInv, EndTurnWins
  <1>4. ThreadInv
    BY <1>1 DEF Init, ThreadInv, Starts, Paired, Balanced
  <1>5. QED
    BY <1>2, <1>3, <1>4 DEF Init, IInv, ContextInv, MadeInv, TailInv, SeesInv, LastInv, CheckInv

(* The step of a tool_use is a number.                                     *)
LEMMA IdsOfRows ==
    ASSUME NEW rows \in Seq(Rows), NEW i \in DOMAIN rows, NEW x \in rows[i].ids
    PROVE  x \in Ids /\ x[1] \in UserMessages /\ x[2] \in 1 .. MaxSteps /\ x[3] \in 1 .. MaxCalls
  <1>1. rows[i] \in Rows
    BY ElementOfSeq
  <1>2. QED
    BY <1>1, AgentRunAssumption DEF Rows, Ids

(* The invariant follows from its parts, when no rows change: those about  *)
(* the rows from the phase and the step.                                   *)
LEMMA RowsStay ==
    ASSUME IInv, TypeInv', StageInv', UNCHANGED <<thread, sent, run, context, prefill, made, lost>>,
           phase # "idle", phase' # "idle", phase' # "act" \/ UNCHANGED <<phase, next, step, calls>>,
           step' = step \/ (step' = step + 1 /\ phase' = "chat"),
           phase' = "chat" => phase = "chat" \/ step' = step + 1,
           phase' \in {"step", "chat", "check", "compact"}
              \/ (phase' = "end" /\ outcome' # "cancelled")
              => phase \in {"step", "chat", "check", "compact"}
                 \/ (phase = "end" /\ outcome # "cancelled"),
           LastInv', CheckInv'
    PROVE  IInv'
  <1>1. ThreadInv'
    BY DEF IInv, ThreadInv, Clean, TypeInv
  <1>2. Fresh(context) => Fresh(context)'
    BY IdsOfRows, AgentRunAssumption DEF Fresh, IInv, TypeInv
  <1>3. RowsInv(context) => RowsInv(context)'
    <2>1. Acting(context) /\ phase' = "act" => Acting(context)'
      BY DEF Acting, Uses, ToolUse
    <2>2. QED
      BY <1>2, <2>1 DEF RowsInv
  <1>4. RowsInv(made) => RowsInv(made)'
    <2>1. Acting(made) /\ phase' = "act" => Acting(made)'
      BY DEF Acting, Uses, ToolUse
    <2>2. Fresh(made) => Fresh(made)'
      BY IdsOfRows, AgentRunAssumption DEF Fresh, IInv, TypeInv
    <2>3. QED
      BY <2>1, <2>2 DEF RowsInv
  <1>5. ContextInv'
    BY <1>2, <1>3 DEF IInv, ContextInv, Clean
  <1>6. MadeInv'
    BY <1>4 DEF IInv, MadeInv
  <1>7. TailInv' /\ SeesInv'
    BY DEF IInv, TailInv, SeesInv, Clean, TypeInv
  <1>8. QED
    BY <1>1, <1>5, <1>6, <1>7 DEF IInv

(* Each step of the loop that changes no rows, and Cancel, keep the        *)
(* invariant.                                                              *)
LEMMA BeginStepInv == IInv /\ BeginStep => IInv'
  <1> SUFFICES ASSUME IInv, BeginStep PROVE IInv'
    OBVIOUS
  <1>1. TypeInv'
    BY AgentRunAssumption DEF IInv, TypeInv, StageInv, BeginStep, histVars
  <1>2. StageInv'
    BY DEF IInv, TypeInv, StageInv, BeginStep, histVars, EndTurnWins
  <1>3. LastInv' /\ CheckInv'
    BY DEF BeginStep, LastInv, CheckInv
  <1>4. QED
    BY <1>1, <1>2, <1>3, RowsStay DEF IInv, TypeInv, BeginStep, histVars

LEMMA StreamDropsInv == IInv /\ StreamDrops => IInv'
  <1> SUFFICES ASSUME IInv, StreamDrops PROVE IInv'
    OBVIOUS
  <1>1. TypeInv' /\ StageInv'
    BY AgentRunAssumption DEF IInv, TypeInv, StageInv, StreamDrops, histVars, EndTurnWins
  <1>2. LastInv' /\ CheckInv'
    BY DEF StreamDrops, LastInv, CheckInv
  <1>3. QED
    BY <1>1, <1>2, RowsStay DEF IInv, TypeInv, StreamDrops, histVars

LEMMA ChatFailsInv == IInv /\ ChatFails => IInv'
  <1> SUFFICES ASSUME IInv, ChatFails PROVE IInv'
    OBVIOUS
  <1>1. TypeInv'
    BY AgentRunAssumption DEF IInv, TypeInv, ChatFails, histVars, Outcomes
  <1>2. StageInv'
    BY DEF IInv, StageInv, TypeInv, ChatFails, histVars, EndTurnWins
  <1>3. LastInv' /\ CheckInv'
    BY DEF ChatFails, LastInv, CheckInv
  <1>4. QED
    BY <1>1, <1>2, <1>3, RowsStay DEF IInv, TypeInv, ChatFails, histVars

LEMMA CheckKeepsInv == IInv /\ Check => IInv'
  <1> SUFFICES ASSUME IInv, Check PROVE IInv'
    OBVIOUS
  <1>1. phase' \in {"end", "compact", "step"} /\ (phase' = "compact" => stop = "tool_use")
    BY DEF Check
  <1>2. phase' = "end" <=> Termination # "running"
    BY DEF Check
  <1>3. TypeInv'
    BY <1>1 DEF IInv, TypeInv, Check, histVars, Termination, Outcomes
  <1>4. StageInv'
    BY <1>1, <1>2, AgentRunAssumption
       DEF IInv, StageInv, TypeInv, Check, histVars, Termination, EndTurnWins
  <1>5. LastInv' /\ CheckInv'
    BY <1>1 DEF IInv, Check, LastInv, CheckInv
  <1>6. QED
    BY <1>1, <1>3, <1>4, <1>5, RowsStay DEF IInv, TypeInv, Check, histVars

LEMMA CancelInv == IInv /\ Cancel => IInv'
  <1> SUFFICES ASSUME IInv, Cancel PROVE IInv'
    OBVIOUS
  <1>1. TypeInv'
    BY AgentRunAssumption DEF IInv, TypeInv, Cancel, Outcomes, histVars
  <1>2. StageInv'
    BY DEF IInv, StageInv, TypeInv, Cancel, EndTurnWins, histVars
  <1>3. LastInv' /\ CheckInv'
    BY DEF Cancel, LastInv, CheckInv
  <1>4. QED
    BY <1>1, <1>2, <1>3, RowsStay DEF IInv, TypeInv, Cancel, histVars

(* A summary and its acknowledgement.                                      *)
LEMMA CompactedFacts ==
    ASSUME NEW of \in UserMessages \cup {NoMessage}
    PROVE  /\ Compacted(of) \in Seq(Rows)
           /\ Len(Compacted(of)) = 2
           /\ DOMAIN Compacted(of) = 1 .. 2
           /\ \A i \in 1 .. 2 : Compacted(of)[i].ids = {}
           /\ Compacted(of)[1].kind = "summary" /\ Compacted(of)[1].of = of
           /\ Compacted(of)[2].kind = "ack"
           /\ Starts(Compacted(of))
           /\ Paired(Compacted(of))
           /\ Balanced(Compacted(of), 2)
  <1> DEFINE c == Compacted(of)
  <1>1. Message("summary", {}, of) \in Rows /\ Message("ack", {}, of) \in Rows
    BY DEF Rows, Kinds, Message
  <1>2. /\ c \in Seq(Rows) /\ Len(c) = 2 /\ DOMAIN c = 1 .. 2
        /\ c[1] = Message("summary", {}, of) /\ c[2] = Message("ack", {}, of)
    BY <1>1 DEF Compacted
  <1> HIDE DEF c
  <1>3. /\ \A i \in 1 .. 2 : c[i].ids = {} /\ c[i].kind \in {"summary", "ack"}
        /\ c[1].kind = "summary" /\ c[1].of = of /\ c[2].kind = "ack"
    BY <1>2 DEF Message
  <1>4. Starts(c) /\ Paired(c) /\ Balanced(c, 2)
    BY <1>2, <1>3 DEF Starts, FromUser, Paired, Balanced
  <1>5. QED
    BY <1>2, <1>3, <1>4 DEF c

(* Compacting a context or a thread keeps the invariant.                   *)
LEMMA CompactInv == IInv /\ Compact => IInv'
  <1> SUFFICES ASSUME IInv, Compact PROVE IInv'
    OBVIOUS
  <1>1. run \in UserMessages /\ run \in Compacting
    BY DEF IInv, TypeInv, StageInv, LastInv, Compact
  <1>2. StageInv'
    BY DEF IInv, StageInv, TypeInv, Compact, histVars, EndTurnWins
  <1>3. LastInv' /\ CheckInv'
    BY DEF Compact, LastInv, CheckInv
  <1>4. CASE UNCHANGED context
    <2>1. TypeInv'
      BY <1>4 DEF IInv, TypeInv, Compact, histVars
    <2>2. QED
      BY <1>2, <1>3, <1>4, <2>1, RowsStay DEF IInv, TypeInv, Compact, histVars
  <1>5. CASE context' = Compacted(run)
    <2>1. TypeInv'
      BY <1>1, <1>5, CompactedFacts DEF IInv, TypeInv, Compact, histVars
    <2>2. ThreadInv'
      BY DEF IInv, ThreadInv, Clean, Compact, histVars
    <2>3. ContextInv'
      <3>1. context' # <<>> /\ Starts(context)' /\ Paired(context)' /\ Balanced(context, Len(context))'
        BY <1>1, <1>5, CompactedFacts, EmptySeq DEF Starts, Paired, Balanced
      <3>2. Fresh(context)'
        BY <1>1, <1>5, CompactedFacts DEF Fresh
      <3>3. QED
        BY <3>1, <3>2 DEF ContextInv, RowsInv, Compact
    <2>4. MadeInv'
      BY DEF IInv, MadeInv, RowsInv, Fresh, Compact, histVars
    <2>5. TailInv' /\ SeesInv'
      <3>1. context'[1].of = run /\ context'[1].kind = "summary" /\ 1 \in DOMAIN context'
        BY <1>1, <1>5, CompactedFacts
      <3>2. QED
        BY <1>1, <3>1 DEF TailInv, SeesInv, Compact
    <2>6. QED
      BY <1>2, <1>3, <2>1, <2>2, <2>3, <2>4, <2>5 DEF IInv
  <1>6. QED
    BY <1>4, <1>5 DEF Compact

LEMMA CompactThreadInv == IInv /\ CompactThread => IInv'
  <1> SUFFICES ASSUME IInv, CompactThread PROVE IInv'
    OBVIOUS
  <1>1. TypeInv' /\ StageInv'
    BY CompactedFacts
       DEF IInv, TypeInv, StageInv, CompactThread, loopVars, histVars, EndTurnWins
  <1>2. ThreadInv'
    <2>1. thread' = Compacted(NoMessage) /\ phase' = "idle"
      BY DEF CompactThread
    <2>2. Starts(thread)' /\ Paired(thread)' /\ Balanced(thread, Len(thread))'
      BY <2>1, CompactedFacts DEF Starts, Paired, Balanced
    <2>3. \A i \in DOMAIN thread' : thread'[i].ids = {}
      BY <2>1, CompactedFacts
    <2>4. QED
      BY <2>1, <2>2, <2>3 DEF ThreadInv
  <1>3. QED
    BY <1>1, <1>2
       DEF IInv, CompactThread, ContextInv, MadeInv, TailInv, SeesInv, LastInv, CheckInv
-----------------------------------------------------------------------------
(* The end of a run.                                                       *)

(* What a run appends: rows of its context, those it produced if the       *)
(* context was not compacted.                                              *)
LEMMA NewMessagesFacts ==
    ASSUME IInv, phase = "end"
    PROVE  /\ NewMessages \in Seq(Rows)
           /\ \A i \in DOMAIN NewMessages : \A x \in NewMessages[i].ids : x[1] \in sent
           /\ run \notin Compacting => NewMessages = made
  <1>1. context \in Seq(Rows) /\ made \in Seq(Rows) /\ prefill \in Nat /\ Len(context) \in Nat
    BY DEF IInv, TypeInv
  <1>2. \A i \in prefill + 1 .. Len(context) : context[i] \in Rows /\ i \in DOMAIN context
    BY <1>1, ElementOfSeq
  <1>3. /\ NewMessages \in Seq(Rows)
        /\ Len(NewMessages) =
              IF prefill + 1 <= Len(context) THEN Len(context) - (prefill + 1) + 1 ELSE 0
        /\ \A i \in 1 .. Len(context) - (prefill + 1) + 1 :
              NewMessages[i] = context[(prefill + 1) + i - 1]
    BY <1>1, <1>2, SubSeqProperties DEF NewMessages
  <1>4. \A i \in DOMAIN NewMessages :
            NewMessages[i] = context[prefill + i] /\ prefill + i \in DOMAIN context
    BY <1>1, <1>3
  <1>5. \A i \in DOMAIN NewMessages : \A x \in NewMessages[i].ids : x[1] \in sent
    BY <1>4 DEF IInv, ContextInv, Fresh
  <1>6. ASSUME run \notin Compacting PROVE NewMessages = made
    <2>1. /\ Len(context) = prefill + Len(made)
          /\ \A i \in 1 .. Len(made) : context[prefill + i] = made[i]
      BY <1>6 DEF IInv, TailInv
    <2>2. Len(made) \in Nat
      BY <1>1
    <2>3. Len(NewMessages) = Len(made)
      BY <1>1, <1>3, <2>1, <2>2
    <2>4. \A i \in 1 .. Len(NewMessages) : NewMessages[i] = made[i]
      BY <1>3, <1>4, <2>1, <2>3
    <2>5. QED
      BY <1>1, <1>3, <2>3, <2>4, SeqEqual
  <1>7. QED
    BY <1>3, <1>5, <1>6

(* A run that ends keeps the invariant, if what it appends is paired and   *)
(* of this run.                                                            *)
LEMMA EndInv ==
    ASSUME IInv, phase # "idle", NEW more \in Seq(Rows), thread' = thread \o more, EndRun,
           lost' \subseteq sent,
           \A i \in DOMAIN more : \A x \in more[i].ids : x[1] \in sent,
           run \notin Compacting =>
              /\ Paired(more)
              /\ \A i \in DOMAIN more : \A x \in more[i].ids : x[1] = run
    PROVE  IInv'
  <1>1. /\ thread \in Seq(Rows) /\ thread # <<>> /\ Len(thread) \in Nat /\ Len(thread) > 0
        /\ run \in sent
    BY EmptySeq DEF IInv, TypeInv, StageInv, ThreadInv
  <1>2. TypeInv'
    BY <1>1, ConcatFacts DEF IInv, TypeInv, EndRun, loopVars
  <1>3. StageInv'
    BY DEF IInv, StageInv, EndRun, EndTurnWins
  <1>4. phase' = "idle" /\ run' = NoMessage /\ sent' = sent /\ NoMessage \notin sent
    BY AgentRunAssumption DEF IInv, TypeInv, EndRun
  <1>5. Starts(thread)'
    <2>1. thread'[1] = thread[1]
      BY <1>1, ConcatFacts
    <2>2. QED
      BY <1>1, <2>1 DEF IInv, ThreadInv, Starts
  <1>6. \A i \in DOMAIN thread' : \A x \in thread'[i].ids : x[1] \in sent' \ {run'}
    <2> SUFFICES ASSUME NEW i \in DOMAIN thread', NEW x \in thread'[i].ids
                 PROVE  x[1] \in sent
      BY <1>4
    <2>1. CASE i \in DOMAIN thread
      BY <1>1, <2>1, ConcatFacts DEF IInv, ThreadInv
    <2>2. ASSUME NEW j \in DOMAIN more, i = Len(thread) + j PROVE x[1] \in sent
      BY <1>1, <2>2, ConcatFacts
    <2>3. QED
      BY <1>1, <2>1, <2>2, ConcatFacts
  <1>7. ASSUME Clean' PROVE Clean /\ run \notin Compacting
    BY <1>1, <1>4, <1>7 DEF Clean
  <1>8. ASSUME Clean' PROVE Paired(thread)'
    <2>1. \A i \in DOMAIN thread, j \in DOMAIN more : thread[i].ids \cap more[j].ids = {}
      BY <1>7, <1>8 DEF IInv, ThreadInv
    <2>2. Paired(thread \o more)
      BY <1>1, <1>7, <1>8, <2>1, ConcatKeepsPairs DEF IInv, ThreadInv
    <2>3. QED
      BY <2>2 DEF Paired
  <1>9. ThreadInv'
    BY <1>4, <1>5, <1>6, <1>8 DEF ThreadInv
  <1>10. QED
    BY <1>2, <1>3, <1>4, <1>9
       DEF IInv, ContextInv, MadeInv, TailInv, SeesInv, LastInv, CheckInv

LEMMA PersistInv == IInv /\ Persist => IInv'
  <1> SUFFICES ASSUME IInv, Persist PROVE IInv'
    OBVIOUS
  <1>1. phase = "end" /\ thread' = thread \o NewMessages /\ EndRun /\ lost' = lost
    BY DEF Persist
  <1>2. lost \subseteq sent
    BY DEF IInv, TypeInv
  <1>3. run \notin Compacting =>
            /\ Paired(made)
            /\ \A i \in DOMAIN made : \A x \in made[i].ids : x[1] = run
    BY <1>1 DEF IInv, MadeInv, RowsInv
  <1>4. QED
    BY <1>1, <1>2, <1>3, NewMessagesFacts, EndInv

LEMMA CancelPublishInv == IInv /\ CancelPublish => IInv'
  <1> SUFFICES ASSUME IInv, CancelPublish PROVE IInv'
    OBVIOUS
  <1>1. phase # "idle" /\ EndRun /\ lost' = lost \cup {run} /\ thread' = thread
    BY DEF CancelPublish
  <1>2. lost' \subseteq sent /\ thread \in Seq(Rows)
    BY <1>1 DEF IInv, TypeInv, StageInv
  <1>3. <<>> \in Seq(Rows) /\ thread' = thread \o <<>> /\ DOMAIN <<>> = {} /\ Paired(<<>>)
    BY <1>1, <1>2, EmptySeq, ConcatEmptySeq DEF Paired
  <1>4. QED
    BY <1>1, <1>2, <1>3, EndInv

LEMMA PersistFailsInv == IInv /\ PersistFails => IInv'
  <1> SUFFICES ASSUME IInv, PersistFails PROVE IInv'
    OBVIOUS
  <1>1. phase = "end" /\ EndRun /\ lost' = lost \cup {run} /\ lost' \subseteq sent
    BY DEF PersistFails, IInv, TypeInv, StageInv
  <1>2. NewMessages \in Seq(Rows)
    BY <1>1, NewMessagesFacts
  <1>3. PICK n \in 0 .. Len(NewMessages) - 1 : thread' = thread \o SubSeq(NewMessages, 1, n)
    BY DEF PersistFails
  <1> DEFINE more == SubSeq(NewMessages, 1, n)
  <1>4. n \in 0 .. Len(NewMessages) /\ DOMAIN NewMessages = 1 .. Len(NewMessages)
    BY <1>2
  <1>5. /\ more \in Seq(Rows) /\ DOMAIN more = 1 .. n
        /\ \A i \in 1 .. n : more[i] = NewMessages[i]
        /\ Paired(NewMessages) => Paired(more)
    BY <1>2, <1>4, PrefixFacts
  <1>6. \A i \in DOMAIN more : i \in DOMAIN NewMessages
    BY <1>4, <1>5
  <1>7. \A i \in DOMAIN more : \A x \in more[i].ids : x[1] \in sent
    BY <1>1, <1>5, <1>6, NewMessagesFacts
  <1>8. ASSUME run \notin Compacting
        PROVE  Paired(more) /\ \A i \in DOMAIN more : \A x \in more[i].ids : x[1] = run
    <2>1. NewMessages = made
      BY <1>1, <1>8, NewMessagesFacts
    <2>2. Paired(made) /\ \A i \in DOMAIN made : \A x \in made[i].ids : x[1] = run
      BY <1>1 DEF IInv, MadeInv, RowsInv
    <2>3. QED
      BY <1>5, <1>6, <2>1, <2>2
  <1> HIDE DEF more
  <1>9. thread' = thread \o more
    BY <1>3 DEF more
  <1>10. QED
    BY <1>1, <1>5, <1>7, <1>8, <1>9, EndInv
-----------------------------------------------------------------------------
(* The LLM replies.                                                        *)

(* The parts that any new messages of the step keep.                       *)
LEMMA SayKeeps ==
    ASSUME IInv, phase = "chat", NEW msgs \in Seq(Rows), msgs # <<>>, msgs[1].kind = "reply",
           \A i \in DOMAIN msgs : \A x \in msgs[i].ids : x[1] = run /\ x[2] = step,
           Say(msgs), UNCHANGED <<thread, sent, run, prefill, step, lost>>,
           TypeInv', StageInv', phase' \in {"act", "check"}, CheckInv',
           RowsInv(context) => RowsInv(context)',
           RowsInv(made) => RowsInv(made)'
    PROVE  IInv'
  <1>1. /\ context \in Seq(Rows) /\ made \in Seq(Rows) /\ run \in sent /\ prefill \in Nat
        /\ step \in Nat
        /\ context # <<>> /\ Len(context) \in Nat /\ Len(context) > 0 /\ Len(made) \in Nat
        /\ Len(msgs) \in Nat
    BY EmptySeq, AgentRunAssumption DEF IInv, TypeInv, StageInv, ContextInv
  <1>2. context' = context \o msgs /\ made' = made \o msgs
    BY DEF Say
  <1>3. ThreadInv'
    BY DEF IInv, ThreadInv, Clean
  <1>4. ContextInv'
    <2>1. context'[1] = context[1] /\ context' # <<>>
      BY <1>1, <1>2, ConcatFacts, EmptySeq
    <2>2. Starts(context)'
      BY <1>1, <2>1 DEF IInv, ContextInv, Starts
    <2>3. Fresh(context)'
      <3> SUFFICES ASSUME NEW i \in DOMAIN context', NEW x \in context'[i].ids
                   PROVE  x[1] \in sent /\ (x[1] = run => x[2] <= step)
        BY DEF Fresh
      <3>1. CASE i \in DOMAIN context
        BY <1>1, <1>2, <3>1, ConcatFacts DEF IInv, ContextInv, Fresh
      <3>2. ASSUME NEW j \in DOMAIN msgs, i = Len(context) + j
            PROVE  x[1] \in sent /\ (x[1] = run => x[2] <= step)
        <4>1. x \in msgs[j].ids
          BY <1>1, <1>2, <3>2, ConcatFacts
        <4>2. QED
          BY <1>1, <4>1
      <3>3. QED
        BY <1>1, <1>2, <3>1, <3>2, ConcatFacts
    <2>4. QED
      BY <2>1, <2>2, <2>3 DEF IInv, ContextInv, Clean
  <1>5. MadeInv'
    <2>1. made'[1].kind = "reply"
      <3>1. CASE made = <<>>
        <4>1. made' = msgs
          BY <1>2, <3>1, ConcatEmptySeq
        <4>2. QED
          BY <4>1
      <3>2. CASE made # <<>>
        <4>1. made'[1] = made[1]
          BY <1>1, <1>2, <3>2, ConcatFacts, EmptySeq
        <4>2. QED
          BY <3>2, <4>1 DEF IInv, MadeInv
      <3>3. QED
        BY <3>1, <3>2
    <2>2. \A i \in DOMAIN made' : \A x \in made'[i].ids : x[1] = run
      <3> SUFFICES ASSUME NEW i \in DOMAIN made', NEW x \in made'[i].ids
                   PROVE  x[1] = run
        OBVIOUS
      <3>1. CASE i \in DOMAIN made
        BY <1>1, <1>2, <3>1, ConcatFacts DEF IInv, MadeInv
      <3>2. ASSUME NEW j \in DOMAIN msgs, i = Len(made) + j PROVE x[1] = run
        BY <1>1, <1>2, <3>2, ConcatFacts
      <3>3. QED
        BY <1>1, <1>2, <3>1, <3>2, ConcatFacts
    <2>3. QED
      BY <2>1, <2>2 DEF IInv, MadeInv
  <1>6. TailInv'
    <2> SUFFICES ASSUME run \notin Compacting
                 PROVE  /\ Len(context') = prefill + Len(made')
                        /\ \A i \in 1 .. Len(made') : context'[prefill + i] = made'[i]
      BY DEF TailInv
    <2>1. /\ Len(context) = prefill + Len(made)
          /\ \A i \in 1 .. Len(made) : context[prefill + i] = made[i]
      BY DEF IInv, TailInv
    <2>2. /\ Len(context') = Len(context) + Len(msgs) /\ Len(made') = Len(made) + Len(msgs)
          /\ made' \in Seq(Rows)
      BY <1>1, <1>2, ConcatFacts
    <2>3. ASSUME NEW i \in 1 .. Len(made') PROVE context'[prefill + i] = made'[i]
      <3>1. CASE i \in 1 .. Len(made)
        <4>1. prefill + i \in 1 .. Len(context)
          BY <1>1, <2>1, <3>1
        <4>2. QED
          BY <1>1, <1>2, <2>1, <3>1, <4>1, ConcatFacts
      <3>2. ASSUME NEW j \in 1 .. Len(msgs), i = Len(made) + j
            PROVE  context'[prefill + i] = made'[i]
        <4>1. prefill + i = Len(context) + j
          BY <1>1, <2>1, <3>2
        <4>2. context'[Len(context) + j] = msgs[j] /\ made'[Len(made) + j] = msgs[j]
          BY <1>1, <1>2, ConcatFacts
        <4>3. QED
          BY <3>2, <4>1, <4>2
      <3>3. i \in 1 .. Len(made) \/ (i - Len(made) \in 1 .. Len(msgs) /\ i = Len(made) + (i - Len(made)))
        BY <1>1, <2>2
      <3>4. QED
        BY <3>1, <3>2, <3>3
    <2>4. QED
      BY <1>1, <2>1, <2>2, <2>3
  <1>7. SeesInv'
    <2>1. \A i \in DOMAIN context : i \in DOMAIN context' /\ context'[i] = context[i]
      BY <1>1, <1>2, ConcatFacts
    <2>2. QED
      BY <2>1 DEF IInv, SeesInv, Clean
  <1>8. LastInv'
    BY DEF LastInv
  <1>9. QED
    BY <1>3, <1>4, <1>5, <1>6, <1>7, <1>8 DEF IInv

(* Uses are ids of this run and step.                                      *)
LEMMA UsesFacts ==
    ASSUME IInv, phase \in {"chat", "act"}
    PROVE  /\ \A n \in 0 .. MaxCalls : Uses(n) \subseteq Ids
           /\ \A n \in 1 .. MaxCalls : Uses(n) # {}
           /\ Uses(0) = {}
           /\ \A n \in 1 .. MaxCalls : Uses(n - 1) \cup {ToolUse(n)} = Uses(n)
           /\ \A n, k \in 0 .. MaxCalls : n <= k => Uses(n) \subseteq Uses(k)
           /\ \A n \in 0 .. MaxCalls : \A x \in Uses(n) : x[1] = run /\ x[2] = step
  <1>1. run \in UserMessages /\ step \in 1 .. MaxSteps /\ MaxCalls \in Nat
    BY AgentRunAssumption DEF IInv, TypeInv, StageInv
  <1>2. ASSUME NEW n \in 1 .. MaxCalls
        PROVE  Uses(n) # {} /\ Uses(n - 1) \cup {ToolUse(n)} = Uses(n)
    <2>1. n \in 1 .. n /\ \A i : i \in 1 .. n <=> i \in 1 .. n - 1 \/ i = n
      BY <1>1
    <2>2. QED
      BY <2>1 DEF Uses
  <1>3. \A n, k \in 0 .. MaxCalls : n <= k => Uses(n) \subseteq Uses(k)
    <2>1. \A n, k \in 0 .. MaxCalls : n <= k => 1 .. n \subseteq 1 .. k
      BY <1>1
    <2>2. QED
      BY <2>1 DEF Uses
  <1>4. Uses(0) = {}
    BY DEF Uses
  <1>5. ASSUME NEW n \in 0 .. MaxCalls, NEW x \in Uses(n)
        PROVE  x \in Ids /\ x[1] = run /\ x[2] = step
    <2>1. PICK i \in 1 .. n : x = <<run, step, i>>
      BY DEF Uses, ToolUse
    <2>2. i \in 1 .. MaxCalls
      BY <1>1
    <2>3. QED
      BY <1>1, <2>1, <2>2 DEF Ids
  <1>6. QED
    BY <1>2, <1>3, <1>4, <1>5

Reply(n)   == Message("reply", Uses(n), run)
Results(n) == Message("results", Uses(n), run)

(* As Fresh, after the LLM has replied.                                    *)
Known(rows) ==
    \A i \in DOMAIN rows : \A x \in rows[i].ids : x[1] \in sent /\ (x[1] = run => x[2] <= step)

(* A reply, alone or with the errors that answer its calls, keeps rows     *)
(* paired; balanced if it requests nothing or is answered.                 *)
LEMMA ReplyRows ==
    ASSUME IInv, phase = "chat", NEW rows \in Seq(Rows), RowsInv(rows), NEW n \in 0 .. MaxCalls
    PROVE  /\ Reply(n) \in Rows /\ Results(n) \in Rows
           /\ Paired(Append(rows, Reply(n)))
           /\ Known(Append(rows, Reply(n)))
           /\ Balanced(Append(rows, Reply(n)), Len(rows))
           /\ n = 0 => Balanced(Append(rows, Reply(n)), Len(rows) + 1)
           /\ Paired(Append(Append(rows, Reply(n)), Results(n)))
           /\ Known(Append(Append(rows, Reply(n)), Results(n)))
           /\ Balanced(Append(Append(rows, Reply(n)), Results(n)), Len(rows) + 2)
  <1> DEFINE r == Append(rows, Reply(n))
             q == Append(r, Results(n))
  <1>1. run \in sent /\ run \in UserMessages /\ step \in 1 .. MaxSteps /\ Len(rows) \in Nat
    BY DEF IInv, TypeInv, StageInv
  <1>2. /\ Uses(n) \subseteq Ids /\ (n = 0 => Uses(n) = {})
        /\ \A x \in Uses(n) : x[1] = run /\ x[2] = step
    BY UsesFacts
  <1>3. /\ Reply(n) \in Rows /\ Results(n) \in Rows
        /\ Reply(n).kind = "reply" /\ Results(n).kind = "results"
        /\ Reply(n).ids = Uses(n) /\ Results(n).ids = Uses(n)
    BY <1>1, <1>2 DEF Reply, Results, Message, Rows, Kinds
  <1>4. /\ r \in Seq(Rows) /\ r # <<>> /\ Len(r) = Len(rows) + 1 /\ DOMAIN r = 1 .. Len(rows) + 1
        /\ \A i \in 1 .. Len(rows) : r[i] = rows[i]
        /\ r[Len(rows) + 1] = Reply(n)
    BY <1>3, AppendFacts
  <1>5. Disjoint(rows, Reply(n))
    <2>1. \A i \in DOMAIN rows : \A x \in rows[i].ids : x[1] = run => x[2] # step
      <3>1. \A i \in DOMAIN rows : \A x \in rows[i].ids :
                x[2] \in 1 .. MaxSteps /\ (x[1] = run => x[2] < step)
        BY IdsOfRows DEF RowsInv, Fresh
      <3>2. QED
        BY <1>1, <3>1
    <2>2. QED
      BY <1>2, <1>3, <2>1 DEF Disjoint
  <1>6. Paired(r)
    BY <1>3, <1>5, AppendKeepsPairs DEF RowsInv
  <1>7. Balanced(r, Len(rows))
    BY <1>1, <1>3, AppendKeepsBalance DEF RowsInv
  <1>8. Known(r)
    <2>1. Known(rows)
      BY DEF RowsInv, Fresh, Known
    <2>2. \A i \in DOMAIN r : i \in DOMAIN rows \/ i = Len(rows) + 1
      BY <1>1, <1>4
    <2>3. \A x \in Reply(n).ids : x[1] \in sent /\ x[2] <= step
      BY <1>1, <1>2, <1>3
    <2>4. QED
      BY <1>4, <2>1, <2>2, <2>3 DEF Known
  <1>9. n = 0 => Balanced(r, Len(rows) + 1)
    BY <1>1, <1>2, <1>3, <1>4, <1>7 DEF Balanced
  <1> HIDE DEF r
  <1>10. /\ q \in Seq(Rows) /\ Len(q) = Len(rows) + 2 /\ DOMAIN q = 1 .. Len(rows) + 2
         /\ \A i \in 1 .. Len(rows) + 1 : q[i] = r[i]
         /\ q[Len(rows) + 2] = Results(n)
    <2>1. (Len(rows) + 1) + 1 = Len(rows) + 2
      BY <1>1
    <2>2. /\ q \in Seq(Rows) /\ Len(q) = Len(r) + 1 /\ DOMAIN q = 1 .. Len(r) + 1
          /\ \A i \in 1 .. Len(r) : q[i] = r[i]
          /\ q[Len(r) + 1] = Results(n)
      BY <1>3, <1>4, AppendFacts
    <2>3. QED
      BY <1>4, <2>1, <2>2
  <1>11. Paired(q)
    BY <1>3, <1>4, <1>6, AppendKeepsPairs
  <1>12. Known(q)
    <2>1. \A i \in DOMAIN q : i \in DOMAIN r \/ i = Len(rows) + 2
      BY <1>1, <1>4, <1>10
    <2>2. \A x \in Results(n).ids : x[1] \in sent /\ x[2] <= step
      BY <1>1, <1>2, <1>3
    <2>3. QED
      BY <1>4, <1>8, <1>10, <2>1, <2>2 DEF Known
  <1>13. Balanced(q, Len(rows) + 2)
    <2>1. Balanced(q, Len(rows))
      <3>1. Len(rows) \in 0 .. Len(r)
        BY <1>1, <1>4
      <3>2. QED
        BY <1>3, <1>4, <1>7, <3>1, AppendKeepsBalance
    <2>2. /\ q[Len(rows) + 1].kind = "reply" /\ q[Len(rows) + 1].ids = Uses(n)
          /\ q[Len(rows) + 2].kind = "results" /\ q[Len(rows) + 2].ids = Uses(n)
      BY <1>1, <1>3, <1>4, <1>10
    <2>3. \A i \in 1 .. Len(rows) + 2 :
              i \in 1 .. Len(rows) \/ i = Len(rows) + 1 \/ i = Len(rows) + 2
      BY <1>1
    <2>4. (Len(rows) + 1) + 1 = Len(rows) + 2
      BY <1>1
    <2>5. QED
      BY <1>1, <1>10, <2>1, <2>2, <2>3, <2>4 DEF Balanced
  <1>14. QED
    BY <1>3, <1>6, <1>7, <1>8, <1>9, <1>11, <1>12, <1>13 DEF r

LEMMA ChatRepliesInv ==
    ASSUME NEW reason \in StopReasons, NEW n \in 0 .. MaxCalls, IInv, ChatReplies(reason, n)
    PROVE  IInv'
  <1> DEFINE both == reason = "max_tokens" /\ n > 0
             msgs == IF both THEN <<Reply(n), Results(n)>> ELSE <<Reply(n)>>
  <1>1. /\ phase = "chat" /\ Say(msgs)
        /\ UNCHANGED <<thread, sent, run, prefill, step, outcome, lost>>
        /\ stop' = reason /\ calls' = n /\ next' = 1 /\ attempt' = 0
        /\ phase' = (IF reason = "tool_use" THEN "act" ELSE "check")
        /\ reason = "tool_use" => n > 0
        /\ reason \in {"end_turn", "other"} => n = 0
    BY DEF ChatReplies, Reply, Results, Uses
  <1>2. /\ context \in Seq(Rows) /\ made \in Seq(Rows) /\ RowsInv(made)
    BY <1>1 DEF IInv, TypeInv, MadeInv
  <1>3. /\ Reply(n) \in Rows /\ Results(n) \in Rows
        /\ Reply(n).kind = "reply"
        /\ Reply(n).ids = Uses(n) /\ Results(n).ids = Uses(n)
    BY <1>1, <1>2, ReplyRows DEF Reply, Results, Message
  <1>4. /\ msgs \in Seq(Rows) /\ msgs # <<>> /\ msgs[1].kind = "reply"
        /\ \A i \in DOMAIN msgs : msgs[i].ids = Uses(n)
    BY <1>3
  <1>5. \A i \in DOMAIN msgs : \A x \in msgs[i].ids : x[1] = run /\ x[2] = step
    BY <1>1, <1>4, UsesFacts
  <1>6. ASSUME NEW rows \in Seq(Rows)
        PROVE  /\ ~both => rows \o msgs = Append(rows, Reply(n))
               /\ both => rows \o msgs = Append(Append(rows, Reply(n)), Results(n))
    <2>1. Append(rows, Reply(n)) = rows \o <<Reply(n)>> /\ Append(rows, Reply(n)) \in Seq(Rows)
      BY <1>3, AppendIsConcat, AppendFacts
    <2>2. Append(Append(rows, Reply(n)), Results(n)) = (rows \o <<Reply(n)>>) \o <<Results(n)>>
      BY <1>3, <2>1, AppendIsConcat
    <2>3. (rows \o <<Reply(n)>>) \o <<Results(n)>> = rows \o (<<Reply(n)>> \o <<Results(n)>>)
      BY <1>3, ConcatAssociative
    <2>4. <<Reply(n)>> \o <<Results(n)>> = <<Reply(n), Results(n)>>
      BY <1>3, PairFacts
    <2>5. QED
      BY <2>1, <2>2, <2>3, <2>4
  <1> HIDE DEF msgs
  <1>7. context' = context \o msgs /\ made' = made \o msgs
    BY <1>1 DEF Say
  <1>8. TypeInv'
    <2>1. context' \in Seq(Rows) /\ made' \in Seq(Rows)
      BY <1>2, <1>4, <1>7, ConcatFacts
    <2>2. QED
      BY <1>1, <2>1, AgentRunAssumption DEF IInv, TypeInv
  <1>9. StageInv'
    BY <1>1 DEF IInv, StageInv, EndTurnWins
  <1>10. CheckInv'
    BY <1>1 DEF CheckInv
  <1>11. ASSUME NEW rows \in Seq(Rows), RowsInv(rows)
         PROVE  /\ Paired(rows \o msgs) /\ Known(rows \o msgs)
                /\ phase' = "check" => Balanced(rows \o msgs, Len(rows \o msgs))
                /\ phase' = "act" =>
                     /\ rows \o msgs # <<>>
                     /\ (rows \o msgs)[Len(rows \o msgs)].kind = "reply"
                     /\ (rows \o msgs)[Len(rows \o msgs)].ids = Uses(n)
                     /\ Balanced(rows \o msgs, Len(rows \o msgs) - 1)
    <2>1. Len(rows) \in Nat
      OBVIOUS
    <2>2. /\ Len(Append(rows, Reply(n))) = Len(rows) + 1 /\ Append(rows, Reply(n)) # <<>>
          /\ Append(rows, Reply(n))[Len(rows) + 1] = Reply(n)
          /\ Len(Append(Append(rows, Reply(n)), Results(n))) = Len(rows) + 2
      <3>1. (Len(rows) + 1) + 1 = Len(rows) + 2
        BY <2>1
      <3>2. QED
        BY <1>3, <3>1, AppendFacts
    <2>3. CASE both
      BY <1>1, <1>6, <1>11, <2>2, <2>3, ReplyRows
    <2>4. CASE ~both
      <3>1. phase' = "check" => n = 0
        BY <1>1, <2>4 DEF StopReasons
      <3>2. (Len(rows) + 1) - 1 = Len(rows)
        BY <2>1
      <3>3. QED
        BY <1>1, <1>3, <1>6, <1>11, <2>2, <2>4, <3>1, <3>2, ReplyRows
    <2>5. QED
      BY <2>3, <2>4
  <1>12. ASSUME RowsInv(context) PROVE RowsInv(context)'
    <2>1. Paired(context)' /\ Fresh(context)'
      BY <1>1, <1>2, <1>7, <1>11, <1>12 DEF Paired, Known, Fresh
    <2>2. phase' = "check" => Balanced(context, Len(context))'
      BY <1>2, <1>7, <1>11, <1>12 DEF Balanced
    <2>3. phase' = "act" => Acting(context)'
      <3>1. next' = 1 /\ Uses(calls)' = Uses(n)
        BY <1>1 DEF Uses, ToolUse
      <3>2. phase' = "act" =>
               /\ context' # <<>>
               /\ context'[Len(context')].kind = "reply" /\ context'[Len(context')].ids = Uses(n)
               /\ Balanced(context', Len(context') - 1)
        BY <1>2, <1>7, <1>11, <1>12
      <3>3. QED
        BY <3>1, <3>2 DEF Acting, Balanced
    <2>4. QED
      BY <1>1, <2>1, <2>2, <2>3 DEF RowsInv
  <1>13. RowsInv(made)'
    <2>1. Paired(made)' /\ Fresh(made)'
      BY <1>1, <1>2, <1>7, <1>11 DEF Paired, Known, Fresh
    <2>2. phase' = "check" => Balanced(made, Len(made))'
      BY <1>2, <1>7, <1>11 DEF Balanced
    <2>3. phase' = "act" => Acting(made)'
      <3>1. next' = 1 /\ Uses(calls)' = Uses(n)
        BY <1>1 DEF Uses, ToolUse
      <3>2. phase' = "act" =>
               /\ made' # <<>>
               /\ made'[Len(made')].kind = "reply" /\ made'[Len(made')].ids = Uses(n)
               /\ Balanced(made', Len(made') - 1)
        BY <1>2, <1>7, <1>11
      <3>3. QED
        BY <3>1, <3>2 DEF Acting, Balanced
    <2>4. QED
      BY <1>1, <2>1, <2>2, <2>3 DEF RowsInv
  <1>14. QED
    BY <1>1, <1>4, <1>5, <1>8, <1>9, <1>10, <1>12, <1>13, SayKeeps
-----------------------------------------------------------------------------
(* A tool returns.                                                         *)

(* AddResult changes the last row or appends one.                          *)
LEMMA ResultFacts ==
    ASSUME NEW rows \in Seq(Rows), rows # <<>>, NEW id \in Ids, run \in UserMessages
    PROVE  LET q == AddResult(rows, id)
               n == Len(rows)
           IN  /\ q \in Seq(Rows) /\ q # <<>> /\ n > 0
               /\ q[Len(q)].kind = "results"
               /\ \A i \in 1 .. n :
                     i \in DOMAIN q /\ q[i].kind = rows[i].kind /\ q[i].of = rows[i].of
               /\ \A i \in 1 .. n - 1 : q[i] = rows[i]
               /\ \A i \in DOMAIN q : \A x \in q[i].ids :
                     x = id \/ (i \in 1 .. n /\ x \in rows[i].ids)
               /\ rows[n].kind = "results" =>
                     Len(q) = n /\ q[n] = [rows[n] EXCEPT !.ids = @ \cup {id}]
               /\ rows[n].kind # "results" =>
                     /\ q = Append(rows, Message("results", {id}, run))
                     /\ Len(q) = n + 1 /\ q[n] = rows[n]
                     /\ q[n + 1] = Message("results", {id}, run)
  <1> DEFINE q == AddResult(rows, id)
             n == Len(rows)
             new == Message("results", {id}, run)
             more == [rows[n] EXCEPT !.ids = @ \cup {id}]
  <1>0. n \in Nat /\ n > 0
    BY EmptySeq
  <1>1. n \in Nat /\ n > 0 /\ DOMAIN rows = 1 .. n /\ n \in DOMAIN rows /\ rows[n] \in Rows
    BY <1>0, ElementOfSeq
  <1>2. new \in Rows /\ new.kind = "results" /\ new.ids = {id}
    BY DEF Message, Rows, Kinds
  <1>3. /\ more \in Rows /\ more.kind = rows[n].kind /\ more.of = rows[n].of
        /\ more.ids = rows[n].ids \cup {id}
    BY <1>1 DEF Rows
  <1>4. CASE rows[n].kind = "results"
    <2>1. q = [rows EXCEPT ![n] = more]
      BY <1>1, <1>4 DEF AddResult
    <2> HIDE DEF more, q
    <2>2. q \in Seq(Rows) /\ Len(q) = n /\ DOMAIN q = 1 .. n /\ q[n] = more
          /\ \A i \in 1 .. n - 1 : q[i] = rows[i]
      <3>1. n \in 1 .. Len(rows) /\ \A i \in 1 .. n - 1 : i \in 1 .. Len(rows) /\ i # n
        BY <1>0
      <3>2. /\ q \in Seq(Rows) /\ Len(q) = Len(rows)
            /\ \A j \in 1 .. Len(rows) : q[j] = IF j = n THEN more ELSE rows[j]
        BY <1>3, <2>1, <3>1, ExceptSeq
      <3>3. QED
        BY <3>1, <3>2
    <2>3. \A i \in 1 .. n : i = n \/ i \in 1 .. n - 1
      BY <1>0
    <2>4. q # <<>>
      BY <1>1, <2>2
    <2>5. \A i \in 1 .. n :
             i \in DOMAIN q /\ q[i].kind = rows[i].kind /\ q[i].of = rows[i].of
      BY <1>3, <2>2, <2>3
    <2>6. \A i \in DOMAIN q : \A x \in q[i].ids :
             x = id \/ (i \in 1 .. n /\ x \in rows[i].ids)
      BY <1>3, <2>2, <2>3
    <2>7. QED
      BY <1>1, <1>4, <2>2, <2>4, <2>5, <2>6 DEF q, more
  <1>5. CASE rows[n].kind # "results"
    <2>1. q = Append(rows, new)
      BY <1>5 DEF AddResult
    <2> HIDE DEF new, q
    <2>2. /\ q \in Seq(Rows) /\ q # <<>> /\ Len(q) = n + 1 /\ DOMAIN q = 1 .. n + 1
          /\ q[n + 1] = new /\ \A i \in 1 .. n : q[i] = rows[i]
      BY <1>2, <2>1, AppendFacts
    <2>3. \A i \in 1 .. n + 1 : i = n + 1 \/ i \in 1 .. n
      BY <1>1
    <2>4. \A i \in 1 .. n : i \in 1 .. n + 1
      BY <1>1
    <2>5. \A i \in DOMAIN q : \A x \in q[i].ids :
             x = id \/ (i \in 1 .. n /\ x \in rows[i].ids)
      BY <1>2, <2>2, <2>3
    <2>6. n \in 1 .. n /\ \A i \in 1 .. n - 1 : i \in 1 .. n
      BY <1>1
    <2>7. QED
      BY <1>1, <1>2, <1>5, <2>1, <2>2, <2>4, <2>5, <2>6 DEF q, new
  <1>6. QED
    BY <1>4, <1>5

(* The results of the last reply, up to the one that was added.            *)
Answered(q) ==
    /\ Len(q) > 1
    /\ q[Len(q)].kind = "results" /\ q[Len(q)].ids = Uses(next)
    /\ q[Len(q) - 1].kind = "reply" /\ q[Len(q) - 1].ids = Uses(calls)
    /\ Balanced(q, Len(q) - 2)
    /\ Paired(q)

(* The result of the next tool joins those of the last reply.              *)
LEMMA ActRows ==
    ASSUME IInv, phase = "act", NEW rows \in Seq(Rows), Paired(rows), Acting(rows)
    PROVE  Answered(AddResult(rows, ToolUse(next)))
  <1> DEFINE id == ToolUse(next)
             q == AddResult(rows, id)
             n == Len(rows)
  <1>1. /\ run \in UserMessages /\ MaxCalls \in Nat
        /\ next \in 1 .. MaxCalls /\ calls \in 0 .. MaxCalls /\ next <= calls
        /\ next \in 0 .. MaxCalls
    BY AgentRunAssumption DEF IInv, TypeInv, StageInv
  <1>2. /\ Uses(next) \subseteq Ids /\ Uses(next - 1) \cup {id} = Uses(next)
        /\ Uses(next) \subseteq Uses(calls) /\ Uses(0) = {}
    BY <1>1, UsesFacts
  <1>3. id \in Uses(next) /\ id \in Ids
    BY <1>2
  <1>4. rows # <<>> /\ n \in Nat
    BY EmptySeq DEF Acting
  <1>5. /\ q \in Seq(Rows) /\ q # <<>> /\ n > 0
        /\ \A i \in 1 .. n - 1 : q[i] = rows[i]
        /\ rows[n].kind = "results" =>
              Len(q) = n /\ q[n] = [rows[n] EXCEPT !.ids = @ \cup {id}]
        /\ rows[n].kind # "results" =>
              /\ q = Append(rows, Message("results", {id}, run))
              /\ Len(q) = n + 1 /\ q[n] = rows[n]
              /\ q[n + 1] = Message("results", {id}, run)
    <2> HIDE DEF id
    <2>1. QED
      BY <1>1, <1>3, <1>4, ResultFacts
  <1> HIDE DEF id, q
  <1>6. CASE next = 1
    <2>1. /\ rows[n].kind = "reply" /\ rows[n].ids = Uses(calls)
          /\ Balanced(rows, n - 1)
      BY <1>6 DEF Acting
    <2> DEFINE new == Message("results", {id}, run)
    <2>2. new \in Rows /\ new.kind = "results" /\ new.ids = {id} /\ {id} = Uses(next)
      <3>1. {id} = Uses(next)
        BY <1>2, <1>6
      <3>2. QED
        BY <1>1, <1>3, <3>1 DEF Message, Rows, Kinds
    <2>3. q = Append(rows, new) /\ Len(q) = n + 1 /\ q[n] = rows[n] /\ q[n + 1] = new
      BY <1>5, <2>1
    <2> HIDE DEF new
    <2>4. Balanced(q, n - 1)
      <3>1. n - 1 \in 0 .. n
        BY <1>4, <1>5
      <3>2. QED
        BY <2>1, <2>2, <2>3, <3>1, AppendKeepsBalance
    <2>5. Paired(q)
      BY <1>2, <1>4, <2>1, <2>2, <2>3, AppendKeepsPairs
    <2>6. Len(q) > 1 /\ Len(q) - 1 = n /\ Len(q) - 2 = n - 1
      BY <1>4, <1>5, <2>3
    <2>7. QED
      BY <2>1, <2>2, <2>3, <2>4, <2>5, <2>6 DEF Answered, id, q
  <1>7. CASE next # 1
    <2>1. /\ n > 1
          /\ rows[n].kind = "results" /\ rows[n].ids = Uses(next - 1)
          /\ rows[n - 1].kind = "reply" /\ rows[n - 1].ids = Uses(calls)
          /\ Balanced(rows, n - 2)
      BY <1>7 DEF Acting
    <2>2. rows[n] \in Rows /\ n \in 1 .. n
      BY <1>4, <1>5, ElementOfSeq
    <2>3. /\ Len(q) = n /\ q[n].kind = "results" /\ q[n].ids = Uses(next)
          /\ DOMAIN q = 1 .. n /\ DOMAIN rows = 1 .. n
      <3>1. Len(q) = n /\ q[n] = [rows[n] EXCEPT !.ids = @ \cup {id}]
        BY <1>5, <2>1
      <3>2. q[n].kind = rows[n].kind /\ q[n].ids = rows[n].ids \cup {id}
        BY <2>2, <3>1 DEF Rows
      <3>3. DOMAIN q = 1 .. n /\ DOMAIN rows = 1 .. n
        BY <1>5, <3>1
      <3>4. QED
        BY <1>2, <2>1, <3>1, <3>2, <3>3
    <2>4. n - 1 \in 1 .. n - 1 /\ q[n - 1] = rows[n - 1]
      BY <1>4, <1>5, <2>1
    <2>5. Balanced(q, n - 2)
      <3>1. \A i \in 1 .. n - 2 : i \in 1 .. n - 1 /\ i + 1 \in 1 .. n - 1 /\ i < n
        BY <1>4
      <3>2. QED
        BY <1>5, <2>1, <2>3, <3>1 DEF Balanced
    <2>6. Paired(q)
      <3>1. \A i \in 1 .. n : i = n \/ i \in 1 .. n - 1
        BY <1>4
      <3>2. ASSUME NEW j \in 1 .. n, q[j].kind = "results"
            PROVE  j > 1 /\ q[j - 1].kind = "reply" /\ q[j].ids \subseteq q[j - 1].ids
        <4>1. CASE j = n
          BY <1>2, <2>1, <2>3, <2>4, <4>1
        <4>2. CASE j \in 1 .. n - 1
          <5>1. j > 1 => j - 1 \in 1 .. n - 1
            BY <1>4, <4>2
          <5>2. QED
            BY <1>5, <2>3, <3>2, <4>2, <5>1 DEF Paired
        <4>3. QED
          BY <3>1, <4>1, <4>2
      <3>3. ASSUME NEW i \in 1 .. n, NEW j \in 1 .. n, q[i].kind = "reply", q[j].kind = "reply",
                   q[i].ids \cap q[j].ids # {}
            PROVE  i = j
        <4>1. i \in 1 .. n - 1 /\ j \in 1 .. n - 1
          BY <2>3, <3>1, <3>3
        <4>2. QED
          BY <1>5, <2>3, <3>3, <4>1 DEF Paired
      <3>4. QED
        BY <2>3, <3>2, <3>3 DEF Paired
    <2>7. QED
      BY <1>4, <2>1, <2>3, <2>4, <2>5, <2>6 DEF Answered, id, q
  <1>8. QED
    BY <1>6, <1>7 DEF id, q

(* Rows that were fresh have ids of this run up to the step.               *)
LEMMA ActKeepsFresh ==
    ASSUME IInv, phase = "act", NEW rows \in Seq(Rows), rows # <<>>, Fresh(rows)
    PROVE  Known(AddResult(rows, ToolUse(next)))
  <1> DEFINE id == ToolUse(next)
             q == AddResult(rows, id)
  <1>1. run \in UserMessages /\ run \in sent /\ step \in 1 .. MaxSteps /\ id \in Ids
    <2>1. /\ run \in UserMessages /\ run \in sent /\ step \in 1 .. MaxSteps
          /\ next \in 1 .. MaxCalls
      BY AgentRunAssumption DEF IInv, TypeInv, StageInv
    <2>2. QED
      BY <2>1 DEF ToolUse, Ids
  <1>2. id[1] = run /\ id[2] = step
    BY DEF ToolUse
  <1> HIDE DEF id
  <1>3. \A i \in DOMAIN q : \A x \in q[i].ids :
           x = id \/ (i \in 1 .. Len(rows) /\ x \in rows[i].ids)
    BY <1>1, ResultFacts
  <1>4. Known(q)
    <2> SUFFICES ASSUME NEW i \in DOMAIN q, NEW x \in q[i].ids
                 PROVE  x[1] \in sent /\ (x[1] = run => x[2] <= step)
      BY DEF Known
    <2>1. CASE x = id
      BY <1>1, <1>2, <2>1
    <2>2. CASE i \in 1 .. Len(rows) /\ x \in rows[i].ids
      BY <2>2 DEF Fresh
    <2>3. QED
      BY <1>3, <2>1, <2>2
  <1>5. QED
    BY <1>4 DEF id

LEMMA ActInv == IInv /\ Act => IInv'
  <1> SUFFICES ASSUME IInv, Act PROVE IInv'
    OBVIOUS
  <1> DEFINE id == ToolUse(next)
  <1>1. /\ phase = "act" /\ next' = next + 1
        /\ context' = AddResult(context, id) /\ made' = AddResult(made, id)
        /\ phase' = (IF next = calls THEN "check" ELSE "act")
        /\ UNCHANGED <<thread, sent, run, prefill, step, outcome, stop, calls, attempt, lost>>
    BY DEF Act
  <1>2. /\ run \in UserMessages /\ run \in sent /\ step \in 1 .. MaxSteps /\ MaxCalls \in Nat
        /\ next \in 1 .. MaxCalls /\ calls \in 0 .. MaxCalls /\ next <= calls /\ prefill \in Nat
    BY <1>1, AgentRunAssumption DEF IInv, TypeInv, StageInv
  <1>3. id \in Ids /\ id[1] = run
    BY <1>2 DEF ToolUse, Ids
  <1>4. /\ context \in Seq(Rows) /\ context # <<>>
        /\ made \in Seq(Rows) /\ made # <<>> /\ RowsInv(made)
    <2>1. Acting(made)
      BY <1>1 DEF IInv, MadeInv, RowsInv
    <2>2. made # <<>>
      BY <2>1, EmptySeq DEF Acting
    <2>3. QED
      BY <1>1, <2>2 DEF IInv, TypeInv, ContextInv, MadeInv
  <1> HIDE DEF id
  <1>5. /\ context' \in Seq(Rows) /\ context' # <<>>
        /\ Len(context) \in Nat /\ Len(context) > 0
        /\ context'[Len(context')].kind = "results"
        /\ \A i \in 1 .. Len(context) : /\ i \in DOMAIN context'
                                        /\ context'[i].kind = context[i].kind
                                        /\ context'[i].of = context[i].of
        /\ \A i \in 1 .. Len(context) - 1 : context'[i] = context[i]
        /\ context[Len(context)].kind = "results" =>
              /\ Len(context') = Len(context)
              /\ context'[Len(context)] = [context[Len(context)] EXCEPT !.ids = @ \cup {id}]
        /\ context[Len(context)].kind # "results" =>
              /\ Len(context') = Len(context) + 1
              /\ context'[Len(context)] = context[Len(context)]
              /\ context'[Len(context) + 1] = Message("results", {id}, run)
    <2> DEFINE q == AddResult(context, id)
               n == Len(context)
    <2>1. /\ q \in Seq(Rows) /\ q # <<>> /\ n > 0
          /\ q[Len(q)].kind = "results"
          /\ \A i \in 1 .. n :
                i \in DOMAIN q /\ q[i].kind = context[i].kind /\ q[i].of = context[i].of
          /\ \A i \in 1 .. n - 1 : q[i] = context[i]
          /\ \A i \in DOMAIN q : \A x \in q[i].ids :
                x = id \/ (i \in 1 .. n /\ x \in context[i].ids)
          /\ context[n].kind = "results" =>
                Len(q) = n /\ q[n] = [context[n] EXCEPT !.ids = @ \cup {id}]
          /\ context[n].kind # "results" =>
                /\ Len(q) = n + 1 /\ q[n] = context[n]
                /\ q[n + 1] = Message("results", {id}, run)
      BY <1>2, <1>3, <1>4, ResultFacts
    <2>2. context' = q /\ n \in Nat
      BY <1>1, <1>4
    <2> HIDE DEF q
    <2>3. QED
      BY <2>1, <2>2
  <1>6. /\ made' \in Seq(Rows) /\ made' # <<>>
        /\ Len(made) \in Nat /\ Len(made) > 0
        /\ \A i \in 1 .. Len(made) : i \in DOMAIN made' /\ made'[i].kind = made[i].kind
        /\ \A i \in 1 .. Len(made) - 1 : made'[i] = made[i]
        /\ \A i \in DOMAIN made' : \A x \in made'[i].ids :
              x = id \/ (i \in 1 .. Len(made) /\ x \in made[i].ids)
        /\ made[Len(made)].kind = "results" =>
              /\ Len(made') = Len(made)
              /\ made'[Len(made)] = [made[Len(made)] EXCEPT !.ids = @ \cup {id}]
        /\ made[Len(made)].kind # "results" =>
              /\ Len(made') = Len(made) + 1
              /\ made'[Len(made)] = made[Len(made)]
              /\ made'[Len(made) + 1] = Message("results", {id}, run)
    <2> DEFINE q == AddResult(made, id)
               n == Len(made)
    <2>1. /\ q \in Seq(Rows) /\ q # <<>> /\ n > 0
          /\ q[Len(q)].kind = "results"
          /\ \A i \in 1 .. n :
                i \in DOMAIN q /\ q[i].kind = made[i].kind /\ q[i].of = made[i].of
          /\ \A i \in 1 .. n - 1 : q[i] = made[i]
          /\ \A i \in DOMAIN q : \A x \in q[i].ids :
                x = id \/ (i \in 1 .. n /\ x \in made[i].ids)
          /\ made[n].kind = "results" =>
                Len(q) = n /\ q[n] = [made[n] EXCEPT !.ids = @ \cup {id}]
          /\ made[n].kind # "results" =>
                /\ Len(q) = n + 1 /\ q[n] = made[n]
                /\ q[n + 1] = Message("results", {id}, run)
      BY <1>2, <1>3, <1>4, ResultFacts
    <2>2. made' = q /\ n \in Nat
      BY <1>1, <1>4
    <2> HIDE DEF q
    <2>3. QED
      BY <2>1, <2>2
  <1>7. TypeInv'
    <2>1. next' \in 0 .. MaxCalls + 1
      BY <1>1, <1>2
    <2>2. QED
      BY <1>1, <1>5, <1>6, <2>1 DEF IInv, TypeInv
  <1>8. StageInv'
    <2>1. phase' = "act" => 1 <= next' /\ next' <= calls
      BY <1>1, <1>2
    <2>2. QED
      BY <1>1, <1>2, <2>1 DEF IInv, StageInv, EndTurnWins
  <1>9. ThreadInv'
    BY <1>1 DEF IInv, ThreadInv, Clean
  <1>10. ASSUME NEW rows \in Seq(Rows), rows # <<>>, RowsInv(rows), NEW q \in Seq(Rows),
                q = AddResult(rows, id)
         PROVE  /\ Paired(q) /\ Known(q)
                /\ phase' = "check" => Balanced(q, Len(q))
                /\ phase' = "act" =>
                      /\ Len(q) > 1
                      /\ q[Len(q)].kind = "results" /\ q[Len(q)].ids = Uses(next)
                      /\ q[Len(q) - 1].kind = "reply" /\ q[Len(q) - 1].ids = Uses(calls)
                      /\ Balanced(q, Len(q) - 2)
    <2>1. Answered(q)
      BY <1>1, <1>10, ActRows DEF RowsInv, id
    <2>2. Known(q)
      BY <1>1, <1>10, ActKeepsFresh DEF RowsInv, id
    <2>3. ASSUME phase' = "check" PROVE Balanced(q, Len(q))
      <3>1. next = calls
        BY <1>1, <2>3
      <3>2. /\ Len(q) \in Nat /\ Len(q) > 1
            /\ q[Len(q)].kind = "results" /\ q[Len(q)].ids = Uses(calls)
            /\ q[Len(q) - 1].kind = "reply" /\ q[Len(q) - 1].ids = Uses(calls)
            /\ Balanced(q, Len(q) - 2)
        BY <2>1, <3>1 DEF Answered
      <3>3. /\ \A i \in 1 .. Len(q) : i \in 1 .. Len(q) - 2 \/ i = Len(q) - 1 \/ i = Len(q)
            /\ (Len(q) - 1) + 1 = Len(q) /\ Len(q) - 1 < Len(q)
        BY <3>2
      <3>4. QED
        BY <3>2, <3>3 DEF Balanced
    <2>4. QED
      BY <2>1, <2>2, <2>3 DEF Answered
  <1>11. next' > 1 /\ Uses(next - 1)' = Uses(next) /\ Uses(calls)' = Uses(calls)
    <2>1. next' > 1 /\ next' - 1 = next
      BY <1>1, <1>2
    <2>2. QED
      BY <1>1, <2>1 DEF Uses, ToolUse
  <1>12. ASSUME RowsInv(context) PROVE RowsInv(context)'
    <2>1. /\ Paired(context') /\ Known(context')
          /\ phase' = "check" => Balanced(context', Len(context'))
          /\ phase' = "act" =>
                /\ Len(context') > 1
                /\ context'[Len(context')].kind = "results"
                /\ context'[Len(context')].ids = Uses(next)
                /\ context'[Len(context') - 1].kind = "reply"
                /\ context'[Len(context') - 1].ids = Uses(calls)
                /\ Balanced(context', Len(context') - 2)
      BY <1>1, <1>4, <1>5, <1>10, <1>12
    <2>2. Paired(context)' /\ Fresh(context)'
      BY <1>1, <2>1 DEF Paired, Known, Fresh
    <2>3. phase' = "check" => Balanced(context, Len(context))'
      BY <2>1 DEF Balanced
    <2>4. phase' = "act" => Acting(context)'
      BY <1>11, <2>1 DEF Acting, Balanced
    <2>5. QED
      BY <1>1, <2>2, <2>3, <2>4 DEF RowsInv
  <1>13. RowsInv(made)'
    <2>1. /\ Paired(made') /\ Known(made')
          /\ phase' = "check" => Balanced(made', Len(made'))
          /\ phase' = "act" =>
                /\ Len(made') > 1
                /\ made'[Len(made')].kind = "results"
                /\ made'[Len(made')].ids = Uses(next)
                /\ made'[Len(made') - 1].kind = "reply"
                /\ made'[Len(made') - 1].ids = Uses(calls)
                /\ Balanced(made', Len(made') - 2)
      BY <1>1, <1>4, <1>6, <1>10
    <2>2. Paired(made)' /\ Fresh(made)'
      BY <1>1, <2>1 DEF Paired, Known, Fresh
    <2>3. phase' = "check" => Balanced(made, Len(made))'
      BY <2>1 DEF Balanced
    <2>4. phase' = "act" => Acting(made)'
      BY <1>11, <2>1 DEF Acting, Balanced
    <2>5. QED
      BY <1>1, <2>2, <2>3, <2>4 DEF RowsInv
  <1>14. ContextInv'
    <2>1. Starts(context)'
      <3>1. 1 \in 1 .. Len(context)
        BY <1>5
      <3>2. QED
        BY <1>1, <1>4, <1>5, <3>1 DEF IInv, ContextInv, Starts, FromUser
    <2>2. Fresh(context)'
      <3>1. Known(context')
        BY <1>1, <1>4, ActKeepsFresh DEF IInv, ContextInv, id
      <3>2. QED
        BY <1>1, <3>1 DEF Known, Fresh
    <2>3. QED
      BY <1>1, <1>5, <1>12, <2>1, <2>2 DEF IInv, ContextInv, Clean
  <1>15. MadeInv'
    <2>1. made'[1].kind = "reply"
      <3>1. 1 \in 1 .. Len(made)
        BY <1>6
      <3>2. QED
        BY <1>1, <1>4, <1>6, <3>1 DEF IInv, MadeInv
    <2>2. \A i \in DOMAIN made' : \A x \in made'[i].ids : x[1] = run
      BY <1>1, <1>3, <1>4, <1>6 DEF IInv, MadeInv
    <2>3. QED
      BY <1>1, <1>13, <2>1, <2>2 DEF MadeInv
  <1>16. TailInv'
    <2> SUFFICES ASSUME run \notin Compacting
                 PROVE  /\ Len(context') = prefill + Len(made')
                        /\ \A i \in 1 .. Len(made') : context'[prefill + i] = made'[i]
      BY <1>1 DEF TailInv
    <2> DEFINE n == Len(context)
               k == Len(made)
    <2>1. n = prefill + k /\ \A i \in 1 .. k : context[prefill + i] = made[i]
      BY <1>1 DEF IInv, TailInv
    <2>2. k \in Nat /\ k > 0 /\ n \in Nat /\ context[n] = made[k]
      <3>1. k \in Nat /\ k > 0 /\ n \in Nat
        BY <1>5, <1>6
      <3>2. k \in 1 .. k
        BY <3>1
      <3>3. QED
        BY <2>1, <3>1, <3>2
    <2> HIDE DEF n, k
    <2>3. ASSUME NEW i \in 1 .. k - 1 PROVE context'[prefill + i] = made'[i]
      <3>1. prefill + i \in 1 .. n - 1 /\ i \in 1 .. k
        BY <1>2, <2>1, <2>2
      <3>2. QED
        BY <1>5, <1>6, <2>1, <3>1 DEF n, k
    <2>4. CASE made[k].kind = "results"
      <3>1. Len(context') = n /\ Len(made') = k /\ context'[n] = made'[k]
        BY <1>5, <1>6, <2>2, <2>4 DEF n, k
      <3>2. \A i \in 1 .. k : i \in 1 .. k - 1 \/ i = k
        BY <2>2
      <3>3. QED
        BY <2>1, <2>3, <3>1, <3>2
    <2>5. CASE made[k].kind # "results"
      <3>1. /\ Len(context') = n + 1 /\ Len(made') = k + 1
            /\ context'[n] = made'[k] /\ context'[n + 1] = made'[k + 1]
        BY <1>5, <1>6, <2>2, <2>5 DEF n, k
      <3>2. \A i \in 1 .. k + 1 : i \in 1 .. k - 1 \/ i = k \/ i = k + 1
        BY <2>2
      <3>3. prefill + (k + 1) = n + 1
        BY <1>2, <2>1, <2>2
      <3>4. QED
        BY <2>1, <2>3, <3>1, <3>2, <3>3
    <2>6. QED
      BY <2>4, <2>5
  <1>17. SeesInv'
    BY <1>1, <1>4, <1>5 DEF IInv, SeesInv, Clean
  <1>18. LastInv' /\ CheckInv'
    BY <1>1, <1>5 DEF LastInv, CheckInv
  <1>19. QED
    BY <1>7, <1>8, <1>9, <1>14, <1>15, <1>16, <1>17, <1>18 DEF IInv
-----------------------------------------------------------------------------
(* A message is sent: what is read of the thread.                          *)

(* The history of a run starts with the user, is paired and balanced, and  *)
(* if no tool_use of the thread is open it holds the message just sent.    *)
LEMMA HistoryFacts ==
    ASSUME IInv, phase = "idle", NEW m \in UserMessages
    PROVE  /\ History(m) \in Seq(Rows) /\ Starts(History(m))
           /\ Len(History(m)) > 0
           /\ \A i \in DOMAIN History(m) : \A x \in History(m)[i].ids : x[1] \in sent
           /\ Clean => Paired(History(m)) /\ Balanced(History(m), Len(History(m)))
           /\ OpenIds(Append(thread, UserMessage(m)), Len(Append(thread, UserMessage(m)))) = {} =>
                \E i \in DOMAIN History(m) :
                   History(m)[i].of = m /\ History(m)[i].kind = "message"
  <1> DEFINE msg == UserMessage(m)
             rows == Append(thread, msg)
  <1>1. msg \in Rows /\ msg.kind = "message" /\ msg.ids = {} /\ msg.of = m
    BY DEF UserMessage, Message, Rows, Kinds
  <1>2. thread \in Seq(Rows) /\ Len(thread) \in Nat /\ ThreadInv /\ run = NoMessage
    BY DEF IInv, TypeInv, StageInv
  <1> HIDE DEF msg
  <1>3. /\ rows \in Seq(Rows) /\ rows # <<>> /\ Len(rows) = Len(thread) + 1
        /\ DOMAIN rows = 1 .. Len(thread) + 1
        /\ \A i \in 1 .. Len(thread) : rows[i] = thread[i]
        /\ rows[Len(thread) + 1] = msg
    BY <1>1, <1>2, AppendFacts
  <1> HIDE DEF rows
  <1>4. Starts(rows)
    <2>1. CASE thread = <<>>
      <3>1. rows[1] = msg
        BY <1>3, <2>1, EmptySeq
      <3>2. QED
        BY <1>1, <3>1 DEF Starts, FromUser
    <2>2. CASE thread # <<>>
      <3>1. 1 \in 1 .. Len(thread)
        BY <1>2, <2>2, EmptySeq
      <3>2. QED
        BY <1>2, <1>3, <2>2, <3>1 DEF ThreadInv, Starts
    <2>3. QED
      BY <2>1, <2>2
  <1>5. \A i \in DOMAIN rows : \A x \in rows[i].ids : x[1] \in sent
    <2>1. \A i \in DOMAIN rows : i \in 1 .. Len(thread) \/ i = Len(thread) + 1
      BY <1>2, <1>3
    <2>2. QED
      BY <1>1, <1>2, <1>3, <2>1 DEF ThreadInv
  <1>6. ASSUME Clean PROVE Paired(rows)
    BY <1>1, <1>2, <1>6, AppendKeepsPairs DEF ThreadInv, rows
  <1>8. PICK k \in 0 .. Len(rows) :
            /\ ReadMessages(rows) = SubSeq(rows, 1, k)
            /\ OpenIds(rows, k) = {}
            /\ OpenIds(rows, Len(rows)) = {} => k = Len(rows)
            /\ rows # <<>> => k > 0
    BY <1>3, <1>4, ReadIsPrefix
  <1> DEFINE h == SubSeq(rows, 1, k)
  <1>9. History(m) = h
    BY <1>8 DEF History, rows, msg
  <1>10. /\ h \in Seq(Rows) /\ Len(h) = k /\ k > 0 /\ Starts(h)
         /\ \A i \in 1 .. k : h[i] = rows[i]
         /\ Paired(rows) => Paired(h)
    BY <1>3, <1>4, <1>8, PrefixFacts
  <1>11. Clean => Paired(h) /\ Balanced(h, Len(h))
    BY <1>3, <1>6, <1>8, <1>10, ClosedIsBalanced
  <1> HIDE DEF h
  <1>12. DOMAIN h = 1 .. k /\ 1 .. k \subseteq DOMAIN rows
    BY <1>2, <1>3, <1>10
  <1>13. ASSUME OpenIds(rows, Len(rows)) = {}
         PROVE  \E i \in DOMAIN h : h[i].of = m /\ h[i].kind = "message"
    <2>1. k = Len(thread) + 1
      BY <1>3, <1>8, <1>13
    <2>2. k \in 1 .. k
      BY <1>10, <1>12
    <2>3. QED
      BY <1>1, <1>3, <1>10, <1>12, <2>1, <2>2
  <1>14. QED
    BY <1>5, <1>9, <1>10, <1>11, <1>12, <1>13 DEF rows, msg

LEMMA SubmitInv ==
    ASSUME IInv, NEW m \in UserMessages, Submit(m)
    PROVE  IInv'
  <1> DEFINE h == History(m)
  <1>1. /\ phase = "idle" /\ phase' = "step" /\ m \notin sent /\ sent' = sent \cup {m} /\ run' = m
        /\ thread' = Append(thread, UserMessage(m))
        /\ prefill' = Len(h) /\ context' = (IF h = <<>> THEN <<UserMessage(m)>> ELSE h)
        /\ step' = 0 /\ outcome' = "running" /\ stop' = "none" /\ calls' = 0 /\ next' = 0
        /\ made' = <<>> /\ attempt' = attempt /\ lost' = lost
    BY DEF Submit
  <1>2. /\ thread \in Seq(Rows) /\ Len(thread) \in Nat /\ ThreadInv /\ run = NoMessage
        /\ sent \subseteq UserMessages
    BY <1>1 DEF IInv, TypeInv, StageInv
  <1> DEFINE msg == UserMessage(m)
  <1>3. msg \in Rows /\ msg.kind = "message" /\ msg.ids = {} /\ msg.of = m
    BY DEF UserMessage, Message, Rows, Kinds
  <1>4. /\ h \in Seq(Rows) /\ Starts(h) /\ Len(h) \in Nat /\ Len(h) > 0
        /\ \A i \in DOMAIN h : \A x \in h[i].ids : x[1] \in sent
        /\ Clean => Paired(h) /\ Balanced(h, Len(h))
        /\ OpenIds(thread', Len(thread')) = {} =>
              \E i \in DOMAIN h : h[i].of = m /\ h[i].kind = "message"
    BY <1>1, HistoryFacts
  <1> HIDE DEF h
  <1>5. h # <<>> /\ context' = h
    BY <1>1, <1>4
  <1>6. thread' = Append(thread, msg)
    BY <1>1
  <1> HIDE DEF msg
  <1>7. /\ thread' \in Seq(Rows) /\ thread' # <<>> /\ Len(thread') = Len(thread) + 1
        /\ DOMAIN thread' = 1 .. Len(thread) + 1
        /\ \A i \in 1 .. Len(thread) : thread'[i] = thread[i]
        /\ thread'[Len(thread) + 1] = msg
    BY <1>2, <1>3, <1>6, AppendFacts
  <1>8. TypeInv'
    <2>1. step' \in 0 .. MaxSteps /\ calls' \in 0 .. MaxCalls /\ next' \in 0 .. MaxCalls + 1
      BY <1>1, AgentRunAssumption
    <2>2. made' \in Seq(Rows)
      BY <1>1, EmptySeq
    <2>3. QED
      BY <1>1, <1>2, <1>4, <1>5, <1>7, <2>1, <2>2 DEF IInv, TypeInv, Outcomes
  <1>9. StageInv'
    BY <1>1, AgentRunAssumption DEF StageInv, EndTurnWins
  <1>10. Clean' => Clean
    BY <1>1, <1>2 DEF Clean
  <1>11. ThreadInv'
    <2>1. \A i \in DOMAIN thread' : i \in 1 .. Len(thread) \/ i = Len(thread) + 1
      BY <1>2, <1>7
    <2>2. Starts(thread)'
      <3>1. CASE thread = <<>>
        <4>1. thread'[1] = msg
          BY <1>7, <3>1, EmptySeq
        <4>2. QED
          BY <1>3, <4>1 DEF Starts, FromUser
      <3>2. CASE thread # <<>>
        <4>1. 1 \in 1 .. Len(thread)
          BY <1>2, <3>2, EmptySeq
        <4>2. QED
          BY <1>2, <1>7, <3>2, <4>1 DEF ThreadInv, Starts
      <3>3. QED
        BY <3>1, <3>2
    <2>3. \A i \in DOMAIN thread' : \A x \in thread'[i].ids : x[1] \in sent' \ {run'}
      BY <1>1, <1>2, <1>3, <1>7, <2>1 DEF ThreadInv
    <2>4. ASSUME Clean' PROVE Paired(thread)'
      <3>1. Paired(Append(thread, msg))
        BY <1>2, <1>3, <1>10, <2>4, AppendKeepsPairs DEF ThreadInv
      <3>2. QED
        BY <1>6, <3>1 DEF Paired
    <2>5. QED
      BY <1>7, <2>2, <2>3, <2>4 DEF ThreadInv
  <1>12. ContextInv'
    <2>1. Fresh(context)'
      <3>1. \A i \in DOMAIN h : \A x \in h[i].ids : x[1] \in sent' /\ x[1] # run'
        BY <1>1, <1>4
      <3>2. QED
        BY <1>1, <1>5, <3>1 DEF Fresh
    <2>2. Clean' => Paired(context)' /\ Balanced(context, Len(context))'
      BY <1>4, <1>5, <1>10 DEF Paired, Balanced
    <2>3. Starts(context)'
      BY <1>4, <1>5 DEF Starts
    <2>4. QED
      BY <1>1, <1>5, <2>1, <2>2, <2>3 DEF ContextInv, RowsInv
  <1>13. MadeInv'
    <2>1. Len(made') = 0 /\ DOMAIN made' = {}
      BY <1>1, EmptySeq
    <2>2. QED
      BY <1>1, <2>1 DEF MadeInv, RowsInv, Paired, Fresh, Balanced
  <1>14. TailInv'
    <2>1. Len(made') = 0 /\ Len(h) = Len(h) + 0
      BY <1>1, <1>4, EmptySeq
    <2>2. QED
      BY <1>1, <1>5, <2>1 DEF TailInv
  <1>15. SeesInv'
    BY <1>1, <1>4, <1>5, <1>10 DEF SeesInv
  <1>16. LastInv' /\ CheckInv'
    BY <1>1 DEF LastInv, CheckInv
  <1>17. QED
    BY <1>8, <1>9, <1>11, <1>12, <1>13, <1>14, <1>15, <1>16 DEF IInv
-----------------------------------------------------------------------------
(* The theorems.                                                           *)

(* Every step keeps the invariant.                                         *)
LEMMA StepInv == IInv /\ [Next]_vars => IInv'
  <1> SUFFICES ASSUME IInv, [Next]_vars PROVE IInv'
    OBVIOUS
  <1>1. ASSUME NEW m \in UserMessages, Submit(m) PROVE IInv'
    BY <1>1, SubmitInv
  <1>2. CASE BeginStep
    BY <1>2, BeginStepInv
  <1>3. ASSUME NEW reason \in StopReasons, NEW n \in 0 .. MaxCalls, ChatReplies(reason, n)
        PROVE  IInv'
    BY <1>3, ChatRepliesInv
  <1>4. CASE StreamDrops
    BY <1>4, StreamDropsInv
  <1>5. CASE ChatFails
    BY <1>5, ChatFailsInv
  <1>6. CASE Act
    BY <1>6, ActInv
  <1>7. CASE Check
    BY <1>7, CheckKeepsInv
  <1>8. CASE Compact
    BY <1>8, CompactInv
  <1>9. CASE Persist
    BY <1>9, PersistInv
  <1>10. CASE Cancel
    BY <1>10, CancelInv
  <1>11. CASE PersistFails
    BY <1>11, PersistFailsInv
  <1>12. CASE CompactThread
    BY <1>12, CompactThreadInv
  <1>13. CASE CancelPublish
    BY <1>13, CancelPublishInv
  <1>14. CASE UNCHANGED vars
    <2>1. /\ UNCHANGED <<thread, sent, run, phase, context, prefill, step, outcome, stop>>
          /\ UNCHANGED <<calls, next, attempt, made, lost>>
      BY <1>14 DEF vars, loopVars, histVars
    <2>2. TypeInv' /\ StageInv' /\ LastInv' /\ CheckInv'
      BY <2>1 DEF IInv, TypeInv, StageInv, EndTurnWins, LastInv, CheckInv
    <2>3. CASE phase # "idle"
      BY <2>1, <2>2, <2>3, RowsStay DEF IInv, TypeInv
    <2>4. CASE phase = "idle"
      <3>1. ThreadInv'
        BY <2>1 DEF IInv, ThreadInv, Clean
      <3>2. QED
        BY <2>1, <2>2, <2>4, <3>1 DEF IInv, ContextInv, MadeInv, TailInv, SeesInv
    <2>5. QED
      BY <2>3, <2>4
  <1>15. QED
    BY <1>1, <1>2, <1>3, <1>4, <1>5, <1>6, <1>7, <1>8, <1>9, <1>10, <1>11, <1>12, <1>13, <1>14
       DEF Next, RunStep

LEMMA Invariance == Spec => []IInv
  BY InitIInv, StepInv, PTL DEF Spec

(* Every row of the thread, of the context and of what was produced is a   *)
(* message, and the counters of the loop stay in their ranges.             *)
THEOREM RunTypeCorrect == Spec => []TypeOK
  <1>1. IInv => TypeOK
    <2> SUFFICES ASSUME IInv PROVE TypeOK
      OBVIOUS
    <2>1. \A msg \in Rows : IsMessage(msg)
      BY DEF Rows, Kinds, IsMessage
    <2>2. ASSUME NEW rows \in Seq(Rows) PROVE \A i \in DOMAIN rows : IsMessage(rows[i])
      BY <2>1, ElementOfSeq
    <2>3. QED
      BY <2>2 DEF IInv, TypeInv, TypeOK
  <1>2. QED
    BY <1>1, Invariance, PTL

(* loop.py: when a run has ended, its outcome is that of its last reply:   *)
(* end_turn is a success even at the step limit, and the limit is reached  *)
(* exactly at it.                                                          *)
THEOREM OutcomeIsLastReplys == Spec => []EndTurnWins
  <1>1. IInv => EndTurnWins
    BY DEF IInv, StageInv
  <1>2. QED
    BY <1>1, Invariance, PTL

(* context.py, store.py: what a step sends to the LLM is accepted by its   *)
(* API, whatever earlier runs of the session left in the thread, as long   *)
(* as no earlier run filled its context.                                   *)
THEOREM RequestsAccepted == Spec => []RequestsWellFormed
  <1>1. IInv => RequestsWellFormed
    <2> SUFFICES ASSUME IInv, phase = "chat", Clean PROVE WellFormed(context)
      BY DEF RequestsWellFormed, Clean
    <2>1. context \in Seq(Rows) /\ Starts(context) /\ RowsInv(context)
      BY DEF IInv, TypeInv, ContextInv
    <2>2. Paired(context) /\ Balanced(context, Len(context))
      BY <2>1 DEF RowsInv
    <2>3. QED
      BY <2>1, <2>2, AcceptedRows
  <1>2. QED
    BY <1>1, Invariance, PTL

(* runner.py: the message a run was started for, or a summary made of it,  *)
(* is in every request of the run.                                         *)
THEOREM OwnMessageSeen == Spec => []RunSeesItsMessage
  <1>1. IInv => RunSeesItsMessage
    BY DEF IInv, SeesInv, RunSeesItsMessage
  <1>2. QED
    BY <1>1, Invariance, PTL

(* loop.py:118-119: a context is compacted only between two steps of a run *)
(* that goes on, when every tool_use has its result.                       *)
THEOREM CompactionBetweenSteps == Spec => []CompactsBetweenSteps
  <1>1. IInv => CompactsBetweenSteps
    <2> SUFFICES ASSUME IInv, phase = "compact" PROVE CompactsBetweenSteps
      BY DEF CompactsBetweenSteps
    <2>1. outcome = "running" /\ context[Len(context)].kind = "results"
      BY DEF IInv, StageInv, LastInv
    <2>2. ASSUME Clean PROVE WellFormed(context)
      <3>1. context \in Seq(Rows) /\ Starts(context) /\ RowsInv(context)
        BY <2>2 DEF IInv, TypeInv, ContextInv
      <3>2. Paired(context) /\ Balanced(context, Len(context))
        BY <3>1 DEF RowsInv
      <3>3. QED
        BY <3>1, <3>2, AcceptedRows
    <2>3. QED
      BY <2>1, <2>2 DEF CompactsBetweenSteps, Clean
  <1>2. QED
    BY <1>1, Invariance, PTL

(* runner.py:242-253: what a run appends to the thread is what it produced *)
(* although it is taken from the context by the length of the history, if  *)
(* the run did not fill its context: all of it, unless a write failed or   *)
(* the run was cancelled while its run.finished was being published.       *)
THEOREM WhatIsProducedIsKept == Spec => ProducedIsKept
  <1> DEFINE Kept == \E n \in 0 .. Len(made) :
                        /\ thread' = thread \o SubSeq(made, 1, n)
                        /\ run \in lost' \/ n = Len(made)
  <1>1. IInv /\ [Next]_vars => [phase = "end" /\ run \notin Compacting => Kept]_vars
    <2> SUFFICES ASSUME IInv, Next, phase = "end", run \notin Compacting PROVE Kept
      BY DEF vars
    <2>1. /\ made \in Seq(Rows) /\ thread \in Seq(Rows) /\ Len(made) \in Nat
          /\ NewMessages = made
      BY NewMessagesFacts DEF IInv, TypeInv
    <2>2. CASE Persist
      <3>1. SubSeq(made, 1, Len(made)) = made /\ Len(made) \in 0 .. Len(made)
        BY <2>1, SubSeqFull
      <3>2. thread' = thread \o SubSeq(made, 1, Len(made))
        BY <2>1, <2>2, <3>1 DEF Persist
      <3>3. QED
        BY <3>1, <3>2
    <2>3. CASE PersistFails
      <3>1. PICK n \in 0 .. Len(made) - 1 : thread' = thread \o SubSeq(made, 1, n)
        BY <2>1, <2>3 DEF PersistFails
      <3>2. n \in 0 .. Len(made) /\ run \in lost'
        BY <2>1, <2>3 DEF PersistFails
      <3>3. QED
        BY <3>1, <3>2
    <2>4. CASE CancelPublish
      <3>1. SubSeq(made, 1, 0) = <<>> /\ 0 \in 0 .. Len(made)
        BY <2>1, PrefixFacts, EmptySeq
      <3>2. thread' = thread \o SubSeq(made, 1, 0) /\ run \in lost'
        BY <2>1, <2>4, <3>1, ConcatEmptySeq DEF CancelPublish
      <3>3. QED
        BY <3>1, <3>2
    <2>5. QED
      BY <2>2, <2>3, <2>4 DEF Next, RunStep, Submit, BeginStep, ChatReplies, StreamDrops,
                              ChatFails, Act, Check, Compact, Cancel, CompactThread
  <1>2. QED
    BY <1>1, Invariance, PTL DEF Spec, ProducedIsKept
=============================================================================
