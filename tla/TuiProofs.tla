------------------------------- MODULE TuiProofs -------------------------------
(***************************************************************************)
(* Proofs about Tui, for any number of requests, messages, compactions,    *)
(* lost connections, events of other sessions and answers of other         *)
(* clients: what the permission manager waits for and the interface was    *)
(* told of is on the screen.                                               *)
(***************************************************************************)
EXTENDS Tui, SequenceTheorems, FiniteSetTheorems, TLAPS

Commands == {"none", "event.subscribe", "session.create", "session.close",
             "session.send_message", "session.compact", "permission.respond"} \X Nat

(* What comes over the stream: events about requests, and the rest.        *)
Words  == {"permission.requested", "permission.denied"} \X Requests
Others == {"result", "error", "session.closed", "session.waiting_for_input"} \X Commands
Lines  == Words \cup Others

TypeOK ==
    /\ link \in {"down", "subscribing", "creating", "up", "dead"}
    /\ busy \in BOOLEAN /\ prompt \in BOOLEAN /\ subscribed \in BOOLEAN
    /\ pending \subseteq Requests /\ selects \in Seq(Requests)
    /\ awaited \subseteq Commands
    /\ inbox \in Seq(Lines)
    /\ holder \in {"none", "session.send_message", "session.compact", "leaving"} \X Nat
    /\ asked \in 0 .. MaxRequests /\ sends \in Nat /\ compacts \in Nat
    /\ losses \in Nat /\ others \in Nat
    /\ open \subseteq 1 .. asked /\ heard \subseteq 1 .. asked
    /\ picked \subseteq heard /\ overtaken \subseteq 1 .. asked

Asks(i, r)   == inbox[i] = <<"permission.requested", r>>
Denies(i, r) == inbox[i] = <<"permission.denied", r>>

(* Requests are told of in the order they were asked, each once.           *)
AskedInv ==
    /\ \A i \in DOMAIN inbox, r \in Requests :
          Asks(i, r) => r <= asked /\ \A h \in heard : h < r
    /\ \A i, j \in DOMAIN inbox, a, b \in Requests :
          i < j /\ Asks(i, a) /\ Asks(j, b) => a < b

(* A denial that was neither given here nor out of its turn is that of a   *)
(* request before all that are still open; such denials are told in the    *)
(* order of the requests, and each once.                                   *)
DeniedInv ==
    /\ \A i \in DOMAIN inbox, r \in Requests :
          Denies(i, r) => /\ r <= asked
                          /\ \/ r \in picked
                             \/ r \in overtaken /\ r \notin open
                             \/ \A o \in open : r < o
    /\ \A i, j \in DOMAIN inbox, a, b \in Requests :
          i < j /\ Denies(i, a) /\ Denies(j, b)
             => a \in picked \/ b \in picked \/ (a \in overtaken /\ a # b) \/ a < b
    /\ overtaken \cap open = {}

(* The widgets stand in the order of the requests.                         *)
SelectsInv ==
    /\ \A i \in DOMAIN selects : selects[i] \in heard
    /\ \A i, j \in DOMAIN selects : i < j => selects[i] < selects[j]

(* The requests that have lost their widget and are open, or will be heard *)
(* of, and the denials out of turn that have been heard or lost.           *)
Lost == {r \in pending : /\ ~Contains(selects, r)
                         /\ r \in open \/ \E i \in DOMAIN inbox : Denies(i, r)}
Told == {r \in overtaken : \A i \in DOMAIN inbox : ~Denies(i, r)}

(* Each of these has taken at most one widget that was not its own.        *)
PendingInv ==
    /\ pending \subseteq heard \ picked
    /\ Cardinality(Lost) <= Cardinality(Told)

(* What is open and undecided is pending.                                  *)
OpenInv == \A r \in open \cap heard : r \in picked \/ r \in pending

IInv ==
    /\ TypeOK
    /\ AskedInv
    /\ DeniedInv
    /\ SelectsInv
    /\ PendingInv
    /\ OpenInv
-----------------------------------------------------------------------------
(* A sequence that loses its head, or nothing, and gets t at its end.      *)
Shifted(s, k, t) == (IF k = 0 THEN s ELSE Tail(s)) \o t

(* Its lines are those of s, moved up, and then those of t.                *)
LEMMA ShiftedFacts ==
    ASSUME NEW S, NEW s \in Seq(S), NEW t \in Seq(S), NEW k \in {0, 1}, k <= Len(s)
    PROVE  /\ Shifted(s, k, t) \in Seq(S)
           /\ Len(Shifted(s, k, t)) = Len(s) - k + Len(t)
           /\ \A i \in DOMAIN Shifted(s, k, t) :
                 Shifted(s, k, t)[i] = IF i + k <= Len(s) THEN s[i + k] ELSE t[i + k - Len(s)]
  <1> DEFINE h == IF k = 0 THEN s ELSE Tail(s)
  <1>1. h \in Seq(S) /\ Len(h) = Len(s) - k /\ \A i \in 1 .. Len(h) : h[i] = s[i + k]
    <2>1. CASE k = 0
      BY <2>1
    <2>2. CASE k = 1
      BY <2>2
    <2> QED
      BY <2>1, <2>2
  <1> HIDE DEF h
  <1>2. /\ h \o t \in Seq(S)
        /\ Len(h \o t) = Len(h) + Len(t)
        /\ \A i \in 1 .. Len(h) + Len(t) :
              (h \o t)[i] = IF i <= Len(h) THEN h[i] ELSE t[i - Len(h)]
    <2>1. h \in Seq(S)
      BY <1>1
    <2> QED
      BY <2>1, ConcatProperties, Zenon
  <1>3. Len(s) \in Nat /\ Len(t) \in Nat /\ Len(h) \in Nat
    BY <1>1
  <1>4. \A i \in 1 .. Len(h) + Len(t) :
           (h \o t)[i] = IF i + k <= Len(s) THEN s[i + k] ELSE t[i + k - Len(s)]
    BY <1>1, <1>2, <1>3
  <1>5. Shifted(s, k, t) = h \o t
    BY DEF Shifted, h
  <1>6. DOMAIN (h \o t) = 1 .. Len(h) + Len(t)
    BY <1>2, <1>3
  <1> QED
    BY <1>1, <1>2, <1>4, <1>5, <1>6

(* A line that tells nothing of a request.                                 *)
LEMMA OthersAreOthers ==
    ASSUME NEW m \in Others, NEW r
    PROVE  m # <<"permission.requested", r>> /\ m # <<"permission.denied", r>>
  BY DEF Others

(* What the lines are after a step that reads one, or none, and adds t.    *)
LEMMA InboxIs ==
    ASSUME TypeOK, NEW t \in Seq(Lines), NEW k \in {0, 1}, k <= Len(inbox),
           inbox' = Shifted(inbox, k, t)
    PROVE  /\ inbox' \in Seq(Lines)
           /\ \A i \in DOMAIN inbox' :
                 \/ i + k \in DOMAIN inbox /\ inbox'[i] = inbox[i + k]
                 \/ /\ i + k - Len(inbox) \in DOMAIN t
                    /\ inbox'[i] = t[i + k - Len(inbox)]
                    /\ \A j \in DOMAIN inbox : j < i + k
  <1>1. inbox \in Seq(Lines) /\ Len(inbox) \in Nat /\ Len(t) \in Nat
    BY DEF TypeOK
  <1>2. /\ inbox' \in Seq(Lines)
        /\ Len(inbox') = Len(inbox) - k + Len(t)
        /\ \A i \in DOMAIN inbox' :
              inbox'[i] = IF i + k <= Len(inbox) THEN inbox[i + k] ELSE t[i + k - Len(inbox)]
    <2> DEFINE lines == Shifted(inbox, k, t)
    <2>1. /\ lines \in Seq(Lines)
          /\ Len(lines) = Len(inbox) - k + Len(t)
          /\ \A i \in DOMAIN lines :
                lines[i] = IF i + k <= Len(inbox) THEN inbox[i + k] ELSE t[i + k - Len(inbox)]
      BY <1>1, ShiftedFacts, Zenon
    <2>2. inbox' = lines
      OBVIOUS
    <2> HIDE DEF lines
    <2> QED
      BY <2>1, <2>2
  <1>3. DOMAIN inbox = 1 .. Len(inbox) /\ DOMAIN t = 1 .. Len(t)
        /\ DOMAIN inbox' = 1 .. Len(inbox')
    BY <1>1, <1>2
  <1> QED
    BY <1>1, <1>2, <1>3

(* Only requests are counted.                                              *)
LEMMA AreFinite ==
    ASSUME TypeOK
    PROVE  /\ Lost \subseteq Requests /\ Told \subseteq Requests
           /\ overtaken \subseteq Requests
           /\ IsFiniteSet(Requests) /\ IsFiniteSet(Lost) /\ IsFiniteSet(Told)
  <1>1. Lost \subseteq Requests
    BY DEF TypeOK, Lost
  <1>2. 1 .. asked \subseteq Requests
    BY TuiAssumption DEF TypeOK, Requests
  <1>3. Told \subseteq Requests /\ overtaken \subseteq Requests
    BY <1>2 DEF TypeOK, Told
  <1>4. IsFiniteSet(Requests)
    BY TuiAssumption, FS_Interval DEF Requests
  <1> QED
    BY <1>1, <1>3, <1>4, FS_Subset

(* So are they after a step.                                               *)
LEMMA StillFinite ==
    ASSUME TypeOK'
    PROVE  IsFiniteSet(Lost') /\ IsFiniteSet(Told')
  <1>1. Lost' \subseteq Requests
    BY DEF TypeOK, Lost
  <1>2. 1 .. asked' \subseteq Requests
    BY TuiAssumption DEF TypeOK, Requests
  <1>3. Told' \subseteq Requests
    BY <1>2 DEF TypeOK, Told
  <1>4. IsFiniteSet(Requests)
    BY TuiAssumption, FS_Interval DEF Requests
  <1> QED
    BY <1>1, <1>3, <1>4, FS_Subset

(* A step after which no more requests have lost their widget, or no fewer *)
(* denials have been heard.                                                *)
LEMMA CountKeeps ==
    ASSUME TypeOK, TypeOK', PendingInv, Lost' \subseteq Lost, Told \subseteq Told'
    PROVE  Cardinality(Lost') <= Cardinality(Told')
  <1>1. IsFiniteSet(Lost) /\ IsFiniteSet(Told) /\ IsFiniteSet(Lost') /\ IsFiniteSet(Told')
    BY AreFinite, StillFinite
  <1>2. Cardinality(Lost') <= Cardinality(Lost) /\ Cardinality(Told) <= Cardinality(Told')
    BY <1>1, FS_Subset
  <1>3. /\ Cardinality(Lost) \in Nat /\ Cardinality(Told) \in Nat
        /\ Cardinality(Lost') \in Nat /\ Cardinality(Told') \in Nat
    BY <1>1, FS_CardinalityType
  <1> QED
    BY <1>2, <1>3 DEF PendingInv

(* A step that concerns no request.                                        *)
LEMMA QuietKeeps ==
    ASSUME IInv, TypeOK', NEW t \in Seq(Others), NEW k \in {0, 1}, k <= Len(inbox),
           inbox' = Shifted(inbox, k, t),
           UNCHANGED <<pending, selects, open, asked, heard, picked, overtaken>>
    PROVE  IInv'
  <1>1. t \in Seq(Lines) /\ \A i \in DOMAIN t : t[i] \in Others
    BY DEF Lines
  <1>2. \A i \in DOMAIN inbox' :
           \/ i + k \in DOMAIN inbox /\ inbox'[i] = inbox[i + k]
           \/ inbox'[i] \in Others
    BY <1>1, InboxIs DEF IInv
  <1>3. \A i \in DOMAIN inbox' : \A r \in Requests :
           /\ Asks(i, r)' => i + k \in DOMAIN inbox /\ Asks(i + k, r)
           /\ Denies(i, r)' => i + k \in DOMAIN inbox /\ Denies(i + k, r)
    BY <1>2, OthersAreOthers DEF Asks, Denies
  <1>4. \A i, j \in DOMAIN inbox' : i < j => i + k < j + k
    BY DEF TypeOK
  <1>5. AskedInv'
    BY <1>3, <1>4 DEF IInv, AskedInv
  <1>6. DeniedInv'
    BY <1>3, <1>4 DEF IInv, DeniedInv
  <1>7. SelectsInv' /\ OpenInv'
    BY DEF IInv, SelectsInv, OpenInv
  <1>8. PendingInv'
    <2>0. pending \subseteq Requests /\ overtaken \subseteq Requests
      BY AreFinite DEF IInv, TypeOK
    <2>1. Lost' \subseteq Lost
      BY <1>3, <2>0 DEF Lost
    <2>2. Told \subseteq Told'
      BY <1>3, <2>0 DEF Told
    <2> QED
      BY <2>1, <2>2, CountKeeps DEF IInv, PendingInv
  <1> QED
    BY <1>5, <1>6, <1>7, <1>8 DEF IInv
-----------------------------------------------------------------------------
(* The sequences the actions use.                                          *)
LEMMA AppendIsShifted ==
    ASSUME NEW m, TypeOK, m \in Lines
    PROVE  Append(inbox, m) = Shifted(inbox, 0, <<m>>)
  BY DEF TypeOK, Shifted

(* A line that is heard is at the head.                                    *)
LEMMA HeadIsFirst ==
    ASSUME TypeOK, NEW m, NEW t, Hear(m, t)
    PROVE  /\ 1 \in DOMAIN inbox /\ 1 <= Len(inbox) /\ inbox[1] = m
           /\ inbox' = Shifted(inbox, 1, t)
           /\ UNCHANGED <<subscribed, holder, open, overtaken, asked, sends, compacts,
                          losses, others>>
  BY DEF TypeOK, Shifted, Hear, daemon, counts

(* A reply or an event of a session is a line of the stream.               *)
LEMMA OthersAre ==
    ASSUME NEW how \in {"result", "error", "session.closed", "session.waiting_for_input"},
           NEW c \in Commands
    PROVE  <<how, c>> \in Others /\ <<how, c>> \in Lines
  BY DEF Others, Lines

(* The commands the interface sends.                                       *)
LEMMA CommandsAre ==
    /\ None \in Commands /\ Subscribe \in Commands /\ Create \in Commands /\ Close \in Commands
    /\ \A n \in Nat : /\ <<"session.send_message", n>> \in Commands
                      /\ <<"session.compact", n>> \in Commands
                      /\ <<"permission.respond", n>> \in Commands
  BY DEF None, Subscribe, Create, Close, Commands

(* A step of the daemon, of the user or of the network that concerns no    *)
(* request: what it adds to the stream.                                    *)
Quiet ==
    /\ \E k \in {0, 1} : \E t \in Seq(Others) :
          k <= Len(inbox) /\ inbox' = Shifted(inbox, k, t)
    /\ UNCHANGED <<pending, selects, open, asked, heard, picked, overtaken>>

(* The rest of the state.                                                  *)
OtherTypes ==
    /\ link \in {"down", "subscribing", "creating", "up", "dead"}
    /\ busy \in BOOLEAN /\ prompt \in BOOLEAN /\ subscribed \in BOOLEAN
    /\ awaited \subseteq Commands
    /\ holder \in {"none", "session.send_message", "session.compact", "leaving"} \X Nat
    /\ sends \in Nat /\ compacts \in Nat /\ losses \in Nat /\ others \in Nat

(* Reading a line that tells nothing, and adding such lines, is quiet.     *)
LEMMA QuietBy ==
    ASSUME NEW t \in Seq(Others), NEW k \in {0, 1}, k <= Len(inbox),
           inbox' = Shifted(inbox, k, t),
           UNCHANGED <<pending, selects, open, asked, heard, picked, overtaken>>
    PROVE  Quiet
  BY DEF Quiet

(* It keeps the invariant.                                                 *)
LEMMA QuietStep == IInv /\ Quiet /\ OtherTypes' => IInv'
  <1> SUFFICES ASSUME IInv, Quiet, OtherTypes' PROVE IInv'
    OBVIOUS
  <1>1. PICK k \in {0, 1}, t \in Seq(Others) : k <= Len(inbox) /\ inbox' = Shifted(inbox, k, t)
    BY DEF Quiet
  <1>2. inbox' \in Seq(Lines)
    <2>1. t \in Seq(Lines)
      BY DEF Lines
    <2> QED
      BY <1>1, <2>1, InboxIs DEF IInv
  <1>3. TypeOK'
    BY <1>2 DEF Quiet, OtherTypes, IInv, TypeOK
  <1> QED
    BY <1>1, <1>3, QuietKeeps DEF Quiet

(* Nothing is added, one line is added, or one is heard.                   *)
LEMMA QuietIs ==
    ASSUME TypeOK, UNCHANGED <<pending, selects, open, asked, heard, picked, overtaken>>,
           \/ inbox' = inbox
           \/ \E m \in Others : inbox' = Append(inbox, m)
           \/ \E t \in Seq(Others) : inbox' = inbox \o t
           \/ \E m : \E t \in Seq(Others) : Hear(m, t)
    PROVE  Quiet
  <1>0. 0 <= Len(inbox) /\ 0 \in {0, 1} /\ 1 \in {0, 1}
    BY DEF TypeOK
  <1>1. CASE inbox' = inbox
    <2>1. <<>> \in Seq(Others)
      OBVIOUS
    <2>2. inbox \o <<>> = inbox
      BY DEF TypeOK
    <2>3. inbox' = Shifted(inbox, 0, <<>>)
      BY <1>1, <2>2 DEF Shifted
    <2> QED
      BY <1>0, <2>1, <2>3, QuietBy
  <1>2. ASSUME NEW m \in Others, inbox' = Append(inbox, m) PROVE Quiet
    <2>1. <<m>> \in Seq(Others)
      OBVIOUS
    <2>2. inbox' = Shifted(inbox, 0, <<m>>)
      BY <1>2, AppendIsShifted DEF Lines
    <2> QED
      BY <1>0, <2>1, <2>2, QuietBy
  <1>3. ASSUME NEW t \in Seq(Others), inbox' = inbox \o t PROVE Quiet
    <2>1. inbox' = Shifted(inbox, 0, t)
      BY <1>3 DEF Shifted
    <2> QED
      BY <1>0, <2>1, QuietBy
  <1>4. ASSUME NEW m, NEW t \in Seq(Others), Hear(m, t) PROVE Quiet
    <2>1. 1 <= Len(inbox) /\ inbox' = Shifted(inbox, 1, t)
      BY <1>4, HeadIsFirst
    <2> QED
      BY <1>0, <2>1, QuietBy
  <1> QED
    BY <1>1, <1>2, <1>3, <1>4

(* The connection comes and goes.                                          *)
LEMMA LinkKeeps == IInv /\ (Connect \/ Lose) => IInv'
  <1> SUFFICES ASSUME IInv, Connect \/ Lose PROVE IInv'
    OBVIOUS
  <1>0. TypeOK
    BY DEF IInv
  <1>1. CASE Connect
    <2>1. << <<"result", Subscribe>> >> \in Seq(Others)
      BY CommandsAre, OthersAre
    <2>2. Quiet
      BY <1>0, <1>1, <2>1, QuietIs DEF Connect, Tell, counts
    <2>3. OtherTypes'
      BY <1>0, <1>1, CommandsAre DEF Connect, Await, TypeOK, OtherTypes, counts
    <2> QED
      BY <2>2, <2>3, QuietStep
  <1>2. CASE Lose
    <2>1. None \in {"none", "session.send_message", "session.compact", "leaving"} \X Nat
      BY DEF None
    <2>2. TypeOK'
      <3>1. inbox' \in Seq(Lines) /\ awaited' \subseteq Commands
        BY <1>2 DEF Lose
      <3>2. losses' \in Nat /\ link' \in {"dead", "down"}
        BY <1>0, <1>2 DEF Lose, TypeOK
      <3> QED
        BY <1>0, <1>2, <2>1, <3>1, <3>2 DEF Lose, TypeOK
    <2>3. AskedInv' /\ DeniedInv'
      BY <1>2 DEF Lose, IInv, AskedInv, DeniedInv
    <2>4. SelectsInv' /\ OpenInv'
      BY <1>2 DEF Lose, IInv, SelectsInv, OpenInv
    <2>5. PendingInv'
      <3>1. Lost' \subseteq Lost /\ Told \subseteq Told'
        BY <1>2 DEF Lose, Lost, Told
      <3> QED
        BY <1>0, <1>2, <2>2, <3>1, CountKeeps DEF Lose, IInv, PendingInv
    <2> QED
      BY <2>2, <2>3, <2>4, <2>5 DEF IInv
  <1> QED
    BY <1>1, <1>2

(* A message, a compaction and the closing of the session.                 *)
LEMMA CommandKeeps == IInv /\ (Submit \/ Compact \/ Quit) => IInv'
  <1> SUFFICES ASSUME IInv, Submit \/ Compact \/ Quit PROVE IInv'
    OBVIOUS
  <1>0. TypeOK
    BY DEF IInv
  <1>1. ASSUME NEW c \in Commands, Enter(c)
        PROVE  \/ inbox' = inbox
               \/ \E t \in Seq(Others) : inbox' = inbox \o t
    <2>1. << <<"error", c>> >> \in Seq(Others)
      BY OthersAre
    <2> QED
      BY <1>1, <2>1 DEF Enter, Refused, Tell
  <1>2. CASE Submit
    <2> DEFINE c == <<"session.send_message", sends'>>
    <2>0. sends' \in Nat
      BY <1>0, <1>2 DEF Submit, TypeOK
    <2>1. c \in Commands
      BY <2>0, CommandsAre
    <2>2. Enter(c) /\ awaited' = awaited \cup {c}
      BY <1>2 DEF Submit, Await
    <2>3. Quiet
      <3>1. UNCHANGED <<pending, selects, open, asked, heard, picked, overtaken>>
        BY <1>2 DEF Submit
      <3> HIDE DEF c
      <3> QED
        BY <1>0, <1>1, <2>1, <2>2, <3>1, QuietIs
    <2>4. holder' \in {"none", "session.send_message", "session.compact", "leaving"} \X Nat
      BY <1>0, <2>0, <2>2 DEF Enter, TypeOK
    <2>5. OtherTypes'
      <3> HIDE DEF c
      <3> QED
        BY <1>0, <1>2, <2>0, <2>1, <2>2, <2>4 DEF Submit, TypeOK, OtherTypes
    <2> QED
      BY <2>3, <2>5, QuietStep
  <1>3. CASE Compact
    <2> DEFINE c == <<"session.compact", compacts'>>
    <2>0. compacts' \in Nat
      BY <1>0, <1>3 DEF Compact, TypeOK
    <2>1. c \in Commands
      BY <2>0, CommandsAre
    <2>2. Enter(c) /\ awaited' = awaited \cup {c}
      BY <1>3 DEF Compact, Await
    <2>3. Quiet
      <3>1. UNCHANGED <<pending, selects, open, asked, heard, picked, overtaken>>
        BY <1>3 DEF Compact
      <3> HIDE DEF c
      <3> QED
        BY <1>0, <1>1, <2>1, <2>2, <3>1, QuietIs
    <2>4. holder' \in {"none", "session.send_message", "session.compact", "leaving"} \X Nat
      BY <1>0, <2>0, <2>2 DEF Enter, TypeOK
    <2>5. OtherTypes'
      <3> HIDE DEF c
      <3> QED
        BY <1>0, <1>3, <2>0, <2>1, <2>2, <2>4 DEF Compact, TypeOK, OtherTypes
    <2> QED
      BY <2>3, <2>5, QuietStep
  <1>4. CASE Quit
    <2>1. /\ << <<"session.closed", None>>, <<"result", Close>> >> \in Seq(Others)
          /\ << <<"error", Close>> >> \in Seq(Others)
      BY CommandsAre, OthersAre
    <2>2. \/ inbox' = inbox
          \/ \E t \in Seq(Others) : inbox' = inbox \o t
      BY <1>4, <2>1 DEF Quit, CloseSession, Refused, Tell
    <2>3. Quiet
      BY <1>0, <1>4, <2>2, QuietIs DEF Quit, daemon, counts
    <2>4. OtherTypes'
      BY <1>0, <1>4, CommandsAre DEF Quit, Await, TypeOK, OtherTypes, daemon, counts
    <2> QED
      BY <2>3, <2>4, QuietStep
  <1> QED
    BY <1>2, <1>3, <1>4

(* What the daemon does without a request.                                 *)
LEMMA DaemonKeeps ==
    IInv /\ (TurnWaits \/ TurnReturns \/ CommandEnds \/ OtherSession) => IInv'
  <1> SUFFICES ASSUME IInv, TurnWaits \/ TurnReturns \/ CommandEnds \/ OtherSession PROVE IInv'
    OBVIOUS
  <1>0. TypeOK
    BY DEF IInv
  <1>1. CASE TurnWaits
    <2>1. <<"session.waiting_for_input", None>> \in Others
      BY CommandsAre, OthersAre
    <2>2. Quiet
      BY <1>0, <1>1, <2>1, QuietIs DEF TurnWaits, user, counts
    <2>3. OtherTypes'
      BY <1>0, <1>1 DEF TurnWaits, TypeOK, OtherTypes, user, counts
    <2> QED
      BY <2>2, <2>3, QuietStep
  <1>2. CASE TurnReturns
    <2>1. <<"result", <<"session.send_message", holder[2]>> >> \in Others
      BY <1>0, CommandsAre, OthersAre DEF TypeOK
    <2>2. Quiet
      BY <1>0, <1>2, <2>1, QuietIs DEF TurnReturns, user, counts
    <2>3. OtherTypes'
      BY <1>0, <1>2 DEF TurnReturns, TypeOK, OtherTypes, user, counts, None
    <2> QED
      BY <2>2, <2>3, QuietStep
  <1>3. CASE CommandEnds
    <2>1. holder \in Commands
      <3>1. holder = <<holder[1], holder[2]>> /\ holder[2] \in Nat
        BY <1>0 DEF TypeOK
      <3> QED
        BY <1>3, <3>1 DEF CommandEnds, Commands
    <2>2. \E m \in Others : inbox' = Append(inbox, m)
      BY <1>3, <2>1, OthersAre DEF CommandEnds
    <2>3. Quiet
      BY <1>0, <1>3, <2>2, QuietIs DEF CommandEnds, user, counts
    <2>4. OtherTypes'
      BY <1>0, <1>3 DEF CommandEnds, TypeOK, OtherTypes, user, counts, None
    <2> QED
      BY <2>3, <2>4, QuietStep
  <1>4. CASE OtherSession
    <2>1. \E m \in Others : inbox' = Append(inbox, m)
      BY <1>4, CommandsAre, OthersAre DEF OtherSession
    <2>2. Quiet
      BY <1>0, <1>4, <2>1, QuietIs DEF OtherSession, user, daemon
    <2>3. OtherTypes'
      BY <1>0, <1>4 DEF OtherSession, TypeOK, OtherTypes, user, daemon
    <2> QED
      BY <2>2, <2>3, QuietStep
  <1> QED
    BY <1>1, <1>2, <1>3, <1>4

(* What is heard and concerns no request that is pending.                  *)
HearsOthers == HearsSession \/ HearsJoined \/ HearsSent \/ HearsCompacted
               \/ HearsResponded \/ HearsClosed

(* It takes no widget and closes no request.                               *)
LEMMA HearsOthersKeeps == IInv /\ HearsOthers => IInv'
  <1> SUFFICES ASSUME IInv, HearsOthers PROVE IInv'
    OBVIOUS
  <1>0. TypeOK /\ <<>> \in Seq(Others) /\ << <<"result", Create>> >> \in Seq(Others)
    BY CommandsAre, OthersAre DEF IInv
  <1>1. PICK m : \E t \in Seq(Others) : Hear(m, t)
    <2>1. \E m : Hear(m, <<>>) \/ Hear(m, << <<"result", Create>> >>)
      BY Zenon DEF HearsOthers, HearsSession, HearsJoined, HearsSent, HearsCompacted,
         HearsResponded, HearsClosed, Replied
    <2> QED
      BY <1>0, <2>1
  <1>2. UNCHANGED <<subscribed, holder, open, overtaken, asked, sends, compacts, losses, others>>
    BY <1>1 DEF Hear, daemon, counts
  <1>3. UNCHANGED <<pending, selects, heard, picked>>
    BY DEF HearsOthers, HearsSession, HearsJoined, HearsSent, HearsCompacted,
           HearsResponded, HearsClosed
  <1>4. Quiet
    BY <1>0, <1>1, <1>2, <1>3, QuietIs
  <1>5. link' \in {"down", "subscribing", "creating", "up", "dead"} /\ awaited' \subseteq Commands
    BY <1>0, CommandsAre DEF TypeOK, HearsOthers, HearsSession, HearsJoined, HearsSent,
       HearsCompacted, HearsResponded, HearsClosed
  <1>6. busy' \in BOOLEAN /\ prompt' \in BOOLEAN
    BY <1>0 DEF TypeOK, HearsOthers, HearsSession, HearsJoined, HearsSent, HearsCompacted,
       HearsResponded, HearsClosed, Freed, AfterSend
  <1>7. OtherTypes'
    BY <1>0, <1>2, <1>5, <1>6 DEF TypeOK, OtherTypes
  <1> QED
    BY <1>4, <1>7, QuietStep
-----------------------------------------------------------------------------
(* Requests are asked, and end on their own.                               *)

(* A new request is the last one.                                          *)
LEMMA AskKeeps == IInv /\ Ask => IInv'
  <1> SUFFICES ASSUME IInv, Ask PROVE IInv'
    OBVIOUS
  <1>0. TypeOK /\ Len(inbox) \in Nat /\ DOMAIN inbox = 1 .. Len(inbox)
    BY DEF IInv, TypeOK
  <1>1. /\ asked' = asked + 1 /\ asked' \in Requests /\ open' = open \cup {asked'}
        /\ inbox' = Append(inbox, <<"permission.requested", asked'>>)
        /\ UNCHANGED <<link, busy, prompt, pending, selects, awaited, heard, picked,
                       subscribed, holder, overtaken, sends, compacts, losses, others>>
    BY <1>0, TuiAssumption DEF Ask, TypeOK, Requests, user
  <1> DEFINE m == <<"permission.requested", asked'>>
  <1>2. m \in Lines
    BY <1>1 DEF Lines, Words
  <1>3. /\ inbox' \in Seq(Lines)
        /\ \A i \in DOMAIN inbox' :
              \/ i \in DOMAIN inbox /\ inbox'[i] = inbox[i]
              \/ /\ inbox'[i] = m
                 /\ i = Len(inbox) + 1
    <2> HIDE DEF m
    <2> QED
      BY <1>0, <1>1, <1>2 DEF TypeOK, m
  <1>4. TypeOK'
    <2>1. asked' \in 0 .. MaxRequests /\ 1 .. asked \subseteq 1 .. asked' /\ asked' \in 1 .. asked'
      BY <1>0, <1>1, TuiAssumption DEF TypeOK, Requests
    <2>2. open' \subseteq 1 .. asked' /\ heard' \subseteq 1 .. asked'
          /\ overtaken' \subseteq 1 .. asked' /\ picked' \subseteq heard'
      BY <1>0, <1>1, <2>1 DEF TypeOK
    <2> QED
      BY <1>0, <1>1, <1>3, <2>1, <2>2 DEF TypeOK
  <1>5. \A i \in DOMAIN inbox', r \in Requests :
           /\ Denies(i, r)' => i \in DOMAIN inbox /\ Denies(i, r)
           /\ Asks(i, r)' => \/ i \in DOMAIN inbox /\ Asks(i, r)
                             \/ r = asked' /\ i = Len(inbox) + 1
    BY <1>3 DEF Asks, Denies
  <1>6. /\ \A h \in heard : h < asked'
        /\ \A q \in open \cup overtaken : q < asked'
        /\ asked \in Nat /\ Requests \subseteq Nat
        /\ \A i \in DOMAIN inbox : i \in Nat
    <2>1. /\ asked \in Nat /\ asked < asked'
          /\ open \subseteq 1 .. asked /\ overtaken \subseteq 1 .. asked
          /\ heard \subseteq 1 .. asked
      BY <1>0, <1>1 DEF TypeOK
    <2>2. \A q \in 1 .. asked : q < asked'
      BY <2>1, <1>1
    <2>3. /\ Requests \subseteq Nat
          /\ \A i \in DOMAIN inbox : i \in Nat
      BY <1>0 DEF TypeOK, Requests
    <2> QED
      BY <2>1, <2>2, <2>3
  <1>7. AskedInv'
    <2>1. ASSUME NEW i \in DOMAIN inbox', NEW r \in Requests, Asks(i, r)'
          PROVE  r <= asked' /\ \A h \in heard' : h < r
      <3>1. CASE i \in DOMAIN inbox /\ Asks(i, r)
        BY <1>1, <1>6, <3>1 DEF IInv, AskedInv
      <3>2. CASE r = asked'
        BY <1>1, <1>6, <3>2
      <3> QED
        BY <1>5, <2>1, <3>1, <3>2
    <2>2. ASSUME NEW i \in DOMAIN inbox', NEW j \in DOMAIN inbox',
                 NEW a \in Requests, NEW b \in Requests, i < j, Asks(i, a)', Asks(j, b)'
          PROVE  a < b
      <3>1. i \in 1 .. Len(inbox') /\ j \in 1 .. Len(inbox')
        BY <1>3
      <3>2. i \in DOMAIN inbox /\ Asks(i, a) /\ a <= asked
        BY <1>0, <1>3, <1>5, <2>2, <3>1 DEF IInv, AskedInv
      <3>3. CASE j \in DOMAIN inbox /\ Asks(j, b)
        BY <2>2, <3>2, <3>3 DEF IInv, AskedInv
      <3>4. CASE b = asked'
        BY <1>1, <1>6, <3>2, <3>4
      <3> QED
        BY <1>5, <2>2, <3>3, <3>4
    <2> QED
      BY <2>1, <2>2 DEF AskedInv
  <1>8. DeniedInv'
    <2>1. ASSUME NEW i \in DOMAIN inbox', NEW r \in Requests, Denies(i, r)'
          PROVE  /\ r <= asked'
                 /\ \/ r \in picked'
                    \/ r \in overtaken' /\ r \notin open'
                    \/ \A o \in open' : r < o
      <3>1. i \in DOMAIN inbox /\ Denies(i, r)
        BY <1>5, <2>1
      <3>2. /\ r <= asked
            /\ \/ r \in picked
               \/ r \in overtaken /\ r \notin open
               \/ \A o \in open : r < o
        BY <3>1 DEF IInv, DeniedInv
      <3>3. r < asked'
        BY <1>1, <1>6, <3>2
      <3> QED
        BY <1>1, <1>6, <3>2, <3>3
    <2>2. \A i, j \in DOMAIN inbox', a, b \in Requests :
             i < j /\ Denies(i, a)' /\ Denies(j, b)'
                => \/ a \in picked' \/ b \in picked'
                   \/ (a \in overtaken' /\ a # b) \/ a < b
      BY <1>1, <1>5 DEF IInv, DeniedInv
    <2>3. overtaken' \cap open' = {}
      BY <1>1, <1>6 DEF IInv, DeniedInv
    <2> QED
      BY <2>1, <2>2, <2>3 DEF DeniedInv
  <1>9. SelectsInv' /\ OpenInv'
    BY <1>0, <1>1 DEF IInv, SelectsInv, OpenInv, TypeOK
  <1>10. PendingInv'
    <2>1. \A q \in pending : q # asked' /\ q \in Requests
      BY <1>0, <1>6 DEF TypeOK, IInv, PendingInv
    <2>2. Lost' \subseteq Lost
      BY <1>1, <1>5, <2>1 DEF Lost
    <2>3. Told \subseteq Told'
      <3>1. overtaken \subseteq Requests
        BY <1>0, TuiAssumption DEF TypeOK, Requests
      <3> QED
        BY <1>1, <1>5, <3>1 DEF Told
    <2> QED
      BY <1>0, <1>1, <1>4, <2>2, <2>3, CountKeeps DEF IInv, PendingInv
  <1> QED
    BY <1>4, <1>7, <1>8, <1>9, <1>10 DEF IInv

(* An open request ends, and its denial is told in its turn, out of turn,  *)
(* or not at all.                                                          *)
LEMMA EndedKeeps ==
    ASSUME IInv, NEW r \in open, open' = open \ {r},
           overtaken' = overtaken \/ overtaken' = overtaken \cup {r},
           \/ inbox' = inbox
           \/ /\ inbox' = Append(inbox, <<"permission.denied", r>>)
              /\ r \in overtaken' \/ \A o \in open : r <= o,
           UNCHANGED <<link, user, subscribed, holder, counts>>
    PROVE  IInv'
  <1>0. TypeOK /\ Len(inbox) \in Nat /\ DOMAIN inbox = 1 .. Len(inbox)
    BY DEF IInv, TypeOK
  <1>1. r \in Requests /\ r <= asked /\ r \in 1 .. asked /\ r \notin overtaken
    <2>1. asked \in Nat /\ asked <= MaxRequests /\ r \in 1 .. asked
      BY <1>0, TuiAssumption DEF TypeOK
    <2> QED
      BY <2>1, TuiAssumption DEF Requests, IInv, DeniedInv
  <1> DEFINE m == <<"permission.denied", r>>
  <1>2. m \in Lines
    BY <1>1 DEF Lines, Words
  <1>3. /\ inbox' \in Seq(Lines)
        /\ \A i \in DOMAIN inbox' :
              \/ i \in DOMAIN inbox /\ inbox'[i] = inbox[i]
              \/ /\ inbox'[i] = m
                 /\ i = Len(inbox) + 1
                 /\ r \in overtaken' \/ \A o \in open : r <= o
    <2>1. CASE inbox' = inbox
      BY <1>0, <2>1 DEF TypeOK
    <2>2. CASE /\ inbox' = Append(inbox, m)
               /\ r \in overtaken' \/ \A o \in open : r <= o
      <3> HIDE DEF m
      <3>1. inbox \in Seq(Lines) /\ inbox' = Append(inbox, m)
        BY <1>0, <2>2 DEF TypeOK
      <3>2. /\ inbox' \in Seq(Lines)
            /\ \A i \in DOMAIN inbox' :
                  \/ i \in DOMAIN inbox /\ inbox'[i] = inbox[i]
                  \/ inbox'[i] = m /\ i = Len(inbox) + 1
        BY <1>2, <3>1
      <3> QED
        BY <2>2, <3>2
    <2> QED
      BY <2>1, <2>2
  <1>4. UNCHANGED <<pending, selects, heard, picked, asked>>
    BY DEF user, counts
  <1>5. TypeOK'
    BY <1>0, <1>1, <1>3 DEF TypeOK, user, counts
  <1>6. \A i \in DOMAIN inbox', q \in Requests :
           /\ Asks(i, q)' => i \in DOMAIN inbox /\ Asks(i, q)
           /\ Denies(i, q)' => \/ i \in DOMAIN inbox /\ Denies(i, q)
                               \/ /\ q = r /\ i = Len(inbox) + 1
                                  /\ r \in overtaken' \/ \A o \in open : r <= o
    BY <1>3 DEF Asks, Denies
  <1>7. AskedInv'
    BY <1>0, <1>4, <1>6 DEF IInv, AskedInv
  <1>8. DeniedInv'
    <2>1. (\A o \in open : r <= o) => \A o \in open' : r < o
      BY <1>0 DEF TypeOK
    <2>2. ASSUME NEW i \in DOMAIN inbox', NEW q \in Requests, Denies(i, q)'
          PROVE  /\ q <= asked'
                 /\ \/ q \in picked'
                    \/ q \in overtaken' /\ q \notin open'
                    \/ \A o \in open' : q < o
      <3>1. CASE i \in DOMAIN inbox /\ Denies(i, q)
        BY <1>4, <3>1 DEF IInv, DeniedInv
      <3>2. CASE q = r /\ (r \in overtaken' \/ \A o \in open : r <= o)
        BY <1>1, <1>4, <2>1, <3>2
      <3> QED
        BY <1>6, <2>2, <3>1, <3>2
    <2>3. ASSUME NEW i \in DOMAIN inbox', NEW j \in DOMAIN inbox',
                 NEW a \in Requests, NEW b \in Requests,
                 i < j, Denies(i, a)', Denies(j, b)'
          PROVE  a \in picked' \/ b \in picked' \/ (a \in overtaken' /\ a # b) \/ a < b
      <3>0. i \in 1 .. Len(inbox') /\ j \in 1 .. Len(inbox')
        BY <1>3
      <3>1. i \in DOMAIN inbox /\ Denies(i, a)
        BY <1>0, <1>3, <1>6, <2>3, <3>0
      <3>2. CASE j \in DOMAIN inbox /\ Denies(j, b)
        BY <1>4, <2>3, <3>1, <3>2 DEF IInv, DeniedInv
      <3>3. CASE b = r
        BY <1>1, <1>4, <3>1, <3>3 DEF IInv, DeniedInv
      <3> QED
        BY <1>6, <2>3, <3>2, <3>3
    <2>4. overtaken' \cap open' = {}
      BY DEF IInv, DeniedInv
    <2> QED
      BY <2>2, <2>3, <2>4 DEF DeniedInv
  <1>9. SelectsInv' /\ OpenInv'
    BY <1>4 DEF IInv, SelectsInv, OpenInv
  <1>10. PendingInv'
    <2>1. pending \subseteq Requests /\ overtaken \subseteq Requests
      BY <1>0, TuiAssumption DEF TypeOK, Requests
    <2>2. Lost' \subseteq Lost
      BY <1>4, <1>6, <2>1 DEF Lost
    <2>3. Told \subseteq Told'
      BY <1>1, <1>6, <2>1 DEF Told
    <2> QED
      BY <1>0, <1>4, <1>5, <2>2, <2>3, CountKeeps DEF IInv, PendingInv
  <1> QED
    BY <1>5, <1>7, <1>8, <1>9, <1>10 DEF IInv

(* The first of the open requests times out: its denial is in its turn.    *)
LEMMA ExpiresKeeps == IInv /\ Expires => IInv'
  <1> SUFFICES ASSUME IInv, Expires PROVE IInv'
    OBVIOUS
  <1>1. PICK r \in open :
           /\ \A o \in open : r <= o
           /\ open' = open \ {r}
           /\ inbox' = inbox \/ inbox' = Append(inbox, <<"permission.denied", r>>)
           /\ UNCHANGED <<link, user, subscribed, holder, overtaken, counts>>
    BY DEF Expires
  <1> QED
    BY <1>1, EndedKeeps

(* A request goes with the run that asked.                                 *)
LEMMA VanishesKeeps == IInv /\ Vanishes => IInv'
  <1> SUFFICES ASSUME IInv, Vanishes PROVE IInv'
    OBVIOUS
  <1>1. PICK r \in open :
           /\ open' = open \ {r}
           /\ UNCHANGED <<link, user, inbox, subscribed, holder, overtaken, counts>>
    BY DEF Vanishes
  <1> QED
    BY <1>1, EndedKeeps

(* Another client answers: a denial with an older request open is out of   *)
(* turn.                                                                   *)
LEMMA AnsweredElsewhereKeeps == IInv /\ AnsweredElsewhere => IInv'
  <1> SUFFICES ASSUME IInv, AnsweredElsewhere PROVE IInv'
    OBVIOUS
  <1>1. PICK r \in open, decision \in Decisions :
           LET told == decision = "deny" /\ subscribed
           IN  /\ open' = open \ {r}
               /\ inbox' = IF told THEN Append(inbox, <<"permission.denied", r>>) ELSE inbox
               /\ overtaken' = IF told /\ \E o \in open : o < r
                                 THEN overtaken \cup {r} ELSE overtaken
               /\ UNCHANGED <<link, user, subscribed, holder, counts>>
    BY DEF AnsweredElsewhere
  <1>2. r \in Nat /\ open \subseteq Nat
    BY DEF IInv, TypeOK
  <1>3. (\E o \in open : o < r) \/ \A o \in open : r <= o
    BY <1>2
  <1>4. /\ overtaken' = overtaken \/ overtaken' = overtaken \cup {r}
        /\ \/ inbox' = inbox
           \/ /\ inbox' = Append(inbox, <<"permission.denied", r>>)
              /\ r \in overtaken' \/ \A o \in open : r <= o
    BY <1>1, <1>3
  <1> QED
    BY <1>1, <1>4, EndedKeeps
-----------------------------------------------------------------------------
(* What the user decides, and what the interface hears of requests.        *)

(* Taking the widget of r leaves those of the others, in their order.      *)
LEMMA TakenFacts ==
    ASSUME IInv, NEW r \in Requests, Contains(selects, r)
    PROVE  /\ Taken(r) \in Seq(Requests)
           /\ \A i \in DOMAIN Taken(r) : \E k \in DOMAIN selects : Taken(r)[i] = selects[k]
           /\ \A i, j \in DOMAIN Taken(r) : i < j => Taken(r)[i] < Taken(r)[j]
           /\ \A q \in Requests \ {r} :
                 (\E i \in DOMAIN selects : selects[i] = q)
                    => \E i \in DOMAIN Taken(r) : Taken(r)[i] = q
  <1> DEFINE k == CHOOSE i \in DOMAIN selects : selects[i] = r
             left == SubSeq(selects, 1, k - 1)
             right == SubSeq(selects, k + 1, Len(selects))
  <1>0. selects \in Seq(Requests) /\ Len(selects) \in Nat
        /\ DOMAIN selects = 1 .. Len(selects)
    BY DEF IInv, TypeOK
  <1>1. k \in 1 .. Len(selects) /\ selects[k] = r
    BY <1>0 DEF Contains
  <1> HIDE DEF k
  <1>2. /\ left \in Seq(Requests) /\ Len(left) = k - 1
        /\ \A i \in 1 .. k - 1 : left[i] = selects[i]
    BY <1>0, <1>1
  <1>3. /\ right \in Seq(Requests) /\ Len(right) = Len(selects) - k
        /\ \A i \in 1 .. Len(selects) - k : right[i] = selects[i + k]
    BY <1>0, <1>1
  <1>4. Taken(r) = left \o right
    BY DEF Taken, RemoveAt, k, left, right
  <1> HIDE DEF left, right
  <1>5. /\ Taken(r) \in Seq(Requests)
        /\ Len(Taken(r)) = Len(left) + Len(right)
        /\ \A i \in 1 .. Len(left) + Len(right) :
              Taken(r)[i] = IF i <= Len(left) THEN left[i] ELSE right[i - Len(left)]
    <2>1. left \in Seq(Requests) /\ right \in Seq(Requests)
      BY <1>2, <1>3
    <2>2. /\ left \o right \in Seq(Requests)
          /\ Len(left \o right) = Len(left) + Len(right)
          /\ \A i \in 1 .. Len(left) + Len(right) :
                (left \o right)[i] = IF i <= Len(left) THEN left[i] ELSE right[i - Len(left)]
      BY <2>1, ConcatProperties, Zenon
    <2> QED
      BY <1>4, <2>2, Zenon
  <1>6. DOMAIN Taken(r) = 1 .. Len(selects) - 1
    BY <1>0, <1>1, <1>2, <1>3, <1>5
  <1>7. \A i \in 1 .. Len(selects) - 1 :
           Taken(r)[i] = IF i < k THEN selects[i] ELSE selects[i + 1]
    <2> SUFFICES ASSUME NEW i \in 1 .. Len(selects) - 1
                 PROVE  Taken(r)[i] = IF i < k THEN selects[i] ELSE selects[i + 1]
      OBVIOUS
    <2>0. /\ i \in 1 .. Len(left) + Len(right)
          /\ i < k => i <= Len(left) /\ i \in 1 .. k - 1
          /\ ~(i < k) => ~(i <= Len(left)) /\ i - Len(left) = i - (k - 1)
      BY <1>0, <1>1, <1>2, <1>3
    <2>1. CASE i < k
      <3>1. Taken(r)[i] = left[i]
        BY <1>5, <2>0, <2>1
      <3> QED
        BY <1>2, <2>0, <2>1, <3>1
    <2>2. CASE ~(i < k)
      <3>1. i - (k - 1) \in 1 .. Len(selects) - k /\ (i - (k - 1)) + k = i + 1
        BY <1>0, <1>1, <2>2
      <3>2. Taken(r)[i] = right[i - (k - 1)]
        BY <1>5, <2>0, <2>2
      <3> QED
        BY <1>3, <2>2, <3>1, <3>2
    <2> QED
      BY <2>1, <2>2
  <1>8. \A i \in 1 .. Len(selects) - 1 :
           /\ i \in DOMAIN selects /\ i + 1 \in DOMAIN selects
           /\ \E j \in DOMAIN selects : Taken(r)[i] = selects[j]
    BY <1>0, <1>1, <1>7
  <1>9. \A i, j \in DOMAIN Taken(r) : i < j => Taken(r)[i] < Taken(r)[j]
    <2> SUFFICES ASSUME NEW i \in DOMAIN Taken(r), NEW j \in DOMAIN Taken(r), i < j
                 PROVE  Taken(r)[i] < Taken(r)[j]
      OBVIOUS
    <2> DEFINE at(x) == IF x < k THEN x ELSE x + 1
    <2>1. at(i) < at(j) /\ at(i) \in DOMAIN selects /\ at(j) \in DOMAIN selects
      BY <1>0, <1>1, <1>6
    <2>2. Taken(r)[i] = selects[at(i)] /\ Taken(r)[j] = selects[at(j)]
      BY <1>6, <1>7
    <2> HIDE DEF at
    <2> QED
      BY <2>1, <2>2 DEF IInv, SelectsInv
  <1>10. ASSUME NEW q \in Requests \ {r}, NEW i \in DOMAIN selects, selects[i] = q
         PROVE  \E j \in DOMAIN Taken(r) : Taken(r)[j] = q
    <2>1. i # k /\ i \in 1 .. Len(selects)
      BY <1>0, <1>1, <1>10
    <2>2. CASE i < k
      <3>1. i \in 1 .. Len(selects) - 1
        BY <1>0, <1>1, <2>1, <2>2
      <3> QED
        BY <1>6, <1>7, <1>10, <2>2, <3>1
    <2>3. CASE ~(i < k)
      <3>1. i - 1 \in 1 .. Len(selects) - 1 /\ ~(i - 1 < k) /\ (i - 1) + 1 = i
        BY <1>0, <1>1, <2>1, <2>3
      <3> QED
        BY <1>6, <1>7, <1>10, <3>1
    <2> QED
      BY <2>2, <2>3
  <1> QED
    BY <1>5, <1>6, <1>8, <1>9, <1>10

(* What the daemon says to a decision: the reply, and perhaps a denial of  *)
(* the request that was decided.                                           *)
LEMMA RespondSays ==
    ASSUME TypeOK, NEW r \in Requests, NEW d \in Decisions, Respond(r, d)
    PROVE  /\ open' = open \ {r}
           /\ inbox' \in Seq(Lines)
           /\ \A i \in DOMAIN inbox', q \in Requests :
                 /\ Asks(i, q)' => i \in DOMAIN inbox /\ Asks(i, q)
                 /\ Denies(i, q)' => \/ i \in DOMAIN inbox /\ Denies(i, q)
                                     \/ q = r /\ r \in open
  <1> DEFINE c == <<"permission.respond", r>>
             deny == <<"permission.denied", r>>
             u == << <<"result", c>> >>
             v == IF d = "deny" /\ r \in open THEN <<deny>> ELSE <<>>
             t == u \o v
  <1>1. c \in Commands
    <2> HIDE DEF t, u, v, deny
    <2>1. r \in Nat
      BY TuiAssumption DEF Requests
    <2> QED
      BY <2>1, CommandsAre
  <1>2. deny \in Lines /\ \A q : deny # <<"permission.requested", q>>
    BY DEF Lines, Words
  <1> HIDE DEF c, deny
  <1>3. t \in Seq(Lines) /\ \A i \in DOMAIN t : t[i] \in Others \/ (t[i] = deny /\ r \in open)
    <2> DEFINE M == Others \cup (IF r \in open THEN {deny} ELSE {})
    <2>1. <<"result", c>> \in M /\ (r \in open => deny \in M)
      BY <1>1, OthersAre
    <2> HIDE DEF M
    <2>2. u \in Seq(M) /\ v \in Seq(M)
      BY <2>1
    <2>3. t \in Seq(M)
      BY <2>2, ConcatProperties, Zenon
    <2>4. M \subseteq Lines
      BY <1>2 DEF M, Lines
    <2> HIDE DEF t
    <2>5. t \in Seq(Lines) /\ \A i \in DOMAIN t : t[i] \in M
      BY <2>3, <2>4
    <2> QED
      BY <2>5 DEF M
  <1>4. open' = open \ {r} /\ inbox' = inbox \o t
    BY DEF Respond, Tell, c, deny
  <1> HIDE DEF t
  <1>5. inbox' = Shifted(inbox, 0, t) /\ 0 \in {0, 1} /\ 0 <= Len(inbox)
    BY <1>4 DEF Shifted, TypeOK
  <1>6. /\ inbox' \in Seq(Lines)
        /\ \A i \in DOMAIN inbox' :
              \/ i + 0 \in DOMAIN inbox /\ inbox'[i] = inbox[i + 0]
              \/ i + 0 - Len(inbox) \in DOMAIN t /\ inbox'[i] = t[i + 0 - Len(inbox)]
    BY <1>3, <1>5, InboxIs
  <1>7. \A i \in DOMAIN inbox' :
           \/ i \in DOMAIN inbox /\ inbox'[i] = inbox[i]
           \/ inbox'[i] \in Others \/ (inbox'[i] = deny /\ r \in open)
    <2>1. \A i \in DOMAIN inbox' : i \in Nat
      BY <1>6
    <2> QED
      BY <1>3, <1>6, <2>1
  <1>8. \A q : deny = <<"permission.denied", q>> => q = r
    BY DEF deny
  <1> QED
    BY <1>2, <1>4, <1>6, <1>7, <1>8, OthersAreOthers DEF Asks, Denies

(* The user decides for a widget: its request is not pending any more, and *)
(* its denial, if there is one, takes nothing.                             *)
LEMMA PickKeeps == ASSUME IInv, NEW r \in Requests, Pick(r) PROVE IInv'
  <1>0. TypeOK /\ Contains(selects, r)
    BY DEF IInv, Pick, Decidable
  <1>1. /\ selects' = Taken(r) /\ pending' = pending \ {r} /\ picked' = picked \cup {r}
        /\ UNCHANGED <<link, busy, heard, subscribed, holder, overtaken,
                       asked, sends, compacts, losses, others>>
    BY DEF Pick, counts
  <1>2. /\ open' \subseteq open
        /\ inbox' \in Seq(Lines)
        /\ \A i \in DOMAIN inbox', q \in Requests :
              /\ Asks(i, q)' => i \in DOMAIN inbox /\ Asks(i, q)
              /\ Denies(i, q)' => \/ i \in DOMAIN inbox /\ Denies(i, q)
                                  \/ q = r /\ r \in open
    <2>1. CASE Connected
      <3>1. PICK d \in Decisions : Respond(r, d)
        BY <2>1 DEF Pick
      <3> QED
        BY <1>0, <3>1, RespondSays
    <2>2. CASE ~Connected
      BY <1>0, <2>2 DEF Pick, TypeOK, Asks, Denies
    <2> QED
      BY <2>1, <2>2
  <1>3. prompt' \in BOOLEAN /\ awaited' \subseteq Commands
    <2>1. CASE Connected
      <3>1. <<"permission.respond", r>> \in Commands
        <4>1. r \in Nat
          BY TuiAssumption DEF Requests
        <4> QED
          BY <4>1, CommandsAre
      <3>2. awaited' = awaited \cup {<<"permission.respond", r>>} /\ prompt' = prompt
        BY <2>1 DEF Pick, Await
      <3> QED
        BY <1>0, <3>1, <3>2 DEF TypeOK
    <2>2. CASE ~Connected
      BY <1>0, <2>2 DEF Pick, Freed, TypeOK
    <2> QED
      BY <2>1, <2>2
  <1>4. r \in heard
    BY <1>0 DEF IInv, SelectsInv, TypeOK, Contains
  <1>5. /\ Taken(r) \in Seq(Requests)
        /\ \A i \in DOMAIN Taken(r) : \E k \in DOMAIN selects : Taken(r)[i] = selects[k]
        /\ \A i, j \in DOMAIN Taken(r) : i < j => Taken(r)[i] < Taken(r)[j]
        /\ \A q \in Requests \ {r} :
              (\E i \in DOMAIN selects : selects[i] = q)
                 => \E i \in DOMAIN Taken(r) : Taken(r)[i] = q
    BY <1>0, TakenFacts
  <1>6. TypeOK'
    BY <1>0, <1>1, <1>2, <1>3, <1>4, <1>5 DEF TypeOK
  <1>7. AskedInv'
    BY <1>1, <1>2 DEF IInv, AskedInv
  <1>8. DeniedInv'
    <2>1. ASSUME NEW i \in DOMAIN inbox', NEW q \in Requests, Denies(i, q)'
          PROVE  /\ q <= asked'
                 /\ \/ q \in picked'
                    \/ q \in overtaken' /\ q \notin open'
                    \/ \A o \in open' : q < o
      <3>1. CASE q = r
        BY <1>0, <1>1, <1>4, <3>1 DEF TypeOK
      <3>2. CASE i \in DOMAIN inbox /\ Denies(i, q)
        BY <1>1, <1>2, <3>2 DEF IInv, DeniedInv
      <3> QED
        BY <1>2, <2>1, <3>1, <3>2
    <2>2. ASSUME NEW i \in DOMAIN inbox', NEW j \in DOMAIN inbox',
                 NEW a \in Requests, NEW b \in Requests,
                 i < j, Denies(i, a)', Denies(j, b)'
          PROVE  a \in picked' \/ b \in picked' \/ (a \in overtaken' /\ a # b) \/ a < b
      <3>1. CASE a = r \/ b = r
        BY <1>1, <3>1
      <3>2. CASE a # r /\ b # r
        BY <1>1, <1>2, <2>2, <3>2 DEF IInv, DeniedInv
      <3> QED
        BY <3>1, <3>2
    <2>3. overtaken' \cap open' = {}
      BY <1>1, <1>2 DEF IInv, DeniedInv
    <2> QED
      BY <2>1, <2>2, <2>3 DEF DeniedInv
  <1>9. SelectsInv'
    BY <1>1, <1>5 DEF IInv, SelectsInv
  <1>10. ASSUME NEW q \in Requests, q # r, Contains(selects, q)
         PROVE  Contains(selects, q)'
    <2>1. \E i \in DOMAIN selects : selects[i] = q
      BY <1>0, <1>10 DEF Contains, TypeOK
    <2>2. PICK i \in DOMAIN Taken(r) : Taken(r)[i] = q
      BY <1>5, <1>10, <2>1
    <2>3. i \in 1 .. Len(Taken(r))
      BY <1>5, <2>2
    <2> QED
      BY <1>1, <2>2, <2>3 DEF Contains
  <1>11. PendingInv'
    <2>1. pending' \subseteq heard' \ picked'
      BY <1>1 DEF IInv, PendingInv
    <2>2. Lost' \subseteq Lost
      <3> SUFFICES ASSUME NEW q \in Lost' PROVE q \in Lost
        OBVIOUS
      <3>1. /\ q \in pending /\ q # r /\ q \in Requests /\ ~Contains(selects, q)'
            /\ q \in open' \/ \E i \in DOMAIN inbox' : Denies(i, q)'
        BY <1>0, <1>1 DEF Lost, TypeOK
      <3>2. q \in open \/ \E i \in DOMAIN inbox : Denies(i, q)
        BY <1>2, <3>1
      <3>3. ~Contains(selects, q)
        BY <1>10, <3>1
      <3> QED
        BY <3>1, <3>2, <3>3 DEF Lost
    <2>3. Told \subseteq Told'
      <3>1. overtaken \subseteq Requests
        BY <1>0, TuiAssumption DEF TypeOK, Requests
      <3> SUFFICES ASSUME NEW q \in Told, NEW i \in DOMAIN inbox', Denies(i, q)' PROVE FALSE
        BY <1>1 DEF Told
      <3>2. q \in overtaken /\ q \in Requests /\ \A k \in DOMAIN inbox : ~Denies(k, q)
        BY <3>1 DEF Told
      <3>3. q = r /\ r \in open
        BY <1>2, <3>2
      <3> QED
        BY <3>2, <3>3 DEF IInv, DeniedInv
    <2> QED
      BY <1>0, <1>6, <2>1, <2>2, <2>3, CountKeeps DEF IInv, PendingInv
  <1>12. OpenInv'
    BY <1>1, <1>2 DEF IInv, OpenInv
  <1> QED
    BY <1>6, <1>7, <1>8, <1>9, <1>11, <1>12 DEF IInv

(* A line has been heard: the others move up.                              *)
LEMMA HeardFacts ==
    ASSUME TypeOK, NEW m, Hear(m, <<>>)
    PROVE  /\ 1 \in DOMAIN inbox /\ inbox[1] = m
           /\ inbox' \in Seq(Lines)
           /\ \A i \in DOMAIN inbox' :
                 /\ i \in Nat /\ 1 < i + 1
                 /\ i + 1 \in DOMAIN inbox /\ inbox'[i] = inbox[i + 1]
           /\ UNCHANGED <<subscribed, holder, open, overtaken, asked, sends, compacts,
                          losses, others>>
  <1>1. /\ 1 \in DOMAIN inbox /\ 1 <= Len(inbox) /\ inbox[1] = m
        /\ inbox' = Shifted(inbox, 1, <<>>)
        /\ UNCHANGED <<subscribed, holder, open, overtaken, asked, sends, compacts, losses, others>>
    BY HeadIsFirst
  <1>2. <<>> \in Seq(Lines) /\ DOMAIN <<>> = {} /\ 1 \in {0, 1}
    OBVIOUS
  <1>3. /\ inbox' \in Seq(Lines)
        /\ \A i \in DOMAIN inbox' :
              \/ i + 1 \in DOMAIN inbox /\ inbox'[i] = inbox[i + 1]
              \/ i + 1 - Len(inbox) \in DOMAIN <<>>
    BY <1>1, <1>2, InboxIs
  <1>4. \A i \in DOMAIN inbox' : i \in Nat /\ 1 < i + 1
    BY <1>3
  <1> QED
    BY <1>1, <1>2, <1>3, <1>4

(* What is heard keeps the order of the rest.                              *)
LEMMA HeardKeeps ==
    ASSUME IInv, NEW m, Hear(m, <<>>), UNCHANGED picked
    PROVE  /\ \A i \in DOMAIN inbox', q \in Requests :
                 /\ Asks(i, q)' => i + 1 \in DOMAIN inbox /\ Asks(i + 1, q) /\ 1 < i + 1
                 /\ Denies(i, q)' => i + 1 \in DOMAIN inbox /\ Denies(i + 1, q) /\ 1 < i + 1
           /\ \A i, j \in DOMAIN inbox', a, b \in Requests :
                 i < j /\ Asks(i, a)' /\ Asks(j, b)' => a < b
           /\ DeniedInv'
  <1>0. TypeOK
    BY DEF IInv
  <1>1. /\ \A i \in DOMAIN inbox' :
              /\ i \in Nat /\ 1 < i + 1
              /\ i + 1 \in DOMAIN inbox /\ inbox'[i] = inbox[i + 1]
        /\ UNCHANGED <<open, overtaken, asked>>
    BY <1>0, HeardFacts
  <1>2. \A i \in DOMAIN inbox', q \in Requests :
           /\ Asks(i, q)' => i + 1 \in DOMAIN inbox /\ Asks(i + 1, q) /\ 1 < i + 1
           /\ Denies(i, q)' => i + 1 \in DOMAIN inbox /\ Denies(i + 1, q) /\ 1 < i + 1
    BY <1>1 DEF Asks, Denies
  <1>3. \A i, j \in DOMAIN inbox' : i < j => i + 1 < j + 1
    BY <1>1
  <1>4. DeniedInv'
    BY <1>1, <1>2, <1>3 DEF IInv, DeniedInv
  <1> QED
    BY <1>2, <1>3, <1>4 DEF IInv, AskedInv

(* A request is shown: its widget stands after the others.                 *)
LEMMA HearsRequestedKeeps == IInv /\ HearsRequested => IInv'
  <1> SUFFICES ASSUME IInv, HearsRequested PROVE IInv'
    OBVIOUS
  <1>0. TypeOK
    BY DEF IInv
  <1>1. PICK r \in Requests :
           /\ Hear(<<"permission.requested", r>>, <<>>)
           /\ pending' = pending \cup {r}
           /\ selects' = Append(selects, r)
           /\ prompt' = FALSE
           /\ heard' = heard \cup {r}
           /\ UNCHANGED <<link, busy, awaited, picked>>
    BY DEF HearsRequested
  <1>2. /\ 1 \in DOMAIN inbox /\ Asks(1, r)
        /\ inbox' \in Seq(Lines)
        /\ UNCHANGED <<subscribed, holder, open, overtaken, asked, sends, compacts, losses, others>>
    BY <1>0, <1>1, HeardFacts DEF Asks
  <1>3. /\ \A i \in DOMAIN inbox', q \in Requests :
              /\ Asks(i, q)' => i + 1 \in DOMAIN inbox /\ Asks(i + 1, q) /\ 1 < i + 1
              /\ Denies(i, q)' => i + 1 \in DOMAIN inbox /\ Denies(i + 1, q) /\ 1 < i + 1
        /\ \A i, j \in DOMAIN inbox', a, b \in Requests :
              i < j /\ Asks(i, a)' /\ Asks(j, b)' => a < b
        /\ DeniedInv'
    BY <1>1, HeardKeeps
  <1>4. r <= asked /\ r >= 1 /\ (\A h \in heard : h < r) /\ r \notin heard
    <2>1. r <= asked /\ \A h \in heard : h < r
      BY <1>2 DEF IInv, AskedInv
    <2>2. r \in Nat /\ r >= 1
      BY TuiAssumption DEF Requests
    <2> QED
      BY <2>1, <2>2
  <1>5. /\ selects' \in Seq(Requests)
        /\ Len(selects) \in Nat /\ DOMAIN selects = 1 .. Len(selects)
        /\ Len(selects') = Len(selects) + 1
        /\ DOMAIN selects' = 1 .. Len(selects) + 1
        /\ selects'[Len(selects) + 1] = r
        /\ \A i \in DOMAIN selects : i \in DOMAIN selects' /\ selects'[i] = selects[i]
    BY <1>0, <1>1 DEF TypeOK
  <1>6. TypeOK'
    <2>1. r \in 1 .. asked
      BY <1>0, <1>4, TuiAssumption DEF TypeOK, Requests
    <2> QED
      BY <1>0, <1>1, <1>2, <1>5, <2>1 DEF TypeOK
  <1>7. AskedInv'
    <2>1. ASSUME NEW i \in DOMAIN inbox', NEW q \in Requests, Asks(i, q)'
          PROVE  q <= asked' /\ \A h \in heard' : h < q
      <3>1. i + 1 \in DOMAIN inbox /\ Asks(i + 1, q) /\ 1 < i + 1
        BY <1>3, <2>1
      <3>2. r < q
        BY <1>2, <3>1 DEF IInv, AskedInv
      <3>3. q <= asked /\ \A h \in heard : h < q
        BY <3>1 DEF IInv, AskedInv
      <3> QED
        BY <1>1, <1>2, <3>2, <3>3
    <2> QED
      BY <1>3, <2>1 DEF AskedInv
  <1>8. SelectsInv'
    <2>1. ASSUME NEW i \in DOMAIN selects' PROVE selects'[i] \in heard'
      <3>1. CASE i \in DOMAIN selects
        BY <1>1, <1>5, <3>1 DEF IInv, SelectsInv
      <3>2. CASE i = Len(selects) + 1
        BY <1>1, <1>5, <3>2
      <3> QED
        BY <1>5, <3>1, <3>2
    <2>2. ASSUME NEW i \in DOMAIN selects', NEW j \in DOMAIN selects', i < j
          PROVE  selects'[i] < selects'[j]
      <3>1. i \in DOMAIN selects
        BY <1>5, <2>2
      <3>2. CASE j \in DOMAIN selects
        BY <1>5, <2>2, <3>1, <3>2 DEF IInv, SelectsInv
      <3>3. CASE j = Len(selects) + 1
        BY <1>4, <1>5, <3>1, <3>3 DEF IInv, SelectsInv
      <3> QED
        BY <1>5, <3>2, <3>3
    <2> QED
      BY <2>1, <2>2 DEF SelectsInv
  <1>9. PendingInv'
    <2>1. pending' \subseteq heard' \ picked'
      BY <1>0, <1>1, <1>4 DEF IInv, PendingInv, TypeOK
    <2>2. Contains(selects, r)' /\ \A q : Contains(selects, q) => Contains(selects, q)'
      <3>1. \A i \in 1 .. Len(selects) : i \in 1 .. Len(selects') /\ selects'[i] = selects[i]
        BY <1>5
      <3>2. Len(selects) + 1 \in 1 .. Len(selects')
        BY <1>5
      <3> QED
        BY <1>5, <3>1, <3>2 DEF Contains
    <2>3. Lost' \subseteq Lost
      <3> SUFFICES ASSUME NEW q \in Lost' PROVE q \in Lost
        OBVIOUS
      <3>1. /\ q \in pending' /\ ~Contains(selects, q)'
            /\ q \in open' \/ \E i \in DOMAIN inbox' : Denies(i, q)'
        BY DEF Lost
      <3>2. q \in pending /\ q \in Requests /\ ~Contains(selects, q)
        BY <1>0, <1>1, <2>2, <3>1 DEF TypeOK
      <3>3. q \in open \/ \E i \in DOMAIN inbox : Denies(i, q)
        BY <1>2, <1>3, <3>1, <3>2
      <3> QED
        BY <3>2, <3>3 DEF Lost
    <2>4. Told \subseteq Told'
      <3>1. overtaken \subseteq Requests
        BY <1>0, TuiAssumption DEF TypeOK, Requests
      <3> QED
        BY <1>2, <1>3, <3>1 DEF Told
    <2> QED
      BY <1>0, <1>6, <2>1, <2>3, <2>4, CountKeeps DEF IInv, PendingInv
  <1>10. OpenInv'
    BY <1>1, <1>2 DEF IInv, OpenInv
  <1> QED
    BY <1>3, <1>6, <1>7, <1>8, <1>9, <1>10 DEF IInv

(* A pending request has lost its own widget, or a denial takes it, or the *)
(* one of an older request: that one is lost too if it is still counted,   *)
(* and then the denial was out of turn.                                    *)
LEMMA TakesOne ==
    ASSUME IInv, TypeOK', NEW r \in pending, Hear(<<"permission.denied", r>>, <<>>),
           DropDenied(r), UNCHANGED picked
    PROVE  Cardinality(Lost') <= Cardinality(Told')
  <1>0. /\ TypeOK /\ r \in Requests /\ Requests \subseteq Nat /\ r \notin picked
        /\ \A q \in pending : q \in Requests /\ q \notin picked
    <2>1. TypeOK /\ pending \subseteq Requests /\ pending \subseteq heard \ picked
      BY DEF IInv, TypeOK, PendingInv
    <2>2. Requests \subseteq Nat
      BY TuiAssumption DEF Requests
    <2> QED
      BY <2>1, <2>2
  <1>1. 1 \in DOMAIN inbox /\ Denies(1, r) /\ UNCHANGED <<open, overtaken>>
    BY <1>0, HeardFacts DEF Denies
  <1>2. \A i \in DOMAIN inbox', q \in Requests :
           Denies(i, q)' => i + 1 \in DOMAIN inbox /\ Denies(i + 1, q) /\ 1 < i + 1
    BY HeardKeeps
  <1>3. pending' = pending \ {r} /\ selects' = OneLess
    BY DEF DropDenied
  <1>4. Told \subseteq Told'
    <2>1. overtaken \subseteq Requests
      BY <1>0, TuiAssumption DEF TypeOK, Requests
    <2>2. ASSUME NEW q \in Told PROVE q \in Told'
      <3>1. q \in overtaken /\ q \in Requests /\ overtaken' = overtaken
        BY <1>1, <2>1 DEF Told
      <3>2. ASSUME NEW i \in DOMAIN inbox' PROVE ~Denies(i, q)'
        BY <1>2, <3>1 DEF Told
      <3> QED
        BY <3>1, <3>2 DEF Told
    <2> QED
      BY <2>2
  (* The denial is heard once, and before those of later requests.         *)
  <1>5. \A i \in DOMAIN inbox', q \in Requests :
           Denies(i, q)' /\ q \notin picked => (r \in overtaken /\ q # r) \/ r < q
    BY <1>0, <1>1, <1>2 DEF IInv, DeniedInv
  <1>6. \A i \in DOMAIN inbox' : ~Denies(i, r)'
    BY <1>0, <1>5
  <1>7. r \in overtaken \/ \A o \in open : r < o
    BY <1>0, <1>1 DEF IInv, DeniedInv
  <1>8. ASSUME NEW q \in Lost', Contains(selects, q) => Contains(selects, q)'
        PROVE  q \in Lost
    <2>1. /\ q \in pending /\ q \in Requests /\ ~Contains(selects, q)
          /\ q \in open \/ \E i \in DOMAIN inbox' : Denies(i, q)'
      BY <1>0, <1>1, <1>3, <1>8 DEF Lost
    <2> QED
      BY <1>2, <2>1 DEF Lost
  <1>9. CASE Lost' \subseteq Lost
    BY <1>0, <1>4, <1>9, CountKeeps DEF IInv
  <1>10. CASE \E q \in Lost' : q \notin Lost
    <2>1. PICK q \in Lost' : q \notin Lost
      BY <1>10
    <2>2. /\ selects \in Seq(Requests) /\ selects # <<>> /\ Len(selects) \in Nat
          /\ DOMAIN selects = 1 .. Len(selects) /\ 1 \in DOMAIN selects
          /\ Len(selects') = Len(selects) - 1
          /\ \A i \in 1 .. Len(selects') : selects'[i] = selects[i + 1]
      <3>1. selects # <<>>
        BY <1>3, <1>8, <2>1 DEF OneLess
      <3> QED
        BY <1>0, <1>3, <3>1 DEF TypeOK, OneLess
    <2>3. \A p \in Requests : Contains(selects, p) /\ p # selects[1] => Contains(selects, p)'
      <3> SUFFICES ASSUME NEW p, NEW i \in 1 .. Len(selects), selects[i] = p, p # selects[1]
                   PROVE  Contains(selects, p)'
        BY DEF Contains
      <3>1. i - 1 \in 1 .. Len(selects') /\ (i - 1) + 1 = i
        BY <2>2
      <3> QED
        BY <2>2, <3>1 DEF Contains
    <2>4. /\ q \in pending /\ q # r /\ q \in Requests /\ q = selects[1]
          /\ q \in open \/ \E i \in DOMAIN inbox' : Denies(i, q)'
      <3>1. /\ q \in pending /\ q # r
            /\ q \in open \/ \E i \in DOMAIN inbox' : Denies(i, q)'
        BY <1>1, <1>3 DEF Lost
      <3> QED
        BY <1>0, <1>8, <2>1, <2>3, <3>1
    <2>5. Lost' \subseteq (Lost \cup {q}) \ {r}
      <3> SUFFICES ASSUME NEW p \in Lost' PROVE p # r /\ (p = q \/ p \in Lost)
        OBVIOUS
      <3>1. p \in Requests /\ p # r
        BY <1>0, <1>3 DEF Lost
      <3> QED
        BY <1>8, <2>3, <2>4, <3>1
    <2>6. /\ IsFiniteSet(Lost) /\ IsFiniteSet(Told) /\ IsFiniteSet(Told')
          /\ Cardinality(Lost) \in Nat /\ Cardinality(Told) \in Nat
          /\ Cardinality(Told') \in Nat /\ Cardinality(Lost) <= Cardinality(Told)
      <3>1. IsFiniteSet(Lost) /\ IsFiniteSet(Told) /\ IsFiniteSet(Told')
        BY <1>0, AreFinite, StillFinite
      <3> QED
        BY <3>1, FS_CardinalityType DEF IInv, PendingInv
    <2>7. CASE ~Contains(selects, r)
      <3>1. r \in Lost
        BY <1>1, <2>7 DEF Lost
      <3> DEFINE rest == Lost \ {r}
      <3>2. /\ IsFiniteSet(rest) /\ Cardinality(rest) = Cardinality(Lost) - 1
        BY <2>6, <3>1, FS_RemoveElement
      <3>3. q \notin rest /\ Lost' \subseteq rest \cup {q}
        BY <2>1, <2>5
      <3> HIDE DEF rest
      <3>4. IsFiniteSet(rest \cup {q}) /\ Cardinality(rest \cup {q}) = Cardinality(Lost)
        <4>1. IsFiniteSet(rest \cup {q}) /\ Cardinality(rest \cup {q}) = Cardinality(rest) + 1
          BY <3>2, <3>3, FS_AddElement
        <4> QED
          BY <2>6, <3>2, <4>1
      <3>5. Cardinality(Lost') <= Cardinality(Lost) /\ Cardinality(Told) <= Cardinality(Told')
        BY <1>4, <2>6, <3>3, <3>4, FS_Subset
      <3>6. Cardinality(Lost') \in Nat
        BY <3>3, <3>4, FS_Subset, FS_CardinalityType
      <3> QED
        BY <2>6, <3>5, <3>6
    <2>8. CASE Contains(selects, r)
      <3>1. q < r
        <4>1. PICK i \in DOMAIN selects : selects[i] = r
          BY <2>2, <2>8 DEF Contains
        <4>2. 1 < i
          BY <2>2, <2>4, <4>1
        <4> QED
          BY <2>2, <2>4, <4>1, <4>2 DEF IInv, SelectsInv
      <3>2. r \in overtaken
        BY <1>0, <1>5, <1>7, <2>4, <3>1
      <3>3. r \in Told' /\ r \notin Told
        BY <1>1, <1>6, <3>2 DEF Told
      <3>4. /\ IsFiniteSet(Lost \cup {q}) /\ Cardinality(Lost \cup {q}) = Cardinality(Lost) + 1
            /\ IsFiniteSet(Told \cup {r}) /\ Cardinality(Told \cup {r}) = Cardinality(Told) + 1
        BY <2>1, <2>6, <3>3, FS_AddElement
      <3>5. Lost' \subseteq Lost \cup {q} /\ Told \cup {r} \subseteq Told'
        BY <1>4, <2>5, <3>3
      <3>6. /\ Cardinality(Lost') <= Cardinality(Lost \cup {q})
            /\ Cardinality(Told \cup {r}) <= Cardinality(Told')
            /\ Cardinality(Lost') \in Nat
        BY <2>6, <3>4, <3>5, FS_Subset, FS_CardinalityType
      <3> QED
        BY <2>6, <3>4, <3>6
    <2> QED
      BY <2>7, <2>8
  <1> QED
    BY <1>9, <1>10

(* A denial takes the first widget, whoever's it is.                       *)
LEMMA HearsDeniedKeeps == IInv /\ HearsDenied => IInv'
  <1> SUFFICES ASSUME IInv, HearsDenied PROVE IInv'
    OBVIOUS
  <1>0. TypeOK
    BY DEF IInv
  <1>1. PICK r \in Requests :
           /\ Hear(<<"permission.denied", r>>, <<>>)
           /\ DropDenied(r)
           /\ UNCHANGED <<link, busy, awaited, heard, picked>>
    BY DEF HearsDenied
  <1>2. /\ 1 \in DOMAIN inbox /\ Denies(1, r)
        /\ inbox' \in Seq(Lines)
        /\ UNCHANGED <<subscribed, holder, open, overtaken, asked, sends, compacts,
                       losses, others>>
    BY <1>0, <1>1, HeardFacts DEF Denies
  <1>3. /\ \A i \in DOMAIN inbox', q \in Requests :
              /\ Asks(i, q)' => i + 1 \in DOMAIN inbox /\ Asks(i + 1, q) /\ 1 < i + 1
              /\ Denies(i, q)' => i + 1 \in DOMAIN inbox /\ Denies(i + 1, q) /\ 1 < i + 1
        /\ \A i, j \in DOMAIN inbox', a, b \in Requests :
              i < j /\ Asks(i, a)' /\ Asks(j, b)' => a < b
        /\ DeniedInv'
    BY <1>1, HeardKeeps
  <1>4. AskedInv'
    BY <1>1, <1>2, <1>3 DEF IInv, AskedInv
  <1>5. CASE r \notin pending
    <2>1. UNCHANGED <<pending, selects, prompt>>
      BY <1>1, <1>5 DEF DropDenied
    <2>2. TypeOK'
      BY <1>0, <1>1, <1>2, <2>1 DEF TypeOK
    <2>3. SelectsInv' /\ OpenInv'
      BY <1>1, <1>2, <2>1 DEF IInv, SelectsInv, OpenInv
    <2>4. PendingInv'
      <3>1. pending \subseteq Requests /\ overtaken \subseteq Requests
        BY <1>0, TuiAssumption DEF TypeOK, Requests
      <3>2. Lost' \subseteq Lost /\ Told \subseteq Told'
        BY <1>2, <1>3, <2>1, <3>1 DEF Lost, Told
      <3> QED
        BY <1>0, <1>1, <2>1, <2>2, <3>2, CountKeeps DEF IInv, PendingInv
    <2> QED
      BY <1>3, <1>4, <2>2, <2>3, <2>4 DEF IInv
  <1>6. CASE r \in pending
    <2>1. /\ pending' = pending \ {r} /\ prompt' = (prompt \/ pending' = {})
          /\ selects' = OneLess
      BY <1>1, <1>6 DEF DropDenied, Freed
    <2>2. /\ selects' \in Seq(Requests) /\ Len(selects) \in Nat
          /\ DOMAIN selects = 1 .. Len(selects) /\ DOMAIN selects' = 1 .. Len(selects')
          /\ \/ selects' = selects
             \/ /\ Len(selects') = Len(selects) - 1
                /\ \A i \in DOMAIN selects' : selects'[i] = selects[i + 1]
      BY <1>0, <2>1 DEF TypeOK, OneLess
    <2>3. TypeOK'
      BY <1>0, <1>1, <1>2, <2>1, <2>2 DEF TypeOK
    <2>4. SelectsInv'
      <3>1. CASE selects' = selects
        BY <1>1, <3>1 DEF IInv, SelectsInv
      <3>2. CASE /\ Len(selects') = Len(selects) - 1
                 /\ \A i \in DOMAIN selects' : selects'[i] = selects[i + 1]
        <4>1. \A i \in DOMAIN selects' : i + 1 \in DOMAIN selects
          <5>1. Len(selects) \in Nat
            BY <2>2
          <5>2. \A i \in 1 .. Len(selects) - 1 : i + 1 \in 1 .. Len(selects)
            BY <5>1
          <5>3. DOMAIN selects = 1 .. Len(selects) /\ DOMAIN selects' = 1 .. Len(selects) - 1
            BY <2>2, <3>2
          <5> QED
            BY <5>2, <5>3
        <4>2. \A i, j \in DOMAIN selects' : i < j => i + 1 < j + 1
          <5>1. \A i, j \in 1 .. Len(selects') : i < j => i + 1 < j + 1
            OBVIOUS
          <5> QED
            BY <2>2, <5>1
        <4> QED
          BY <1>1, <3>2, <4>1, <4>2 DEF IInv, SelectsInv
      <3> QED
        BY <2>2, <3>1, <3>2
    <2>5. PendingInv'
      <3>1. pending' \subseteq heard' \ picked'
        BY <1>1, <2>1 DEF IInv, PendingInv
      <3>2. Cardinality(Lost') <= Cardinality(Told')
        BY <1>1, <1>6, <2>3, TakesOne
      <3> QED
        BY <3>1, <3>2 DEF PendingInv
    <2>6. OpenInv'
      <3>1. r \notin picked /\ r \in Nat
        BY <1>6, TuiAssumption DEF IInv, PendingInv, Requests
      <3>2. r \notin open
        BY <1>2, <3>1 DEF IInv, DeniedInv
      <3> QED
        BY <1>1, <1>2, <2>1, <3>2 DEF IInv, OpenInv
    <2> QED
      BY <1>3, <1>4, <2>3, <2>4, <2>5, <2>6 DEF IInv
  <1> QED
    BY <1>5, <1>6
-----------------------------------------------------------------------------
(* Nothing has been asked.                                                 *)
LEMMA InitIInv == Init => IInv
  <1> SUFFICES ASSUME Init PROVE IInv
    OBVIOUS
  <1>1. None \in {"none", "session.send_message", "session.compact", "leaving"} \X Nat
    BY DEF None
  <1>2. TypeOK
    <2>1. selects \in Seq(Requests) /\ inbox \in Seq(Lines)
      BY DEF Init
    <2>2. asked \in 0 .. MaxRequests /\ sends \in Nat /\ compacts \in Nat
          /\ losses \in Nat /\ others \in Nat
      BY TuiAssumption DEF Init
    <2>3. holder \in {"none", "session.send_message", "session.compact", "leaving"} \X Nat
      BY <1>1 DEF Init
    <2> QED
      BY <2>1, <2>2, <2>3 DEF Init, TypeOK
  <1>3. PendingInv
    <2>1. Lost = {} /\ Told = {} /\ pending = {}
      BY DEF Init, Lost, Told
    <2> QED
      BY <2>1, FS_EmptySet DEF PendingInv
  <1>4. AskedInv /\ DeniedInv /\ SelectsInv /\ OpenInv
    BY DEF Init, AskedInv, DeniedInv, SelectsInv, OpenInv
  <1> QED
    BY <1>2, <1>3, <1>4 DEF IInv

(* Every step keeps the invariant.                                         *)
LEMMA StepIInv == IInv /\ [Next]_vars => IInv'
  <1> SUFFICES ASSUME IInv, [Next]_vars PROVE IInv'
    OBVIOUS
  <1>1. CASE Connect \/ Lose
    BY <1>1, LinkKeeps
  <1>2. CASE User
    BY <1>2, CommandKeeps, PickKeeps DEF User
  <1>3. CASE Hears
    BY <1>3, HearsOthersKeeps, HearsRequestedKeeps, HearsDeniedKeeps DEF Hears, HearsOthers
  <1>4. CASE Serves \/ TurnWaits \/ OtherSession
    BY <1>4, DaemonKeeps DEF Serves
  <1>5. CASE Ask \/ Expires \/ Vanishes \/ AnsweredElsewhere
    BY <1>5, AskKeeps, ExpiresKeeps, VanishesKeeps, AnsweredElsewhereKeeps
  <1>6. CASE UNCHANGED vars
    <2>1. UNCHANGED <<link, busy, prompt, pending, selects, awaited, heard, picked, inbox,
                      subscribed, holder, open, overtaken, asked, sends, compacts,
                      losses, others>>
      BY <1>6 DEF vars, user, daemon, counts
    <2>2. Quiet
      BY <2>1, QuietIs DEF IInv
    <2>3. OtherTypes'
      BY <2>1 DEF IInv, TypeOK, OtherTypes
    <2> QED
      BY <2>2, <2>3, QuietStep
  <1> QED
    BY <1>1, <1>2, <1>3, <1>4, <1>5, <1>6 DEF Next

(* Hence it holds in every reachable state.                                *)
LEMMA Invariant == Spec => []IInv
  BY InitIInv, StepIInv, PTL DEF Spec

(* Type correctness of the interface, its stream and the daemon it sees.   *)
THEOREM TuiTypeCorrect == Spec => []TypeOK
  BY Invariant, PTL DEF IInv

(* A request the interface was told of and the permission manager waits    *)
(* for blocks the prompt, and has a widget to decide it by, until the user *)
(* has decided it, although a denial takes the first widget whoever's it   *)
(* is: at most as many are without as denials were given out of turn by    *)
(* other clients.                                                          *)
THEOREM RequestsStayOnScreen == Spec => []OpenRequestsShown
  <1>1. IInv => OpenRequestsShown
    <2> SUFFICES ASSUME IInv PROVE OpenRequestsShown
      OBVIOUS
    <2>1. Undecided \subseteq pending
      BY DEF IInv, OpenInv, Undecided
    <2>2. Undecidable \subseteq Lost /\ Told \subseteq overtaken
      BY <2>1 DEF Undecidable, Undecided, Lost, Told
    <2>3. IsFiniteSet(Lost) /\ IsFiniteSet(Told) /\ IsFiniteSet(overtaken)
      BY AreFinite, FS_Subset DEF IInv
    <2>4. /\ Cardinality(Undecidable) <= Cardinality(Lost)
          /\ Cardinality(Told) <= Cardinality(overtaken)
      BY <2>2, <2>3, FS_Subset
    <2>5. /\ Cardinality(Undecidable) \in Nat /\ Cardinality(Lost) \in Nat
          /\ Cardinality(Told) \in Nat /\ Cardinality(overtaken) \in Nat
      BY <2>2, <2>3, FS_Subset, FS_CardinalityType
    <2> QED
      BY <2>1, <2>4, <2>5 DEF IInv, PendingInv, OpenRequestsShown
  <1> QED
    BY <1>1, Invariant, PTL
=============================================================================
