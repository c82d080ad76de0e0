------------------------------ MODULE EventProofs ------------------------------
(***************************************************************************)
(* Proofs about EventDelivery for any number of runs, clients and events:  *)
(* what the file of a run holds, in what order a client sees its events,   *)
(* and which of them a replaying client can miss.                          *)
(***************************************************************************)
EXTENDS EventDelivery, SequenceTheorems, WellFoundedInduction, TLAPS

(* A list without repetitions.                                             *)
NoTwice(list) == \A i, j \in DOMAIN list : list[i] = list[j] => i = j

(* A connection is subscribed at most once, and one that is subscribed     *)
(* stays in the list until it is gone; only a lost one is found dead.      *)
SubsInv ==
    /\ NoTwice(subs)
    /\ Range(subs) \subseteq {k \in Clients : client[k] \in {"subscribed", "gone"}}
    /\ {k \in Clients : client[k] = "subscribed"} \subseteq Range(subs)
    /\ \A r \in Runs : dead[r] \subseteq {k \in Clients : client[k] = "gone"}

(* An event on the bus was not heard before; it is pushed once to each     *)
(* subscriber, which has nothing as new yet.                               *)
BusInv ==
    \A r \in Runs :
        /\ NoTwice(todo[r])
        /\ Range(todo[r]) \subseteq {k \in Clients : client[k] \in {"subscribed", "gone"}}
        /\ r \notin inFlight => todo[r] = <<>>
        /\ r \in inFlight => begun[r] > 0 /\ begun[r] \notin done[r]
        /\ \A n \in done[r] : n <= begun[r]
        /\ \A k \in Range(todo[r]) : begun[r] \notin Range(inbox[k][r])

(* Where a run stands, by its last event.                                  *)
StageInv ==
    \A r \in Runs :
        /\ r \in open => begun[r] \in 1 .. Finished
        /\ begun[r] = 0 => r \notin cut
        /\ begun[r] \in 1 .. Finished - 1 /\ r \notin open
              => begun[r] = 1 /\ r \in cut /\ r \notin inFlight /\ done[r] = {}
        /\ begun[r] = Finished => (r \in open <=> r \in inFlight)
        /\ r \in persisted => begun[r] >= Finished /\ r \notin open
        /\ begun[r] = Waiting => r \in persisted
        /\ begun[r] >= Finished /\ r \notin open =>
              Finished \in done[r] \/ (begun[r] = Finished /\ r \in cut)

(* The files have each run's events in order, as far as they are out.      *)
FileInv ==
    \A r, x \in Runs : Rising(file[x][r]) /\ Range(file[x][r]) \subseteq done[r]

(* So do the clients, whose events may still be on the bus.                *)
InboxInv ==
    \A k \in Clients, r \in Runs :
        /\ Rising(inbox[k][r])
        /\ \A n \in Range(inbox[k][r]) : n <= begun[r]

(* An event a replaying client does not have yet is on its way to it, or   *)
(* was on the bus while it was between the replay and its subscription.    *)
RaceInv ==
    \A k \in Clients, r \in Runs :
        /\ client[k] = "replaying" /\ r \in inFlight => <<r, begun[r]>> \in racing[k]
        /\ client[k] = "subscribed" /\ wants[k].replay = r /\ r \in inFlight /\ begun[r] # Waiting
              => \/ k \in Range(todo[r])
                 \/ begun[r] \in Range(inbox[k][r])
                 \/ <<r, begun[r]>> \in racing[k]
        /\ client[k] \in Listens /\ wants[k].replay = r
              => \A n \in Range(file[r][r]) \ Range(inbox[k][r]) : <<r, n>> \in racing[k]

(* The file of a run has all of the run's own events that are out.         *)
OwnFile == \A r \in Runs : Range(file[r][r]) = done[r] \ {Waiting}

IInv ==
    /\ TypeOK
    /\ SubsInv
    /\ BusInv
    /\ StageInv
    /\ FileInv
    /\ OwnFile
    /\ InboxInv
    /\ RaceInv
-----------------------------------------------------------------------------
(* Lists.                                                                  *)

(* A set of numbers has a least one.                                       *)
LEMMA LeastOne ==
    ASSUME NEW T \in SUBSET Nat, T # {}
    PROVE  \E k \in T : \A y \in T : ~ (y < k)
  <1>1. \E x \in T : \A y \in T : ~ (<<y, x>> \in OpToRel(<, Nat))
    BY NatLessThanWellFounded, WFMin
  <1>2. QED
    BY <1>1 DEF OpToRel

(* A list with one more row.                                               *)
LEMMA OneMore ==
    ASSUME NEW S, NEW s \in Seq(S), NEW e \in S
    PROVE  /\ Append(s, e) \in Seq(S)
           /\ Len(s) \in Nat /\ Len(Append(s, e)) = Len(s) + 1
           /\ DOMAIN s = 1 .. Len(s) /\ DOMAIN Append(s, e) = 1 .. Len(s) + 1
           /\ Append(s, e)[Len(s) + 1] = e
           /\ \A i \in 1 .. Len(s) : Append(s, e)[i] = s[i]
           /\ Range(Append(s, e)) = Range(s) \cup {e}
  <1>1. /\ Append(s, e) \in Seq(S)
        /\ Len(s) \in Nat /\ Len(Append(s, e)) = Len(s) + 1
        /\ DOMAIN s = 1 .. Len(s)
        /\ Append(s, e)[Len(s) + 1] = e
        /\ \A i \in 1 .. Len(s) : Append(s, e)[i] = s[i]
    BY AppendProperties, LenProperties
  <1> DEFINE n == Len(s)
             t == Append(s, e)
  <1>2. DOMAIN t = 1 .. n + 1
    BY <1>1
  <1> HIDE DEF n, t
  <1>3. n + 1 \in 1 .. n + 1 /\ \A i \in 1 .. n + 1 : i = n + 1 \/ i \in 1 .. n
    BY <1>1 DEF n
  <1>4. Range(t) = Range(s) \cup {e}
    BY <1>1, <1>2, <1>3 DEF Range, n, t
  <1>5. QED
    BY <1>1, <1>2, <1>4 DEF n, t

(* A list that is not empty is its head and then its tail.                 *)
LEMMA OneLess ==
    ASSUME NEW S, NEW s \in Seq(S), s # <<>>
    PROVE  /\ Head(s) \in S /\ Tail(s) \in Seq(S)
           /\ Range(s) = Range(Tail(s)) \cup {Head(s)}
           /\ NoTwice(s) => NoTwice(Tail(s)) /\ Head(s) \notin Range(Tail(s))
  <1> DEFINE t == Tail(s)
             n == Len(s)
  <1>1. /\ Head(s) \in S /\ t \in Seq(S) /\ Head(s) = s[1]
        /\ n \in Nat /\ n > 0 /\ Len(t) = n - 1 /\ DOMAIN s = 1 .. n
        /\ \A i \in 1 .. n - 1 : t[i] = s[i + 1]
    BY HeadTailProperties, EmptySeq, LenProperties
  <1>2. DOMAIN t = 1 .. n - 1
    BY <1>1, LenProperties
  <1> HIDE DEF t, n
  <1>3. /\ 1 \in 1 .. n
        /\ \A i \in 1 .. n - 1 : i + 1 \in 1 .. n /\ i + 1 # 1
        /\ \A i \in 1 .. n : i = 1 \/ (i - 1 \in 1 .. n - 1 /\ i - 1 + 1 = i)
        /\ \A i, j \in 1 .. n - 1 : i + 1 = j + 1 => i = j
    BY <1>1
  <1>4. Range(s) = Range(t) \cup {Head(s)}
    <2>1. ASSUME NEW i \in 1 .. n PROVE s[i] \in Range(t) \cup {Head(s)}
      <3>1. CASE i = 1
        BY <1>1, <3>1
      <3>2. CASE i - 1 \in 1 .. n - 1 /\ i - 1 + 1 = i
        <4>1. t[i - 1] = s[i]
          BY <1>1, <3>2
        <4>2. QED
          BY <1>2, <3>2, <4>1 DEF Range
      <3>3. QED
        BY <1>3, <3>1, <3>2
    <2>2. ASSUME NEW j \in 1 .. n - 1 PROVE t[j] \in Range(s)
      <3>1. t[j] = s[j + 1] /\ j + 1 \in DOMAIN s
        BY <1>1, <1>3
      <3>2. QED
        BY <3>1 DEF Range
    <2>3. Head(s) \in Range(s)
      BY <1>1, <1>3 DEF Range
    <2>4. Range(s) \subseteq Range(t) \cup {Head(s)}
      BY <1>1, <2>1 DEF Range
    <2>5. Range(t) \subseteq Range(s)
      BY <1>2, <2>2 DEF Range
    <2>6. QED
      BY <2>3, <2>4, <2>5
  <1>5. ASSUME NoTwice(s) PROVE NoTwice(t) /\ Head(s) \notin Range(t)
    <2>1. \A a, b \in 1 .. n : s[a] = s[b] => a = b
      BY <1>1, <1>5 DEF NoTwice
    <2>2. ASSUME NEW i \in 1 .. n - 1, NEW j \in 1 .. n - 1, t[i] = t[j] PROVE i = j
      BY <1>1, <1>3, <2>1, <2>2
    <2>3. ASSUME NEW i \in 1 .. n - 1 PROVE t[i] # s[1]
      BY <1>1, <1>3, <2>1, <2>3
    <2>4. QED
      BY <1>1, <1>2, <2>2, <2>3 DEF NoTwice, Range
  <1>6. QED
    BY <1>1, <1>4, <1>5 DEF t

(* The empty list.                                                         *)
LEMMA NoRows ==
    /\ \A S : <<>> \in Seq(S)
    /\ Range(<<>>) = {} /\ NoTwice(<<>>) /\ Rising(<<>>)
    /\ \A S : \A s \in Seq(S) : Range(s) = {} => s = <<>>
    /\ \A S : \A s \in Seq(S) : Range(s) \subseteq S
  <1>1. DOMAIN <<>> = {}
    OBVIOUS
  <1>2. ASSUME NEW S, NEW s \in Seq(S)
        PROVE  (Range(s) = {} => s = <<>>) /\ Range(s) \subseteq S
    <2>1. Range(s) \subseteq S
      BY LenProperties, ElementOfSeq DEF Range
    <2>2. ASSUME s # <<>> PROVE s[1] \in Range(s)
      <3>1. Len(s) \in Nat /\ Len(s) > 0 /\ DOMAIN s = 1 .. Len(s)
        BY <2>2, EmptySeq, LenProperties
      <3>2. 1 \in DOMAIN s
        BY <3>1
      <3>3. QED
        BY <3>2 DEF Range
    <2>3. QED
      BY <2>1, <2>2
  <1>3. QED
    BY <1>1, <1>2, EmptySeq DEF Range, NoTwice, Rising

(* One that was not in the list joins it.                                  *)
LEMMA Joins ==
    ASSUME NEW S, NEW s \in Seq(S), NEW e \in S, NoTwice(s), e \notin Range(s)
    PROVE  NoTwice(Append(s, e)) /\ Range(Append(s, e)) = Range(s) \cup {e}
  <1> DEFINE t == Append(s, e)
             m == Len(s)
  <1>1. /\ m \in Nat /\ DOMAIN s = 1 .. m /\ DOMAIN t = 1 .. m + 1
        /\ t[m + 1] = e /\ \A i \in 1 .. m : t[i] = s[i]
        /\ Range(t) = Range(s) \cup {e}
    BY OneMore
  <1> HIDE DEF t, m
  <1>2. \A i \in 1 .. m + 1 : i = m + 1 \/ i \in 1 .. m
    BY <1>1
  <1>3. \A i \in 1 .. m : s[i] # e
    BY <1>1 DEF Range
  <1>4. NoTwice(t)
    BY <1>1, <1>2, <1>3 DEF NoTwice
  <1>5. QED
    BY <1>1, <1>4 DEF t

(* A rising list goes on with a greater number.                            *)
LEMMA RisesOn ==
    ASSUME NEW s \in Seq(Nat), Rising(s), NEW e \in Nat, \A n \in Range(s) : n < e
    PROVE  Rising(Append(s, e))
  <1> DEFINE t == Append(s, e)
             m == Len(s)
  <1>1. /\ m \in Nat /\ DOMAIN s = 1 .. m /\ DOMAIN t = 1 .. m + 1
        /\ t[m + 1] = e /\ \A i \in 1 .. m : t[i] = s[i]
    BY OneMore
  <1>2. \A i \in 1 .. m : s[i] < e
    BY <1>1 DEF Range
  <1> HIDE DEF t, m
  <1>3. \A i, j \in 1 .. m + 1 : i < j => i \in 1 .. m /\ (j = m + 1 \/ j \in 1 .. m)
    BY <1>1
  <1>4. \A i, j \in DOMAIN t : i < j => t[i] < t[j]
    BY <1>1, <1>2, <1>3 DEF Rising
  <1>5. QED
    BY <1>4 DEF Rising, t

(* The last row of a rising list is the greatest.                          *)
LEMMA LastIsGreatest ==
    ASSUME NEW s \in Seq(Nat), Rising(s), NEW m \in Range(s), \A n \in Range(s) : n <= m
    PROVE  Last(s) = m
  <1> DEFINE n == Len(s)
  <1>1. n \in Nat /\ DOMAIN s = 1 .. n
    BY LenProperties
  <1>2. PICK i \in 1 .. n : s[i] = m
    BY <1>1 DEF Range
  <1>3. \A j \in 1 .. n : s[j] \in Nat /\ s[j] <= m
    BY <1>1, ElementOfSeq DEF Range
  <1>4. \A j \in 1 .. n : i < j => s[i] < s[j]
    BY <1>1 DEF Rising
  <1> HIDE DEF n
  <1>5. n \in 1 .. n /\ m \in Nat
    BY <1>1, <1>2, <1>3
  <1>6. i = n
    <2> SUFFICES ASSUME i < n PROVE FALSE
      BY <1>1
    <2>1. m < s[n]
      BY <1>2, <1>4, <1>5
    <2>2. QED
      BY <1>3, <1>5, <2>1
  <1>7. QED
    BY <1>2, <1>6 DEF Last, n

(* One row of Keep's recursion.                                            *)
KeepStep(list, K, f, i) ==
    IF i = 0 THEN <<>>
    ELSE IF list[i] \in K THEN Append(f[i - 1], list[i]) ELSE f[i - 1]

(* There is a function that Keep's recursion describes.                    *)
LEMMA KeepUnfolds ==
    ASSUME NEW list, NEW K, Len(list) \in Nat
    PROVE  \E f : /\ f = [i \in 0 .. Len(list) |-> KeepStep(list, K, f, i)]
                  /\ Keep(list, K) = f[Len(list)]
  <1> DEFINE P(f, n) == f = [i \in 0 .. n |-> KeepStep(list, K, f, i)]
             T == {n \in Nat : ~ \E f : P(f, n)}
  <1>1. T = {}
    <2> SUFFICES ASSUME T # {} PROVE FALSE
      OBVIOUS
    <2>1. PICK n \in T : \A y \in T : ~ (y < n)
      BY LeastOne
    <2>2. n # 0
      <3>1. P([i \in 0 .. 0 |-> <<>>], 0)
        BY DEF KeepStep
      <3>2. QED
        BY <2>1, <3>1
    <2>3. PICK f : P(f, n - 1)
      <3>1. n - 1 \in Nat /\ n - 1 < n
        BY <2>2
      <3>2. QED
        BY <2>1, <3>1
    <2> DEFINE g == [i \in 0 .. n |-> KeepStep(list, K, f, i)]
    <2>4. \A i \in 0 .. n - 1 : g[i] = f[i]
      <3>1. \A i \in 0 .. n - 1 : i \in 0 .. n
        OBVIOUS
      <3>2. QED
        BY <2>3, <3>1
    <2>5. \A i \in 0 .. n : KeepStep(list, K, g, i) = KeepStep(list, K, f, i)
      <3> HIDE DEF g
      <3> SUFFICES ASSUME NEW i \in 0 .. n, i # 0 PROVE g[i - 1] = f[i - 1]
        BY DEF KeepStep
      <3>1. i - 1 \in 0 .. n - 1
        OBVIOUS
      <3>2. QED
        BY <2>4, <3>1
    <2>6. P(g, n)
      BY <2>5
    <2>7. QED
      BY <2>1, <2>6
  <1> DEFINE F == CHOOSE f : f = [i \in 0 .. Len(list) |-> KeepStep(list, K, f, i)]
  <1>2. \E f : f = [i \in 0 .. Len(list) |-> KeepStep(list, K, f, i)]
    BY <1>1
  <1>3. F = [i \in 0 .. Len(list) |-> KeepStep(list, K, F, i)]
    BY <1>2
  <1>4. Keep(list, K) = F[Len(list)]
    BY DEF Keep, KeepStep
  <1>5. QED
    BY <1>3, <1>4

(* Keep leaves the rows of K, in a list without repetitions if there were  *)
(* none.                                                                   *)
LEMMA Kept ==
    ASSUME NEW S, NEW list \in Seq(S), NEW K
    PROVE  /\ Keep(list, K) \in Seq(S)
           /\ Range(Keep(list, K)) = Range(list) \cap K
           /\ NoTwice(list) => NoTwice(Keep(list, K))
  <1> DEFINE n == Len(list)
  <1>1. n \in Nat /\ DOMAIN list = 1 .. n
    BY LenProperties
  <1>2. PICK f : /\ f = [i \in 0 .. n |-> KeepStep(list, K, f, i)]
                 /\ Keep(list, K) = f[n]
    BY <1>1, KeepUnfolds
  <1>3. \A i \in 1 .. n : list[i] \in S
    BY ElementOfSeq
  <1> DEFINE Good(i) ==
        /\ f[i] \in Seq(S)
        /\ Range(f[i]) = {list[j] : j \in 1 .. i} \cap K
        /\ NoTwice(list) => NoTwice(f[i])
  <1> HIDE DEF n
  <1>4. Good(0)
    <2>1. f[0] = <<>>
      BY <1>1, <1>2 DEF KeepStep
    <2>2. {list[j] : j \in 1 .. 0} = {}
      OBVIOUS
    <2>3. QED
      BY <2>1, <2>2, NoRows
  <1>5. ASSUME NEW i \in 1 .. n, Good(i - 1) PROVE Good(i)
    <2>1. i \in 0 .. n /\ i # 0 /\ i \in Nat /\ i \in DOMAIN list
      BY <1>1
    <2>2. f[i] = IF list[i] \in K THEN Append(f[i - 1], list[i]) ELSE f[i - 1]
      BY <1>2, <2>1 DEF KeepStep
    <2>3. {list[j] : j \in 1 .. i} = {list[j] : j \in 1 .. i - 1} \cup {list[i]}
      <3>1. \A j : j \in 1 .. i <=> j \in 1 .. i - 1 \/ j = i
        BY <2>1
      <3>2. QED
        BY <3>1
    <2>4. CASE list[i] \notin K
      BY <1>5, <2>2, <2>3, <2>4
    <2>5. CASE list[i] \in K
      <3> DEFINE s == f[i - 1]
                 t == Append(s, list[i])
      <3>1. /\ t \in Seq(S) /\ Range(t) = Range(s) \cup {list[i]}
            /\ Len(s) \in Nat /\ DOMAIN s = 1 .. Len(s) /\ DOMAIN t = 1 .. Len(s) + 1
            /\ t[Len(s) + 1] = list[i] /\ \A j \in 1 .. Len(s) : t[j] = s[j]
        BY <1>3, <1>5, OneMore
      <3>2. f[i] = t
        BY <2>2, <2>5
      <3> HIDE DEF s, t
      <3>3. ASSUME NoTwice(list) PROVE NoTwice(t)
        <4>1. list[i] \notin Range(s)
          <5>1. \A j \in 1 .. i - 1 : j \in DOMAIN list /\ j # i
            BY <1>1, <2>1
          <5>2. \A j \in 1 .. i - 1 : list[j] # list[i]
            BY <2>1, <3>3, <5>1 DEF NoTwice
          <5>3. QED
            BY <1>5, <5>2 DEF s
        <4>2. NoTwice(s)
          BY <1>5, <3>3 DEF s
        <4>3. \A a \in 1 .. Len(s) + 1 : a = Len(s) + 1 \/ a \in 1 .. Len(s)
          BY <3>1
        <4>4. \A a \in 1 .. Len(s) : s[a] # list[i]
          BY <3>1, <4>1 DEF Range
        <4>5. QED
          BY <3>1, <4>2, <4>3, <4>4 DEF NoTwice
      <3>4. Range(f[i]) = {list[j] : j \in 1 .. i} \cap K
        BY <1>5, <2>3, <2>5, <3>1, <3>2 DEF s
      <3>5. QED
        BY <3>1, <3>2, <3>3, <3>4
    <2>6. QED
      BY <2>4, <2>5
  <1> HIDE DEF Good
  <1>6. Good(n)
    <2> DEFINE T == {i \in 0 .. n : ~ Good(i)}
    <2> SUFFICES ASSUME T # {} PROVE FALSE
      BY <1>1
    <2>1. T \subseteq Nat
      OBVIOUS
    <2>2. PICK i \in T : \A y \in T : ~ (y < i)
      BY <2>1, LeastOne
    <2>3. i # 0
      BY <1>4, <2>2
    <2>4. i \in 1 .. n /\ i - 1 \in 0 .. n /\ i - 1 < i
      BY <1>1, <2>2, <2>3
    <2>5. Good(i - 1)
      BY <2>2, <2>4
    <2>6. QED
      BY <1>5, <2>2, <2>4, <2>5
  <1>7. Range(list) = {list[j] : j \in 1 .. n}
    BY <1>1 DEF Range
  <1>8. QED
    BY <1>2, <1>6, <1>7 DEF Good
-----------------------------------------------------------------------------
(* The invariant.                                                          *)

(* The numbers of the events.                                              *)
LEMMA Numbers ==
    /\ Finished \in Nat /\ Finished > 1 /\ NoRun \notin Runs /\ Waiting = Finished + 1
    /\ Events \subseteq Nat /\ Finished \in Events /\ Waiting \in Events
    /\ \A n \in Events : n \in 1 .. Finished \/ n = Waiting
    /\ \A n \in 1 .. Finished : n \in Events /\ n # Waiting
    /\ \A n \in 0 .. Waiting : n \in Nat /\ (n > 0 => n \in Events)
  <1>1. Finished \in Nat /\ Finished > 1 /\ NoRun \notin Runs /\ Waiting = Finished + 1
    BY EventAssumption DEF Waiting
  <1>2. QED
    BY <1>1 DEF Events

(* It holds at the start.                                                  *)
LEMMA InitHolds == Init => IInv
  <1> SUFFICES ASSUME Init PROVE IInv
    OBVIOUS
  <1> USE DEF Init
  <1>1. TypeOK
    <2>1. NoEvents \in [Runs -> Seq(Events)] /\ <<>> \in Seq(Clients)
      BY NoRows DEF NoEvents
    <2>2. 0 \in 0 .. Waiting
      BY Numbers
    <2>3. QED
      BY <2>1, <2>2 DEF TypeOK
  <1>2. SubsInv
    BY NoRows DEF SubsInv
  <1>3. BusInv
    BY NoRows DEF BusInv
  <1>4. StageInv
    BY Numbers DEF StageInv
  <1>5. FileInv /\ OwnFile
    BY NoRows DEF FileInv, OwnFile, NoEvents
  <1>6. InboxInv
    BY NoRows DEF InboxInv, NoEvents
  <1>7. RaceInv
    BY DEF RaceInv, Listens
  <1>8. QED
    BY <1>1, <1>2, <1>3, <1>4, <1>5, <1>6, <1>7 DEF IInv

(* The three steps that hand an event to the bus.                          *)
Handed(r, n) ==
    /\ Take(r, n)
    /\ n > begun[r]
    /\ open \subseteq open' /\ open' \subseteq Runs

(* Each of the three is such a step.                                       *)
LEMMA Hands ==
    ASSUME IInv, NEW r \in Runs, Publish(r) \/ Finish(r) \/ TellSession(r)
    PROVE  \E n \in Events : Handed(r, n)
  <1>1. begun[r] \in Nat /\ open \subseteq Runs
    BY Numbers DEF IInv, TypeOK
  <1>2. CASE Publish(r)
    <2>1. begun[r] + 1 \in Events /\ begun[r] + 1 > begun[r]
      BY <1>1, <1>2, Numbers DEF Publish, Events
    <2>2. QED
      BY <1>1, <1>2, <2>1 DEF Publish, Handed
  <1>3. CASE Finish(r)
    <2>1. Finished > begun[r]
      BY <1>1, <1>3, Numbers DEF Finish
    <2>2. QED
      BY <1>1, <1>3, <2>1, Numbers DEF Finish, Handed
  <1>4. CASE TellSession(r)
    <2>1. Waiting > begun[r]
      BY <1>1, <1>4, Numbers DEF TellSession
    <2>2. QED
      BY <1>1, <1>4, <2>1, Numbers DEF TellSession, Handed
  <1>5. QED
    BY <1>2, <1>3, <1>4

(* The steps of Next.                                                      *)
LEMMA Steps ==
    ASSUME IInv, [Next]_vars
    PROVE  \/ UNCHANGED vars
           \/ \E r \in Runs : \E n \in Events : Handed(r, n)
           \/ \E r \in Runs : Push(r) \/ Deliver(r) \/ CancelRun(r)
           \/ \E k \in Clients : Subscribe(k) \/ Subscribed(k) \/ Disconnect(k)
  BY Hands DEF Next

(* Types are kept; an event on the bus has a number.                       *)
LEMMA StepTypes ==
    ASSUME IInv, [Next]_vars
    PROVE  TypeOK'
  <1> USE DEF busVars, diskVars, clientVars, histVars
  <1>1. TypeOK
    BY DEF IInv
  <1>2. CASE UNCHANGED vars
    BY <1>1, <1>2 DEF TypeOK, vars
  <1>3. ASSUME NEW r \in Runs, NEW n \in Events, Handed(r, n)
        PROVE  TypeOK'
    <2>1. n \in 0 .. Waiting
      BY DEF Events
    <2>2. Keep(subs, {k \in Clients : Matches(k, r, n)}) \in Seq(Clients)
      BY <1>1, Kept DEF TypeOK
    <2>3. QED
      BY <1>1, <1>3, <2>1, <2>2 DEF Handed, Take, TypeOK
  <1>4. ASSUME NEW r \in Runs, Push(r)
        PROVE  TypeOK'
    <2> DEFINE k == Head(todo[r])
    <2>1. r \in inFlight /\ begun[r] \in Events
      BY <1>1, <1>4, Numbers DEF Push, IInv, BusInv, TypeOK
    <2>2. k \in Clients /\ Tail(todo[r]) \in Seq(Clients)
      BY <1>1, <1>4, OneLess DEF Push, TypeOK
    <2>3. Append(inbox[k][r], begun[r]) \in Seq(Events)
      BY <1>1, <2>1, <2>2, OneMore DEF TypeOK
    <2>4. /\ todo' = [todo EXCEPT ![r] = Tail(todo[r])]
          /\ inbox' = inbox \/ inbox' = [inbox EXCEPT ![k] = [inbox[k] EXCEPT ![r] = Append(inbox[k][r], begun[r])]]
          /\ dead' = dead \/ dead' = [dead EXCEPT ![r] = dead[r] \cup {k}]
          /\ UNCHANGED <<begun, inFlight, cut, diskVars, subs, client, wants, histVars>>
      BY <1>4 DEF Push
    <2> HIDE DEF k
    <2>5. todo' \in [Runs -> Seq(Clients)] /\ dead' \in [Runs -> SUBSET Clients]
      <3>1. todo' \in [Runs -> Seq(Clients)]
        BY <1>1, <2>2, <2>4 DEF TypeOK
      <3>2. dead[r] \cup {k} \in SUBSET Clients /\ dead \in [Runs -> SUBSET Clients]
        BY <1>1, <2>2 DEF TypeOK
      <3>3. [dead EXCEPT ![r] = dead[r] \cup {k}] \in [Runs -> SUBSET Clients]
        BY <3>2
      <3>4. QED
        BY <2>4, <3>1, <3>2, <3>3
    <2>6. inbox' \in [Clients -> [Runs -> Seq(Events)]]
      <3>1. inbox[k] \in [Runs -> Seq(Events)] /\ inbox \in [Clients -> [Runs -> Seq(Events)]]
        BY <1>1, <2>2 DEF TypeOK
      <3>2. [inbox[k] EXCEPT ![r] = Append(inbox[k][r], begun[r])] \in [Runs -> Seq(Events)]
        BY <2>3, <3>1
      <3> DEFINE row == [inbox[k] EXCEPT ![r] = Append(inbox[k][r], begun[r])]
      <3> HIDE DEF row
      <3>3. row \in [Runs -> Seq(Events)] /\ (inbox' = inbox \/ inbox' = [inbox EXCEPT ![k] = row])
        BY <2>4, <3>2 DEF row
      <3>4. QED
        BY <2>2, <3>1, <3>3
    <2>7. QED
      BY <1>1, <2>4, <2>5, <2>6 DEF TypeOK
  <1>5. ASSUME NEW r \in Runs, Deliver(r)
        PROVE  TypeOK'
    <2>1. begun[r] \in Events
      BY <1>1, <1>5, Numbers DEF Deliver, IInv, BusInv, TypeOK
    <2>2. Keep(subs, Clients \ dead[r]) \in Seq(Clients)
      BY <1>1, Kept DEF TypeOK
    <2>3. \A x \in Runs : [file[x] EXCEPT ![r] = Append(@, begun[r])] \in [Runs -> Seq(Events)]
      <3>1. \A x \in Runs : Append(file[x][r], begun[r]) \in Seq(Events)
        BY <1>1, <2>1, OneMore DEF TypeOK
      <3>2. QED
        BY <1>1, <3>1 DEF TypeOK
    <2>4. file' \in [Runs -> [Runs -> Seq(Events)]]
      BY <1>1, <1>5, <2>3 DEF Deliver, TypeOK
    <2>5. QED
      BY <1>1, <1>5, <2>1, <2>2, <2>4 DEF Deliver, TypeOK
  <1>6. ASSUME NEW r \in Runs, CancelRun(r)
        PROVE  TypeOK'
    BY <1>1, <1>6, NoRows DEF CancelRun, TypeOK
  <1>7. ASSUME NEW k \in Clients, Subscribe(k) \/ Subscribed(k) \/ Disconnect(k)
        PROVE  TypeOK'
    <2>1. /\ Append(subs, k) \in Seq(Clients)
          /\ Keep(subs, Clients \ {k}) \in Seq(Clients)
          /\ NoEvents \in [Runs -> Seq(Events)]
      BY <1>1, OneMore, Kept, NoRows DEF TypeOK, NoEvents
    <2>2. Replay(wants[k].replay) \in [Runs -> Seq(Events)]
      <3>1. wants[k].replay \in Runs \cup {NoRun}
        BY <1>1 DEF TypeOK, Requests
      <3>2. QED
        BY <1>1, <2>1, <3>1 DEF Replay, TypeOK
    <2>3. \A x \in inFlight : <<x, begun[x]>> \in Runs \X Events
      BY <1>1, Numbers DEF IInv, BusInv, TypeOK
    <2>4. CASE Subscribe(k)
      <3>1. inbox' \in [Clients -> [Runs -> Seq(Events)]]
        BY <1>1, <2>2, <2>4 DEF Subscribe, TypeOK
      <3>2. racing' \in [Clients -> SUBSET (Runs \X Events)]
        <4>1. {<<x, begun[x]>> : x \in inFlight} \in SUBSET (Runs \X Events)
          BY <2>3
        <4>2. QED
          BY <1>1, <2>4, <4>1 DEF Subscribe, TypeOK
      <3>3. client' \in [Clients -> {"away", "leaving", "gone"} \cup Listens] /\ subs' \in Seq(Clients)
        BY <1>1, <2>1, <2>4 DEF Subscribe, TypeOK, Listens
      <3>4. QED
        BY <1>1, <2>4, <3>1, <3>2, <3>3 DEF Subscribe, TypeOK
    <2>5. CASE Subscribed(k)
      BY <1>1, <2>1, <2>5 DEF Subscribed, TypeOK, Listens
    <2>6. CASE Disconnect(k)
      BY <1>1, <2>1, <2>6 DEF Disconnect, TypeOK, Listens
    <2>7. QED
      BY <1>7, <2>4, <2>5, <2>6
  <1>8. QED
    BY <1>2, <1>3, <1>4, <1>5, <1>6, <1>7, Steps

(* What a push does, subscriber by subscriber and run by run.              *)
LEMMA Pushes ==
    ASSUME IInv, NEW r \in Runs, Push(r)
    PROVE  \E k \in Clients :
              /\ k \in Range(todo[r]) /\ r \in inFlight /\ begun[r] \in Events
              /\ todo'[r] \in Seq(Clients) /\ NoTwice(todo'[r])
              /\ Range(todo'[r]) = Range(todo[r]) \ {k}
              /\ \A x \in Runs \ {r} : todo'[x] = todo[x]
              /\ \/ /\ client[k] = "subscribed"
                    /\ inbox'[k][r] = Append(inbox[k][r], begun[r])
                    /\ dead' = dead
                 \/ /\ client[k] = "gone"
                    /\ inbox'[k][r] = inbox[k][r]
                    /\ dead' = [dead EXCEPT ![r] = dead[r] \cup {k}]
              /\ \A j \in Clients, x \in Runs : j # k \/ x # r => inbox'[j][x] = inbox[j][x]
  <1> DEFINE k == Head(todo[r])
             row == Append(inbox[k][r], begun[r])
  <1>1. TypeOK /\ BusInv
    BY DEF IInv
  <1>2. r \in inFlight /\ begun[r] \in Events
    BY <1>1, Numbers DEF Push, BusInv, TypeOK
  <1>3. /\ k \in Clients /\ Tail(todo[r]) \in Seq(Clients)
        /\ Range(todo[r]) = Range(Tail(todo[r])) \cup {k}
        /\ NoTwice(Tail(todo[r])) /\ k \notin Range(Tail(todo[r]))
    BY <1>1, OneLess DEF Push, TypeOK, BusInv
  <1>4. client[k] \in {"subscribed", "gone"}
    BY <1>1, <1>3 DEF BusInv
  <1>5. todo' = [todo EXCEPT ![r] = Tail(todo[r])]
    BY DEF Push
  <1>6. \/ /\ client[k] = "subscribed" /\ dead' = dead
           /\ inbox' = [inbox EXCEPT ![k] = [inbox[k] EXCEPT ![r] = row]]
        \/ /\ client[k] = "gone" /\ inbox' = inbox
           /\ dead' = [dead EXCEPT ![r] = dead[r] \cup {k}]
    BY <1>4 DEF Push, Listens
  <1> HIDE DEF k, row
  <1>7. /\ todo'[r] = Tail(todo[r])
        /\ \A x \in Runs \ {r} : todo'[x] = todo[x]
    BY <1>1, <1>5 DEF TypeOK
  <1>8. ASSUME inbox' = [inbox EXCEPT ![k] = [inbox[k] EXCEPT ![r] = row]]
        PROVE  /\ inbox'[k][r] = row
               /\ \A j \in Clients, x \in Runs : j # k \/ x # r => inbox'[j][x] = inbox[j][x]
    <2>1. inbox \in [Clients -> [Runs -> Seq(Events)]]
      BY <1>1 DEF TypeOK
    <2>2. inbox'[k] = [inbox[k] EXCEPT ![r] = row] /\ inbox[k] \in [Runs -> Seq(Events)]
      BY <1>3, <1>8, <2>1
    <2>3. \A j \in Clients \ {k} : inbox'[j] = inbox[j]
      BY <1>8, <2>1
    <2>4. QED
      BY <2>2, <2>3
  <1>9. QED
    BY <1>2, <1>3, <1>6, <1>7, <1>8 DEF row

(* The list of subscriptions: who joins was not in it.                     *)
LEMMA StepSubs ==
    ASSUME IInv, [Next]_vars
    PROVE  SubsInv'
  <1> USE DEF busVars, diskVars, clientVars, histVars
  <1>1. TypeOK /\ SubsInv
    BY DEF IInv
  <1>2. CASE UNCHANGED vars
    BY <1>1, <1>2 DEF SubsInv, vars
  <1>3. ASSUME NEW r \in Runs, NEW n \in Events, Handed(r, n)
        PROVE  SubsInv'
    BY <1>1, <1>3 DEF Handed, Take, SubsInv
  <1>4. ASSUME NEW r \in Runs, Push(r)
        PROVE  SubsInv'
    <2>1. UNCHANGED <<subs, client>>
      BY <1>4 DEF Push
    <2>2. \/ dead' = dead
          \/ \E k \in Clients : client[k] = "gone" /\ dead' = [dead EXCEPT ![r] = dead[r] \cup {k}]
      BY <1>4, Pushes
    <2>3. \A x \in Runs : dead'[x] \subseteq {k \in Clients : client[k] = "gone"}
      <3>1. \A x \in Runs : dead[x] \subseteq {k \in Clients : client[k] = "gone"}
        BY <1>1 DEF SubsInv
      <3>2. dead \in [Runs -> SUBSET Clients]
        BY <1>1 DEF TypeOK
      <3>3. ASSUME NEW k \in Clients, client[k] = "gone", dead' = [dead EXCEPT ![r] = dead[r] \cup {k}]
            PROVE  \A x \in Runs : dead'[x] \subseteq {y \in Clients : client[y] = "gone"}
        BY <3>1, <3>2, <3>3
      <3>4. QED
        BY <2>2, <3>1, <3>3
    <2>4. QED
      BY <1>1, <2>1, <2>3 DEF SubsInv
  <1>5. ASSUME NEW r \in Runs, Deliver(r)
        PROVE  SubsInv'
    <2>1. /\ NoTwice(subs') /\ Range(subs') = Range(subs) \cap (Clients \ dead[r])
          /\ client' = client
      BY <1>1, <1>5, Kept DEF Deliver, TypeOK, SubsInv
    <2>2. \A x \in Runs : dead'[x] \subseteq dead[x]
      BY <1>1, <1>5 DEF Deliver, TypeOK
    <2>3. QED
      BY <1>1, <2>1, <2>2 DEF SubsInv
  <1>6. ASSUME NEW r \in Runs, CancelRun(r)
        PROVE  SubsInv'
    BY <1>1, <1>6 DEF CancelRun, SubsInv, TypeOK
  <1>7. ASSUME NEW k \in Clients, Subscribe(k)
        PROVE  SubsInv'
    <2>1. client[k] = "away" /\ dead' = dead /\ k \notin Range(subs)
      BY <1>1, <1>7 DEF Subscribe, SubsInv
    <2>2. \A x \in Clients \ {k} : client'[x] = client[x]
      BY <1>1, <1>7 DEF Subscribe, TypeOK
    <2>3. \A x \in Runs : dead'[x] \subseteq {y \in Clients : client'[y] = "gone"}
      BY <1>1, <2>1, <2>2 DEF SubsInv
    <2>4. CASE client'[k] = "subscribed" /\ subs' = Append(subs, k)
      <3>1. NoTwice(Append(subs, k)) /\ Range(subs') = Range(subs) \cup {k}
        BY <1>1, <2>1, <2>4, Joins DEF SubsInv, TypeOK
      <3>2. QED
        BY <1>1, <2>2, <2>3, <2>4, <3>1 DEF SubsInv
    <2>5. CASE client'[k] = "replaying" /\ subs' = subs
      BY <1>1, <2>1, <2>2, <2>3, <2>5 DEF SubsInv
    <2>6. QED
      BY <1>1, <1>7, <2>4, <2>5 DEF Subscribe, TypeOK
  <1>8. ASSUME NEW k \in Clients, Subscribed(k)
        PROVE  SubsInv'
    <2>1. client[k] \in {"replaying", "leaving"} /\ dead' = dead /\ k \notin Range(subs)
      BY <1>1, <1>8 DEF Subscribed, SubsInv
    <2>2. \A x \in Clients \ {k} : client'[x] = client[x]
      BY <1>1, <1>8 DEF Subscribed, TypeOK
    <2>3. \A x \in Runs : dead'[x] \subseteq {y \in Clients : client'[y] = "gone"}
      BY <1>1, <2>1, <2>2 DEF SubsInv
    <2>4. client'[k] \in {"subscribed", "gone"} /\ subs' = Append(subs, k)
      BY <1>1, <1>8 DEF Subscribed, TypeOK
    <2>5. NoTwice(Append(subs, k)) /\ Range(subs') = Range(subs) \cup {k}
      BY <1>1, <2>1, <2>4, Joins DEF SubsInv, TypeOK
    <2>6. QED
      BY <1>1, <2>2, <2>3, <2>4, <2>5 DEF SubsInv
  <1>9. ASSUME NEW k \in Clients, Disconnect(k)
        PROVE  SubsInv'
    <2>1. client[k] # "gone" /\ dead' = dead /\ client'[k] \in {"leaving", "gone"}
      BY <1>1, <1>9 DEF Disconnect, TypeOK, Listens
    <2>2. \A x \in Clients \ {k} : client'[x] = client[x]
      BY <1>1, <1>9 DEF Disconnect, TypeOK
    <2>3. NoTwice(subs') /\ Range(subs') = Range(subs) \cap (Clients \ {k})
      BY <1>1, <1>9, Kept DEF Disconnect, TypeOK, SubsInv
    <2>4. QED
      BY <1>1, <2>1, <2>2, <2>3 DEF SubsInv
  <1>10. QED
    BY <1>2, <1>3, <1>4, <1>5, <1>6, <1>7, <1>8, <1>9, Steps

(* The events on the bus are new to those who wait for them.               *)
LEMMA StepBus ==
    ASSUME IInv, TypeOK', [Next]_vars
    PROVE  BusInv'
  <1> USE DEF busVars, diskVars, clientVars, histVars
  <1>1. TypeOK /\ SubsInv /\ BusInv /\ InboxInv /\ FileInv
    BY DEF IInv
  <1>2. CASE UNCHANGED vars
    BY <1>1, <1>2 DEF BusInv, vars
  <1>3. ASSUME NEW r \in Runs, NEW n \in Events, Handed(r, n)
        PROVE  BusInv'
    <2>1. /\ todo'[r] = Keep(subs, {k \in Clients : Matches(k, r, n)})
          /\ begun'[r] = n /\ n > begun[r] /\ begun[r] \in Nat /\ n \in Nat /\ n > 0
          /\ inFlight' = inFlight \cup {r}
          /\ \A x \in Runs \ {r} : todo'[x] = todo[x] /\ begun'[x] = begun[x]
          /\ UNCHANGED <<client, inbox, done>>
      BY <1>1, <1>3, Numbers DEF Handed, Take, TypeOK
    <2>2. /\ NoTwice(todo'[r])
          /\ Range(todo'[r]) \subseteq Range(subs)
      BY <1>1, <2>1, Kept DEF SubsInv, TypeOK
    <2>3. Range(todo'[r]) \subseteq {k \in Clients : client'[k] \in {"subscribed", "gone"}}
      BY <1>1, <2>1, <2>2 DEF SubsInv
    <2>4. /\ \A m \in done'[r] : m \in Nat /\ m <= n
          /\ n \notin done'[r]
      <3>1. \A m \in done'[r] : m \in Nat /\ m <= begun[r]
        BY <1>1, <2>1, Numbers DEF BusInv, TypeOK
      <3>2. QED
        BY <2>1, <3>1
    <2>5. \A k \in Clients : n \notin Range(inbox'[k][r])
      <3>1. \A k \in Clients : \A m \in Range(inbox[k][r]) : m <= begun[r]
        BY <1>1 DEF InboxInv
      <3>2. ~ (n <= begun[r])
        BY <2>1
      <3>3. QED
        BY <2>1, <3>1, <3>2
    <2>6. QED
      BY <1>1, <2>1, <2>2, <2>3, <2>4, <2>5 DEF BusInv
  <1>4. ASSUME NEW r \in Runs, Push(r)
        PROVE  BusInv'
    <2>1. UNCHANGED <<begun, inFlight, client, done>>
      BY <1>4 DEF Push
    <2>2. PICK k \in Clients :
              /\ k \in Range(todo[r]) /\ r \in inFlight
              /\ NoTwice(todo'[r])
              /\ Range(todo'[r]) = Range(todo[r]) \ {k}
              /\ \A x \in Runs \ {r} : todo'[x] = todo[x]
              /\ \A j \in Clients, x \in Runs : j # k \/ x # r => inbox'[j][x] = inbox[j][x]
      BY <1>4, Pushes
    <2>3. ASSUME NEW x \in Runs, NEW j \in Range(todo'[x]) PROVE begun'[x] \notin Range(inbox'[j][x])
      <3>1. j \in Range(todo[x]) /\ j \in Clients /\ (j # k \/ x # r)
        BY <1>1, <2>2, <2>3 DEF BusInv
      <3>2. QED
        BY <1>1, <2>1, <2>2, <3>1 DEF BusInv
    <2>4. \A x \in Runs : NoTwice(todo'[x]) /\ Range(todo'[x]) \subseteq Range(todo[x])
      BY <1>1, <2>2 DEF BusInv
    <2>5. QED
      BY <1>1, <2>1, <2>2, <2>3, <2>4 DEF BusInv
  <1>5. ASSUME NEW r \in Runs, Deliver(r)
        PROVE  BusInv'
    <2>1. /\ r \in inFlight /\ todo[r] = <<>> /\ inFlight' = inFlight \ {r}
          /\ done'[r] = done[r] \cup {begun[r]}
          /\ \A x \in Runs \ {r} : done'[x] = done[x]
          /\ UNCHANGED <<begun, todo, client, inbox>>
      BY <1>1, <1>5 DEF Deliver, TypeOK
    <2>2. begun[r] <= begun[r]
      BY <1>1, Numbers DEF TypeOK
    <2>3. QED
      BY <1>1, <2>1, <2>2 DEF BusInv
  <1>6. ASSUME NEW r \in Runs, CancelRun(r)
        PROVE  BusInv'
    <2>1. /\ inFlight' = inFlight \ {r} /\ todo'[r] = <<>>
          /\ \A x \in Runs \ {r} : todo'[x] = todo[x]
          /\ UNCHANGED <<begun, done, client, inbox>>
      BY <1>1, <1>6 DEF CancelRun, TypeOK
    <2>2. QED
      BY <1>1, <2>1, NoRows DEF BusInv
  <1>7. ASSUME NEW k \in Clients, Subscribe(k) \/ Subscribed(k)
        PROVE  BusInv'
    <2>1. client[k] \notin {"subscribed", "gone"}
      BY <1>7 DEF Subscribe, Subscribed
    <2>2. /\ UNCHANGED <<begun, todo, inFlight, done>>
          /\ \A x \in Clients \ {k} : client'[x] = client[x] /\ inbox'[x] = inbox[x]
      BY <1>1, <1>7 DEF Subscribe, Subscribed, TypeOK
    <2>3. \A r \in Runs : k \notin Range(todo[r])
      BY <1>1, <2>1 DEF BusInv
    <2>4. QED
      BY <1>1, <2>2, <2>3 DEF BusInv
  <1>8. ASSUME NEW k \in Clients, Disconnect(k)
        PROVE  BusInv'
    <2>1. /\ UNCHANGED <<begun, todo, inFlight, done>>
          /\ \A x \in Clients \ {k} : client'[x] = client[x] /\ inbox'[x] = inbox[x]
          /\ client[k] = "subscribed" => client'[k] = "gone"
          /\ client[k] \in Listens
          /\ \A r \in Runs : inbox'[k][r] = <<>>
      BY <1>1, <1>8 DEF Disconnect, TypeOK, NoEvents
    <2>2. ASSUME NEW r \in Runs, k \in Range(todo[r])
          PROVE  client'[k] = "gone"
      BY <1>1, <2>1, <2>2 DEF BusInv, Listens
    <2>3. QED
      BY <1>1, <2>1, <2>2, NoRows DEF BusInv
  <1>9. QED
    BY <1>2, <1>3, <1>4, <1>5, <1>6, <1>7, <1>8, Steps

(* A run goes from its start to run.finished and to the session's event.   *)
LEMMA StepStage ==
    ASSUME IInv, TypeOK', [Next]_vars
    PROVE  StageInv'
  <1> USE DEF busVars, diskVars, clientVars, histVars
  <1>1. TypeOK /\ BusInv /\ StageInv
    BY DEF IInv
  <1>2. CASE UNCHANGED vars
    BY <1>1, <1>2 DEF StageInv, vars
  <1>3. \A r \in Runs : begun[r] \in 0 .. Waiting /\ begun[r] \in Nat
    BY <1>1, Numbers DEF TypeOK
  <1>4. ASSUME NEW r \in Runs, NEW n \in 0 .. Waiting, Take(r, n)
        PROVE  /\ begun'[r] = n /\ r \notin inFlight /\ inFlight' = inFlight \cup {r}
               /\ \A x \in Runs \ {r} : begun'[x] = begun[x]
               /\ UNCHANGED <<cut, persisted, done>>
    BY <1>1, <1>4 DEF Take, TypeOK
  <1>5. ASSUME NEW r \in Runs, Publish(r)
        PROVE  StageInv'
    <2>1. begun[r] + 1 \in 1 .. Finished - 1 /\ begun[r] + 1 \in 0 .. Waiting
      BY <1>3, <1>5, Numbers DEF Publish
    <2>2. r \in open' /\ open' \subseteq open \cup {r} /\ open \subseteq open'
      BY <1>1, <1>3, <1>5, <2>1, Numbers DEF Publish, StageInv
    <2>3. /\ begun'[r] = begun[r] + 1 /\ r \notin persisted
          /\ \A x \in Runs \ {r} : begun'[x] = begun[x] /\ (x \in inFlight' <=> x \in inFlight)
          /\ UNCHANGED <<cut, persisted, done>>
      BY <1>1, <1>3, <1>4, <1>5, <2>1, Numbers DEF Publish, StageInv
    <2>4. begun'[r] \in 1 .. Finished /\ begun'[r] # 0 /\ begun'[r] # Finished /\ begun'[r] # Waiting
          /\ ~ (begun'[r] >= Finished)
      BY <2>1, <2>3, Numbers
    <2>5. QED
      BY <1>1, <2>2, <2>3, <2>4 DEF StageInv
  <1>6. ASSUME NEW r \in Runs, Finish(r)
        PROVE  StageInv'
    <2>1. /\ begun'[r] = Finished /\ r \in open /\ r \in inFlight' /\ open' = open
          /\ \A x \in Runs \ {r} : begun'[x] = begun[x] /\ (x \in inFlight' <=> x \in inFlight)
          /\ UNCHANGED <<cut, persisted, done>>
      BY <1>4, <1>6, Numbers DEF Finish
    <2>2. r \notin persisted
      BY <1>1, <2>1 DEF StageInv
    <2>3. Finished \in 1 .. Finished /\ Finished # 0 /\ Finished # Waiting /\ Finished \notin 1 .. Finished - 1
      BY Numbers
    <2>4. QED
      BY <1>1, <2>1, <2>2, <2>3 DEF StageInv
  <1>7. ASSUME NEW r \in Runs, TellSession(r)
        PROVE  StageInv'
    <2>1. /\ begun'[r] = Waiting /\ begun[r] = Finished /\ r \in persisted \ cut /\ r \in inFlight' /\ open' = open
          /\ \A x \in Runs \ {r} : begun'[x] = begun[x] /\ (x \in inFlight' <=> x \in inFlight)
          /\ UNCHANGED <<cut, persisted, done>>
      BY <1>4, <1>7, Numbers DEF TellSession
    <2>2. r \notin open /\ Finished >= Finished
      BY <1>1, <2>1, Numbers DEF StageInv
    <2>3. Finished \in done[r]
      BY <1>1, <2>1, <2>2 DEF StageInv
    <2>4. Waiting # 0 /\ Waiting # Finished /\ Waiting >= Finished /\ Waiting \notin 1 .. Finished - 1
      BY Numbers
    <2>5. QED
      BY <1>1, <2>1, <2>2, <2>3, <2>4 DEF StageInv
  <1>8. ASSUME NEW r \in Runs, Push(r)
        PROVE  StageInv'
    BY <1>1, <1>8 DEF Push, StageInv
  <1>9. ASSUME NEW r \in Runs, Deliver(r)
        PROVE  StageInv'
    <2>1. /\ r \in inFlight /\ inFlight' = inFlight \ {r} /\ begun' = begun
          /\ done'[r] = done[r] \cup {begun[r]}
          /\ \A x \in Runs \ {r} : done'[x] = done[x]
      BY <1>1, <1>9 DEF Deliver, TypeOK
    <2>2. CASE begun[r] = Finished
      <3>1. /\ open' = open \ {r} /\ persisted \subseteq persisted' /\ cut \subseteq cut'
            /\ persisted' \subseteq persisted \cup {r} /\ cut' \subseteq cut \cup {r}
        BY <1>9, <2>2 DEF Deliver
      <3>2. Finished # 0 /\ Finished # Waiting /\ Finished \notin 1 .. Finished - 1 /\ Finished >= Finished
        BY Numbers
      <3>3. QED
        BY <1>1, <2>1, <2>2, <3>1, <3>2 DEF StageInv
    <2>3. CASE begun[r] # Finished
      <3>1. UNCHANGED <<open, persisted, cut>>
        BY <1>9, <2>3 DEF Deliver
      <3>2. begun[r] \in 1 .. Finished - 1 => r \in open
        BY <1>1, <2>1 DEF StageInv
      <3>3. QED
        BY <1>1, <2>1, <2>3, <3>1, <3>2 DEF StageInv
    <2>4. QED
      BY <2>2, <2>3
  <1>10. ASSUME NEW r \in Runs, CancelRun(r)
        PROVE  StageInv'
    <2>1. /\ cut' = cut \cup {r} /\ inFlight' = inFlight \ {r}
          /\ open' = IF r \in inFlight /\ begun[r] \in {1, Finished} THEN open \ {r} ELSE open
          /\ UNCHANGED <<begun, persisted, done>>
      BY <1>10 DEF CancelRun
    <2>2. CASE r \in open \ cut /\ begun[r] < Finished
      <3>1. begun[r] \in 1 .. Finished - 1
        <4>1. begun[r] \in 1 .. Finished
          BY <1>1, <2>2 DEF StageInv
        <4>2. QED
          BY <2>2, <4>1, Numbers
      <3>2. r \in inFlight /\ begun[r] = 1 => done[r] = {}
        <4> SUFFICES ASSUME r \in inFlight, begun[r] = 1, NEW n \in done[r] PROVE FALSE
          OBVIOUS
        <4>1. n <= 1 /\ n # 1 /\ n \in 1 .. Waiting
          BY <1>1 DEF BusInv, TypeOK, Events
        <4>2. QED
          BY <4>1, Numbers
      <3>3. begun[r] # 0 /\ begun[r] # Finished /\ begun[r] # Waiting /\ ~ (begun[r] >= Finished)
        BY <3>1, Numbers
      <3>4. QED
        BY <1>1, <2>1, <2>2, <3>1, <3>2, <3>3 DEF StageInv
    <2>3. CASE r \in inFlight /\ begun[r] >= Finished
      <3>1. begun[r] \in {Finished, Waiting}
        <4>1. begun[r] \in 0 .. Waiting
          BY <1>1 DEF TypeOK
        <4>2. QED
          BY <2>3, <4>1, Numbers
      <3>2. begun[r] # 0 /\ begun[r] # 1 /\ begun[r] \notin 1 .. Finished - 1 /\ Finished # Waiting
        BY <3>1, Numbers
      <3>3. CASE begun[r] = Finished
        BY <1>1, <2>1, <2>3, <3>2, <3>3 DEF StageInv
      <3>4. CASE begun[r] = Waiting
        <4>1. r \notin open
          BY <1>1, <3>4 DEF StageInv
        <4>2. open' = open
          BY <2>1, <3>2, <3>4
        <4>3. QED
          BY <1>1, <2>1, <2>3, <3>2, <3>4, <4>1, <4>2 DEF StageInv
      <3>5. QED
        BY <3>1, <3>3, <3>4
    <2>4. QED
      BY <1>10, <2>2, <2>3 DEF CancelRun
  <1>11. ASSUME NEW k \in Clients, Subscribe(k) \/ Subscribed(k) \/ Disconnect(k)
        PROVE  StageInv'
    BY <1>1, <1>11 DEF Subscribe, Subscribed, Disconnect, StageInv
  <1>12. QED
    BY <1>2, <1>5, <1>6, <1>7, <1>8, <1>9, <1>10, <1>11 DEF Next

(* What a delivery does to the files.                                      *)
LEMMA Delivers ==
    ASSUME IInv, NEW r \in Runs, Deliver(r)
    PROVE  /\ begun[r] \in Events /\ begun[r] \notin done[r]
           /\ done'[r] = done[r] \cup {begun[r]}
           /\ \A y \in Runs \ {r} : done'[y] = done[y]
           /\ \A x, y \in Runs : y # r => file'[x][y] = file[x][y]
           /\ \A x \in open : /\ file'[x][r] = Append(file[x][r], begun[r])
                              /\ Range(file'[x][r]) = Range(file[x][r]) \cup {begun[r]}
           /\ \A x \in Runs \ open : file'[x][r] = file[x][r]
           /\ r \in open <=> begun[r] # Waiting
  <1>1. TypeOK /\ BusInv /\ StageInv
    BY DEF IInv
  <1>2. r \in inFlight /\ begun[r] \in Events /\ begun[r] \notin done[r]
    BY <1>1, Numbers DEF Deliver, BusInv, TypeOK
  <1>3. /\ done'[r] = done[r] \cup {begun[r]}
        /\ \A y \in Runs \ {r} : done'[y] = done[y]
    BY <1>1 DEF Deliver, TypeOK
  <1>4. ASSUME NEW x \in Runs
        PROVE  file'[x] = IF x \in open THEN [file[x] EXCEPT ![r] = Append(file[x][r], begun[r])]
                          ELSE file[x]
    BY DEF Deliver, Heard
  <1>5. ASSUME NEW x \in Runs
        PROVE  /\ \A y \in Runs \ {r} : file'[x][y] = file[x][y]
               /\ x \in open => file'[x][r] = Append(file[x][r], begun[r])
               /\ x \notin open => file'[x][r] = file[x][r]
    <2>1. file[x] \in [Runs -> Seq(Events)]
      BY <1>1 DEF TypeOK
    <2>2. QED
      BY <1>4, <2>1
  <1>6. \A x \in Runs : Range(Append(file[x][r], begun[r])) = Range(file[x][r]) \cup {begun[r]}
    BY <1>1, <1>2, OneMore DEF TypeOK
  <1>7. r \in open <=> begun[r] # Waiting
    <2>1. begun[r] = Waiting => r \notin open
      BY <1>1 DEF StageInv
    <2>2. ASSUME begun[r] # Waiting PROVE r \in open
      <3>1. begun[r] \in 1 .. Finished - 1 \/ begun[r] = Finished
        <4>1. begun[r] \in 1 .. Finished /\ Finished \in Nat
          BY <1>2, <2>2, Numbers
        <4>2. QED
          BY <4>1
      <3>2. QED
        BY <1>1, <1>2, <3>1 DEF StageInv
    <2>3. QED
      BY <2>1, <2>2
  <1>8. open \subseteq Runs
    BY <1>1 DEF TypeOK
  <1>9. QED
    BY <1>2, <1>3, <1>5, <1>6, <1>7, <1>8

(* No other step writes a file.                                            *)
LEMMA FilesKept ==
    ASSUME IInv, [Next]_vars, ~ \E r \in Runs : Deliver(r)
    PROVE  UNCHANGED <<file, done>>
  <1> USE DEF busVars, diskVars, clientVars, histVars
  <1>1. CASE UNCHANGED vars
    BY <1>1 DEF vars
  <1>2. ASSUME NEW r \in Runs, NEW n \in Events, Handed(r, n) PROVE UNCHANGED <<file, done>>
    BY <1>2 DEF Handed, Take
  <1>3. ASSUME NEW r \in Runs, Push(r) \/ CancelRun(r) PROVE UNCHANGED <<file, done>>
    BY <1>3 DEF Push, CancelRun
  <1>4. ASSUME NEW k \in Clients, Subscribe(k) \/ Subscribed(k) \/ Disconnect(k)
        PROVE  UNCHANGED <<file, done>>
    BY <1>4 DEF Subscribe, Subscribed, Disconnect
  <1>5. QED
    BY <1>1, <1>2, <1>3, <1>4, Steps

(* Every delivery adds one later event to the files that are open.         *)
LEMMA StepFile ==
    ASSUME IInv, TypeOK', [Next]_vars
    PROVE  FileInv' /\ OwnFile'
  <1>1. TypeOK /\ BusInv /\ FileInv /\ OwnFile
    BY DEF IInv
  <1>2. CASE UNCHANGED <<file, done>>
    BY <1>1, <1>2 DEF FileInv, OwnFile
  <1>3. ASSUME NEW r \in Runs, Deliver(r)
        PROVE  FileInv' /\ OwnFile'
    <2>1. begun[r] \in Events /\ begun[r] \notin done[r] /\ done[r] \subseteq Events
      BY <1>1, <1>3, Delivers DEF TypeOK
    <2>2. \A m \in done[r] : m < begun[r]
      <3> SUFFICES ASSUME NEW m \in done[r] PROVE m < begun[r]
        OBVIOUS
      <3>1. m <= begun[r] /\ m # begun[r]
        BY <1>1, <2>1 DEF BusInv
      <3>2. m \in Nat /\ begun[r] \in Nat
        BY <2>1, Numbers
      <3>3. QED
        BY <3>1, <3>2
    <2>3. ASSUME NEW x \in open
          PROVE  Rising(file'[x][r]) /\ Range(file'[x][r]) \subseteq done'[r]
      <3> DEFINE s == file[x][r]
      <3>1. x \in Runs
        BY <1>1 DEF TypeOK
      <3>2. s \in Seq(Nat) /\ begun[r] \in Nat
        <4>1. s \in Seq(Events) /\ Events \subseteq Nat
          BY <1>1, <3>1, Numbers DEF TypeOK
        <4>2. QED
          BY <2>1, <4>1, SeqMonotonic
      <3>3. Rising(s) /\ \A m \in Range(s) : m < begun[r]
        BY <1>1, <2>2, <3>1 DEF FileInv
      <3> HIDE DEF s
      <3>4. Rising(Append(s, begun[r]))
        BY <3>2, <3>3, RisesOn
      <3>5. /\ file'[x][r] = Append(s, begun[r]) /\ Range(file'[x][r]) = Range(s) \cup {begun[r]}
            /\ done'[r] = done[r] \cup {begun[r]}
        BY <1>3, Delivers DEF s
      <3>6. Range(s) \subseteq done[r]
        BY <1>1, <3>1 DEF FileInv, s
      <3>7. QED
        BY <3>4, <3>5, <3>6
    <2>4. FileInv'
      BY <1>1, <1>3, <2>3, Delivers DEF FileInv
    <2>5. OwnFile'
      <3>1. /\ \A y \in Runs \ {r} : done'[y] = done[y] /\ file'[y][y] = file[y][y]
            /\ done'[r] = done[r] \cup {begun[r]}
            /\ \/ /\ begun[r] # Waiting
                  /\ Range(file'[r][r]) = Range(file[r][r]) \cup {begun[r]}
               \/ begun[r] = Waiting /\ file'[r][r] = file[r][r]
        BY <1>3, Delivers
      <3>2. \A y \in Runs : Range(file[y][y]) = done[y] \ {Waiting}
        BY <1>1 DEF OwnFile
      <3>3. Range(file'[r][r]) = done'[r] \ {Waiting}
        BY <3>1, <3>2
      <3>4. QED
        BY <3>1, <3>2, <3>3 DEF OwnFile
    <2>6. QED
      BY <2>4, <2>5
  <1>4. QED
    BY <1>2, <1>3, FilesKept

(* What is replayed came before what is pushed.                            *)
LEMMA StepInbox ==
    ASSUME IInv, TypeOK', [Next]_vars
    PROVE  InboxInv'
  <1> USE DEF busVars, diskVars, clientVars, histVars
  <1>1. TypeOK /\ BusInv /\ InboxInv /\ FileInv
    BY DEF IInv
  <1>2. CASE UNCHANGED <<inbox, begun>>
    BY <1>1, <1>2 DEF InboxInv
  <1>3. ASSUME NEW r \in Runs, NEW n \in Events, Handed(r, n)
        PROVE  InboxInv'
    <2>1. /\ inbox' = inbox /\ begun'[r] = n /\ n > begun[r] /\ begun[r] \in Nat /\ n \in Nat
          /\ \A x \in Runs \ {r} : begun'[x] = begun[x]
      BY <1>1, <1>3, Numbers DEF Handed, Take, TypeOK
    <2>2. ASSUME NEW k \in Clients, NEW m \in Range(inbox[k][r]) PROVE m <= n
      <3>1. m <= begun[r] /\ m \in Nat
        <4>1. inbox[k][r] \in Seq(Events)
          BY <1>1 DEF TypeOK
        <4>2. m \in Events
          BY <4>1, NoRows
        <4>3. QED
          BY <1>1, <4>2, Numbers DEF InboxInv
      <3>2. QED
        BY <2>1, <3>1
    <2>3. QED
      BY <1>1, <2>1, <2>2 DEF InboxInv
  <1>4. ASSUME NEW r \in Runs, Push(r)
        PROVE  InboxInv'
    <2>1. begun' = begun
      BY <1>4 DEF Push
    <2>2. PICK k \in Clients :
              /\ k \in Range(todo[r]) /\ begun[r] \in Events
              /\ inbox'[k][r] \in {Append(inbox[k][r], begun[r]), inbox[k][r]}
              /\ \A j \in Clients, x \in Runs : j # k \/ x # r => inbox'[j][x] = inbox[j][x]
      BY <1>4, Pushes
    <2> DEFINE s == inbox[k][r]
    <2>3. s \in Seq(Events) /\ s \in Seq(Nat) /\ begun[r] \in Nat
      <3>1. s \in Seq(Events) /\ Events \subseteq Nat
        BY <1>1, Numbers DEF TypeOK
      <3>2. QED
        BY <2>2, <3>1, SeqMonotonic
    <2>4. \A m \in Range(s) : m <= begun[r] /\ m # begun[r] /\ m \in Nat
      BY <1>1, <2>2, <2>3, NoRows DEF BusInv, InboxInv
    <2>5. Rising(s)
      BY <1>1 DEF InboxInv
    <2> HIDE DEF s
    <2>6. \A m \in Range(s) : m < begun[r]
      BY <2>3, <2>4
    <2>7. Rising(Append(s, begun[r])) /\ Range(Append(s, begun[r])) = Range(s) \cup {begun[r]}
      BY <2>2, <2>3, <2>5, <2>6, RisesOn, OneMore
    <2>8. begun[r] <= begun[r]
      BY <2>3
    <2>9. Rising(inbox'[k][r]) /\ \A m \in Range(inbox'[k][r]) : m <= begun[r]
      BY <2>2, <2>4, <2>5, <2>7, <2>8 DEF s
    <2>10. QED
      BY <1>1, <2>1, <2>2, <2>9 DEF InboxInv
  <1>5. ASSUME NEW k \in Clients, Subscribe(k) \/ Disconnect(k)
        PROVE  InboxInv'
    <2>1. /\ begun' = begun
          /\ \A x \in Clients \ {k} : inbox'[x] = inbox[x]
          /\ inbox'[k] = NoEvents \/ \E x \in Runs : inbox'[k] = file[x]
      BY <1>1, <1>5 DEF Subscribe, Disconnect, Replay, TypeOK, Requests
    <2>2. \A x, r \in Runs : Rising(file[x][r]) /\ \A n \in Range(file[x][r]) : n <= begun[r]
      BY <1>1 DEF FileInv, BusInv
    <2>3. \A r \in Runs : Rising(NoEvents[r]) /\ Range(NoEvents[r]) = {}
      BY NoRows DEF NoEvents
    <2>4. \A r \in Runs : Rising(inbox'[k][r]) /\ \A n \in Range(inbox'[k][r]) : n <= begun[r]
      BY <2>1, <2>2, <2>3
    <2>5. QED
      BY <1>1, <2>1, <2>4 DEF InboxInv
  <1>6. CASE UNCHANGED vars
    BY <1>2, <1>6 DEF vars
  <1>7. ASSUME NEW r \in Runs, Deliver(r) \/ CancelRun(r) PROVE InboxInv'
    BY <1>2, <1>7 DEF Deliver, CancelRun
  <1>8. ASSUME NEW k \in Clients, Subscribed(k) PROVE InboxInv'
    BY <1>2, <1>8 DEF Subscribed
  <1>9. QED
    BY <1>3, <1>4, <1>5, <1>6, <1>7, <1>8, Steps

(* Between the replay and the subscription every event is remembered, and  *)
(* after it each has the subscriber on its list.                           *)
LEMMA StepRace ==
    ASSUME IInv, TypeOK', [Next]_vars
    PROVE  RaceInv'
  <1> USE DEF busVars, diskVars, clientVars, histVars
  <1>1. TypeOK /\ SubsInv /\ BusInv /\ RaceInv
    BY DEF IInv
  <1>2. CASE UNCHANGED vars
    BY <1>1, <1>2 DEF RaceInv, vars
  <1>3. ASSUME NEW r \in Runs, NEW n \in Events, Handed(r, n)
        PROVE  RaceInv'
    <2>1. /\ begun'[r] = n /\ r \notin inFlight /\ inFlight' = inFlight \cup {r}
          /\ todo'[r] = Keep(subs, {k \in Clients : Matches(k, r, n)})
          /\ \A x \in Runs \ {r} : begun'[x] = begun[x] /\ todo'[x] = todo[x]
          /\ \A k \in Clients : racing[k] \subseteq racing'[k]
          /\ \A k \in Clients : client[k] = "replaying" => <<r, n>> \in racing'[k]
          /\ UNCHANGED <<file, client, wants, inbox>>
      BY <1>1, <1>3 DEF Handed, Take, TypeOK
    <2>2. ASSUME NEW k \in Clients, client[k] = "subscribed", wants[k].replay = r, n # Waiting
          PROVE  k \in Range(todo'[r])
      <3>1. wants[k] \in Requests
        BY <1>1 DEF TypeOK
      <3>2. r \in wants[k].scope
        BY <2>2, <3>1 DEF Requests
      <3>3. Matches(k, r, n)
        BY <2>2, <3>2 DEF Matches
      <3>4. Range(todo'[r]) = Range(subs) \cap {x \in Clients : Matches(x, r, n)}
        BY <1>1, <2>1, Kept DEF TypeOK
      <3>5. k \in Range(subs)
        BY <1>1, <2>2 DEF SubsInv
      <3>6. QED
        BY <3>3, <3>4, <3>5
    <2>3. QED
      BY <1>1, <2>1, <2>2 DEF RaceInv
  <1>4. ASSUME NEW r \in Runs, Push(r)
        PROVE  RaceInv'
    <2>1. UNCHANGED <<begun, inFlight, file, client, wants, racing>>
      BY <1>4 DEF Push
    <2>2. PICK j \in Clients :
              /\ begun[r] \in Events
              /\ Range(todo'[r]) = Range(todo[r]) \ {j}
              /\ \A x \in Runs \ {r} : todo'[x] = todo[x]
              /\ \/ client[j] = "subscribed" /\ inbox'[j][r] = Append(inbox[j][r], begun[r])
                 \/ client[j] = "gone" /\ inbox'[j][r] = inbox[j][r]
              /\ \A k \in Clients, x \in Runs : k # j \/ x # r => inbox'[k][x] = inbox[k][x]
      BY <1>4, Pushes
    <2>3. inbox[j][r] \in Seq(Events)
      BY <1>1 DEF TypeOK
    <2>4. Range(Append(inbox[j][r], begun[r])) = Range(inbox[j][r]) \cup {begun[r]}
      BY <2>2, <2>3, OneMore
    <2>5. /\ \A k \in Clients, x \in Runs : Range(inbox[k][x]) \subseteq Range(inbox'[k][x])
          /\ client[j] = "subscribed" => begun[r] \in Range(inbox'[j][r])
      BY <2>2, <2>4
    <2>6. QED
      BY <1>1, <2>1, <2>2, <2>5 DEF RaceInv
  <1>5. ASSUME NEW r \in Runs, Deliver(r)
        PROVE  RaceInv'
    <2>1. /\ r \in inFlight /\ todo[r] = <<>> /\ inFlight' = inFlight \ {r}
          /\ UNCHANGED <<begun, todo, client, wants, inbox, racing>>
      BY <1>5 DEF Deliver
    <2>2. /\ \A x \in Runs \ {r} : file'[x][x] = file[x][x]
          /\ \/ begun[r] # Waiting /\ Range(file'[r][r]) = Range(file[r][r]) \cup {begun[r]}
             \/ file'[r][r] = file[r][r]
      BY <1>5, Delivers
    <2>3. ASSUME NEW k \in Clients, client[k] \in Listens, wants[k].replay = r, begun[r] # Waiting
          PROVE  begun[r] \in Range(inbox[k][r]) \/ <<r, begun[r]>> \in racing[k]
      BY <1>1, <2>1, <2>3, NoRows DEF RaceInv, Listens
    <2>4. QED
      BY <1>1, <2>1, <2>2, <2>3 DEF RaceInv
  <1>6. ASSUME NEW r \in Runs, CancelRun(r)
        PROVE  RaceInv'
    <2>1. /\ inFlight' = inFlight \ {r}
          /\ \A x \in Runs \ {r} : todo'[x] = todo[x]
          /\ UNCHANGED <<begun, file, client, wants, inbox, racing>>
      BY <1>1, <1>6 DEF CancelRun, TypeOK
    <2>2. QED
      BY <1>1, <2>1 DEF RaceInv
  <1>7. ASSUME NEW k \in Clients, Subscribe(k)
        PROVE  RaceInv'
    <2>1. /\ UNCHANGED <<begun, todo, inFlight, file, wants>>
          /\ \A x \in Clients \ {k} : client'[x] = client[x] /\ inbox'[x] = inbox[x] /\ racing'[x] = racing[x]
          /\ inbox'[k] = Replay(wants[k].replay)
          /\ racing'[k] = {<<x, begun[x]>> : x \in inFlight}
      BY <1>1, <1>7 DEF Subscribe, TypeOK
    <2>2. \A r \in Runs : wants[k].replay = r => inbox'[k][r] = file[r][r]
      BY <2>1, Numbers DEF Replay
    <2>3. \A r \in inFlight : <<r, begun[r]>> \in racing'[k]
      BY <2>1
    <2>4. QED
      BY <1>1, <2>1, <2>2, <2>3 DEF RaceInv
  <1>8. ASSUME NEW k \in Clients, Subscribed(k)
        PROVE  RaceInv'
    <2>1. /\ UNCHANGED <<begun, todo, inFlight, file, wants, inbox, racing>>
          /\ \A x \in Clients \ {k} : client'[x] = client[x]
          /\ client'[k] = "gone" \/ (client[k] = "replaying" /\ client'[k] = "subscribed")
      BY <1>1, <1>8 DEF Subscribed, TypeOK
    <2>2. QED
      BY <1>1, <2>1 DEF RaceInv, Listens
  <1>9. ASSUME NEW k \in Clients, Disconnect(k)
        PROVE  RaceInv'
    <2>1. /\ UNCHANGED <<begun, todo, inFlight, file, wants>>
          /\ \A x \in Clients \ {k} : client'[x] = client[x] /\ inbox'[x] = inbox[x] /\ racing'[x] = racing[x]
          /\ client'[k] \in {"leaving", "gone"}
      BY <1>1, <1>9 DEF Disconnect, TypeOK
    <2>2. QED
      BY <1>1, <2>1 DEF RaceInv, Listens
  <1>10. QED
    BY <1>2, <1>3, <1>4, <1>5, <1>6, <1>7, <1>8, <1>9, Steps

-----------------------------------------------------------------------------
(* Theorems.                                                               *)

(* The invariant holds: subscriptions, bus, stages, files and inboxes each *)
(* lean on the others, so they are proved together.                        *)
THEOREM Invariant == Spec => []IInv
  <1>1. Init => IInv
    BY InitHolds
  <1>2. IInv /\ [Next]_vars => IInv'
    <2> SUFFICES ASSUME IInv, [Next]_vars PROVE IInv'
      OBVIOUS
    <2>1. TypeOK'
      BY StepTypes
    <2>2. QED
      BY <2>1, StepSubs, StepBus, StepStage, StepFile, StepInbox, StepRace DEF IInv
  <1>3. QED
    BY <1>1, <1>2, PTL DEF Spec

(* Every variable keeps its type.                                          *)
THEOREM TypeCorrect == Spec => []TypeOK
  <1>1. IInv => TypeOK
    BY DEF IInv
  <1>2. QED
    BY <1>1, Invariant, PTL

(* The file of a run has the run's own events in order, all that went over *)
(* the bus, and run.finished as the last once it is closed, unless the run *)
(* was cancelled while run.started or run.finished was on the bus.         *)
THEOREM FilesAreComplete == Spec => []FileComplete
  <1>1. ASSUME IInv PROVE FileComplete
    <2>1. TypeOK /\ BusInv /\ StageInv /\ FileInv /\ OwnFile
      BY <1>1 DEF IInv
    <2>2. ASSUME NEW r \in Runs, begun[r] > 0, r \notin open, ~ Silenced(r)
          PROVE  Finished \in done[r]
      <3>1. begun[r] \in 1 .. Finished - 1 \/ begun[r] >= Finished
        <4>1. begun[r] \in Nat
          BY <2>1, Numbers DEF TypeOK
        <4>2. QED
          BY <2>2, <4>1, Numbers
      <3>2. begun[r] \notin 1 .. Finished - 1
        BY <2>1, <2>2 DEF StageInv, Silenced
      <3>3. begun[r] = Finished => r \notin inFlight
        BY <2>1, <2>2 DEF StageInv
      <3>4. QED
        BY <2>1, <2>2, <3>1, <3>2, <3>3 DEF StageInv, Silenced
    <2>3. ASSUME NEW r \in Runs, begun[r] > 0, r \notin open, ~ Silenced(r)
          PROVE  file[r][r] # <<>> /\ Last(file[r][r]) = Finished
      <3> DEFINE own == file[r][r]
      <3>1. own \in Seq(Events) /\ Range(own) = done[r] \ {Waiting} /\ Rising(own)
        BY <2>1 DEF TypeOK, OwnFile, FileInv
      <3>2. Finished \in Range(own)
        BY <2>2, <2>3, <3>1, Numbers
      <3> HIDE DEF own
      <3>3. \A n \in Range(own) : n <= Finished
        <4>1. \A n \in Range(own) : n \in 1 .. Finished
          BY <3>1, Numbers, NoRows
        <4>2. QED
          BY <4>1
      <3>4. own \in Seq(Nat)
        BY <3>1, Numbers, SeqMonotonic
      <3>5. Last(own) = Finished
        BY <3>1, <3>2, <3>3, <3>4, LastIsGreatest
      <3>6. own # <<>>
        BY <3>1, <3>2, NoRows
      <3>7. QED
        BY <3>5, <3>6 DEF own
    <2>4. QED
      BY <2>1, <2>3 DEF FileComplete, FileInv, OwnFile
  <1>2. QED
    BY <1>1, Invariant, PTL

(* A client sees the events of each run in their order, none twice, and    *)
(* the session waiting only when the messages of the run are stored.       *)
THEOREM EventsAreSeenInOrder == Spec => []SeenInOrder
  <1>1. ASSUME IInv PROVE SeenInOrder
    <2>1. TypeOK /\ StageInv /\ InboxInv
      BY <1>1 DEF IInv
    <2>2. ASSUME NEW k \in Clients, NEW r \in Runs, Waiting \in Range(inbox[k][r])
          PROVE  r \in persisted
      <3>1. Waiting <= begun[r] /\ begun[r] \in 0 .. Waiting
        BY <2>1, <2>2 DEF InboxInv, TypeOK
      <3>2. begun[r] = Waiting
        BY <3>1, Numbers
      <3>3. QED
        BY <2>1, <3>2 DEF StageInv
    <2>3. QED
      BY <2>1, <2>2 DEF SeenInOrder, InboxInv
  <1>2. QED
    BY <1>1, Invariant, PTL

(* A client that subscribes with a replay misses no event of the file but  *)
(* those that were on the bus between the replay and the subscription.     *)
THEOREM NothingElseIsMissed == Spec => []OnlyRacingMissed
  <1>1. IInv => OnlyRacingMissed
    BY DEF IInv, RaceInv, OnlyRacingMissed, Listens
  <1>2. QED
    BY <1>1, Invariant, PTL
=============================================================================
