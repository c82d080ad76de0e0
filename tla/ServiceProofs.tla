----------------------------- MODULE ServiceProofs -----------------------------
(***************************************************************************)
(* Proofs about what stands behind tools, for any number of tool calls,    *)
(* any behaviour of a server, any number of tasks and any lists of ids.    *)
(* McpClient: a call returns no answer to another call, and none loses its *)
(* answer to another one.  TaskManager: no waiting task is forgotten and   *)
(* no dependency is lost, whatever writes fail.                            *)
(***************************************************************************)
EXTENDS McpClient, TaskManager, SequenceTheorems, TLAPS

(* The lock is held between the request and its answer, and only then.     *)
LockInv == \A c \in Calls : pc[c] \in {"writing", "reading"} <=> lock = c

(* The calls in the queue are the ones that wait, each once.               *)
QueueInv ==
    /\ \A i \in DOMAIN waiters : pc[waiters[i]] = "waiting"
    /\ \A i, j \in DOMAIN waiters : waiters[i] = waiters[j] => i = j

(* Ids are drawn once.                                                     *)
IdInv ==
    /\ \A c \in Calls : id[c] <= lastId /\ (pc[c] # "idle" => id[c] # 0)
    /\ \A c, d \in Calls : id[c] = id[d] /\ id[c] # 0 => c = d

(* A call has written before the server knows it.                          *)
AskedInv == \A c \in asked : pc[c] \notin {"idle", "waiting"}

(* A line with an id is the answer to the call that drew it, or a request  *)
(* with an id the server has used.                                         *)
StreamInv ==
    \A i \in DOMAIN stream :
        /\ stream[i].kind \in Answering =>
              stream[i].of \in answered /\ stream[i].id = id[stream[i].of]
        /\ stream[i].kind = "request" =>
              stream[i].of = Nobody /\ stream[i].id \in served

(* What was answered and not yet read is still there.                      *)
KeptInv ==
    \A c \in answered : pc[c] \in {"writing", "reading"} =>
        \E i \in DOMAIN stream : stream[i].kind \in Answering /\ stream[i].of = c

IInv ==
    /\ TypeOK
    /\ LockInv
    /\ QueueInv
    /\ IdInv
    /\ AskedInv
    /\ StreamInv
    /\ KeptInv
    /\ OwnAnswer
-----------------------------------------------------------------------------
(* Taking a call out of a queue leaves the other calls in it.              *)
LEMMA RemoveAtFacts ==
    ASSUME NEW s \in Seq(Calls), NEW k \in DOMAIN s
    PROVE  /\ RemoveAt(s, k) \in Seq(Calls)
           /\ Len(RemoveAt(s, k)) = Len(s) - 1
           /\ \A i \in DOMAIN RemoveAt(s, k) :
                 RemoveAt(s, k)[i] = IF i < k THEN s[i] ELSE s[i + 1]
  <1> DEFINE left == SubSeq(s, 1, k - 1)
             right == SubSeq(s, k + 1, Len(s))
  <1>1. k \in 1 .. Len(s) /\ Len(s) \in Nat
    OBVIOUS
  <1>2. /\ left \in Seq(Calls) /\ Len(left) = k - 1
        /\ \A i \in 1 .. k - 1 : left[i] = s[i]
    BY <1>1
  <1>3. /\ right \in Seq(Calls) /\ Len(right) = Len(s) - k
        /\ \A i \in 1 .. Len(s) - k : right[i] = s[i + k]
    BY <1>1
  <1> HIDE DEF left, right
  <1>4. /\ left \o right \in Seq(Calls)
        /\ Len(left \o right) = Len(s) - 1
        /\ \A i \in 1 .. Len(s) - 1 :
              (left \o right)[i] = IF i < k THEN left[i] ELSE right[i - k + 1]
    <2>1. /\ left \o right \in Seq(Calls)
          /\ Len(left \o right) = Len(left) + Len(right)
          /\ \A i \in 1 .. Len(left) + Len(right) :
                (left \o right)[i] = IF i <= Len(left) THEN left[i] ELSE right[i - Len(left)]
      <3>1. left \in Seq(Calls) /\ right \in Seq(Calls)
        BY <1>2, <1>3
      <3>2. QED
        BY <3>1, ConcatProperties, Zenon
    <2>2. Len(left) = k - 1 /\ Len(right) = Len(s) - k
      BY <1>2, <1>3
    <2>3. Len(left) + Len(right) = Len(s) - 1
      BY <1>1, <2>2
    <2>4. \A i \in 1 .. Len(s) - 1 :
             (i <= Len(left) <=> i < k) /\ i - Len(left) = i - k + 1
      BY <1>1, <2>2
    <2>5. QED
      BY <2>1, <2>3, <2>4
  <1>5. \A i \in 1 .. Len(s) - 1 :
           (left \o right)[i] = IF i < k THEN s[i] ELSE s[i + 1]
    <2> SUFFICES ASSUME NEW i \in 1 .. Len(s) - 1
                 PROVE  (left \o right)[i] = IF i < k THEN s[i] ELSE s[i + 1]
      OBVIOUS
    <2>1. CASE i < k
      BY <1>1, <1>2, <1>4, <2>1
    <2>2. CASE ~(i < k)
      <3>1. i - k + 1 \in 1 .. Len(s) - k /\ (i - k + 1) + k = i + 1
        BY <1>1, <2>2
      <3>2. QED
        BY <1>3, <1>4, <2>2, <3>1
    <2>3. QED
      BY <2>1, <2>2
  <1>6. RemoveAt(s, k) = left \o right
    BY DEF RemoveAt, left, right
  <1>7. DOMAIN (left \o right) = 1 .. Len(s) - 1
    BY <1>1, <1>4
  <1>8. QED
    BY <1>4, <1>5, <1>6, <1>7, Zenon

(* Nothing has happened yet.                                               *)
LEMMA InitIInv == Init => IInv
  BY McpAssumption DEF Init, IInv, TypeOK, LockInv, QueueInv, IdInv, AskedInv, StreamInv,
     KeptInv, OwnAnswer, Calls, Line, Answering, Ended

(* A call that leaves the lock, whatever became of it, if it returns no    *)
(* answer, or its own, or a request with its id for one.                   *)
LEMMA LeaveInv ==
    ASSUME IInv, NEW c \in Calls, NEW how \in Ended,
           pc[c] \in {"writing", "reading"}, Leave(c, how),
           UNCHANGED <<open, asked, answered, served>>,
           stream' \in Seq(Line),
           \A i \in DOMAIN stream' : \E j \in DOMAIN stream : stream'[i] = stream[j],
           got' \in [Calls -> Calls \cup {Nobody}],
           \A d \in Calls \ {c} : got'[d] = got[d],
           how \in {"returned", "mcp_error"} =>
              got'[c] = c \/ (got'[c] = Nobody /\ how = "returned" /\ id[c] \in served)
    PROVE  IInv'
  <1> USE McpAssumption DEF IInv, Leave
  <1>1. TypeOK'
    BY DEF TypeOK
  <1>2. /\ \A d \in Calls \ {c} : pc'[d] = pc[d] /\ pc[d] \notin {"writing", "reading"}
        /\ pc'[c] = how
        /\ Nobody \notin Calls
        /\ how \notin {"idle", "waiting", "writing", "reading"}
    BY DEF TypeOK, LockInv, Ended, Calls
  <1>3. LockInv' /\ KeptInv'
    BY <1>2 DEF LockInv, KeptInv, TypeOK
  <1>4. QueueInv'
    BY <1>2 DEF QueueInv, TypeOK
  <1>5. IdInv' /\ AskedInv'
    BY <1>2 DEF IdInv, AskedInv, TypeOK
  <1>6. StreamInv'
    BY DEF StreamInv
  <1>7. OwnAnswer'
    BY <1>2 DEF OwnAnswer, TypeOK
  <1>8. QED
    BY <1>1, <1>3, <1>4, <1>5, <1>6, <1>7

(* A call that takes the lock: nobody has it, and nothing of the call is   *)
(* known to the server.                                                    *)
LEMMA WriteInv ==
    ASSUME IInv, NEW c \in Calls, lock = Nobody, Write(c), pc[c] \in {"idle", "waiting"},
           pc' = [pc EXCEPT ![c] = "writing"],
           UNCHANGED got,
           lastId' \in Nat, id' \in [Calls -> Nat], IdInv',
           \A d \in Calls \ {c} : id'[d] = id[d],
           waiters' \in Seq(Calls), QueueInv'
    PROVE  IInv'
  <1> USE McpAssumption DEF IInv, Write
  <1>1. TypeOK'
    BY DEF TypeOK
  <1>2. /\ \A d \in Calls \ {c} : pc'[d] = pc[d] /\ pc[d] \notin {"writing", "reading"}
        /\ pc'[c] = "writing"
        /\ c \notin asked /\ c \notin answered
        /\ c # Nobody
    BY DEF TypeOK, LockInv, AskedInv, Calls
  <1>3. LockInv' /\ AskedInv'
    BY <1>2 DEF LockInv, AskedInv, TypeOK
  <1>4. KeptInv' /\ StreamInv'
    BY <1>2 DEF KeptInv, StreamInv, TypeOK
  <1>5. OwnAnswer'
    BY <1>2 DEF OwnAnswer, TypeOK
  <1>6. QED
    BY <1>1, <1>3, <1>4, <1>5
-----------------------------------------------------------------------------
(* A new call draws an id nobody has, and takes the lock or queues.        *)
LEMMA StartInv ==
    ASSUME IInv, NEW c \in Calls, Start(c)
    PROVE  IInv'
  <1> USE DEF Start
  <1>1. lastId' \in Nat /\ id' \in [Calls -> Nat] /\ (\A d \in Calls \ {c} : id'[d] = id[d])
    BY DEF IInv, TypeOK
  <1>2. IdInv'
    BY DEF IInv, TypeOK, IdInv
  <1>3. CASE lock = Nobody /\ waiters = <<>>
    <2>1. pc' = [pc EXCEPT ![c] = "writing"] /\ Write(c) /\ waiters' = waiters
      BY <1>3
    <2>2. waiters' \in Seq(Calls) /\ QueueInv'
      BY <1>3, <2>1 DEF IInv, TypeOK, QueueInv
    <2>3. QED
      BY <1>1, <1>2, <1>3, <2>1, <2>2, WriteInv
  <1>4. CASE ~(lock = Nobody /\ waiters = <<>>)
    <2>1. /\ pc' = [pc EXCEPT ![c] = "waiting"]
          /\ waiters' = Append(waiters, c)
          /\ UNCHANGED <<lock, stream, open, asked, answered, served, got>>
      BY <1>4 DEF serverVars
    <2>2. TypeOK'
      BY <1>1, <2>1 DEF IInv, TypeOK
    <2>3. QueueInv'
      <3>1. /\ DOMAIN waiters' = 1 .. Len(waiters) + 1 /\ DOMAIN waiters = 1 .. Len(waiters)
            /\ Len(waiters) \in Nat
            /\ \A i \in DOMAIN waiters : waiters'[i] = waiters[i]
            /\ waiters'[Len(waiters) + 1] = c
        BY <2>1 DEF IInv, TypeOK
      <3>2. \A i \in DOMAIN waiters : waiters[i] \in Calls /\ waiters[i] # c
        BY DEF IInv, TypeOK, QueueInv
      <3>3. \A i \in DOMAIN waiters' : i \in DOMAIN waiters \/ i = Len(waiters) + 1
        BY <3>1
      <3>4. \A d \in Calls : pc'[d] = IF d = c THEN "waiting" ELSE pc[d]
        BY <2>1 DEF IInv, TypeOK
      <3>5. QED
        BY <3>1, <3>2, <3>3, <3>4 DEF IInv, QueueInv
    <2>4. LockInv' /\ AskedInv' /\ KeptInv' /\ OwnAnswer'
      BY <2>1 DEF IInv, TypeOK, LockInv, AskedInv, KeptInv, OwnAnswer
    <2>5. StreamInv'
      BY <1>1, <2>1 DEF IInv, TypeOK, StreamInv, AskedInv
    <2>6. QED
      BY <1>2, <2>2, <2>3, <2>4, <2>5 DEF IInv
  <1>5. QED
    BY <1>3, <1>4

(* The call at the head of the queue takes the free lock.                  *)
LEMMA GrantedInv ==
    ASSUME IInv, NEW c \in Calls, Granted(c)
    PROVE  IInv'
  <1> USE DEF Granted
  <1>1. /\ waiters' \in Seq(Calls)
        /\ \A i \in DOMAIN waiters' : i + 1 \in DOMAIN waiters /\ waiters'[i] = waiters[i + 1]
        /\ 1 \in DOMAIN waiters /\ c = waiters[1]
        /\ \A i \in DOMAIN waiters' : i \in Nat /\ i + 1 # 1
    BY DEF IInv, TypeOK
  <1>2. QueueInv'
    <2>1. \A i \in DOMAIN waiters' : waiters'[i] # c /\ waiters'[i] \in Calls
      BY <1>1 DEF IInv, QueueInv
    <2>2. \A i \in DOMAIN waiters' : pc'[waiters'[i]] = "waiting"
      BY <1>1, <2>1 DEF IInv, TypeOK, QueueInv
    <2>3. \A i, j \in DOMAIN waiters' : waiters'[i] = waiters'[j] => i = j
      BY <1>1 DEF IInv, QueueInv
    <2>4. QED
      BY <2>2, <2>3 DEF QueueInv
  <1>3. pc[c] = "waiting"
    BY <1>1 DEF IInv, QueueInv
  <1>4. IdInv'
    BY <1>3 DEF IInv, TypeOK, IdInv
  <1>5. QED
    BY <1>1, <1>2, <1>3, <1>4, WriteInv DEF IInv, TypeOK

(* The request is out.                                                     *)
LEMMA DrainedInv ==
    ASSUME IInv, NEW c \in Calls, Drained(c)
    PROVE  IInv'
  BY DEF Drained, IInv, TypeOK, LockInv, QueueInv, IdInv, AskedInv, StreamInv, KeptInv,
     OwnAnswer, lockVars, serverVars

(* A line is read: the own answer, a bad line, or one to skip, which is    *)
(* never the answer to this call.                                          *)
LEMMA ReadLineInv ==
    ASSUME IInv, NEW c \in Calls, ReadLine(c)
    PROVE  IInv'
  <1> DEFINE line == Head(stream)
  <1>1. /\ stream' \in Seq(Line)
        /\ \A i \in DOMAIN stream' : i + 1 \in DOMAIN stream /\ stream'[i] = stream[i + 1]
        /\ \A i \in DOMAIN stream : i # 1 => i - 1 \in DOMAIN stream' /\ stream[i] = stream'[i - 1]
        /\ 1 \in DOMAIN stream /\ line = stream[1] /\ line \in Line
        /\ pc[c] = "reading"
        /\ UNCHANGED <<open, asked, answered, served>>
    BY DEF ReadLine, IInv, TypeOK
  <1>2. \A i \in DOMAIN stream' : \E j \in DOMAIN stream : stream'[i] = stream[j]
    BY <1>1
  <1> HIDE DEF line
  <1>3. CASE IsOwnAnswer(c, line)
    <2>1. \/ line.of = c
          \/ line.of = Nobody /\ line.kind = "request" /\ id[c] \in served
      <3>1. CASE line.kind \in Answering
        <4>1. line.of \in answered /\ line.id = id[line.of]
          BY <1>1, <3>1 DEF IInv, StreamInv
        <4>2. id[c] # 0 /\ line.of \in Calls
          BY <1>1, <4>1 DEF IInv, IdInv, TypeOK
        <4> QED
          BY <1>3, <4>1, <4>2 DEF IInv, IdInv, IsOwnAnswer
      <3>2. CASE line.kind = "request"
        BY <1>1, <1>3, <3>2 DEF IInv, StreamInv, IsOwnAnswer
      <3> QED
        BY <1>3, <3>1, <3>2 DEF IsOwnAnswer
    <2>2. PICK how \in {"returned", "mcp_error"} :
             /\ Leave(c, how) /\ got' = [got EXCEPT ![c] = line.of]
             /\ how = IF line.kind = "error" THEN "mcp_error" ELSE "returned"
      BY <1>3 DEF ReadLine, line, IsOwnAnswer, Answering
    <2>3. /\ got' \in [Calls -> Calls \cup {Nobody}]
          /\ \A d \in Calls \ {c} : got'[d] = got[d]
          /\ got'[c] = c \/ (got'[c] = Nobody /\ how = "returned" /\ id[c] \in served)
      BY <2>1, <2>2 DEF IInv, TypeOK
    <2> QED
      BY <1>1, <1>2, <2>2, <2>3, LeaveInv DEF Ended
  <1>4. CASE line.kind = "bad"
    <2>1. Leave(c, "failed") /\ got' = got
      BY <1>4 DEF ReadLine, line, IsOwnAnswer, Answering
    <2>2. QED
      BY <1>1, <1>2, <2>1, LeaveInv DEF IInv, TypeOK, Ended
  <1>5. CASE line.kind # "bad" /\ ~IsOwnAnswer(c, line)
    <2>1. UNCHANGED <<lastId, id, pc, got, lock, waiters>>
      BY <1>5 DEF ReadLine, line, callVars, lockVars
    <2>2. TypeOK'
      BY <1>1, <2>1 DEF IInv, TypeOK
    <2>3. LockInv' /\ QueueInv' /\ IdInv' /\ AskedInv' /\ OwnAnswer'
      BY <1>1, <2>1 DEF IInv, LockInv, QueueInv, IdInv, AskedInv, OwnAnswer
    <2>4. StreamInv'
      BY <1>1, <1>2, <2>1 DEF IInv, StreamInv
    <2>5. KeptInv'
      <3> SUFFICES ASSUME NEW d \in answered, pc[d] \in {"writing", "reading"}
                   PROVE  \E i \in DOMAIN stream' :
                             stream'[i].kind \in Answering /\ stream'[i].of = d
        BY <1>1, <2>1 DEF KeptInv
      <3>1. d = c
        BY <1>1 DEF IInv, LockInv, TypeOK
      <3>2. PICK i \in DOMAIN stream : stream[i].kind \in Answering /\ stream[i].of = c
        BY <3>1 DEF IInv, KeptInv
      <3>3. stream[i].id = id[c]
        BY <3>2 DEF IInv, StreamInv
      <3>4. i # 1
        BY <1>1, <1>5, <3>2, <3>3 DEF IsOwnAnswer
      <3>5. QED
        BY <1>1, <3>1, <3>2, <3>4
    <2>6. QED
      BY <2>2, <2>3, <2>4, <2>5 DEF IInv
  <1>6. QED
    BY <1>3, <1>4, <1>5

(* End of file, the 30 seconds and the caller's limit free the lock.       *)
LEMMA EndsInv ==
    ASSUME IInv, NEW c \in Calls, Disconnected(c) \/ ReadTimesOut(c) \/ GiveUp(c)
    PROVE  IInv'
  <1>1. CASE pc[c] \in {"writing", "reading"}
    <2>1. PICK how \in {"unavailable", "failed", "given_up"} : Leave(c, how)
      BY <1>1 DEF Disconnected, ReadTimesOut, GiveUp
    <2>2. UNCHANGED <<got, stream, open, asked, answered, served>>
      BY DEF Disconnected, ReadTimesOut, GiveUp, serverVars
    <2>3. QED
      BY <1>1, <2>1, <2>2, LeaveInv DEF IInv, TypeOK, Ended
  <1>2. CASE pc[c] \notin {"writing", "reading"}
    <2>1. /\ pc[c] = "waiting"
          /\ pc' = [pc EXCEPT ![c] = "given_up"]
          /\ UNCHANGED <<lastId, id, got, lock, stream, open, asked, answered, served>>
      BY <1>2 DEF Disconnected, ReadTimesOut, GiveUp, serverVars
    <2>2. PICK k \in DOMAIN waiters : waiters[k] = c /\ waiters' = RemoveAt(waiters, k)
      BY <1>2 DEF Disconnected, ReadTimesOut, GiveUp
    <2>3. /\ waiters' \in Seq(Calls)
          /\ Len(waiters') = Len(waiters) - 1
          /\ \A i \in DOMAIN waiters' : waiters'[i] = IF i < k THEN waiters[i] ELSE waiters[i + 1]
      BY <2>2, RemoveAtFacts DEF IInv, TypeOK
    <2>4. TypeOK'
      BY <2>1, <2>3 DEF IInv, TypeOK, Ended
    <2>5. QueueInv'
      <3>1. \A i \in DOMAIN waiters' : \E j \in DOMAIN waiters :
               j = (IF i < k THEN i ELSE i + 1) /\ waiters'[i] = waiters[j] /\ j # k
        <4> SUFFICES ASSUME NEW i \in DOMAIN waiters'
                     PROVE  /\ (IF i < k THEN i ELSE i + 1) \in DOMAIN waiters
                            /\ waiters'[i] = waiters[IF i < k THEN i ELSE i + 1]
                            /\ (IF i < k THEN i ELSE i + 1) # k
          OBVIOUS
        <4>1. /\ i \in 1 .. Len(waiters) - 1 /\ Len(waiters) \in Nat
              /\ k \in 1 .. Len(waiters) /\ DOMAIN waiters = 1 .. Len(waiters)
          <5>1. /\ Len(waiters) \in Nat /\ DOMAIN waiters = 1 .. Len(waiters)
            BY DEF IInv, TypeOK
          <5>2. DOMAIN waiters' = 1 .. Len(waiters')
            BY <2>3
          <5>3. QED
            BY <2>3, <5>1, <5>2
        <4>2. CASE i < k
          BY <2>3, <4>1, <4>2
        <4>3. CASE ~(i < k)
          BY <2>3, <4>1, <4>3
        <4>4. QED
          BY <4>2, <4>3
      <3>2. \A i \in DOMAIN waiters' : waiters'[i] # c /\ pc[waiters'[i]] = "waiting"
        BY <2>2, <3>1 DEF IInv, QueueInv
      <3>3. \A i, j \in DOMAIN waiters' : waiters'[i] = waiters'[j] => i = j
        <4> SUFFICES ASSUME NEW i \in DOMAIN waiters', NEW j \in DOMAIN waiters',
                            waiters'[i] = waiters'[j]
                     PROVE  i = j
          OBVIOUS
        <4>1. (IF i < k THEN i ELSE i + 1) = (IF j < k THEN j ELSE j + 1)
          BY <3>1 DEF IInv, QueueInv
        <4>2. i \in Nat /\ j \in Nat /\ k \in Nat
          <5>1. waiters \in Seq(Calls)
            BY DEF IInv, TypeOK
          <5>2. DOMAIN waiters \subseteq Nat /\ DOMAIN waiters' \subseteq Nat
            BY <2>3, <5>1
          <5>3. QED
            BY <5>2
        <4>3. QED
          BY <4>1, <4>2
      <3>4. \A i \in DOMAIN waiters' : pc'[waiters'[i]] = "waiting"
        BY <2>1, <2>3, <3>2 DEF IInv, TypeOK
      <3>5. QED
        BY <3>3, <3>4 DEF QueueInv
    <2>6. LockInv' /\ IdInv' /\ AskedInv' /\ StreamInv' /\ KeptInv' /\ OwnAnswer'
      BY <2>1 DEF IInv, TypeOK, LockInv, IdInv, AskedInv, StreamInv, KeptInv, OwnAnswer
    <2>7. QED
      BY <2>4, <2>5, <2>6 DEF IInv
  <1>3. QED
    BY <1>1, <1>2

(* What the server sends goes to the end of the stream.                    *)
LEMMA ServerInv ==
    ASSUME IInv,
           \/ \E c \in Calls, k \in Answering : ServerAnswers(c, k)
           \/ \E n \in ServerIds : ServerRequests(n)
           \/ \E k \in {"notice", "bad"} : ServerSays(k)
           \/ ServerGoes
    PROVE  IInv'
  <1>1. UNCHANGED <<lastId, id, pc, got, lock, waiters, asked>> /\ served \subseteq served'
    BY DEF ServerAnswers, ServerRequests, ServerSays, ServerGoes, callVars, lockVars
  <1>2. LockInv' /\ QueueInv' /\ IdInv' /\ AskedInv' /\ OwnAnswer'
    BY <1>1 DEF IInv, LockInv, QueueInv, IdInv, AskedInv, OwnAnswer
  <1>3. ASSUME NEW c \in Calls, NEW k \in Answering, ServerAnswers(c, k)
        PROVE  TypeOK' /\ StreamInv' /\ KeptInv'
    <2>1. Answer(c, k) \in Line /\ Answer(c, k).of = c /\ Answer(c, k).id = id[c]
                                /\ Answer(c, k).kind = k
      BY DEF Answer, Line, IInv, TypeOK
    <2>2. /\ stream' = Append(stream, Answer(c, k))
          /\ answered' = answered \cup {c}
          /\ c \in asked
          /\ open' = open /\ served' = served
      BY <1>3 DEF ServerAnswers
    <2>3. /\ stream' \in Seq(Line)
          /\ DOMAIN stream' = DOMAIN stream \cup {Len(stream) + 1}
          /\ \A i \in DOMAIN stream : stream'[i] = stream[i]
          /\ stream'[Len(stream) + 1] = Answer(c, k)
      BY <2>1, <2>2 DEF IInv, TypeOK
    <2>4. TypeOK'
      BY <1>1, <2>2, <2>3 DEF IInv, TypeOK
    <2>5. StreamInv'
      BY <1>1, <2>1, <2>2, <2>3 DEF IInv, StreamInv, Answering
    <2>6. KeptInv'
      BY <1>1, <2>1, <2>2, <2>3 DEF IInv, KeptInv
    <2> QED
      BY <2>4, <2>5, <2>6
  <1>4. ASSUME NEW k \in {"notice", "bad"}, ServerSays(k)
        PROVE  TypeOK' /\ StreamInv' /\ KeptInv'
    <2>1. Noise(k) \in Line /\ Noise(k).kind \notin Answering \cup {"request"}
      BY DEF Noise, Line, Answering
    <2>2. /\ stream' = Append(stream, Noise(k))
          /\ answered' = answered
          /\ open' = open /\ served' = served
      BY <1>4 DEF ServerSays
    <2>3. /\ stream' \in Seq(Line)
          /\ DOMAIN stream' = DOMAIN stream \cup {Len(stream) + 1}
          /\ \A i \in DOMAIN stream : stream'[i] = stream[i]
          /\ stream'[Len(stream) + 1] = Noise(k)
      BY <2>1, <2>2 DEF IInv, TypeOK
    <2>4. QED
      BY <1>1, <2>1, <2>2, <2>3 DEF IInv, TypeOK, StreamInv, KeptInv
  <1>5. ASSUME NEW n \in ServerIds, ServerRequests(n)
        PROVE  TypeOK' /\ StreamInv' /\ KeptInv'
    <2>1. /\ Request(n) \in Line /\ Request(n).of = Nobody /\ Request(n).id = n
          /\ Request(n).kind = "request"
      BY McpAssumption DEF Request, Line
    <2>2. /\ stream' = Append(stream, Request(n))
          /\ answered' = answered /\ open' = open
          /\ served' = served \cup {n}
      BY <1>5 DEF ServerRequests
    <2>3. /\ stream' \in Seq(Line)
          /\ DOMAIN stream' = DOMAIN stream \cup {Len(stream) + 1}
          /\ \A i \in DOMAIN stream : stream'[i] = stream[i]
          /\ stream'[Len(stream) + 1] = Request(n)
      BY <2>1, <2>2 DEF IInv, TypeOK
    <2>4. TypeOK'
      BY <1>1, <2>2, <2>3 DEF IInv, TypeOK
    <2>5. StreamInv'
      BY <1>1, <2>1, <2>2, <2>3 DEF IInv, StreamInv, Answering
    <2>6. KeptInv'
      BY <1>1, <2>1, <2>2, <2>3 DEF IInv, KeptInv
    <2> QED
      BY <2>4, <2>5, <2>6
  <1>6. CASE ServerGoes
    BY <1>1, <1>2, <1>6 DEF ServerGoes, IInv, TypeOK, StreamInv, KeptInv
  <1>7. QED
    BY <1>2, <1>3, <1>4, <1>6, <1>5 DEF IInv
-----------------------------------------------------------------------------
(* Every step keeps the invariant.                                         *)
LEMMA StepIInv == IInv /\ [Next]_vars => IInv'
  <1> SUFFICES ASSUME IInv, [Next]_vars PROVE IInv'
    OBVIOUS
  <1>1. CASE UNCHANGED vars
    BY <1>1 DEF vars, callVars, lockVars, serverVars, IInv, TypeOK, LockInv, QueueInv, IdInv,
       AskedInv, StreamInv, KeptInv, OwnAnswer
  <1>2. CASE Next
    BY <1>2, StartInv, GrantedInv, DrainedInv, ReadLineInv, EndsInv, ServerInv DEF Next
  <1>3. QED
    BY <1>1, <1>2

(* Hence the invariant holds in every reachable state.                     *)
LEMMA InductiveInvariant == Spec => []IInv
  BY InitIInv, StepIInv, PTL DEF Spec

(* Type correctness of the client, its calls and the stream.               *)
THEOREM McpTypeCorrect == Spec => []TypeOK
  BY InductiveInvariant, PTL DEF IInv

(* A call of _call returns the answer to its own request, or nothing, if   *)
(* the server used the same id for a request of its own: late answers to   *)
(* calls that timed out or were cancelled are never taken for it.          *)
THEOREM AnswersMatch == Spec => []OwnAnswer
  BY InductiveInvariant, PTL DEF IInv

(* The lock keeps a request and its answer together.                       *)
THEOREM AnswersKept == Spec => []NoAnswerStolen
  <1>1. IInv => NoAnswerStolen
    BY DEF IInv, LockInv, KeptInv, NoAnswerStolen
  <1>2. QED
    BY <1>1, InductiveInvariant, PTL
-----------------------------------------------------------------------------
(* The task files.                                                         *)

(* Records of the three kinds can be told apart by their status.           *)
LEMMA Kinds == /\ NoFile \notin Tasks
               /\ Broken \notin Tasks
               /\ \A rec \in Tasks : rec.status \in Statuses /\ rec.blocked_by \subseteq Ids
  BY DEF NoFile, Broken, Tasks, Statuses

(* Rewriting a file keeps it a task's, with the same status.               *)
LEMMA WithoutKeeps ==
  ASSUME NEW rec \in Tasks, NEW tid
  PROVE  /\ Without(rec, tid) \in Tasks
         /\ Without(rec, tid).status = rec.status
         /\ Without(rec, tid).blocked_by = rec.blocked_by \ {tid}
  BY DEF Without, Tasks

(* _clear_dependency rewrites tasks' files only, and these lose the        *)
(* dependency and nothing else.                                            *)
LEMMA ClearedTask ==
  ASSUME TaskTypeOK, NEW tid \in Ids, NEW S, S \subseteq Dependents(tid), NEW t \in Ids
  PROVE  /\ Cleared(tid, S)[t] \in Tasks \cup {NoFile, Broken}
         /\ Cleared(tid, S)[t] \in Tasks <=> Whole(t)
         /\ Cleared(tid, S)[t].status = file[t].status
         /\ t \in S => Cleared(tid, S)[t].blocked_by = file[t].blocked_by \ {tid}
         /\ t \notin S => Cleared(tid, S)[t] = file[t]
  <1>1. Cleared(tid, S)[t] = IF t \in S THEN Without(file[t], tid) ELSE file[t]
    BY DEF Cleared
  <1>2. t \in S => file[t] \in Tasks
    BY DEF Dependents, Whole
  <1>3. t \in S => /\ Without(file[t], tid) \in Tasks
                   /\ Without(file[t], tid).status = file[t].status
                   /\ Without(file[t], tid).blocked_by = file[t].blocked_by \ {tid}
    BY <1>2, WithoutKeeps
  <1> QED
    BY <1>1, <1>2, <1>3 DEF Whole, TaskTypeOK

(* The files are typed meanwhile.                                          *)
LEMMA ClearedKeeps ==
  ASSUME TaskTypeOK, NEW tid \in Ids, NEW S, S \subseteq Dependents(tid)
  PROVE  Cleared(tid, S) \in [Ids -> Tasks \cup {NoFile, Broken}]
  <1>1. \A t \in Ids : Cleared(tid, S)[t] \in Tasks \cup {NoFile, Broken}
    BY ClearedTask
  <1> QED
    BY <1>1 DEF Cleared

(* What a call rewrites before it saves its task are files that wait for   *)
(* the task, and all of them if the task is completed.                     *)
LEMMA TouchedAre ==
  ASSUME NEW tid \in Ids, NEW status
  PROVE  /\ Touched(tid, status) \subseteq Dependents(tid)
         /\ status = "completed" => Touched(tid, status) = Dependents(tid)
  BY DEF Touched, Rewritten

(* The record a call saves.                                                *)
LEMMA UpdatedIs ==
  ASSUME TaskTypeOK, NEW tid \in Ids, Whole(tid), NEW status \in Statuses \cup {"same"},
         NEW add \in Lists, NEW remove \in Lists
  PROVE  /\ Updated(tid, status, add, remove) \in Tasks
         /\ Updated(tid, status, add, remove).status \in {status, file[tid].status}
         /\ status = "same" => Updated(tid, status, add, remove).status = file[tid].status
         /\ Updated(tid, status, add, remove).blocked_by \subseteq file[tid].blocked_by \cup add
  BY TaskAssumption DEF Updated, Tasks, Statuses, Whole

(* A new entry of the history is kept if the files have the dependency.    *)
LEMMA LateHas ==
  ASSUME NEW t \in Ids, NEW D, NEW F, NEW x \in Ids, NEW d \in F[x].blocked_by,
         \/ <<x, d>> \in late
         \/ x = t /\ d \in D /\ (d = t \/ file[d].status = "completed")
  PROVE  <<x, d>> \in Late(t, D, F)
  BY DEF Late

(* Types are kept.                                                         *)
LEMMA TaskTypeStep == TaskTypeOK /\ [TaskNext]_taskVars => TaskTypeOK'
  <1> SUFFICES ASSUME TaskTypeOK, [TaskNext]_taskVars
               PROVE  TaskTypeOK'
    OBVIOUS
  <1>1. \A t \in Ids, D \in Lists : \A F : Late(t, D, F) \subseteq Ids \X Ids
    BY TaskAssumption DEF Late, TaskTypeOK
  <1>2. \A t \in Ids : \A F : Late(t, {}, F) \subseteq Ids \X Ids
    BY DEF Late, TaskTypeOK
  <1>3. ASSUME NEW D \in Lists, Create(D)
        PROVE  TaskTypeOK'
    <2>1. [status |-> "open", blocked_by |-> D] \in Tasks
      BY TaskAssumption DEF Tasks, Statuses
    <2>2. nextId' \in 1 .. MaxTasks + 1
      BY <1>3, TaskAssumption DEF Create, Ids, TaskTypeOK
    <2> QED
      BY <1>1, <1>3, <2>1, <2>2 DEF Create, TaskTypeOK
  <1>4. ASSUME NEW D \in Lists, CreateFails(D)
        PROVE  TaskTypeOK'
    BY <1>2, <1>4 DEF CreateFails, TaskTypeOK
  <1>5. ASSUME NEW tid \in Ids, NEW status \in Statuses \cup {"same"},
               NEW add \in Lists, NEW remove \in Lists, Update(tid, status, add, remove)
        PROVE  TaskTypeOK'
    <2>1. Cleared(tid, Touched(tid, status)) \in [Ids -> Tasks \cup {NoFile, Broken}]
      BY ClearedKeeps, TouchedAre
    <2>2. Updated(tid, status, add, remove) \in Tasks
      BY <1>5, UpdatedIs DEF Update
    <2> QED
      BY <1>1, <1>5, <2>1, <2>2 DEF Update, TaskTypeOK
  <1>6. ASSUME NEW tid \in Ids, NEW status \in Statuses \cup {"same"}, UpdateFails(tid, status)
        PROVE  TaskTypeOK'
    <2>1. \A S \in SUBSET Touched(tid, status) :
              Cleared(tid, S) \in [Ids -> Tasks \cup {NoFile, Broken}]
      BY ClearedKeeps, TouchedAre
    <2>2. file' \in [Ids -> Tasks \cup {NoFile, Broken}]
      BY <1>6, <2>1 DEF UpdateFails
    <2> QED
      BY <1>2, <1>6, <2>2 DEF UpdateFails, TaskTypeOK
  <1>7. CASE UNCHANGED taskVars
    BY <1>7 DEF TaskTypeOK, taskVars
  <1> QED
    BY <1>3, <1>4, <1>5, <1>6, <1>7 DEF TaskNext

(* The files, the counter and the history have their types.                *)
THEOREM TaskTypeCorrect == TaskSpec => []TaskTypeOK
  <1>1. TaskInit => TaskTypeOK
    BY TaskAssumption DEF TaskInit, TaskTypeOK, Ids
  <1> QED
    BY <1>1, TaskTypeStep, PTL DEF TaskSpec

(* What makes NobodyForgotten inductive: a task that waits for itself is   *)
(* in the history (completing it does not take it off itself).             *)
SelfIsLate == \A t \in Ids : Whole(t) /\ t \in file[t].blocked_by => <<t, t>> \in late

(* Ids that were not given out have no task.                               *)
IdsAhead == \A t \in Ids : t >= nextId => ~Whole(t)

Waits(t, d) == Whole(t) /\ d \in file[t].blocked_by

TaskInv == TaskTypeOK /\ NobodyForgotten /\ SelfIsLate /\ IdsAhead

(* What holds of a dependency (t on d) of the new files that the old had.  *)
LEMMA OldEntry ==
  ASSUME TaskInv, NEW t \in Ids, NEW d \in Ids, Waits(t, d),
         d = t \/ file[d].status = "completed"
  PROVE  <<t, d>> \in late
  BY DEF TaskInv, NobodyForgotten, SelfIsLate, Waits

(* The history covers a step if each dependency of the new files, on the   *)
(* task itself or on a completed one, was there for that reason before or  *)
(* is added by the call.                                                   *)
LEMMA HistoryStep ==
  ASSUME TaskInv, TaskTypeOK', NEW u \in Ids, NEW D \in SUBSET Ids, late' = Late(u, D, file'),
         \A t, d \in Ids : Waits(t, d)' /\ (d = t \/ file'[d].status = "completed") =>
            \/ Waits(t, d) /\ (d = t \/ file[d].status = "completed")
            \/ t = u /\ d \in D /\ (d = t \/ file[d].status = "completed")
  PROVE  NobodyForgotten' /\ SelfIsLate'
  <1>1. ASSUME NEW t \in Ids, NEW d \in Ids, Waits(t, d)',
               d = t \/ file'[d].status = "completed"
        PROVE  <<t, d>> \in late'
    <2>1. \/ <<t, d>> \in late
          \/ t = u /\ d \in D /\ (d = u \/ file[d].status = "completed")
      BY <1>1, OldEntry
    <2> QED
      BY <1>1, <2>1, LateHas DEF Waits
  <1> QED
    BY <1>1 DEF NobodyForgotten, SelfIsLate, Waits

(* A call that fails leaves no dependency and no completed task that was   *)
(* not there.                                                              *)
LEMMA FailureLoses ==
  ASSUME TaskTypeOK, NEW tid \in Ids, NEW S, S \subseteq Dependents(tid), NEW f \in Ids,
         file' = [Cleared(tid, S) EXCEPT ![f] = Broken]
  PROVE  \A t \in Ids :
            /\ Whole(t)' => Whole(t) /\ file'[t].blocked_by \subseteq file[t].blocked_by
            /\ file'[t].status = "completed" => file[t].status = "completed"
  <1>1. \A t \in Ids : file'[t] = IF t = f THEN Broken ELSE Cleared(tid, S)[t]
    BY DEF Cleared
  <1>2. Broken \notin Tasks /\ Broken.status # "completed"
    BY Kinds DEF Broken
  <1>3. \A t \in Ids :
           /\ Cleared(tid, S)[t] \in Tasks <=> Whole(t)
           /\ Cleared(tid, S)[t].status = file[t].status
           /\ Whole(t) => Cleared(tid, S)[t].blocked_by \subseteq file[t].blocked_by
    <2> TAKE t \in Ids
    <2> QED
      BY ClearedTask
  <1> QED
    BY <1>1, <1>2, <1>3 DEF Whole

(* No call breaks the invariant, whatever write fails.                     *)
LEMMA TaskInvStep == TaskInv /\ [TaskNext]_taskVars => TaskInv'
  <1> SUFFICES ASSUME TaskInv, [TaskNext]_taskVars
               PROVE  TaskInv'
    OBVIOUS
  <1> USE DEF Waits, Whole
  <1>1. TaskTypeOK /\ TaskTypeOK'
    BY TaskTypeStep DEF TaskInv
  <1>2. ASSUME NEW D \in Lists, Create(D)
        PROVE  TaskInv'
    <2>1. file' = [file EXCEPT ![nextId] = [status |-> "open", blocked_by |-> D]]
      BY <1>2 DEF Create
    <2>2. \A t \in Ids : t # nextId => file'[t] = file[t]
      BY <1>1, <2>1 DEF TaskTypeOK
    <2>3. file'[nextId] = [status |-> "open", blocked_by |-> D] /\ nextId \in Ids
      BY <1>1, <1>2, <2>1 DEF TaskTypeOK, Create
    <2>4. NobodyForgotten' /\ SelfIsLate'
      <3>1. \A t, d \in Ids : Waits(t, d)' /\ (d = t \/ file'[d].status = "completed") =>
              \/ Waits(t, d) /\ (d = t \/ file[d].status = "completed")
              \/ t = nextId /\ d \in D /\ (d = t \/ file[d].status = "completed")
        BY <2>2, <2>3
      <3> QED
        BY <1>1, <1>2, <2>3, <3>1, HistoryStep, TaskAssumption DEF Create
    <2>5. IdsAhead'
      BY <1>1, <1>2, <2>2 DEF TaskInv, IdsAhead, Create, Ids, TaskTypeOK
    <2> QED
      BY <1>1, <2>4, <2>5 DEF TaskInv
  <1>3. ASSUME NEW D \in Lists, CreateFails(D)
        PROVE  TaskInv'
    <2>1. \A t \in Ids : file'[t] = IF t = nextId THEN Broken ELSE file[t]
      BY <1>1, <1>3 DEF CreateFails, TaskTypeOK
    <2>2. \A t \in Ids : Whole(t)' => Whole(t) /\ file'[t] = file[t]
      BY <2>1, Kinds
    <2>3. \A d \in Ids : file'[d].status = "completed" => file[d].status = "completed"
      BY <2>1 DEF Broken
    <2>4. NobodyForgotten' /\ SelfIsLate'
      BY <1>1, <1>3, <2>2, <2>3, HistoryStep DEF CreateFails
    <2>5. IdsAhead'
      BY <1>3, <2>2 DEF TaskInv, IdsAhead, CreateFails
    <2> QED
      BY <1>1, <2>4, <2>5 DEF TaskInv
  <1>4. ASSUME NEW tid \in Ids, NEW status \in Statuses \cup {"same"},
               NEW add \in Lists, NEW remove \in Lists, Update(tid, status, add, remove)
        PROVE  TaskInv'
    <2> DEFINE F == Cleared(tid, Touched(tid, status))
               U == Updated(tid, status, add, remove)
    <2>1. /\ U \in Tasks
          /\ U.status \in {status, file[tid].status}
          /\ status = "same" => U.status = file[tid].status
          /\ U.blocked_by \subseteq file[tid].blocked_by \cup add
      BY <1>1, <1>4, UpdatedIs DEF Update
    <2>2. \A t \in Ids : file'[t] = IF t = tid THEN U ELSE F[t]
      <3>1. F \in [Ids -> Tasks \cup {NoFile, Broken}]
        BY <1>1, ClearedKeeps, TouchedAre
      <3> QED
        BY <1>4, <3>1 DEF Update
    <2>3. \A t \in Ids :
             /\ F[t] \in Tasks <=> Whole(t)
             /\ F[t].status = file[t].status
             /\ t \in Touched(tid, status) => F[t].blocked_by = file[t].blocked_by \ {tid}
             /\ t \notin Touched(tid, status) => F[t] = file[t]
      <3> HIDE DEF Whole
      <3>1. Touched(tid, status) \subseteq Dependents(tid)
        BY TouchedAre
      <3> TAKE t \in Ids
      <3> QED
        BY <1>1, <3>1, ClearedTask
    <2>4. Whole(tid)
      BY <1>4 DEF Update
    <2>5. NobodyForgotten' /\ SelfIsLate'
      <3>1. ASSUME NEW t \in Ids, NEW d \in Ids, Waits(t, d)',
                   d = t \/ file'[d].status = "completed"
            PROVE  \/ Waits(t, d) /\ (d = t \/ file[d].status = "completed")
                   \/ t = tid /\ d \in add /\ (d = t \/ file[d].status = "completed")
        <4>1. CASE t = tid
          BY <2>1, <2>2, <2>3, <2>4, <3>1, <4>1
        <4>2. CASE t # tid
          <5>1. Waits(t, d)
            BY <2>2, <2>3, <3>1, <4>2
          <5>2. CASE d # tid
            BY <2>2, <2>3, <3>1, <5>1, <5>2
          <5>3. CASE d = tid /\ status = "completed"
            <6>1. t \in Touched(tid, status)
              BY <5>1, <5>3, TouchedAre DEF Dependents
            <6>2. file'[t].blocked_by = file[t].blocked_by \ {tid}
              BY <2>2, <2>3, <4>2, <5>1, <6>1
            <6> QED
              BY <3>1, <5>3, <6>2
          <5>4. CASE d = tid /\ status # "completed"
            BY <2>1, <2>2, <3>1, <4>2, <5>1, <5>4
          <5> QED
            BY <5>2, <5>3, <5>4
        <4> QED
          BY <4>1, <4>2
      <3>2. add \in SUBSET Ids /\ late' = Late(tid, add, file')
        BY <1>4, TaskAssumption DEF Update
      <3> QED
        BY <1>1, <3>1, <3>2, HistoryStep
    <2>6. IdsAhead'
      BY <1>4, <2>2, <2>3, <2>4 DEF TaskInv, IdsAhead, Update
    <2> QED
      BY <1>1, <2>5, <2>6 DEF TaskInv
  <1>5. ASSUME NEW tid \in Ids, NEW status \in Statuses \cup {"same"}, UpdateFails(tid, status)
        PROVE  TaskInv'
    <2>1. PICK S \in SUBSET Dependents(tid), f \in Ids :
              file' = [Cleared(tid, S) EXCEPT ![f] = Broken]
      BY <1>5, TouchedAre DEF UpdateFails, Dependents
    <2>2. S \subseteq Dependents(tid)
      OBVIOUS
    <2>3. \A t \in Ids :
             /\ Whole(t)' => Whole(t) /\ file'[t].blocked_by \subseteq file[t].blocked_by
             /\ file'[t].status = "completed" => file[t].status = "completed"
      BY <1>1, <2>1, <2>2, FailureLoses
    <2>4. NobodyForgotten' /\ SelfIsLate'
      BY <1>1, <1>5, <2>3, HistoryStep DEF UpdateFails
    <2>5. IdsAhead'
      BY <1>5, <2>3 DEF TaskInv, IdsAhead, UpdateFails
    <2> QED
      BY <1>1, <2>4, <2>5 DEF TaskInv
  <1>6. CASE UNCHANGED taskVars
    BY <1>6 DEF TaskInv, TaskTypeOK, NobodyForgotten, SelfIsLate, IdsAhead, taskVars
  <1> QED
    BY <1>2, <1>3, <1>4, <1>5, <1>6 DEF TaskNext

(* It holds in every reachable state.                                      *)
LEMMA TaskInvHolds == TaskSpec => []TaskInv
  <1>1. TaskInit => TaskInv
    BY TaskAssumption, Kinds
    DEF TaskInit, TaskInv, TaskTypeOK, Ids, NobodyForgotten, SelfIsLate, IdsAhead, Whole
  <1> QED
    BY <1>1, TaskInvStep, PTL DEF TaskSpec

(* Whatever calls are made and whatever writes fail, a task waits for a    *)
(* completed one only if it was made to after the completion, or by itself.*)
THEOREM ForgottenByNone == TaskSpec => []NobodyForgotten
  BY TaskInvHolds, PTL DEF TaskInv

(* No call makes a task in the place of another, and a dependency goes     *)
(* only for one of the reasons NothingLost lists.                          *)
THEOREM LostByNone == TaskSpec => NothingLost
  <1> DEFINE A == /\ nextId' # nextId => ~Whole(nextId)
                  /\ \A t \in Ids : Whole(t) /\ Whole(t)' =>
                        \A d \in file[t].blocked_by \ file'[t].blocked_by :
                           \/ file'[d].status = "completed"
                           \/ \E x \in Ids : Whole(x) /\ ~Whole(x)'
                           \/ \A x \in Ids \ {t} : LosesOnly(x, t)
  <1>1. TaskInv /\ [TaskNext]_taskVars => [A]_taskVars
    <2> SUFFICES ASSUME TaskInv, TaskNext
                 PROVE  A
      BY DEF taskVars
    <2>0. TaskTypeOK
      BY DEF TaskInv
    <2>1. ASSUME NEW D \in Lists, Create(D)
          PROVE  A
      <3>1. \A t \in Ids : t # nextId => file'[t] = file[t]
        BY <2>0, <2>1 DEF Create, TaskTypeOK
      <3>2. nextId \in Ids /\ ~Whole(nextId)
        BY <2>1 DEF Create, TaskInv, IdsAhead, Ids
      <3> QED
        BY <3>1, <3>2
    <2>2. ASSUME NEW D \in Lists, CreateFails(D)
          PROVE  A
      <3>1. \A t \in Ids : file'[t] = IF t = nextId THEN Broken ELSE file[t]
        BY <2>0, <2>2 DEF CreateFails, TaskTypeOK
      <3> QED
        BY <2>2, <3>1, Kinds DEF CreateFails, Whole
    <2>3. ASSUME NEW tid \in Ids, NEW status \in Statuses \cup {"same"},
                 NEW add \in Lists, NEW remove \in Lists, Update(tid, status, add, remove)
          PROVE  A
      <3> DEFINE F == Cleared(tid, Touched(tid, status))
                 U == Updated(tid, status, add, remove)
      <3>1. F \in [Ids -> Tasks \cup {NoFile, Broken}]
        BY <2>0, ClearedKeeps, TouchedAre
      <3>2. \A t \in Ids : file'[t] = IF t = tid THEN U ELSE F[t]
        BY <2>3, <3>1 DEF Update
      <3>3. \A t \in Ids :
               F[t] = IF t \in Touched(tid, status) THEN Without(file[t], tid) ELSE file[t]
        BY DEF Cleared
      <3>4. \A t \in Ids \ {tid} : LosesOnly(t, tid)
        <4> TAKE t \in Ids \ {tid}
        <4>1. file'[t] = IF t \in Touched(tid, status) THEN Without(file[t], tid) ELSE file[t]
          BY <3>2, <3>3
        <4>2. /\ Without(file[t], tid).status = file[t].status
              /\ Without(file[t], tid).blocked_by = file[t].blocked_by \ {tid}
          BY DEF Without
        <4> QED
          BY <4>1, <4>2 DEF LosesOnly
      <3>5. ASSUME NEW t \in Ids, Whole(t),
                   NEW d \in file[t].blocked_by \ file'[t].blocked_by, t # tid
            PROVE  file'[d].status = "completed"
        <4>1. t \in Touched(tid, status) /\ d = tid
          <5>1. file'[t] = F[t]
            BY <3>2, <3>5
          <5>2. t \in Touched(tid, status)
            BY <3>3, <3>5, <5>1
          <5>3. F[t].blocked_by = file[t].blocked_by \ {tid}
            BY <5>2 DEF Cleared, Without
          <5> QED
            BY <3>5, <5>1, <5>2, <5>3
        <4>2. status = "completed" /\ U.status = "completed"
          BY <4>1 DEF Touched, Updated
        <4> QED
          BY <3>2, <4>1, <4>2
      <3>6. nextId' = nextId
        BY <2>3 DEF Update
      <3> QED
        BY <3>4, <3>5, <3>6
    <2>4. ASSUME NEW tid \in Ids, NEW status \in Statuses \cup {"same"},
                 UpdateFails(tid, status)
          PROVE  A
      <3>1. PICK S \in SUBSET Dependents(tid), f \in Ids :
                /\ file' = [Cleared(tid, S) EXCEPT ![f] = Broken]
                /\ Whole(f)
        BY <2>4, TouchedAre DEF UpdateFails, Dependents
      <3>2. file'[f] = Broken
        <4>1. Cleared(tid, S) \in [Ids -> Tasks \cup {NoFile, Broken}]
          BY <2>0, ClearedKeeps
        <4> QED
          BY <3>1, <4>1
      <3> QED
        BY <2>4, <3>1, <3>2, Kinds DEF UpdateFails, Whole
    <2> QED
      BY <2>1, <2>2, <2>3, <2>4 DEF TaskNext
  <1> QED
    BY <1>1, TaskInvHolds, PTL DEF TaskSpec, NothingLost
=============================================================================
