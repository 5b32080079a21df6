------------------------- MODULE AtMostOnceProofs -------------------------
(***************************************************************************)
(* What is left of the order of the answers when scripts may do anything:  *)
(* close handles whose queries are under way, reuse their slots, and call  *)
(* mysql_init on both threads at once.                                     *)
(***************************************************************************)
EXTENDS QueryThreadProofs

USE ParameterAssumption

(***************************************************************************)
(* The elements of a queue, and queues in increasing order.                *)
(***************************************************************************)
LEMMA EmptyElements == Elements(<<>>) = {} /\ Increasing(<<>>) /\ <<>> \in Seq(Nat)
BY DEF Elements, Increasing

LEMMA TailElements ==
    ASSUME NEW s \in Seq(Nat), s # <<>>
    PROVE  /\ Head(s) \in Nat
           /\ Tail(s) \in Seq(Nat)
           /\ Elements(s) = {Head(s)} \cup Elements(Tail(s))
           /\ Increasing(s) =>
                 Increasing(Tail(s)) /\ AllLess({Head(s)}, Elements(Tail(s)))
<1> DEFINE t == Tail(s)
<1>1. /\ Len(s) \in Nat /\ Len(s) >= 1 /\ Head(s) = s[1]
      /\ t \in Seq(Nat) /\ Len(t) = Len(s) - 1
      /\ \A i \in 1 .. Len(s) - 1 : t[i] = s[i + 1]
  BY TailFacts
<1>2. \A i \in 1 .. Len(s) : s[i] \in Nat  OBVIOUS
<1> HIDE DEF t
<1>3. ASSUME NEW x \in Elements(s) PROVE x = s[1] \/ x \in Elements(t)
  <2> PICK i \in 1 .. Len(s) : x = s[i]  BY DEF Elements
  <2>1. CASE i = 1  BY <2>1
  <2>2. CASE i # 1
    <3>1. i - 1 \in 1 .. Len(t) /\ t[i - 1] = s[i]  BY <1>1, <2>2
    <3> QED  BY <3>1 DEF Elements
  <2> QED  BY <2>1, <2>2
<1>4. ASSUME NEW x \in Elements(t) PROVE \E i \in 2 .. Len(s) : x = s[i]
  <2> PICK i \in 1 .. Len(t) : x = t[i]  BY DEF Elements
  <2>1. i + 1 \in 2 .. Len(s) /\ t[i] = s[i + 1]  BY <1>1
  <2> QED  BY <2>1
<1>5. Elements(s) = {Head(s)} \cup Elements(t)
  <2>1. s[1] \in Elements(s)  BY <1>1 DEF Elements
  <2>2. Elements(t) \subseteq Elements(s)
    <3> SUFFICES ASSUME NEW x \in Elements(t) PROVE x \in Elements(s)  OBVIOUS
    <3>1. PICK i \in 2 .. Len(s) : x = s[i]  BY <1>4
    <3>2. i \in 1 .. Len(s)  BY <1>1
    <3> QED  BY <3>1, <3>2 DEF Elements
  <2> QED  BY <1>1, <1>3, <2>1, <2>2
<1>6. ASSUME Increasing(s) PROVE Increasing(t) /\ AllLess({Head(s)}, Elements(t))
  <2>1. ASSUME NEW i \in 1 .. Len(t), NEW j \in 1 .. Len(t), i < j PROVE t[i] < t[j]
    <3>1. i + 1 \in 1 .. Len(s) /\ j + 1 \in 1 .. Len(s) /\ i + 1 < j + 1  BY <1>1, <2>1
    <3>2. t[i] = s[i + 1] /\ t[j] = s[j + 1]  BY <1>1
    <3> QED  BY <1>6, <3>1, <3>2 DEF Increasing
  <2>2. ASSUME NEW x \in Elements(t) PROVE s[1] < x
    <3>1. PICK i \in 2 .. Len(s) : x = s[i]  BY <1>4
    <3>2. 1 \in 1 .. Len(s) /\ i \in 1 .. Len(s) /\ 1 < i  BY <1>1
    <3> QED  BY <1>6, <3>1, <3>2 DEF Increasing
  <2> QED  BY <1>1, <2>1, <2>2 DEF Increasing, AllLess
<1> QED  BY <1>1, <1>2, <1>5, <1>6 DEF t

LEMMA AppendElements ==
    ASSUME NEW s \in Seq(Nat), NEW e \in Nat
    PROVE  /\ Append(s, e) \in Seq(Nat)
           /\ Elements(Append(s, e)) = Elements(s) \cup {e}
           /\ Increasing(s) /\ AllLess(Elements(s), {e}) => Increasing(Append(s, e))
<1> DEFINE a == Append(s, e)
<1>1. /\ a \in Seq(Nat) /\ Len(a) = Len(s) + 1 /\ Len(s) \in Nat
      /\ \A i \in 1 .. Len(s) : a[i] = s[i]
      /\ a[Len(s) + 1] = e
  BY AppendFacts
<1> HIDE DEF a
<1>2. \A i \in 1 .. Len(a) : i \in 1 .. Len(s) \/ i = Len(s) + 1  BY <1>1
<1>3. 1 .. Len(s) \subseteq 1 .. Len(a) /\ Len(s) + 1 \in 1 .. Len(a)  BY <1>1
<1>4. Elements(a) = Elements(s) \cup {e}  BY <1>1, <1>2, <1>3 DEF Elements
<1>5. ASSUME Increasing(s), AllLess(Elements(s), {e}),
             NEW i \in 1 .. Len(a), NEW j \in 1 .. Len(a), i < j
      PROVE  a[i] < a[j]
  <2>1. i \in 1 .. Len(s)  BY <1>1, <1>2, <1>5
  <2>2. CASE j \in 1 .. Len(s)  BY <1>1, <1>5, <2>1, <2>2 DEF Increasing
  <2>3. CASE j = Len(s) + 1
    <3>1. s[i] \in Elements(s)  BY <2>1 DEF Elements
    <3> QED  BY <1>1, <1>5, <2>1, <2>3, <3>1 DEF AllLess
  <2> QED  BY <1>2, <2>2, <2>3
<1> QED  BY <1>1, <1>4, <1>5 DEF a, Increasing

LEMMA RestElements ==
    ASSUME NEW s \in Seq(Nat)
    PROVE  /\ Rest(s) \in Seq(Nat)
           /\ Elements(Rest(s)) \subseteq Elements(s)
BY TailElements, EmptyElements DEF Rest

(***************************************************************************)
(* OnceInv is inductive.  A step that answers nothing and makes no query   *)
(* keeps the order of a handle if the numbers are where they were or gone. *)
(***************************************************************************)
LEMMA InitOnce == Init => OnceInv
<1> SUFFICES ASSUME Init, NEW h \in Handles
             PROVE  InOrder(h) /\ (AtMostOnce)
  BY DEF OnceInv, Handles
<1>1. /\ threadQueue[h] = <<>> /\ queryQueue[h] = <<>> /\ answered[h] = <<>>
      /\ Unsent(h) = <<>> /\ InHand(h) = {} /\ Undelivered(h) = <<>>
  BY DEF Init, Unsent, InHand, Undelivered, Rest
<1>2. AnsweredQueries(h) = {}  BY <1>1 DEF AnsweredQueries
<1>3. InOrder(h)  BY <1>1, <1>2, EmptyElements DEF InOrder, AllLess
<1>4. AtMostOnce  BY DEF Init, AtMostOnce
<1> QED  BY <1>3, <1>4

LEMMA Shrinks ==
    ASSUME NEW h \in Handles, InOrder(h),
           answered'[h] = answered[h], issued'[h] = issued[h],
           Increasing(threadQueue'[h]), Increasing(queryQueue'[h]),
           Elements(threadQueue'[h]) \subseteq Elements(threadQueue[h]),
           Elements(queryQueue'[h]) \subseteq Elements(queryQueue[h]),
           InHand(h)' \subseteq InHand(h),
           Elements(Unsent(h)') \subseteq Elements(Unsent(h)),
           Elements(Undelivered(h)') \subseteq Elements(Undelivered(h))
    PROVE  InOrder(h)'
<1>1. AnsweredQueries(h)' = AnsweredQueries(h)  BY DEF AnsweredQueries
<1> QED  BY <1>1 DEF InOrder, AllLess, Increasing, Elements

(* Where every queue is as it was, only the two threads' positions matter. *)
LEMMA Quiet ==
    ASSUME OnceInv, UNCHANGED <<queryQueue, threadQueue, history>>,
           \A h \in Handles : InHand(h)' \subseteq InHand(h)
                              /\ Elements(Unsent(h)') \subseteq Elements(Unsent(h))
                              /\ Elements(Undelivered(h)') \subseteq Elements(Undelivered(h))
    PROVE  OnceInv'
<1>1. ASSUME NEW h \in Handles PROVE InOrder(h)'
  <2>1. /\ answered'[h] = answered[h] /\ issued'[h] = issued[h]
        /\ threadQueue'[h] = threadQueue[h] /\ queryQueue'[h] = queryQueue[h]
        /\ InOrder(h)
    BY DEF history, OnceInv
  <2>2. Increasing(threadQueue'[h]) /\ Increasing(queryQueue'[h])  BY <2>1 DEF InOrder
  <2> QED  BY <2>1, <2>2, Shrinks
<1>2. AtMostOnce'  BY DEF OnceInv, AtMostOnce, history
<1> QED  BY <1>1, <1>2 DEF OnceInv

(* A query of h that was not answered before, and that comes after those   *)
(* the same callback was made for.                                         *)
NotYet(h, q, c) ==
    /\ q \in 1 .. issued[h]
    /\ \A i \in 1 .. Len(answered[h]) :
          /\ answered[h][i].query # q
          /\ answered[h][i].callback = c => answered[h][i].query < q

LEMMA AnsweredNumbers ==
    ASSUME TypeOK, NEW h \in Handles
    PROVE  \A i \in 1 .. Len(answered[h]) : answered[h][i].query \in Nat
<1> DEFINE S == [query : Nat, callback : Callbacks]
<1>1. answered[h] \in Seq(S)  BY DEF TypeOK, HistoryTypes
<1>2. \A i \in 1 .. Len(answered[h]) : answered[h][i] \in S
  <2> HIDE DEF S
  <2> QED  BY <1>1
<1> QED  BY <1>2

(* So it is for the query that Error() is called for, ... *)
LEMMA ReportNew ==
    ASSUME TypeOK, OnceInv, NEW h \in Handles, InHand(h) = {qcur}
    PROVE  NotYet(h, qcur, "OnMysqlError")
<1>1. InOrder(h) /\ qcur \in Nat  BY DEF OnceInv, TypeOK, ThreadTypes
<1>2. qcur \in 1 .. issued[h]  BY <1>1 DEF InOrder
<1>3. \A i \in 1 .. Len(answered[h]) : answered[h][i].query < qcur
  BY <1>1 DEF InOrder, AllLess, AnsweredQueries
<1> QED  BY <1>1, <1>2, <1>3, AnsweredNumbers DEF NotYet

(* ... and for the oldest of the results that ProcessTick delivers. *)
LEMMA DeliverNew ==
    ASSUME TypeOK, OnceInv, NEW h \in Handles,
           Undelivered(h) = threadQueue[h], threadQueue[h] # <<>>
    PROVE  NotYet(h, Head(threadQueue[h]), "OnMysqlQuery")
<1> DEFINE d == Head(threadQueue[h])
<1>1. InOrder(h) /\ threadQueue[h] \in Seq(Nat)  BY DEF OnceInv, TypeOK, QueueTypes
<1>2. d \in Elements(threadQueue[h])  BY <1>1, TailElements
<1> HIDE DEF d
<1>3. d \in 1 .. issued[h]  BY <1>1, <1>2 DEF InOrder
<1>4. \A i \in 1 .. Len(answered[h]) :
          /\ answered[h][i].query # d
          /\ answered[h][i].callback = "OnMysqlQuery" => answered[h][i].query < d
  BY <1>1, <1>2 DEF InOrder
<1> QED  BY <1>3, <1>4 DEF NotYet, d

LEMMA RecordOnce ==
    ASSUME TypeOK, AtMostOnce, NEW h \in Handles, NEW q, NEW c \in Callbacks,
           Record(h, q, c), NotYet(h, q, c)
    PROVE  /\ AtMostOnce'
           /\ \A g \in Handles : g # h => answered'[g] = answered[g]
           /\ AnsweredQueries(h)' = AnsweredQueries(h) \cup {q}
           /\ \A i \in 1 .. Len(answered'[h]) :
                 \/ i \in 1 .. Len(answered[h]) /\ answered'[h][i] = answered[h][i]
                 \/ answered'[h][i].query = q /\ answered'[h][i].callback = c
<1> DEFINE S == [query : Nat, callback : Callbacks]
           e == [query |-> q, callback |-> c]
<1>1. answered \in [Handles -> Seq(S)]  BY DEF TypeOK, HistoryTypes
<1>2. answered[h] \in Seq(S) /\ e \in S
  <2>1. q \in Nat  BY DEF NotYet, TypeOK, HistoryTypes
  <2> QED  BY <1>1, <2>1
<1>3. /\ answered'[h] = Append(answered[h], e)
      /\ \A g \in Handles : g # h => answered'[g] = answered[g]
  BY <1>1 DEF Record
<1>4. e.query = q /\ e.callback = c  OBVIOUS
<1> HIDE DEF S, e
<1>5. /\ Len(answered[h]) \in Nat
      /\ Len(answered'[h]) = Len(answered[h]) + 1
      /\ \A i \in 1 .. Len(answered[h]) : answered'[h][i] = answered[h][i]
      /\ answered'[h][Len(answered[h]) + 1] = e
  BY <1>2, <1>3, AppendFacts
<1>6. /\ \A i \in 1 .. Len(answered'[h]) :
            i \in 1 .. Len(answered[h]) \/ i = Len(answered[h]) + 1
      /\ 1 .. Len(answered[h]) \subseteq 1 .. Len(answered'[h])
      /\ Len(answered[h]) + 1 \in 1 .. Len(answered'[h])
  BY <1>5
<1>7. AnsweredQueries(h)' = AnsweredQueries(h) \cup {q}
  <2>1. ASSUME NEW i \in 1 .. Len(answered'[h])
        PROVE  answered'[h][i].query \in AnsweredQueries(h) \cup {q}
    BY <1>4, <1>5, <1>6 DEF AnsweredQueries
  <2>2. ASSUME NEW i \in 1 .. Len(answered[h])
        PROVE  answered[h][i].query \in AnsweredQueries(h)'
    <3>1. i \in 1 .. Len(answered'[h]) /\ answered'[h][i] = answered[h][i]  BY <1>5, <1>6
    <3> QED  BY <3>1 DEF AnsweredQueries
  <2>3. q \in AnsweredQueries(h)'
    <3>1. /\ Len(answered[h]) + 1 \in 1 .. Len(answered'[h])
          /\ answered'[h][Len(answered[h]) + 1].query = q
      BY <1>4, <1>5, <1>6
    <3> QED  BY <3>1 DEF AnsweredQueries
  <2>4. AnsweredQueries(h)' \subseteq AnsweredQueries(h) \cup {q}
    BY <2>1 DEF AnsweredQueries
  <2>5. AnsweredQueries(h) \subseteq AnsweredQueries(h)'
    <3> SUFFICES ASSUME NEW x \in AnsweredQueries(h) PROVE x \in AnsweredQueries(h)'
      OBVIOUS
    <3> PICK i \in 1 .. Len(answered[h]) : x = answered[h][i].query  BY DEF AnsweredQueries
    <3> QED  BY <2>2
  <2> QED  BY <2>3, <2>4, <2>5
<1>8. AtMostOnce'
  <2> SUFFICES ASSUME NEW g \in Handles, NEW i \in 1 .. Len(answered'[g]),
                      NEW j \in 1 .. Len(answered'[g]), i < j
               PROVE  /\ answered'[g][i].query # answered'[g][j].query
                      /\ answered'[g][i].callback = answered'[g][j].callback =>
                            answered'[g][i].query < answered'[g][j].query
    BY DEF AtMostOnce
  <2>1. CASE g # h  BY <1>3, <2>1 DEF AtMostOnce
  <2>2. CASE g = h
    <3>1. i \in 1 .. Len(answered[h])  BY <1>5, <1>6, <2>2
    <3>2. CASE j \in 1 .. Len(answered[h])
      <4>1. /\ answered[h][i].query # answered[h][j].query
            /\ answered[h][i].callback = answered[h][j].callback =>
                  answered[h][i].query < answered[h][j].query
        BY <3>1, <3>2 DEF AtMostOnce
      <4>2. answered'[h][i] = answered[h][i] /\ answered'[h][j] = answered[h][j]
        BY <1>5, <3>1, <3>2
      <4> QED  BY <2>2, <4>1, <4>2
    <3>3. CASE j = Len(answered[h]) + 1  BY <1>4, <1>5, <2>2, <3>1, <3>3 DEF NotYet
    <3> QED  BY <1>6, <2>2, <3>2, <3>3
  <2> QED  BY <2>1, <2>2
<1> QED  BY <1>3, <1>4, <1>5, <1>6, <1>7, <1>8

LEMMA CrashOnce == ASSUME OnceInv, NEW f, Crash(f) PROVE OnceInv'
<1>1. UNCHANGED <<queryQueue, threadQueue, history>>  BY DEF Crash, queueVars
<1>2. ASSUME NEW h \in Handles
      PROVE  InHand(h)' = InHand(h) /\ Unsent(h)' = Unsent(h) /\ Undelivered(h)' = Undelivered(h)
  BY DEF Crash, queueVars, threadVars, tickVars, InHand, Unsent, Undelivered
<1> QED  BY <1>1, <1>2, Quiet

(* The query thread moves on, without a query taken, answered or popped.   *)
LEMMA MoveOnce ==
    ASSUME OnceInv, UNCHANGED <<queueVars, tickVars, history, qcur>>,
           \/ qpc \in {"start", "scan", "exited", "check"} /\ qpc' \in {"scan", "exited", "check"}
           \/ qpc \in {"executing", "executed"} /\ qpc' \in {"executed", "push"} /\ qh' = qh
           \/ qpc = "error" /\ qpc' = "pop" /\ qh' = qh
    PROVE  OnceInv'
<1>1. UNCHANGED <<queryQueue, threadQueue, history>>  BY DEF queueVars
<1>2. ASSUME NEW h \in Handles
      PROVE  InHand(h)' \subseteq InHand(h) /\ Unsent(h)' = Unsent(h)
             /\ Undelivered(h)' = Undelivered(h)
  <2>1. InHand(h)' \subseteq InHand(h)  BY DEF InHand
  <2>2. Unsent(h)' = Unsent(h)  BY DEF Unsent, AtHandle, queueVars
  <2>3. Undelivered(h)' = Undelivered(h)  BY DEF Undelivered, tickVars, queueVars
  <2> QED  BY <2>1, <2>2, <2>3
<1> QED  BY <1>1, <1>2, Quiet

(* The query taken is the first of those not sent. *)
LEMMA TakeOnce == ASSUME TypeOK, OnceInv, TakeQuery PROVE OnceInv'
<1>1. /\ qpc = "check" /\ qpc' = "executing" /\ qh' = qh /\ qh \in Handles
      /\ qcur' = Head(queryQueue[qh]) /\ queryQueue[qh] # <<>>
      /\ UNCHANGED <<queueVars, tickVars, history>>
  BY DEF TakeQuery, ReadyToExecute, TypeOK, ThreadTypes, AtHandle
<1>2. AtMostOnce'  BY <1>1 DEF OnceInv, AtMostOnce, history
<1>3. ASSUME NEW h \in Handles PROVE InOrder(h)'
  <2>1. /\ threadQueue' = threadQueue /\ queryQueue' = queryQueue
        /\ issued' = issued /\ answered' = answered /\ Undelivered(h)' = Undelivered(h)
        /\ AnsweredQueries(h)' = AnsweredQueries(h) /\ InOrder(h)
    BY <1>1 DEF queueVars, tickVars, history, Undelivered, AnsweredQueries, OnceInv
  <2>2. CASE h # qh
    <3>1. InHand(h)' = InHand(h) /\ Unsent(h)' = Unsent(h)
      BY <1>1, <2>1, <2>2 DEF InHand, Unsent
    <3> QED  BY <2>1, <3>1 DEF InOrder, Increasing, AllLess, Elements
  <2>3. CASE h = qh
    <3> DEFINE q == queryQueue[h]
    <3>1. q \in Seq(Nat) /\ q # <<>>  BY <1>1, <2>3 DEF TypeOK, QueueTypes
    <3>2. /\ InHand(h)' = {Head(q)} /\ Unsent(h)' = Tail(q) /\ Unsent(h) = q
      BY <1>1, <2>1, <2>3 DEF InHand, Unsent, AtHandle, Rest
    <3>3. Elements(q) = {Head(q)} \cup Elements(Tail(q)) /\ Head(q) \in Nat
      <4> HIDE DEF q
      <4> QED  BY <3>1, TailElements
    <3>4. AllLess({Head(q)}, Elements(Tail(q)))
      <4>1. Increasing(q)  BY <2>1 DEF InOrder
      <4> HIDE DEF q
      <4> QED  BY <3>1, <4>1, TailElements
    <3>5. /\ AllLess(Elements(threadQueue[h]), Elements(q))
          /\ AllLess(AnsweredQueries(h), Elements(q))
          /\ \A n \in Elements(q) : n \in 1 .. issued[h]
      BY <2>1, <3>2 DEF InOrder, AllLess
    <3>6. \A n \in {Head(q)} : n \in 1 .. issued[h]  BY <3>3, <3>5
    <3>7. /\ AllLess(Elements(threadQueue[h]), {Head(q)})
          /\ AllLess(Elements(threadQueue[h]) \cup {Head(q)}, Elements(Tail(q)))
          /\ AllLess(AnsweredQueries(h), {Head(q)} \cup Elements(Tail(q)))
      BY <3>3, <3>4, <3>5 DEF AllLess
    <3> HIDE DEF q
    <3>8. Elements(Unsent(h)') = Elements(Tail(q))  BY <3>2
    <3>9. /\ Increasing(threadQueue[h]) /\ Increasing(queryQueue[h])
          /\ \A n \in Elements(threadQueue[h]) \cup Elements(queryQueue[h])
                      \cup AnsweredQueries(h) : n \in 1 .. issued[h]
          /\ \A i \in 1 .. Len(answered[h]), n \in Elements(Undelivered(h)) :
                /\ answered[h][i].query # n
                /\ answered[h][i].callback = "OnMysqlQuery" => answered[h][i].query < n
      BY <2>1 DEF InOrder
    <3> QED  BY <2>1, <3>2, <3>6, <3>7, <3>8, <3>9 DEF InOrder
  <2> QED  BY <2>2, <2>3
<1> QED  BY <1>2, <1>3 DEF OnceInv

(* A handle that a step has nothing to do with. *)
LEMMA Elsewhere ==
    ASSUME OnceInv, NEW h \in Handles,
           answered'[h] = answered[h], issued'[h] = issued[h],
           threadQueue'[h] = threadQueue[h], queryQueue'[h] = queryQueue[h],
           InHand(h)' = InHand(h), Unsent(h)' = Unsent(h), Undelivered(h)' = Undelivered(h)
    PROVE  InOrder(h)'
<1>1. InOrder(h)  BY DEF OnceInv
<1>2. Increasing(threadQueue'[h]) /\ Increasing(queryQueue'[h])  BY <1>1 DEF InOrder
<1> QED  BY <1>1, <1>2, Shrinks

(* OnMysqlError is made for the query at hand, which is behind everything  *)
(* answered or waiting to be delivered.                                    *)
LEMMA ReportOnce == ASSUME TypeOK, OnceInv, ReportError PROVE OnceInv'
<1>1. /\ qpc = "executed" /\ qpc' = "error" /\ qh' = qh /\ qh \in Handles
      /\ Record(qh, qcur, "OnMysqlError") /\ qcur \in Nat
      /\ UNCHANGED <<queryQueue, threadQueue, tickVars, issued>>
  BY DEF ReportError, TypeOK, ThreadTypes, AtHandle
<1>2. InOrder(qh) /\ AtMostOnce /\ InHand(qh) = {qcur}  BY <1>1 DEF OnceInv, InHand
<1>5. NotYet(qh, qcur, "OnMysqlError")  BY <1>1, <1>2, ReportNew
<1>6. /\ AtMostOnce'
      /\ \A g \in Handles : g # qh => answered'[g] = answered[g]
      /\ AnsweredQueries(qh)' = AnsweredQueries(qh) \cup {qcur}
      /\ \A i \in 1 .. Len(answered'[qh]) :
            \/ i \in 1 .. Len(answered[qh]) /\ answered'[qh][i] = answered[qh][i]
            \/ answered'[qh][i].query = qcur /\ answered'[qh][i].callback = "OnMysqlError"
  <2>1. "OnMysqlError" \in Callbacks  BY DEF Callbacks
  <2> QED  BY <1>1, <1>2, <1>5, <2>1, RecordOnce
<1>7. ASSUME NEW h \in Handles PROVE InOrder(h)'
  <2>1. Unsent(h)' = Unsent(h) /\ Undelivered(h)' = Undelivered(h)
    BY <1>1 DEF Unsent, AtHandle, Undelivered, tickVars
  <2>2. CASE h # qh
    <3>1. InHand(h)' = InHand(h)  BY <1>1, <2>2 DEF InHand
    <3> QED  BY <1>1, <1>6, <2>1, <2>2, <3>1, Elsewhere
  <2>3. CASE h = qh
    <3>1. InHand(h)' = {} /\ InHand(h) = {qcur} /\ InOrder(h)  BY <1>1, <1>2, <2>3 DEF InHand
    <3>2. AllLess(AnsweredQueries(h)', Elements(Unsent(h)))
      <4>1. /\ AllLess(AnsweredQueries(h), Elements(Unsent(h)))
            /\ AllLess({qcur}, Elements(Unsent(h)))
        BY <3>1 DEF InOrder, AllLess
      <4>2. AnsweredQueries(h)' = AnsweredQueries(h) \cup {qcur}  BY <1>1, <1>6, <2>3
      <4> QED  BY <4>1, <4>2 DEF AllLess
    <3>3. /\ AllLess(Elements(threadQueue[h]), Elements(Unsent(h)))
          /\ AllLess(Elements(threadQueue[h]), {qcur})
          /\ Increasing(threadQueue[h]) /\ Increasing(queryQueue[h])
      BY <3>1 DEF InOrder, AllLess
    <3>4. \A n \in Elements(threadQueue[h]) \cup Elements(queryQueue[h])
                   \cup AnsweredQueries(h)' : n \in 1 .. issued[h]
      <4>1. \A n \in Elements(threadQueue[h]) \cup {qcur} \cup Elements(queryQueue[h])
                     \cup AnsweredQueries(h) : n \in 1 .. issued[h]
        BY <3>1 DEF InOrder
      <4>2. AnsweredQueries(h)' = AnsweredQueries(h) \cup {qcur}  BY <1>1, <1>6, <2>3
      <4> QED  BY <4>1, <4>2
    <3>5. \A n \in Elements(Undelivered(h)) : n # qcur
      <4>1. threadQueue[h] \in Seq(Nat)  BY DEF TypeOK, QueueTypes
      <4>2. Elements(Undelivered(h)) \subseteq Elements(threadQueue[h])
        BY <4>1, RestElements DEF Undelivered
      <4>3. \A n \in Elements(threadQueue[h]) : n \in Nat  BY <4>1 DEF Elements
      <4> QED  BY <1>1, <3>3, <4>2, <4>3 DEF AllLess
    <3>6. ASSUME NEW i \in 1 .. Len(answered'[h]), NEW n \in Elements(Undelivered(h))
          PROVE  /\ answered'[h][i].query # n
                 /\ answered'[h][i].callback = "OnMysqlQuery" => answered'[h][i].query < n
      <4>1. CASE i \in 1 .. Len(answered[h]) /\ answered'[h][i] = answered[h][i]
        BY <3>1, <4>1 DEF InOrder
      <4>2. CASE answered'[h][i].query = qcur /\ answered'[h][i].callback = "OnMysqlError"
        BY <3>5, <4>2
      <4> QED  BY <1>6, <2>3, <4>1, <4>2
    <3>7. AllLess(Elements(threadQueue[h]), InHand(h)')  BY <3>1 DEF AllLess
    <3> QED  BY <1>1, <2>1, <3>1, <3>2, <3>3, <3>4, <3>6, <3>7 DEF InOrder
  <2> QED  BY <2>2, <2>3
<1> QED  BY <1>6, <1>7 DEF OnceInv

(* The result of the query at hand goes behind those to deliver. *)
LEMMA PushOnce == ASSUME TypeOK, OnceInv, PushResult PROVE OnceInv'
<1>1. /\ qpc = "push" /\ qpc' = "pop" /\ qh' = qh /\ qh \in Handles /\ qcur \in Nat
      /\ threadQueue' = [threadQueue EXCEPT ![qh] = Append(@, qcur)]
      /\ UNCHANGED <<queryQueue, tickVars, history>>
  BY DEF PushResult, TypeOK, ThreadTypes, AtHandle
<1>2. AtMostOnce'  BY <1>1 DEF OnceInv, AtMostOnce, history
<1>3. ASSUME NEW h \in Handles PROVE InOrder(h)'
  <2>1. /\ Unsent(h)' = Unsent(h) /\ AnsweredQueries(h)' = AnsweredQueries(h)
        /\ answered' = answered /\ issued' = issued /\ InOrder(h)
        /\ threadQueue \in [Handles -> Seq(Nat)]
    BY <1>1 DEF Unsent, AtHandle, AnsweredQueries, history, OnceInv, TypeOK, QueueTypes
  <2>2. CASE h # qh
    <3>1. InHand(h)' = InHand(h) /\ threadQueue'[h] = threadQueue[h]
          /\ Undelivered(h)' = Undelivered(h)
      BY <1>1, <2>1, <2>2 DEF InHand, Undelivered, tickVars
    <3> QED  BY <1>1, <2>1, <3>1, Elsewhere
  <2>3. CASE h = qh
    <3> DEFINE q == threadQueue[h]
               r == threadQueue'[h]
    <3>1. /\ q \in Seq(Nat) /\ r = Append(q, qcur)
          /\ InHand(h) = {qcur} /\ InHand(h)' = {}
          /\ Undelivered(h)' \in {r, Rest(r)}
          /\ Undelivered(h) = IF sh = h /\ spc = "callback" THEN Rest(q) ELSE q
          /\ Undelivered(h)' = IF sh = h /\ spc = "callback" THEN Rest(r) ELSE r
      BY <1>1, <2>1, <2>3 DEF InHand, Undelivered, tickVars
    <3>2. Increasing(q) /\ AllLess(Elements(q), {qcur})  BY <2>1, <3>1 DEF InOrder
    <3> HIDE DEF q, r
    <3>3. r \in Seq(Nat) /\ Elements(r) = Elements(q) \cup {qcur} /\ Increasing(r)
      BY <1>1, <3>1, <3>2, AppendElements
    <3>4. Elements(Undelivered(h)') \subseteq Elements(Undelivered(h)) \cup {qcur}
      <4>1. CASE ~(sh = h /\ spc = "callback")  BY <3>1, <3>3, <4>1
      <4>2. CASE sh = h /\ spc = "callback" /\ q = <<>>
        <5>1. Elements(r) = {qcur}  BY <3>3, <4>2, EmptyElements
        <5> QED  BY <3>1, <3>3, <4>2, <5>1, RestElements
      <4>3. CASE sh = h /\ spc = "callback" /\ q # <<>>
        <5>1. r # <<>> /\ Tail(r) = Append(Tail(q), qcur) /\ Tail(q) \in Seq(Nat)
          BY <1>1, <3>1, <4>3, AppendFacts, TailFacts
        <5>2. Elements(Tail(r)) = Elements(Tail(q)) \cup {qcur}
          BY <1>1, <5>1, AppendElements
        <5> QED  BY <3>1, <4>3, <5>1, <5>2 DEF Rest
      <4> QED  BY <4>1, <4>2, <4>3
    <3>5. /\ Increasing(queryQueue[h]) /\ AllLess({}, Elements(Unsent(h)))
          /\ AllLess(Elements(q) \cup {qcur}, Elements(Unsent(h)))
          /\ AllLess(AnsweredQueries(h), Elements(Unsent(h)))
          /\ \A n \in Elements(q) \cup {qcur} \cup Elements(queryQueue[h])
                      \cup AnsweredQueries(h) : n \in 1 .. issued[h]
      BY <2>1, <3>1 DEF InOrder, AllLess, q
    <3>6. ASSUME NEW i \in 1 .. Len(answered[h]), NEW n \in Elements(Undelivered(h)')
          PROVE  /\ answered[h][i].query # n
                 /\ answered[h][i].callback = "OnMysqlQuery" => answered[h][i].query < n
      <4>1. CASE n \in Elements(Undelivered(h))  BY <2>1, <4>1 DEF InOrder
      <4>2. CASE n = qcur
        <5>1. answered[h][i].query < qcur
          BY <2>1, <3>1 DEF InOrder, AllLess, AnsweredQueries
        <5>2. answered[h][i].query \in Nat
          <6> DEFINE S == [query : Nat, callback : Callbacks]
          <6>1. answered[h] \in Seq(S)  BY DEF TypeOK, HistoryTypes
          <6>2. answered[h][i] \in S
            <7> HIDE DEF S
            <7> QED  BY <6>1
          <6> QED  BY <6>2
        <5> QED  BY <1>1, <4>2, <5>1, <5>2
      <4> QED  BY <3>4, <4>1, <4>2
    <3>7. AllLess(Elements(r), {})  BY DEF AllLess
    <3> QED
      BY <1>1, <2>1, <3>1, <3>3, <3>5, <3>6, <3>7 DEF InOrder, r, AllLess
  <2> QED  BY <2>2, <2>3
<1> QED  BY <1>2, <1>3 DEF OnceInv

(* The front of queryQueue, whatever it is by now, is dropped. *)
LEMMA PopOnce == ASSUME TypeOK, OnceInv, PopQuery PROVE OnceInv'
<1>1. CASE Crash("emptypop")  BY <1>1, CrashOnce
<1>2. CASE ~Crash("emptypop")
  <2>1. /\ qpc = "pop" /\ qpc' = "scan" /\ qh \in Handles
        /\ queryQueue[qh] # <<>> /\ queryQueue \in [Handles -> Seq(Nat)]
        /\ queryQueue' = [queryQueue EXCEPT ![qh] = Tail(@)]
        /\ UNCHANGED <<threadQueue, tickVars, history>>
    BY <1>2 DEF PopQuery, TypeOK, ThreadTypes, QueueTypes, AtHandle
  <2>2. AtMostOnce'  BY <2>1 DEF OnceInv, AtMostOnce, history
  <2>3. ASSUME NEW h \in Handles PROVE InOrder(h)'
    <3>1. /\ answered'[h] = answered[h] /\ issued'[h] = issued[h]
          /\ threadQueue'[h] = threadQueue[h] /\ InOrder(h)
          /\ InHand(h) = {} /\ InHand(h)' = {} /\ Undelivered(h)' = Undelivered(h)
      BY <2>1 DEF history, OnceInv, InHand, Undelivered, tickVars
    <3>2. CASE h # qh
      <4>1. queryQueue'[h] = queryQueue[h] /\ Unsent(h)' = Unsent(h)
        BY <2>1, <3>2 DEF Unsent, AtHandle
      <4> QED  BY <3>1, <4>1, Elsewhere
    <3>3. CASE h = qh
      <4> DEFINE q == queryQueue[h]
      <4>1. /\ q \in Seq(Nat) /\ q # <<>> /\ queryQueue'[h] = Tail(q)
            /\ Unsent(h) = Tail(q) /\ Unsent(h)' = Tail(q)
        BY <2>1, <3>3 DEF Unsent, AtHandle, Rest
      <4>2. Increasing(q) /\ Increasing(threadQueue[h])  BY <3>1 DEF InOrder
      <4>3. Elements(Tail(q)) \subseteq Elements(q) /\ Increasing(Tail(q))
        <5> HIDE DEF q
        <5> QED  BY <4>1, <4>2, TailElements
      <4> QED  BY <3>1, <4>1, <4>2, <4>3, Shrinks
    <3> QED  BY <3>2, <3>3
  <2> QED  BY <2>2, <2>3 DEF OnceInv
<1> QED  BY <1>1, <1>2

LEMMA QueryThreadOnce == ASSUME TypeOK, OnceInv, QueryThreadStep PROVE OnceInv'
<1>1. CASE StartThread \/ Scan \/ SkipHandle
  BY <1>1, MoveOnce DEF StartThread, Scan, SkipHandle, queueVars, tickVars, history
<1>2. CASE ExecuteOk \/ ExecuteFails \/ SetParsing
  <2>1. UNCHANGED <<queryQueue, threadQueue, history>>
    BY <1>2 DEF ExecuteOk, ExecuteFails, SetParsing, queueVars
  <2>2. /\ qpc \in {"executing", "executed"} /\ qpc' \in {"executed", "push"}
        /\ UNCHANGED <<qh, qcur, tickVars>>
    BY <1>2 DEF ExecuteOk, ExecuteFails, SetParsing
  <2>3. ASSUME NEW h \in Handles
        PROVE  InHand(h)' = InHand(h) /\ Unsent(h)' = Unsent(h) /\ Undelivered(h)' = Undelivered(h)
    <3>1. InHand(h)' = InHand(h)  BY <2>2 DEF InHand
    <3>2. Unsent(h)' = Unsent(h)  BY <2>1, <2>2 DEF Unsent, AtHandle
    <3>3. Undelivered(h)' = Undelivered(h)  BY <2>1, <2>2 DEF Undelivered, tickVars
    <3> QED  BY <3>1, <3>2, <3>3
  <2> QED  BY <2>1, <2>3, Quiet
<1>3. CASE ErrorReturns
  BY <1>3, MoveOnce DEF ErrorReturns
<1>4. CASE ScanPastTable
  <2>1. CASE Crash("overrun")  BY <2>1, CrashOnce
  <2>2. CASE ~Crash("overrun")
    BY <1>4, <2>2, MoveOnce DEF ScanPastTable
  <2> QED  BY <2>1, <2>2
<1>5. CASE QueryThreadDangling
  BY <1>5, CrashOnce DEF QueryThreadDangling
<1>6. CASE TakeQuery \/ ReportError \/ PushResult \/ PopQuery
  BY <1>6, TakeOnce, ReportOnce, PushOnce, PopOnce
<1> QED  BY <1>1, <1>2, <1>3, <1>4, <1>5, <1>6 DEF QueryThreadStep

(* ProcessTick delivers the oldest result, which nothing that is answered  *)
(* by OnMysqlQuery is behind.                                              *)
LEMMA DeliverAt ==
    ASSUME TypeOK, OnceInv, NEW s \in Handles, NEW q \in Seq(Nat), NEW d,
           sh = s, sh' = s, spc = "tick", spc' = "callback",
           q = threadQueue[s], q # <<>>, d = Head(q),
           Record(s, d, "OnMysqlQuery"),
           UNCHANGED <<queryQueue, threadQueue, threadVars, issued>>
    PROVE  OnceInv'
<1>2. InOrder(s) /\ AtMostOnce /\ Undelivered(s) = q  BY DEF OnceInv, Undelivered
<1>3. Increasing(q)  BY <1>2 DEF InOrder
<1>5. /\ d \in Nat /\ Tail(q) \in Seq(Nat)
      /\ Elements(q) = {d} \cup Elements(Tail(q))
      /\ Increasing(Tail(q)) /\ AllLess({d}, Elements(Tail(q)))
  BY <1>3, TailElements
<1>6. \A i \in 1 .. Len(answered[s]), n \in Elements(q) :
          /\ answered[s][i].query # n
          /\ answered[s][i].callback = "OnMysqlQuery" => answered[s][i].query < n
  BY <1>2 DEF InOrder
<1>7. /\ AtMostOnce'
      /\ \A g \in Handles : g # s => answered'[g] = answered[g]
      /\ AnsweredQueries(s)' = AnsweredQueries(s) \cup {d}
      /\ \A i \in 1 .. Len(answered'[s]) :
            \/ i \in 1 .. Len(answered[s]) /\ answered'[s][i] = answered[s][i]
            \/ answered'[s][i].query = d /\ answered'[s][i].callback = "OnMysqlQuery"
  <2>1. "OnMysqlQuery" \in Callbacks  BY DEF Callbacks
  <2>2. NotYet(s, d, "OnMysqlQuery")  BY <1>2, DeliverNew
  <2> QED  BY <1>2, <2>1, <2>2, RecordOnce
<1>8. ASSUME NEW h \in Handles PROVE InOrder(h)'
  <2>1. Unsent(h)' = Unsent(h) /\ InHand(h)' = InHand(h) /\ InOrder(h)
    BY DEF Unsent, InHand, threadVars, OnceInv
  <2>2. CASE h # s
    <3>1. Undelivered(h)' = Undelivered(h)  BY <2>2 DEF Undelivered
    <3> QED  BY <1>7, <2>1, <2>2, <3>1, Elsewhere
  <2>3. CASE h = s
    <3>1. threadQueue[h] = q /\ Undelivered(h)' = Tail(q)
      BY <2>3 DEF Undelivered, Rest
    <3>2. AnsweredQueries(h)' = AnsweredQueries(h) \cup {d}  BY <1>7, <2>3
    <3>3. /\ AllLess({d} \cup AnsweredQueries(h), InHand(h) \cup Elements(Unsent(h)))
          /\ \A n \in Elements(q) \cup InHand(h) \cup Elements(queryQueue[h])
                      \cup AnsweredQueries(h) : n \in 1 .. issued[h]
          /\ Increasing(q) /\ Increasing(queryQueue[h])
          /\ AllLess(Elements(q), InHand(h))
          /\ AllLess(Elements(q) \cup InHand(h), Elements(Unsent(h)))
      BY <1>5, <2>1, <3>1 DEF InOrder, AllLess
    <3>4. ASSUME NEW i \in 1 .. Len(answered'[h]), NEW n \in Elements(Tail(q))
          PROVE  /\ answered'[h][i].query # n
                 /\ answered'[h][i].callback = "OnMysqlQuery" => answered'[h][i].query < n
      <4>1. d < n /\ n \in Elements(q)  BY <1>5 DEF AllLess
      <4>2. CASE i \in 1 .. Len(answered[h]) /\ answered'[h][i] = answered[h][i]
        BY <1>6, <2>3, <4>1, <4>2
      <4>3. CASE answered'[h][i].query = d
        BY <1>5, <4>1, <4>3
      <4> QED  BY <1>7, <2>3, <4>2, <4>3
    <3>5. /\ threadQueue'[h] = q /\ queryQueue'[h] = queryQueue[h] /\ issued'[h] = issued[h]
          /\ \A n \in Elements(q) \cup InHand(h) \cup Elements(queryQueue[h])
                      \cup AnsweredQueries(h)' : n \in 1 .. issued[h]
      BY <1>5, <3>1, <3>2, <3>3
    <3> QED  BY <2>1, <3>1, <3>2, <3>3, <3>4, <3>5 DEF InOrder
  <2> QED  BY <2>2, <2>3
<1> QED  BY <1>7, <1>8 DEF OnceInv

LEMMA DeliverOnce == ASSUME TypeOK, OnceInv, TickDeliver PROVE OnceInv'
<1>1. /\ sh \in Handles /\ sh' = sh /\ spc = "tick" /\ spc' = "callback"
      /\ threadQueue[sh] \in Seq(Nat) /\ threadQueue[sh] # <<>>
      /\ Record(sh, Head(threadQueue[sh]), "OnMysqlQuery")
      /\ UNCHANGED <<queryQueue, threadQueue, threadVars, issued>>
  BY DEF TickDeliver, ReadyToDeliver, TypeOK, QueueTypes, queueVars
<1> HIDE DEF Record
<1> QED  BY <1>1, DeliverAt

(* A result is dropped once its callbacks have returned. *)
LEMMA TickPopOnce == ASSUME TypeOK, OnceInv, TickPop PROVE OnceInv'
<1>1. CASE Crash("emptypop")  BY <1>1, CrashOnce
<1>2. CASE ~Crash("emptypop")
  <2>1. /\ spc = "callback" /\ spc' = "clear" /\ sh \in Handles /\ sh' = sh
        /\ threadQueue[sh] # <<>> /\ threadQueue \in [Handles -> Seq(Nat)]
        /\ threadQueue' = [threadQueue EXCEPT ![sh] = Tail(@)]
        /\ UNCHANGED <<queryQueue, threadVars, history>>
    BY <1>2 DEF TickPop, TypeOK, TickTypes, QueueTypes
  <2>2. AtMostOnce'  BY <2>1 DEF OnceInv, AtMostOnce, history
  <2>3. ASSUME NEW h \in Handles PROVE InOrder(h)'
    <3>1. /\ answered'[h] = answered[h] /\ issued'[h] = issued[h]
          /\ queryQueue'[h] = queryQueue[h] /\ InOrder(h)
          /\ InHand(h)' = InHand(h) /\ Unsent(h)' = Unsent(h)
      BY <2>1 DEF history, OnceInv, InHand, Unsent, threadVars
    <3>2. CASE h # sh
      <4>1. threadQueue'[h] = threadQueue[h] /\ Undelivered(h)' = Undelivered(h)
        BY <2>1, <3>2 DEF Undelivered
      <4> QED  BY <3>1, <4>1, Elsewhere
    <3>3. CASE h = sh
      <4> DEFINE q == threadQueue[h]
      <4>1. /\ q \in Seq(Nat) /\ q # <<>> /\ threadQueue'[h] = Tail(q)
            /\ Undelivered(h) = Tail(q) /\ Undelivered(h)' = Tail(q)
        BY <2>1, <3>3 DEF Undelivered, Rest
      <4>2. Increasing(q) /\ Increasing(queryQueue[h])  BY <3>1 DEF InOrder
      <4>3. Elements(Tail(q)) \subseteq Elements(q) /\ Increasing(Tail(q))
        <5> HIDE DEF q
        <5> QED  BY <4>1, <4>2, TailElements
      <4> QED  BY <3>1, <4>1, <4>2, <4>3, Shrinks
    <3> QED  BY <3>2, <3>3
  <2> QED  BY <2>2, <2>3 DEF OnceInv
<1> QED  BY <1>1, <1>2

LEMMA ServerOnce == ASSUME TypeOK, OnceInv, ServerStep PROVE OnceInv'
<1>1. ASSUME UNCHANGED <<queryQueue, threadQueue, threadVars, history>>,
             spc # "callback", spc' # "callback"
      PROVE  OnceInv'
  <2>1. ASSUME NEW h \in Handles
        PROVE  InHand(h)' = InHand(h) /\ Unsent(h)' = Unsent(h) /\ Undelivered(h)' = Undelivered(h)
    BY <1>1 DEF InHand, Unsent, Undelivered, threadVars
  <2> QED  BY <1>1, <2>1, Quiet
<1>2. CASE TickStart \/ TickEnd \/ TickSkip \/ TickClear
  BY <1>1, <1>2 DEF TickStart, TickEnd, TickSkip, TickClear, queueVars
<1>3. CASE TickPastTable
  <2>1. CASE Crash("overrun")  BY <2>1, CrashOnce
  <2>2. CASE ~Crash("overrun")  BY <1>1, <1>3, <2>2 DEF TickPastTable, queueVars
  <2> QED  BY <2>1, <2>2
<1>4. CASE TickDangling  BY <1>4, CrashOnce DEF TickDangling
<1>5. CASE TickDeliver \/ TickPop  BY <1>5, DeliverOnce, TickPopOnce
<1> QED  BY <1>2, <1>3, <1>4, <1>5 DEF ServerStep

(* A new object, or the loss of one: its queues are empty. *)
LEMMA CreateOnce ==
    ASSUME TypeOK, OnceInv, NEW t \in Threads, CreateObject(t)
    PROVE  OnceInv'
<1>1. PICK s \in Handles :
        /\ queryQueue' = [queryQueue EXCEPT ![s] = <<>>]
        /\ threadQueue' = [threadQueue EXCEPT ![s] = <<>>]
  BY DEF CreateObject, TypeOK, TableTypes
<1>2. UNCHANGED <<threadVars, tickVars, history>>  BY DEF CreateObject
<1>3. queryQueue \in [Handles -> Seq(Nat)] /\ threadQueue \in [Handles -> Seq(Nat)]
  BY DEF TypeOK, QueueTypes
<1>4. AtMostOnce'  BY <1>2 DEF OnceInv, AtMostOnce, history
<1>5. ASSUME NEW h \in Handles PROVE InOrder(h)'
  <2>1. /\ answered'[h] = answered[h] /\ issued'[h] = issued[h] /\ InOrder(h)
        /\ InHand(h)' = InHand(h)
    BY <1>2 DEF history, OnceInv, InHand, threadVars
  <2>2. CASE h # s
    <3>1. threadQueue'[h] = threadQueue[h] /\ queryQueue'[h] = queryQueue[h]
      BY <1>1, <1>3, <2>2
    <3>2. Unsent(h)' = Unsent(h) /\ Undelivered(h)' = Undelivered(h)
      BY <1>2, <3>1 DEF Unsent, Undelivered, threadVars, tickVars
    <3> QED  BY <2>1, <3>1, <3>2, Elsewhere
  <2>3. CASE h = s
    <3>1. threadQueue'[h] = <<>> /\ queryQueue'[h] = <<>>  BY <1>1, <1>3, <2>3
    <3>2. Unsent(h)' = <<>> /\ Undelivered(h)' = <<>>
      BY <3>1 DEF Unsent, Undelivered, Rest
    <3> QED  BY <2>1, <3>1, <3>2, EmptyElements, Shrinks
  <2> QED  BY <2>2, <2>3
<1> QED  BY <1>4, <1>5 DEF OnceInv

(* A new query has a number above all that the handle gave out before. *)
LEMMA QueueOnce ==
    ASSUME TypeOK, OnceInv, NEW t \in Threads, NEW s \in Handles, QueueQuery(t, s)
    PROVE  OnceInv'
<1> DEFINE e == issued[s] + 1
<1>1. /\ queryQueue' = [queryQueue EXCEPT ![s] = Append(@, e)]
      /\ issued' = [issued EXCEPT ![s] = e]
      /\ UNCHANGED <<threadQueue, threadVars, tickVars, answered>>
      /\ e \in Nat /\ issued \in [Handles -> Nat] /\ queryQueue \in [Handles -> Seq(Nat)]
  BY DEF QueueQuery, TypeOK, HistoryTypes, QueueTypes
<1>2. AtMostOnce'
  <2>1. answered' = answered  BY <1>1
  <2> QED  BY <2>1 DEF OnceInv, AtMostOnce
<1>3. ASSUME NEW h \in Handles PROVE InOrder(h)'
  <2>1. /\ answered' = answered /\ threadQueue' = threadQueue /\ InOrder(h)
        /\ InHand(h)' = InHand(h) /\ Undelivered(h)' = Undelivered(h)
        /\ AnsweredQueries(h)' = AnsweredQueries(h)
    BY <1>1 DEF OnceInv, InHand, Undelivered, AnsweredQueries, threadVars, tickVars
  <2>2. CASE h # s
    <3>1. issued'[h] = issued[h] /\ queryQueue'[h] = queryQueue[h] /\ Unsent(h)' = Unsent(h)
      BY <1>1, <2>2 DEF Unsent, threadVars
    <3> QED  BY <2>1, <3>1, Elsewhere
  <2>3. CASE h = s
    <3> DEFINE q == queryQueue[h]
               n == issued[h]
    <3>1. /\ q \in Seq(Nat) /\ n \in Nat /\ e = n + 1
          /\ queryQueue'[h] = Append(q, e) /\ issued'[h] = e
      BY <1>1, <2>3
    <3>2. \A x \in Elements(threadQueue[h]) \cup InHand(h) \cup Elements(q)
                   \cup AnsweredQueries(h) : x \in 1 .. n
      BY <2>1 DEF InOrder
    <3>3. \A x \in Elements(threadQueue[h]) \cup InHand(h) \cup Elements(q)
                   \cup AnsweredQueries(h) : x \in Nat
      <4>1. threadQueue[h] \in Seq(Nat)  BY DEF TypeOK, QueueTypes
      <4>2. \A x \in Elements(threadQueue[h]) \cup Elements(q) : x \in Nat
        BY <3>1, <4>1 DEF Elements
      <4>3. InHand(h) \subseteq Nat  BY DEF TypeOK, ThreadTypes, InHand
      <4>4. AnsweredQueries(h) \subseteq Nat
        <5> DEFINE S == [query : Nat, callback : Callbacks]
        <5>1. answered[h] \in Seq(S)  BY DEF TypeOK, HistoryTypes
        <5>2. \A i \in 1 .. Len(answered[h]) : answered[h][i] \in S
          <6> HIDE DEF S
          <6> QED  BY <5>1
        <5> QED  BY <5>2 DEF AnsweredQueries
      <4> QED  BY <4>2, <4>3, <4>4
    <3>4. \A x \in Elements(threadQueue[h]) \cup InHand(h) \cup Elements(q)
                   \cup AnsweredQueries(h) : x < e /\ x \in 1 .. e
      BY <3>1, <3>2, <3>3
    <3>5. Increasing(q) /\ Increasing(threadQueue[h])  BY <2>1 DEF InOrder
    <3> HIDE DEF q, n, e
    <3>6. Elements(Append(q, e)) = Elements(q) \cup {e} /\ Increasing(Append(q, e))
      <4>1. AllLess(Elements(q), {e}) /\ e \in Nat  BY <1>1, <3>4 DEF AllLess
      <4> QED  BY <3>1, <3>5, <4>1, AppendElements
    <3>7. Elements(Unsent(h)') \subseteq Elements(Unsent(h)) \cup {e}
      <4> DEFINE working == qh = h /\ qpc \in AtHandle \ {"check"}
      <4>1. /\ Unsent(h) = IF working THEN Rest(q) ELSE q
            /\ Unsent(h)' = IF working THEN Rest(Append(q, e)) ELSE Append(q, e)
        BY <1>1, <3>1 DEF Unsent, threadVars, AtHandle, q
      <4> HIDE DEF working
      <4>2. CASE ~working  BY <3>6, <4>1, <4>2
      <4>3. CASE working /\ q = <<>>
        <5>1. Elements(Append(q, e)) = {e}  BY <3>6, <4>3, EmptyElements
        <5>2. Append(q, e) \in Seq(Nat)  BY <1>1, <3>1, AppendElements DEF e
        <5> QED  BY <4>1, <4>3, <5>1, <5>2, RestElements
      <4>4. CASE working /\ q # <<>>
        <5>1. e \in Nat  BY <1>1 DEF e
        <5>2. /\ Append(q, e) # <<>> /\ Tail(Append(q, e)) = Append(Tail(q), e)
              /\ Tail(q) \in Seq(Nat)
          BY <3>1, <4>4, <5>1, AppendFacts, TailFacts
        <5>3. Elements(Append(Tail(q), e)) = Elements(Tail(q)) \cup {e}
          BY <5>1, <5>2, AppendElements
        <5> QED  BY <4>1, <4>4, <5>2, <5>3 DEF Rest
      <4> QED  BY <4>2, <4>3, <4>4
    <3>8. /\ AllLess(Elements(threadQueue[h]), InHand(h))
          /\ AllLess(Elements(threadQueue[h]) \cup InHand(h), Elements(Unsent(h)) \cup {e})
          /\ AllLess(AnsweredQueries(h), InHand(h) \cup Elements(Unsent(h)) \cup {e})
      BY <2>1, <3>4 DEF InOrder, AllLess
    <3>9. \A x \in Elements(threadQueue[h]) \cup InHand(h) \cup Elements(Append(q, e))
                   \cup AnsweredQueries(h) : x \in 1 .. e
      BY <1>1, <3>4, <3>6 DEF e
    <3>10. /\ AllLess(Elements(threadQueue[h]) \cup InHand(h), Elements(Unsent(h)'))
           /\ AllLess(AnsweredQueries(h), InHand(h) \cup Elements(Unsent(h)'))
      BY <3>7, <3>8 DEF AllLess
    <3>11. \A i \in 1 .. Len(answered[h]), x \in Elements(Undelivered(h)) :
               /\ answered[h][i].query # x
               /\ answered[h][i].callback = "OnMysqlQuery" => answered[h][i].query < x
      BY <2>1 DEF InOrder
    <3> QED  BY <2>1, <3>1, <3>5, <3>6, <3>8, <3>9, <3>10, <3>11 DEF InOrder
  <2> QED  BY <2>2, <2>3
<1> QED  BY <1>2, <1>3 DEF OnceInv

LEMMA ScriptOnce == ASSUME TypeOK, OnceInv, ScriptStep PROVE OnceInv'
<1> SUFFICES ASSUME NEW t \in Threads, NEW h \in Handles,
                    \/ ClaimSlot(t) \/ CreateObject(t) \/ CreateInUse(t) \/ CloseDone(t)
                    \/ Connect(t, h) \/ Close(t, h)
                    \/ QueueQuery(t, h) \/ RunQuery(t, h)
                    \/ StoreResult(t, h) \/ FreeResult(t, h)
                    \/ CallInUse(t, h) \/ StoreInUse(t, h)
                    \/ CallOnEmptySlot(t) \/ ConnectWithoutMysql(t) \/ CallOnDeleted(t)
             PROVE  OnceInv'
  <2>1. 0 \in Handles  BY DEF Handles
  <2> QED  BY <2>1 DEF ScriptStep
<1>1. ASSUME UNCHANGED <<queueVars, threadVars, tickVars, history>> PROVE OnceInv'
  <2>1. UNCHANGED <<queryQueue, threadQueue, history>>  BY <1>1 DEF queueVars
  <2>2. ASSUME NEW g \in Handles
        PROVE  InHand(g)' = InHand(g) /\ Unsent(g)' = Unsent(g) /\ Undelivered(g)' = Undelivered(g)
    BY <1>1 DEF InHand, Unsent, Undelivered, queueVars, threadVars, tickVars
  <2> QED  BY <2>1, <2>2, Quiet
<1>2. CASE \/ ClaimSlot(t) \/ CloseDone(t) \/ Connect(t, h) \/ Close(t, h)
           \/ RunQuery(t, h) \/ StoreResult(t, h) \/ FreeResult(t, h)
  BY <1>1, <1>2 DEF ClaimSlot, CloseDone, Connect, Close, RunQuery, StoreResult, FreeResult
<1>3. CASE \/ CreateInUse(t) \/ CallInUse(t, h) \/ StoreInUse(t, h)
           \/ CallOnEmptySlot(t) \/ ConnectWithoutMysql(t) \/ CallOnDeleted(t)
  BY <1>3, CrashOnce DEF CreateInUse, CallInUse, StoreInUse, CallOnEmptySlot,
                         ConnectWithoutMysql, CallOnDeleted
<1>4. CASE CreateObject(t)  BY <1>4, CreateOnce
<1>5. CASE QueueQuery(t, h)  BY <1>5, QueueOnce
<1> QED  BY <1>2, <1>3, <1>4, <1>5

(* Whatever scripts do, on whichever thread (Natives.cpp, Thread.cpp): the *)
(* query numbers of a handle stay in order from the results to deliver to  *)
(* the queries not sent.                                                   *)
THEOREM OrderKept == Spec => []OnceInv
<1>1. TypeOK /\ OnceInv /\ [Next]_vars => OnceInv'
  <2>1. ASSUME OnceInv, UNCHANGED vars PROVE OnceInv'
    <3>1. UNCHANGED <<queryQueue, threadQueue, history>>  BY <2>1 DEF vars, queueVars, history
    <3>2. ASSUME NEW g \in Handles
          PROVE  /\ InHand(g)' = InHand(g) /\ Unsent(g)' = Unsent(g)
                 /\ Undelivered(g)' = Undelivered(g)
      BY <2>1 DEF InHand, Unsent, Undelivered, vars, queueVars, threadVars, tickVars
    <3> QED  BY <2>1, <3>1, <3>2, Quiet
  <2> QED  BY <2>1, QueryThreadOnce, ServerOnce, ScriptOnce DEF Next
<1> QED  BY <1>1, InitOnce, TypeCorrect, PTL DEF Spec

(* With handles closed and their slots reused at any moment, and no        *)
(* assumption on what scripts call, a threaded query is answered at most   *)
(* once, and each of OnMysqlQuery and OnMysqlError comes in the order of   *)
(* the calls of mysql_query (Thread.cpp:62-75, 130).                       *)
THEOREM AnsweredAtMostOnce == Spec => []AtMostOnce
<1>1. OnceInv => AtMostOnce  BY DEF OnceInv
<1> QED  BY <1>1, OrderKept, PTL
=============================================================================
