------------------------- MODULE QueryThreadProofs -------------------------
(***************************************************************************)
(* Theorems about QueryThread, for any number of slots, any bound on the   *)
(* queries and any set of natives.                                         *)
(***************************************************************************)
EXTENDS QueryThread, SequenceTheorems, TLAPS

USE ParameterAssumption

(* Popping and pushing the queue of one handle.                            *)
LEMMA PopType ==
    ASSUME NEW S, NEW f \in [Handles -> Seq(S)], NEW h \in Handles, f[h] # <<>>
    PROVE  [f EXCEPT ![h] = Tail(@)] \in [Handles -> Seq(S)]
<1>1. Tail(f[h]) \in Seq(S)  OBVIOUS
<1> QED  BY <1>1

LEMMA PushType ==
    ASSUME NEW S, NEW f \in [Handles -> Seq(S)], NEW h \in Handles, NEW e \in S
    PROVE  [f EXCEPT ![h] = Append(@, e)] \in [Handles -> Seq(S)]
<1>1. Append(f[h], e) \in Seq(S)  OBVIOUS
<1> QED  BY <1>1

(* Every variable keeps its type, whatever scripts call, mysql_close       *)
(* included: the loop variables stay within 0 .. MAX_CONNECTIONS, and each *)
(* thread works on a handle of the table.                                  *)
LEMMA InitType == Init => TypeOK
BY DEF Init, TypeOK, TableTypes, QueueTypes, ResultTypes, ThreadTypes, TickTypes,
       HistoryTypes, FaultTypes, Handles, Threads, NoHandle, NoRows, AtHandle

(* What a step leaves alone keeps its type.                                *)
LEMMA Unchanged ==
    /\ TableTypes /\ UNCHANGED tableVars => TableTypes'
    /\ QueueTypes /\ UNCHANGED queueVars => QueueTypes'
    /\ ResultTypes /\ UNCHANGED resultVars => ResultTypes'
    /\ ThreadTypes /\ UNCHANGED threadVars => ThreadTypes'
    /\ TickTypes /\ UNCHANGED tickVars => TickTypes'
    /\ HistoryTypes /\ UNCHANGED history => HistoryTypes'
    /\ FaultTypes /\ UNCHANGED fault => FaultTypes'
BY DEF TableTypes, QueueTypes, ResultTypes, ThreadTypes, TickTypes, HistoryTypes, FaultTypes,
       tableVars, queueVars, resultVars, threadVars, tickVars, history

LEMMA CrashType ==
    ASSUME TypeOK, NEW f \in {"nohandle", "nomysql", "dangling", "emptypop", "overrun", "race"},
           Crash(f)
    PROVE  TypeOK'
BY Unchanged DEF TypeOK, Crash, FaultTypes

LEMMA QueryThreadType == TypeOK /\ QueryThreadStep => TypeOK'
<1> SUFFICES ASSUME TypeOK, QueryThreadStep PROVE TypeOK'
  OBVIOUS
<1> USE DEF TypeOK
<1>1. CASE StartThread
  <2>1. ThreadTypes'  BY <1>1 DEF StartThread, ThreadTypes, AtHandle, Handles
  <2> QED  BY <1>1, <2>1, Unchanged DEF StartThread
<1>2. CASE Scan
  <2>1. ThreadTypes'  BY <1>2 DEF Scan, ThreadTypes, AtHandle, Handles, threadVars
  <2> QED  BY <1>2, <2>1, Unchanged DEF Scan
<1>3. CASE SkipHandle
  <2>1. ThreadTypes'  BY <1>3 DEF SkipHandle, ThreadTypes, AtHandle, Handles
  <2> QED  BY <1>3, <2>1, Unchanged DEF SkipHandle
<1>4. CASE TakeQuery
  <2>1. ThreadTypes'  BY <1>4 DEF TakeQuery, ThreadTypes, AtHandle, Handles, QueueTypes, ReadyToExecute
  <2> QED  BY <1>4, <2>1, Unchanged DEF TakeQuery
<1>5. CASE ExecuteOk
  <2>1. ResultTypes'  BY <1>5 DEF ExecuteOk, ResultTypes, AtHandle, Handles, ThreadTypes, NoRows
  <2>2. ThreadTypes'  BY <1>5 DEF ExecuteOk, ThreadTypes, AtHandle, Handles
  <2> QED  BY <1>5, <2>1, <2>2, Unchanged DEF ExecuteOk
<1>6. CASE ExecuteFails
  <2>1. ResultTypes'  BY <1>6 DEF ExecuteFails, ResultTypes, AtHandle, Handles, ThreadTypes
  <2>2. ThreadTypes'  BY <1>6 DEF ExecuteFails, ThreadTypes, AtHandle, Handles
  <2> QED  BY <1>6, <2>1, <2>2, Unchanged DEF ExecuteFails
<1>7. CASE SetParsing
  <2>1. QueueTypes'  BY <1>7 DEF SetParsing, QueueTypes, AtHandle, Handles, ThreadTypes
  <2>2. ThreadTypes'  BY <1>7 DEF SetParsing, ThreadTypes, AtHandle, Handles
  <2> QED  BY <1>7, <2>1, <2>2, Unchanged DEF SetParsing
<1>8. CASE ReportError
  <2>1. QueueTypes'  BY <1>8 DEF ReportError, QueueTypes, AtHandle, Handles
  <2>2. ThreadTypes'  BY <1>8 DEF ReportError, ThreadTypes, AtHandle, Handles
  <2>3. HistoryTypes'  BY <1>8 DEF ReportError, HistoryTypes, Record, Callbacks, ThreadTypes, AtHandle, Handles
  <2> QED  BY <1>8, <2>1, <2>2, <2>3, Unchanged DEF ReportError
<1>9. CASE PushResult
  <2>1. QueueTypes'  BY <1>9 DEF PushResult, QueueTypes, AtHandle, Handles, ThreadTypes
  <2>2. ThreadTypes'  BY <1>9 DEF PushResult, ThreadTypes, AtHandle, Handles
  <2> QED  BY <1>9, <2>1, <2>2, Unchanged DEF PushResult
<1>10. CASE ErrorReturns
  <2>1. ThreadTypes'  BY <1>10 DEF ErrorReturns, ThreadTypes, AtHandle, Handles
  <2> QED  BY <1>10, <2>1, Unchanged DEF ErrorReturns
<1>11. CASE QueryThreadDangling
  BY <1>11, CrashType DEF QueryThreadDangling
<1>12. CASE ScanPastTable
  <2>1. CASE Crash("overrun")  BY <2>1, CrashType
  <2>2. CASE ~Crash("overrun")
    <3>1. ThreadTypes'  BY <1>12, <2>2 DEF ScanPastTable, ThreadTypes, AtHandle, Handles
    <3> QED  BY <1>12, <2>2, <3>1, Unchanged DEF ScanPastTable
  <2> QED  BY <2>1, <2>2
<1>13. CASE PopQuery
  <2>1. CASE Crash("emptypop")  BY <2>1, CrashType
  <2>2. CASE ~Crash("emptypop")
    <3>1. ThreadTypes'  BY <1>13, <2>2 DEF PopQuery, ThreadTypes, AtHandle, Handles
    <3>2. /\ qh \in Handles /\ queryQueue[qh] # <<>>
          /\ queryQueue' = [queryQueue EXCEPT ![qh] = Tail(@)]
          /\ UNCHANGED <<threadQueue, parsing>>
      BY <1>13, <2>2 DEF PopQuery, ThreadTypes, AtHandle
    <3>3. QueueTypes'  BY <3>2, PopType DEF QueueTypes
    <3> QED  BY <1>13, <2>2, <3>1, <3>3, Unchanged DEF PopQuery
  <2> QED  BY <2>1, <2>2
<1> QED
  BY <1>1, <1>2, <1>3, <1>4, <1>5, <1>6, <1>7, <1>8, <1>9, <1>10, <1>11, <1>12, <1>13 DEF QueryThreadStep

LEMMA ServerType == TypeOK /\ ServerStep => TypeOK'
<1> SUFFICES ASSUME TypeOK, ServerStep PROVE TypeOK'
  OBVIOUS
<1> USE DEF TypeOK
<1>1. CASE TickStart
  <2>1. TickTypes'  BY <1>1 DEF TickStart, TickTypes
  <2> QED  BY <1>1, <2>1, Unchanged DEF TickStart
<1>2. CASE TickEnd
  <2>1. TickTypes'  BY <1>2 DEF TickEnd, TickTypes
  <2> QED  BY <1>2, <2>1, Unchanged DEF TickEnd
<1>3. CASE TickSkip
  <2>1. TickTypes'  BY <1>3 DEF TickSkip, TickTypes, Handles
  <2> QED  BY <1>3, <2>1, Unchanged DEF TickSkip
<1>4. CASE TickDeliver
  <2>1. TickTypes'  BY <1>4 DEF TickDeliver, TickTypes
  <2>2. HistoryTypes'
    <3>1. Head(threadQueue[sh]) \in Nat  BY <1>4 DEF TickDeliver, ReadyToDeliver, QueueTypes
    <3>2. [query |-> Head(threadQueue[sh]), callback |-> "OnMysqlQuery"]
            \in [query : Nat, callback : Callbacks]
      BY <3>1 DEF Callbacks
    <3> QED  BY <1>4, <3>2, PushType DEF TickDeliver, Record, HistoryTypes
  <2> QED  BY <1>4, <2>1, <2>2, Unchanged DEF TickDeliver
<1>5. CASE TickClear
  <2>1. TickTypes'  BY <1>5 DEF TickClear, TickTypes, Handles
  <2>2. QueueTypes'  BY <1>5 DEF TickClear, QueueTypes, TickTypes
  <2> QED  BY <1>5, <2>1, <2>2, Unchanged DEF TickClear
<1>6. CASE TickDangling
  BY <1>6, CrashType DEF TickDangling
<1>7. CASE TickPastTable
  <2>1. CASE Crash("overrun")  BY <2>1, CrashType
  <2>2. CASE ~Crash("overrun")
    <3>1. TickTypes'  BY <1>7, <2>2 DEF TickPastTable, TickTypes
    <3> QED  BY <1>7, <2>2, <3>1, Unchanged DEF TickPastTable
  <2> QED  BY <2>1, <2>2
<1>8. CASE TickPop
  <2>1. CASE Crash("emptypop")  BY <2>1, CrashType
  <2>2. CASE ~Crash("emptypop")
    <3>1. TickTypes'  BY <1>8, <2>2 DEF TickPop, TickTypes
    <3>2. /\ sh \in Handles /\ threadQueue[sh] # <<>>
          /\ threadQueue' = [threadQueue EXCEPT ![sh] = Tail(@)]
          /\ UNCHANGED <<queryQueue, parsing>>
      BY <1>8, <2>2 DEF TickPop, TickTypes
    <3>3. QueueTypes'  BY <3>2, PopType DEF QueueTypes
    <3> QED  BY <1>8, <2>2, <3>1, <3>3, Unchanged DEF TickPop
  <2> QED  BY <2>1, <2>2
<1> QED
  BY <1>1, <1>2, <1>3, <1>4, <1>5, <1>6, <1>7, <1>8 DEF ServerStep

LEMMA ScriptType == TypeOK /\ ScriptStep => TypeOK'
<1> SUFFICES ASSUME TypeOK, NEW t \in Threads, NEW h \in Handles,
                    \/ ClaimSlot(t) \/ CreateObject(t) \/ CreateInUse(t) \/ CloseDone(t)
                    \/ Connect(t, h) \/ Close(t, h)
                    \/ QueueQuery(t, h) \/ RunQuery(t, h)
                    \/ StoreResult(t, h) \/ FreeResult(t, h)
                    \/ CallInUse(t, h) \/ StoreInUse(t, h)
                    \/ CallOnEmptySlot(t) \/ ConnectWithoutMysql(t) \/ CallOnDeleted(t)
             PROVE  TypeOK'
  <2>1. 0 \in Handles  BY DEF Handles
  <2> QED  BY <2>1 DEF ScriptStep
<1> USE DEF TypeOK
<1>1. CASE CreateObject(t)
  <2>1. TableTypes'  BY <1>1 DEF CreateObject, TableTypes
  <2>2. QueueTypes'
    <3>1. <<>> \in Seq(Nat)  OBVIOUS
    <3>2. creating[t] \in Handles  BY <1>1 DEF CreateObject, TableTypes
    <3> QED  BY <1>1, <3>1, <3>2 DEF CreateObject, QueueTypes
  <2>3. ResultTypes'  BY <1>1 DEF CreateObject, ResultTypes, NoRows
  <2> QED  BY <1>1, <2>1, <2>2, <2>3, Unchanged DEF CreateObject
<1>11. CASE ClaimSlot(t)
  <2>1. TableTypes'  BY <1>11 DEF ClaimSlot, TableTypes
  <2> QED  BY <1>11, <2>1, Unchanged DEF ClaimSlot
<1>12. CASE CreateInUse(t)
  BY <1>12, CrashType DEF CreateInUse
<1>2. CASE CloseDone(t)
  <2>1. TableTypes'  BY <1>2 DEF CloseDone, TableTypes
  <2> QED  BY <1>2, <2>1, Unchanged DEF CloseDone
<1>3. CASE Connect(t, h)
  <2>1. TableTypes'  BY <1>3 DEF Connect, TableTypes
  <2>2. ResultTypes'  BY <1>3 DEF Connect, ResultTypes, NoRows
  <2> QED  BY <1>3, <2>1, <2>2, Unchanged DEF Connect
<1>4. CASE Close(t, h)
  <2>1. TableTypes'  BY <1>4 DEF Close, TableTypes
  <2> QED  BY <1>4, <2>1, Unchanged DEF Close
<1>5. CASE QueueQuery(t, h)
  <2>1. QueueTypes'  BY <1>5 DEF QueueQuery, QueueTypes, HistoryTypes
  <2>2. ResultTypes'  BY <1>5 DEF QueueQuery, ResultTypes, NoRows
  <2>3. HistoryTypes'
    <3>1. issued' \in [Handles -> Nat]  BY <1>5 DEF QueueQuery, HistoryTypes
    <3> QED  BY <1>5, <3>1 DEF QueueQuery, HistoryTypes
  <2> QED  BY <1>5, <2>1, <2>2, <2>3, Unchanged DEF QueueQuery
<1>6. CASE RunQuery(t, h)
  <2>1. ResultTypes'  BY <1>6 DEF RunQuery, ResultTypes, NoRows, RowsOfRun
  <2> QED  BY <1>6, <2>1, Unchanged DEF RunQuery
<1>7. CASE StoreResult(t, h)
  <2>1. ResultTypes'  BY <1>7 DEF StoreResult, ResultTypes, NoRows
  <2> QED  BY <1>7, <2>1, Unchanged DEF StoreResult
<1>8. CASE FreeResult(t, h)
  <2>1. ResultTypes'  BY <1>8 DEF FreeResult, ResultTypes, NoRows
  <2> QED  BY <1>8, <2>1, Unchanged DEF FreeResult
<1>9. CASE CallInUse(t, h) \/ StoreInUse(t, h)
  BY <1>9, CrashType DEF CallInUse, StoreInUse
<1>10. CASE CallOnEmptySlot(t) \/ ConnectWithoutMysql(t) \/ CallOnDeleted(t)
  BY <1>10, CrashType DEF CallOnEmptySlot, ConnectWithoutMysql, CallOnDeleted
<1> QED
  BY <1>1, <1>2, <1>3, <1>4, <1>5, <1>6, <1>7, <1>8, <1>9, <1>10, <1>11, <1>12

THEOREM TypeCorrect == Spec => []TypeOK
<1>1. TypeOK /\ [Next]_vars => TypeOK'
  <2>1. TypeOK /\ UNCHANGED vars => TypeOK'
    BY Unchanged DEF TypeOK, vars
  <2> QED  BY <2>1, QueryThreadType, ServerType, ScriptType DEF Next
<1> QED  BY <1>1, InitType, PTL DEF Spec

(***************************************************************************)
(* PipelineInv is inductive, whatever scripts call: a step that replaces   *)
(* the object of a slot takes the slot out of Original, and what is said   *)
(* of an original handle is disturbed by no step on another.               *)
(***************************************************************************)
LEMMA InitInv == Init => PipelineInv
BY DEF Init, PipelineInv, SlotsHeld, TakingTurns, TurnOfThread, FrontIsAtHand, Consecutive,
       Settled, Undelivered, Rest, NoDangling, AtHandle, Original, Handles, NoHandle

LEMMA CrashInv ==
    ASSUME TypeOK, PipelineInv,
           NEW f \in {"nohandle", "nomysql", "dangling", "emptypop", "overrun", "race"},
           f \in {"dangling", "emptypop"} => AtReplaced,
           Crash(f)
    PROVE  PipelineInv'
<1> USE DEF Crash, PipelineInv, tableVars, queueVars, threadVars, tickVars, history, Original
<1>1. SlotsHeld'  BY DEF SlotsHeld
<1>2. TakingTurns'  BY DEF TakingTurns
<1>3. TurnOfThread'  BY DEF TurnOfThread
<1>4. FrontIsAtHand'  BY DEF FrontIsAtHand
<1>5. (\A g \in Original : Consecutive(g))'  BY DEF Consecutive, Settled, Undelivered
<1>6. NoDangling'  BY DEF NoDangling, AtReplaced
<1> QED  BY <1>1, <1>2, <1>3, <1>4, <1>5, <1>6

LEMMA AppendFacts ==
    ASSUME NEW S, NEW s \in Seq(S), NEW e \in S
    PROVE  /\ Append(s, e) \in Seq(S)
           /\ Len(Append(s, e)) = Len(s) + 1
           /\ \A i \in 1 .. Len(s) : Append(s, e)[i] = s[i]
           /\ Append(s, e)[Len(s) + 1] = e
           /\ Append(s, e) # <<>>
BY AppendProperties

LEMMA TailFacts ==
    ASSUME NEW s \in Seq(Nat), s # <<>>
    PROVE  /\ Len(s) \in Nat /\ Len(s) >= 1
           /\ Head(s) = s[1]
           /\ Tail(s) \in Seq(Nat)
           /\ Len(Tail(s)) = Len(s) - 1
           /\ \A i \in 1 .. Len(s) - 1 : Tail(s)[i] = s[i + 1]
<1>1. Len(s) \in Nat /\ Len(s) >= 1  BY EmptySeq, LenProperties
<1>2. Head(s) = s[1]  OBVIOUS
<1> QED  BY <1>1, <1>2, HeadTailProperties

LEMMA OneElement ==
    ASSUME NEW s \in Seq(Nat), s # <<>>, Len(s) <= 1
    PROVE  /\ Len(s) = 1
           /\ Head(s) = s[1]
           /\ s[1] \in Nat
           /\ s = <<s[1]>>
           /\ Tail(s) = <<>>
           /\ Len(Tail(s)) = 0
<1>1. Len(s) \in Nat /\ Len(s) >= 1 /\ Tail(s) \in Seq(Nat) /\ Len(Tail(s)) = Len(s) - 1
  BY TailFacts
<1>2. Len(s) = 1  BY <1>1
<1>3. Tail(s) = <<>>
  <2>1. \A q \in Seq(Nat) : q # <<>> => Len(q) >= 1  BY TailFacts
  <2> DEFINE t == Tail(s)
  <2>2. t \in Seq(Nat) /\ Len(t) = 0  BY <1>1, <1>2
  <2> HIDE DEF t
  <2>3. t = <<>>  BY <2>1, <2>2
  <2> QED  BY <2>3 DEF t
<1>4. s[1] \in Nat  BY <1>2
<1>5. s = <<s[1]>>
  <2>1. <<s[1]>> \in Seq(Nat) /\ Len(<<s[1]>>) = 1 /\ <<s[1]>>[1] = s[1]  BY <1>4
  <2> QED  BY <1>2, <2>1, SeqEqual
<1> QED  BY <1>1, <1>2, <1>3, <1>4, <1>5, TailFacts

LEMMA QueryThreadInv ==
    ASSUME TypeOK, PipelineInv, QueryThreadStep
    PROVE  PipelineInv'
<1> USE DEF TypeOK, PipelineInv, TableTypes, QueueTypes, ThreadTypes, TickTypes, HistoryTypes,
        tableVars, queueVars, tickVars, history, AtHandle, Original
<1>0. fault = "none"  BY DEF QueryThreadStep
<1>1. CASE StartThread
  <2>1. SlotsHeld'  BY <1>1 DEF StartThread, SlotsHeld
  <2>2. TakingTurns'  BY <1>1 DEF StartThread, TakingTurns
  <2>3. TurnOfThread'  BY <1>1 DEF StartThread, TurnOfThread
  <2>4. FrontIsAtHand'  BY <1>1 DEF StartThread, FrontIsAtHand
  <2>5. (\A g \in Original : Consecutive(g))'  BY <1>1 DEF StartThread, Consecutive, Settled, Undelivered, Rest
  <2>6. NoDangling'  BY <1>0, <1>1 DEF StartThread, NoDangling
  <2> QED  BY <2>1, <2>2, <2>3, <2>4, <2>5, <2>6
<1>2. CASE Scan
  <2>1. SlotsHeld'  BY <1>2 DEF Scan, SlotsHeld
  <2>2. TakingTurns'  BY <1>2 DEF Scan, TakingTurns
  <2>3. TurnOfThread'  BY <1>2 DEF Scan, TurnOfThread
  <2>4. FrontIsAtHand'  BY <1>2 DEF Scan, FrontIsAtHand
  <2>5. (\A g \in Original : Consecutive(g))'  BY <1>2 DEF Scan, Consecutive, Settled, Undelivered, Rest
  <2>6. NoDangling'  BY <1>0, <1>2 DEF Scan, NoDangling
  <2> QED  BY <2>1, <2>2, <2>3, <2>4, <2>5, <2>6
<1>3. CASE ScanPastTable
  <2>1. CASE Crash("overrun")  BY <2>1, CrashInv
  <2>2. CASE ~Crash("overrun")
    <3>1. /\ qpc = "scan" /\ qpc' = "scan" /\ fault' = fault
          /\ UNCHANGED <<tableVars, queueVars, tickVars, history>>
      BY <1>3, <2>2 DEF ScanPastTable
    <3>2. SlotsHeld'  BY <3>1 DEF SlotsHeld
    <3>3. TakingTurns'  BY <3>1 DEF TakingTurns
    <3>4. TurnOfThread'  BY <3>1 DEF TurnOfThread
    <3>5. FrontIsAtHand'  BY <3>1 DEF FrontIsAtHand
    <3>6. (\A g \in Original : Consecutive(g))'  BY <3>1 DEF Consecutive, Settled, Undelivered
    <3>7. NoDangling'  BY <1>0, <3>1 DEF NoDangling
    <3> QED  BY <3>2, <3>3, <3>4, <3>5, <3>6, <3>7
  <2> QED  BY <2>1, <2>2
<1>4. CASE QueryThreadDangling
  <2>1. AtReplaced  BY <1>4 DEF QueryThreadDangling, SlotsHeld, AtReplaced
  <2> QED  BY <1>4, <2>1, CrashInv DEF QueryThreadDangling
<1>5. CASE SkipHandle
  <2>1. SlotsHeld'  BY <1>5 DEF SkipHandle, SlotsHeld
  <2>2. TakingTurns'  BY <1>5 DEF SkipHandle, TakingTurns
  <2>3. TurnOfThread'  BY <1>5 DEF SkipHandle, TurnOfThread
  <2>4. FrontIsAtHand'  BY <1>5 DEF SkipHandle, FrontIsAtHand
  <2>5. (\A g \in Original : Consecutive(g))'  BY <1>5 DEF SkipHandle, Consecutive, Settled, Undelivered, Rest
  <2>6. NoDangling'  BY <1>0, <1>5 DEF SkipHandle, NoDangling
  <2> QED  BY <2>1, <2>2, <2>3, <2>4, <2>5, <2>6
<1>6. CASE TakeQuery
  <2>1. SlotsHeld'  BY <1>6 DEF TakeQuery, SlotsHeld
  <2>2. TakingTurns'  BY <1>6 DEF TakeQuery, TakingTurns
  <2>3. TurnOfThread'  BY <1>6 DEF TakeQuery, ReadyToExecute, TurnOfThread
  <2>4. FrontIsAtHand'  BY <1>6 DEF TakeQuery, ReadyToExecute, FrontIsAtHand
  <2>5. (\A g \in Original : Consecutive(g))'  BY <1>6 DEF TakeQuery, Consecutive, Settled, Undelivered, Rest
  <2>6. NoDangling'  BY <1>0, <1>6 DEF TakeQuery, NoDangling
  <2> QED  BY <2>1, <2>2, <2>3, <2>4, <2>5, <2>6
<1>7. CASE ExecuteOk
  <2>1. SlotsHeld'  BY <1>7 DEF ExecuteOk, SlotsHeld
  <2>2. TakingTurns'  BY <1>7 DEF ExecuteOk, TakingTurns
  <2>3. TurnOfThread'  BY <1>7 DEF ExecuteOk, TurnOfThread
  <2>4. FrontIsAtHand'  BY <1>7 DEF ExecuteOk, FrontIsAtHand
  <2>5. (\A g \in Original : Consecutive(g))'  BY <1>7 DEF ExecuteOk, Consecutive, Settled, Undelivered, Rest
  <2>6. NoDangling'  BY <1>0, <1>7 DEF ExecuteOk, NoDangling
  <2> QED  BY <2>1, <2>2, <2>3, <2>4, <2>5, <2>6
<1>8. CASE ExecuteFails
  <2>1. SlotsHeld'  BY <1>8 DEF ExecuteFails, SlotsHeld
  <2>2. TakingTurns'  BY <1>8 DEF ExecuteFails, TakingTurns
  <2>3. TurnOfThread'  BY <1>8 DEF ExecuteFails, TurnOfThread
  <2>4. FrontIsAtHand'  BY <1>8 DEF ExecuteFails, FrontIsAtHand
  <2>5. (\A g \in Original : Consecutive(g))'  BY <1>8 DEF ExecuteFails, Consecutive, Settled, Undelivered, Rest
  <2>6. NoDangling'  BY <1>0, <1>8 DEF ExecuteFails, NoDangling
  <2> QED  BY <2>1, <2>2, <2>3, <2>4, <2>5, <2>6
<1>9. CASE SetParsing
  <2>1. SlotsHeld'  BY <1>9 DEF SetParsing, SlotsHeld
  <2>2. TakingTurns'  BY <1>9 DEF SetParsing, TakingTurns
  <2>3. TurnOfThread'  BY <1>9 DEF SetParsing, TurnOfThread, TakingTurns
  <2>4. FrontIsAtHand'  BY <1>9 DEF SetParsing, FrontIsAtHand
  <2>5. (\A g \in Original : Consecutive(g))'  BY <1>9 DEF SetParsing, Consecutive, Settled, Undelivered, Rest
  <2>6. NoDangling'  BY <1>0, <1>9 DEF SetParsing, NoDangling
  <2> QED  BY <2>1, <2>2, <2>3, <2>4, <2>5, <2>6
<1>10. CASE ReportError
  <2>1. SlotsHeld'  BY <1>10 DEF ReportError, Record, SlotsHeld
  <2>2. TakingTurns'  BY <1>10 DEF ReportError, TakingTurns, TurnOfThread
  <2>3. TurnOfThread'  BY <1>10 DEF ReportError, TurnOfThread
  <2>4. FrontIsAtHand'  BY <1>10 DEF ReportError, FrontIsAtHand
  <2>5. (\A g \in Original : Consecutive(g))'
    <3> SUFFICES ASSUME NEW g \in Original PROVE Consecutive(g)'
      BY <1>10 DEF ReportError
    <3>1. /\ qh \in Handles /\ qpc = "executed" /\ qpc' = "error" /\ qh' = qh
          /\ qh \in Original => /\ queryQueue[qh] # <<>> /\ qcur = Head(queryQueue[qh])
                                /\ threadQueue[qh] = <<>>
      BY <1>10 DEF ReportError, FrontIsAtHand, TurnOfThread, TakingTurns
    <3>2. Undelivered(g)' = Undelivered(g)  BY <1>10 DEF ReportError, Undelivered, Rest
    <3>3. CASE g # qh
      <4>1. answered[g]' = answered[g]  BY <1>10, <3>3 DEF ReportError, Record
      <4>2. Settled(g)' = Settled(g)  BY <1>10, <3>3 DEF ReportError, Settled
      <4> QED  BY <1>10, <3>2, <4>1, <4>2 DEF ReportError, Consecutive
    <3>4. CASE g = qh
      <4>1. answered[g]' = Append(answered[g], [query |-> qcur, callback |-> "OnMysqlError"])
        BY <1>10, <3>4 DEF ReportError, Record
      <4>2. Settled(g)' = Settled(g) + 1  BY <1>10, <3>1, <3>4 DEF ReportError, Settled
      <4>3. Undelivered(g) = <<>>  BY <3>1, <3>4 DEF Undelivered, Rest
      <4>4. qcur = Settled(g) + 1  BY <3>1, <3>4, TailFacts DEF Consecutive, Settled
      <4>5. [query |-> qcur, callback |-> "OnMysqlError"] \in [query : Nat, callback : Callbacks]
        BY DEF Callbacks
      <4>6. /\ Len(answered[g]') = Len(answered[g]) + 1
            /\ \A i \in 1 .. Len(answered[g]) : answered[g]'[i] = answered[g][i]
            /\ answered[g]'[Len(answered[g]) + 1].query = qcur
        BY <4>1, <4>5, AppendFacts
      <4>7. /\ queryQueue[g]' = queryQueue[g] /\ issued[g]' = issued[g]
            /\ threadQueue[g]' = <<>>
        BY <1>10, <3>1, <3>4 DEF ReportError
      <4>8. Len(answered[g]) = Settled(g)  BY <4>3 DEF Consecutive
      <4>9. Len(answered[g]') + Len(Undelivered(g)') = Settled(g)'
        BY <3>2, <4>2, <4>3, <4>6, <4>8
      <4>10. \A i \in 1 .. Len(answered[g]') : answered[g]'[i].query = i
        <5> SUFFICES ASSUME NEW i \in 1 .. Len(answered[g]') PROVE answered[g]'[i].query = i
          OBVIOUS
        <5>1. Len(answered[g]) \in Nat  OBVIOUS
        <5>2. CASE i \in 1 .. Len(answered[g])  BY <4>6, <5>2 DEF Consecutive
        <5>3. CASE i = Len(answered[g]) + 1  BY <4>4, <4>6, <4>8, <5>3
        <5> QED  BY <4>6, <5>1, <5>2, <5>3
      <4> QED  BY <4>7, <4>9, <4>10 DEF Consecutive
    <3> QED  BY <3>3, <3>4
  <2>6. NoDangling'  BY <1>0, <1>10 DEF ReportError, NoDangling
  <2> QED  BY <2>1, <2>2, <2>3, <2>4, <2>5, <2>6
<1>11. CASE PushResult
  <2>1. SlotsHeld'  BY <1>11 DEF PushResult, SlotsHeld
  <2>2. TakingTurns'
    <3>1. /\ qh \in Handles /\ parsing' = parsing
          /\ qh \in Original => parsing[qh] /\ threadQueue[qh] = <<>>
          /\ threadQueue' = [threadQueue EXCEPT ![qh] = Append(@, qcur)]
      BY <1>11 DEF PushResult, TurnOfThread
    <3> QED  BY <1>11, <3>1 DEF PushResult, TakingTurns
  <2>3. TurnOfThread'  BY <1>11 DEF PushResult, TurnOfThread
  <2>4. FrontIsAtHand'  BY <1>11 DEF PushResult, FrontIsAtHand
  <2>5. (\A g \in Original : Consecutive(g))'
    <3> SUFFICES ASSUME NEW g \in Original PROVE Consecutive(g)'
      BY <1>11 DEF PushResult
    <3>1. /\ qh \in Handles /\ qpc = "push" /\ qpc' = "pop" /\ qh' = qh
          /\ qh \in Original => /\ queryQueue[qh] # <<>> /\ qcur = Head(queryQueue[qh])
                                /\ threadQueue[qh] = <<>>
                                /\ ~(spc = "callback" /\ sh = qh)
      BY <1>11 DEF PushResult, FrontIsAtHand, TurnOfThread
    <3>2. CASE g # qh
      <4>1. threadQueue[g]' = threadQueue[g]  BY <1>11, <3>2 DEF PushResult
      <4>2. Settled(g)' = Settled(g)  BY <1>11, <3>2 DEF PushResult, Settled
      <4>3. Undelivered(g)' = Undelivered(g)  BY <1>11, <4>1 DEF PushResult, Undelivered, Rest
      <4> QED  BY <1>11, <4>1, <4>2, <4>3 DEF PushResult, Consecutive
    <3>3. CASE g = qh
      <4>1. threadQueue[g]' = <<qcur>>  BY <1>11, <3>1, <3>3 DEF PushResult
      <4>2. Settled(g)' = Settled(g) + 1  BY <1>11, <3>1, <3>3 DEF PushResult, Settled
      <4>3. /\ Undelivered(g) = <<>>
            /\ Undelivered(g)' = <<qcur>>
        BY <1>11, <3>1, <3>3, <4>1 DEF PushResult, Undelivered, Rest
      <4>4. qcur = Settled(g) + 1  BY <3>1, <3>3, TailFacts DEF Consecutive, Settled
      <4>5. /\ queryQueue[g]' = queryQueue[g] /\ issued[g]' = issued[g]
            /\ answered[g]' = answered[g]
        BY <1>11 DEF PushResult
      <4>6. Len(answered[g]) = Settled(g)  BY <4>3 DEF Consecutive
      <4>7. Len(<<qcur>>) = 1 /\ <<qcur>>[1] = qcur  OBVIOUS
      <4>8. Len(answered[g]') + Len(Undelivered(g)') = Settled(g)'
        BY <4>2, <4>3, <4>5, <4>6, <4>7
      <4>9. threadQueue[g]'[1] = Settled(g)'
        BY <4>1, <4>2, <4>4, <4>7
      <4> QED  BY <4>5, <4>8, <4>9 DEF Consecutive
    <3> QED  BY <3>2, <3>3
  <2>6. NoDangling'  BY <1>0, <1>11 DEF PushResult, NoDangling
  <2> QED  BY <2>1, <2>2, <2>3, <2>4, <2>5, <2>6
<1>12. CASE ErrorReturns
  <2>1. SlotsHeld'  BY <1>12 DEF ErrorReturns, SlotsHeld
  <2>2. TakingTurns'  BY <1>12 DEF ErrorReturns, TakingTurns
  <2>3. TurnOfThread'  BY <1>12 DEF ErrorReturns, TurnOfThread
  <2>4. FrontIsAtHand'  BY <1>12 DEF ErrorReturns, FrontIsAtHand
  <2>5. (\A g \in Original : Consecutive(g))'  BY <1>12 DEF ErrorReturns, Consecutive, Settled, Undelivered, Rest
  <2>6. NoDangling'  BY <1>0, <1>12 DEF ErrorReturns, NoDangling
  <2> QED  BY <2>1, <2>2, <2>3, <2>4, <2>5, <2>6
<1>13. CASE PopQuery /\ Crash("emptypop") /\ queryQueue[qh] = <<>>
  <2>1. AtReplaced  BY <1>13 DEF PopQuery, FrontIsAtHand, AtReplaced
  <2> QED  BY <1>13, <2>1, CrashInv
<1>14. CASE PopQuery /\ queryQueue[qh] # <<>>
  <2>1. /\ qpc = "pop" /\ qpc' = "scan" /\ qh \in Handles /\ fault' = fault
        /\ queryQueue[qh] # <<>>
        /\ queryQueue' = [queryQueue EXCEPT ![qh] = Tail(@)]
        /\ my[qh] = "object"
        /\ UNCHANGED <<tableVars, threadQueue, parsing, tickVars, history>>
    <3>1. qpc = "pop" /\ qh \in Handles /\ my[qh] = "object" /\ queryQueue[qh] # <<>>
      BY <1>14 DEF PopQuery
    <3> QED  BY <1>14, <3>1 DEF PopQuery
  <2>2. SlotsHeld'  BY <2>1 DEF SlotsHeld
  <2>3. TakingTurns'  BY <2>1 DEF TakingTurns
  <2>4. TurnOfThread'  BY <2>1 DEF TurnOfThread
  <2>5. FrontIsAtHand'  BY <2>1 DEF FrontIsAtHand
  <2>6. (\A g \in Original : Consecutive(g))'
    <3> SUFFICES ASSUME NEW g \in Original PROVE Consecutive(g)'
      BY <2>1
    <3>1. Settled(g)' = Settled(g)
      <4>1. CASE g # qh  BY <2>1, <4>1 DEF Settled
      <4>2. CASE g = qh
        <5>1. queryQueue[g]' = Tail(queryQueue[g])  BY <2>1, <4>2
        <5>2. Len(queryQueue[g]) \in Nat /\ Len(queryQueue[g]') = Len(queryQueue[g]) - 1
          BY <2>1, <4>2, <5>1, TailFacts
        <5>3. /\ Settled(g) = issued[g] - Len(queryQueue[g]) + 1
              /\ Settled(g)' = issued[g] - Len(queryQueue[g]') + 0
          BY <2>1, <4>2 DEF Settled
        <5>4. issued[g] \in Nat  OBVIOUS
        <5> QED  BY <5>2, <5>3, <5>4
      <4> QED  BY <4>1, <4>2
    <3>2. Undelivered(g)' = Undelivered(g)  BY <2>1 DEF Undelivered, Rest
    <3>3. CASE g # qh  BY <2>1, <3>1, <3>2, <3>3 DEF Consecutive
    <3>4. CASE g = qh
      <4>1. /\ Len(queryQueue[g]') = Len(queryQueue[g]) - 1
            /\ \A i \in 1 .. Len(queryQueue[g]') : queryQueue[g]'[i] = queryQueue[g][i + 1]
        BY <2>1, <3>4, TailFacts
      <4>2. /\ Len(queryQueue[g]) \in Nat /\ issued[g] \in Nat
            /\ Len(queryQueue[g]) <= issued[g]
            /\ \A i \in 1 .. Len(queryQueue[g]) :
                  queryQueue[g][i] = issued[g] - Len(queryQueue[g]) + i
        BY DEF Consecutive
      <4>3. /\ Len(queryQueue[g]') <= issued[g]
            /\ \A i \in 1 .. Len(queryQueue[g]') :
                  queryQueue[g]'[i] = issued[g] - Len(queryQueue[g]') + i
        BY <4>1, <4>2
      <4> QED  BY <2>1, <3>1, <3>2, <4>3 DEF Consecutive
    <3> QED  BY <3>3, <3>4
  <2>7. NoDangling'  BY <1>0, <2>1 DEF NoDangling
  <2> QED  BY <2>2, <2>3, <2>4, <2>5, <2>6, <2>7
<1>15. PopQuery => (Crash("emptypop") /\ queryQueue[qh] = <<>>) \/ queryQueue[qh] # <<>>
  BY DEF PopQuery
<1> QED
  BY <1>1, <1>2, <1>3, <1>4, <1>5, <1>6, <1>7, <1>8, <1>9, <1>10, <1>11, <1>12, <1>13, <1>14, <1>15
     DEF QueryThreadStep

LEMMA ServerInv ==
    ASSUME TypeOK, PipelineInv, ServerStep
    PROVE  PipelineInv'
<1> USE DEF TypeOK, PipelineInv, TableTypes, QueueTypes, ThreadTypes, TickTypes, HistoryTypes,
        tableVars, queueVars, threadVars, tickVars, history, AtHandle, Original
<1>0. fault = "none"  BY DEF ServerStep
<1>1. CASE TickStart
  <2>1. SlotsHeld'  BY <1>1 DEF TickStart, SlotsHeld
  <2>2. TakingTurns'  BY <1>1 DEF TickStart, TakingTurns
  <2>3. TurnOfThread'  BY <1>1 DEF TickStart, TurnOfThread
  <2>4. FrontIsAtHand'  BY <1>1 DEF TickStart, FrontIsAtHand
  <2>5. (\A g \in Original : Consecutive(g))'  BY <1>1 DEF TickStart, Consecutive, Settled, Undelivered, Rest
  <2>6. NoDangling'  BY <1>0, <1>1 DEF TickStart, NoDangling
  <2> QED  BY <2>1, <2>2, <2>3, <2>4, <2>5, <2>6
<1>2. CASE TickEnd
  <2>1. SlotsHeld'  BY <1>2 DEF TickEnd, SlotsHeld
  <2>2. TakingTurns'  BY <1>2 DEF TickEnd, TakingTurns
  <2>3. TurnOfThread'  BY <1>2 DEF TickEnd, TurnOfThread
  <2>4. FrontIsAtHand'  BY <1>2 DEF TickEnd, FrontIsAtHand
  <2>5. (\A g \in Original : Consecutive(g))'  BY <1>2 DEF TickEnd, Consecutive, Settled, Undelivered, Rest
  <2>6. NoDangling'  BY <1>0, <1>2 DEF TickEnd, NoDangling
  <2> QED  BY <2>1, <2>2, <2>3, <2>4, <2>5, <2>6
<1>3. CASE TickPastTable
  <2>1. CASE Crash("overrun")  BY <2>1, CrashInv
  <2>2. CASE ~Crash("overrun")
    <3>1. /\ spc = "tick" /\ spc' = "idle" /\ fault' = fault
          /\ UNCHANGED <<tableVars, queueVars, threadVars, sh, history>>
      BY <1>3, <2>2 DEF TickPastTable
    <3>2. SlotsHeld'  BY <3>1 DEF SlotsHeld
    <3>3. TakingTurns'  BY <3>1 DEF TakingTurns
    <3>4. TurnOfThread'  BY <3>1 DEF TurnOfThread
    <3>5. FrontIsAtHand'  BY <3>1 DEF FrontIsAtHand
    <3>6. (\A g \in Original : Consecutive(g))'  BY <3>1 DEF Consecutive, Settled, Undelivered
    <3>7. NoDangling'  BY <1>0, <3>1 DEF NoDangling
    <3> QED  BY <3>2, <3>3, <3>4, <3>5, <3>6, <3>7
  <2> QED  BY <2>1, <2>2
<1>4. CASE TickDangling
  <2>1. AtReplaced  BY <1>4 DEF TickDangling, SlotsHeld, AtReplaced
  <2> QED  BY <1>4, <2>1, CrashInv DEF TickDangling
<1>5. CASE TickSkip
  <2>1. SlotsHeld'  BY <1>5 DEF TickSkip, SlotsHeld
  <2>2. TakingTurns'  BY <1>5 DEF TickSkip, TakingTurns
  <2>3. TurnOfThread'  BY <1>5 DEF TickSkip, TurnOfThread
  <2>4. FrontIsAtHand'  BY <1>5 DEF TickSkip, FrontIsAtHand
  <2>5. (\A g \in Original : Consecutive(g))'  BY <1>5 DEF TickSkip, Consecutive, Settled, Undelivered, Rest
  <2>6. NoDangling'  BY <1>0, <1>5 DEF TickSkip, NoDangling
  <2> QED  BY <2>1, <2>2, <2>3, <2>4, <2>5, <2>6
<1>6. CASE TickDeliver
  <2>1. /\ sh \in Handles /\ spc = "tick" /\ spc' = "callback"
        /\ threadQueue[sh] # <<>> /\ parsing[sh] /\ my[sh] = "object"
        /\ UNCHANGED <<tableVars, queueVars, qpc, qh, qcur, sh, issued, fault>>
        /\ Record(sh, Head(threadQueue[sh]), "OnMysqlQuery")
    BY <1>6 DEF TickDeliver, ReadyToDeliver
  <2>2. SlotsHeld'
    <3>1. \A g \in Handles : g # sh => answered'[g] = answered[g]  BY <2>1 DEF Record
    <3> QED  BY <2>1, <3>1 DEF SlotsHeld
  <2>3. TakingTurns'  BY <2>1 DEF TakingTurns
  <2>4. TurnOfThread'  BY <2>1 DEF TurnOfThread
  <2>5. FrontIsAtHand'  BY <2>1 DEF FrontIsAtHand
  <2>6. (\A g \in Original : Consecutive(g))'
    <3> SUFFICES ASSUME NEW g \in Original PROVE Consecutive(g)'
      BY <2>1
    <3>1. Settled(g)' = Settled(g)  BY <2>1 DEF Settled
    <3>2. CASE g # sh
      <4>1. answered[g]' = answered[g]  BY <2>1, <3>2 DEF Record
      <4>2. Undelivered(g)' = Undelivered(g)  BY <2>1, <3>2 DEF Undelivered, Rest
      <4> QED  BY <2>1, <3>1, <4>1, <4>2 DEF Consecutive
    <3>3. CASE g = sh
      <4> DEFINE n == Head(threadQueue[g])
      <4>1. Len(threadQueue[g]) = 1 /\ n = threadQueue[g][1] /\ n \in Nat
            /\ Len(Tail(threadQueue[g])) = 0
        <5>1. threadQueue[g] \in Seq(Nat) /\ threadQueue[g] # <<>> /\ Len(threadQueue[g]) <= 1
          BY <2>1, <3>3 DEF TakingTurns
        <5> QED  BY <5>1, OneElement
      <4>2. Len(Undelivered(g)) = 1 /\ Len(Undelivered(g)') = 0
        BY <2>1, <3>3, <4>1 DEF Undelivered, Rest
      <4>3. [query |-> n, callback |-> "OnMysqlQuery"] \in [query : Nat, callback : Callbacks]
        BY <4>1 DEF Callbacks
      <4>4. answered[g]' = Append(answered[g], [query |-> n, callback |-> "OnMysqlQuery"])
        BY <2>1, <3>3 DEF Record
      <4>5. /\ Len(answered[g]') = Len(answered[g]) + 1
            /\ \A i \in 1 .. Len(answered[g]) : answered[g]'[i] = answered[g][i]
            /\ answered[g]'[Len(answered[g]) + 1].query = n
        BY <4>3, <4>4, AppendFacts
      <4>6. n = Settled(g) /\ Len(answered[g]) + 1 = Settled(g)
        BY <2>1, <3>3, <4>1, <4>2 DEF Consecutive
      <4>7. \A i \in 1 .. Len(answered[g]') : answered[g]'[i].query = i
        <5> HIDE DEF n
        <5> SUFFICES ASSUME NEW i \in 1 .. Len(answered[g]') PROVE answered[g]'[i].query = i
          OBVIOUS
        <5>1. Len(answered[g]) \in Nat  OBVIOUS
        <5>2. CASE i \in 1 .. Len(answered[g])  BY <4>5, <5>2 DEF Consecutive
        <5>3. CASE i = Len(answered[g]) + 1  BY <4>5, <4>6, <5>3
        <5> QED  BY <4>5, <5>1, <5>2, <5>3
      <4>8. Len(answered[g]') + Len(Undelivered(g)') = Settled(g)'
        BY <3>1, <4>2, <4>5, <4>6
      <4> QED  BY <2>1, <3>1, <4>7, <4>8 DEF Consecutive
    <3> QED  BY <3>2, <3>3
  <2>7. NoDangling'  BY <1>0, <2>1 DEF NoDangling
  <2> QED  BY <2>2, <2>3, <2>4, <2>5, <2>6, <2>7
<1>7. CASE TickPop /\ Crash("emptypop") /\ threadQueue[sh] = <<>>
  <2>1. AtReplaced  BY <1>7 DEF TickPop, TurnOfThread, AtReplaced
  <2> QED  BY <1>7, <2>1, CrashInv
<1>9. CASE TickPop /\ threadQueue[sh] # <<>>
  <2>1. /\ sh \in Handles /\ spc = "callback" /\ spc' = "clear" /\ fault' = fault
        /\ threadQueue[sh] # <<>> /\ my[sh] = "object"
        /\ threadQueue' = [threadQueue EXCEPT ![sh] = Tail(@)]
        /\ UNCHANGED <<tableVars, queryQueue, parsing, threadVars, sh, history>>
    <3>1. sh \in Handles /\ spc = "callback" /\ threadQueue[sh] # <<>> /\ my[sh] = "object"
      BY <1>9 DEF TickPop
    <3> QED  BY <1>9, <3>1 DEF TickPop
  <2>2. ASSUME sh \in Original
        PROVE  threadQueue'[sh] = <<>> /\ parsing[sh] /\ ~(qpc = "push" /\ qh = sh)
    <3>1. threadQueue[sh] \in Seq(Nat) /\ threadQueue[sh] # <<>> /\ Len(threadQueue[sh]) <= 1
      BY <2>1, <2>2 DEF TakingTurns
    <3>2. Tail(threadQueue[sh]) = <<>>  BY <3>1, OneElement
    <3> QED  BY <2>1, <2>2, <3>2 DEF TakingTurns, TurnOfThread
  <2>3. SlotsHeld'  BY <2>1, <2>2 DEF SlotsHeld
  <2>4. TakingTurns'  BY <2>1, <2>2 DEF TakingTurns
  <2>5. TurnOfThread'  BY <2>1, <2>2 DEF TurnOfThread
  <2>6. FrontIsAtHand'  BY <2>1 DEF FrontIsAtHand
  <2>7. (\A g \in Original : Consecutive(g))'
    <3> SUFFICES ASSUME NEW g \in Original PROVE Consecutive(g)'
      BY <2>1
    <3>1. Settled(g)' = Settled(g)  BY <2>1 DEF Settled
    <3>2. Undelivered(g)' = Undelivered(g)
      BY <2>1, <2>2 DEF Undelivered, Rest
    <3>3. threadQueue[g]' # <<>> => threadQueue[g]' = threadQueue[g]
      BY <2>1, <2>2
    <3> QED  BY <2>1, <3>1, <3>2, <3>3 DEF Consecutive
  <2>8. NoDangling'  BY <1>0, <2>1 DEF NoDangling
  <2> QED  BY <2>3, <2>4, <2>5, <2>6, <2>7, <2>8
<1>8. CASE TickClear
  <2>1. SlotsHeld'  BY <1>8 DEF TickClear, SlotsHeld
  <2>2. TakingTurns'  BY <1>8 DEF TickClear, TakingTurns, TurnOfThread
  <2>3. TurnOfThread'  BY <1>8 DEF TickClear, TurnOfThread
  <2>4. FrontIsAtHand'  BY <1>8 DEF TickClear, FrontIsAtHand
  <2>5. (\A g \in Original : Consecutive(g))'  BY <1>8 DEF TickClear, Consecutive, Settled, Undelivered, Rest
  <2>6. NoDangling'  BY <1>0, <1>8 DEF TickClear, NoDangling
  <2> QED  BY <2>1, <2>2, <2>3, <2>4, <2>5, <2>6
<1>10. TickPop => (Crash("emptypop") /\ threadQueue[sh] = <<>>) \/ threadQueue[sh] # <<>>
  BY DEF TickPop
<1> QED  BY <1>1, <1>2, <1>3, <1>4, <1>5, <1>6, <1>7, <1>8, <1>9, <1>10 DEF ServerStep

(* A native that changes nothing but the connection and its results.       *)
LEMMA QuietInv ==
    ASSUME TypeOK, PipelineInv,
           UNCHANGED <<my, deleting, replaced, queueVars, threadVars, tickVars, history, fault>>
    PROVE  PipelineInv'
<1> USE DEF PipelineInv, queueVars, threadVars, tickVars, history, Original
<1>1. SlotsHeld'  BY DEF SlotsHeld
<1>2. TakingTurns'  BY DEF TakingTurns
<1>3. TurnOfThread'  BY DEF TurnOfThread
<1>4. FrontIsAtHand'  BY DEF FrontIsAtHand
<1>5. (\A g \in Original : Consecutive(g))'  BY DEF Consecutive, Settled, Undelivered
<1>6. NoDangling'  BY DEF NoDangling, AtReplaced
<1> QED  BY <1>1, <1>2, <1>3, <1>4, <1>5, <1>6

LEMMA ScriptInv ==
    ASSUME TypeOK, PipelineInv, ScriptStep
    PROVE  PipelineInv'
<1> SUFFICES ASSUME NEW t \in Threads, NEW h \in Handles,
                    \/ ClaimSlot(t) \/ CreateObject(t) \/ CreateInUse(t) \/ CloseDone(t)
                    \/ Connect(t, h) \/ Close(t, h)
                    \/ QueueQuery(t, h) \/ RunQuery(t, h)
                    \/ StoreResult(t, h) \/ FreeResult(t, h)
                    \/ CallInUse(t, h) \/ StoreInUse(t, h)
                    \/ CallOnEmptySlot(t) \/ ConnectWithoutMysql(t) \/ CallOnDeleted(t)
             PROVE  PipelineInv'
  <2>1. 0 \in Handles  BY DEF Handles
  <2> QED  BY <2>1 DEF ScriptStep
<1> USE DEF TypeOK, PipelineInv, TableTypes, QueueTypes, ThreadTypes, TickTypes, HistoryTypes,
        tableVars, queueVars, threadVars, tickVars, history, AtHandle, Original
<1>0. fault = "none"
  BY DEF ClaimSlot, CreateObject, CreateInUse, CloseDone, Connect, Close, QueueQuery, RunQuery,
         StoreResult, FreeResult, CallInUse, StoreInUse, CallOnEmptySlot, ConnectWithoutMysql,
         CallOnDeleted, InScript
<1>1. CASE CreateObject(t)
  <2> DEFINE h0 == creating[t]
  <2>1. /\ h0 \in Handles /\ my' = [my EXCEPT ![h0] = "object"]
        /\ replaced' = replaced \cup {g \in {h0} : my[g] # "NULL"}
        /\ queryQueue' = [queryQueue EXCEPT ![h0] = <<>>]
        /\ threadQueue' = [threadQueue EXCEPT ![h0] = <<>>]
        /\ parsing' = [parsing EXCEPT ![h0] = FALSE]
        /\ UNCHANGED <<deleting, threadVars, tickVars, history, fault>>
    BY <1>1 DEF CreateObject
  <2>2. ASSUME NEW g \in Handles \ replaced'
        PROVE  /\ g \in Handles \ replaced
               /\ queryQueue'[g] = queryQueue[g] /\ threadQueue'[g] = threadQueue[g]
               /\ parsing'[g] = parsing[g]
               /\ my'[g] \in {my[g], "object"}
    <3>1. g \in Original /\ (g = h0 => my[g] = "NULL")  BY <2>1, <2>2
    <3>2. CASE g = h0
      <4>1. queryQueue[g] = <<>> /\ threadQueue[g] = <<>> /\ ~parsing[g]
        BY <3>1, <3>2 DEF SlotsHeld
      <4> QED  BY <2>1, <3>1, <3>2, <4>1
    <3>3. CASE g # h0  BY <2>1, <3>1, <3>3
    <3> QED  BY <3>2, <3>3
  <2> HIDE DEF h0
  <2>3. SlotsHeld'  BY <2>1, <2>2 DEF SlotsHeld
  <2>4. TakingTurns'  BY <2>1, <2>2 DEF TakingTurns
  <2>5. TurnOfThread'  BY <2>1, <2>2 DEF TurnOfThread
  <2>6. FrontIsAtHand'  BY <2>1, <2>2 DEF FrontIsAtHand
  <2>7. (\A g \in Original : Consecutive(g))'
    <3> SUFFICES ASSUME NEW g \in Handles \ replaced' PROVE Consecutive(g)'
      OBVIOUS
    <3>1. /\ queryQueue[g]' = queryQueue[g] /\ threadQueue[g]' = threadQueue[g]
          /\ issued[g]' = issued[g] /\ answered[g]' = answered[g]
      BY <2>1, <2>2
    <3>2. Settled(g)' = Settled(g) /\ Undelivered(g)' = Undelivered(g)
      BY <2>1, <3>1 DEF Settled, Undelivered
    <3>3. Consecutive(g)  BY <2>2
    <3> QED  BY <3>1, <3>2, <3>3 DEF Consecutive
  <2>8. NoDangling'  BY <1>0, <2>1 DEF NoDangling
  <2> QED  BY <2>3, <2>4, <2>5, <2>6, <2>7, <2>8
<1>12. CASE ClaimSlot(t)
  BY <1>12, QuietInv DEF ClaimSlot
<1>13. CASE CreateInUse(t)
  BY <1>13, CrashInv DEF CreateInUse
<1>2. CASE CloseDone(t)
  <2>1. /\ deleting[t] \in Handles \ Original
        /\ my' = [my EXCEPT ![deleting[t]] = "NULL"]
        /\ deleting' = [deleting EXCEPT ![t] = NoHandle]
        /\ UNCHANGED <<replaced, queueVars, threadVars, tickVars, history, fault>>
    BY <1>2 DEF CloseDone, SlotsHeld
  <2>2. SlotsHeld'  BY <2>1 DEF SlotsHeld, NoHandle, Handles
  <2>3. TakingTurns'  BY <2>1 DEF TakingTurns
  <2>4. TurnOfThread'  BY <2>1 DEF TurnOfThread
  <2>5. FrontIsAtHand'  BY <2>1 DEF FrontIsAtHand
  <2>6. (\A g \in Original : Consecutive(g))'
    BY <2>1 DEF Consecutive, Settled, Undelivered
  <2>7. NoDangling'  BY <1>0, <2>1 DEF NoDangling
  <2> QED  BY <2>2, <2>3, <2>4, <2>5, <2>6, <2>7
<1>3. CASE Connect(t, h)
  BY <1>3, QuietInv DEF Connect
<1>4. CASE Close(t, h)
  <2>1. /\ my' = [my EXCEPT ![h] = "deleted"]
        /\ deleting' = [deleting EXCEPT ![t] = h]
        /\ replaced' = replaced \cup {h}
        /\ UNCHANGED <<queueVars, threadVars, tickVars, history, fault>>
    BY <1>4 DEF Close
  <2>2. SlotsHeld'  BY <2>1 DEF SlotsHeld
  <2>3. TakingTurns'  BY <2>1 DEF TakingTurns
  <2>4. TurnOfThread'  BY <2>1 DEF TurnOfThread
  <2>5. FrontIsAtHand'  BY <2>1 DEF FrontIsAtHand
  <2>6. (\A g \in Original : Consecutive(g))'
    BY <2>1 DEF Consecutive, Settled, Undelivered
  <2>7. NoDangling'  BY <1>0, <2>1 DEF NoDangling
  <2> QED  BY <2>2, <2>3, <2>4, <2>5, <2>6, <2>7
<1>5. CASE QueueQuery(t, h)
  <2>1. /\ my[h] = "object"
        /\ issued' = [issued EXCEPT ![h] = @ + 1]
        /\ queryQueue' = [queryQueue EXCEPT ![h] = Append(@, issued[h] + 1)]
        /\ UNCHANGED <<tableVars, threadQueue, parsing, threadVars, tickVars, answered, fault>>
    BY <1>5 DEF QueueQuery, Connected
  <2>2. /\ queryQueue[h]' = Append(queryQueue[h], issued[h] + 1)
        /\ Len(queryQueue[h]') = Len(queryQueue[h]) + 1
        /\ \A i \in 1 .. Len(queryQueue[h]) : queryQueue[h]'[i] = queryQueue[h][i]
        /\ queryQueue[h]'[Len(queryQueue[h]) + 1] = issued[h] + 1
        /\ queryQueue[h]' # <<>>
    <3>1. queryQueue[h] \in Seq(Nat) /\ issued[h] + 1 \in Nat  OBVIOUS
    <3>2. queryQueue[h]' = Append(queryQueue[h], issued[h] + 1)  BY <2>1
    <3>3. Len(queryQueue[h]') = Len(queryQueue[h]) + 1  BY <3>1, <3>2
    <3>4. \A i \in 1 .. Len(queryQueue[h]) : queryQueue[h]'[i] = queryQueue[h][i]
      BY <3>1, <3>2
    <3>5. queryQueue[h]'[Len(queryQueue[h]) + 1] = issued[h] + 1  BY <3>1, <3>2
    <3>6. queryQueue[h]' # <<>>
      <4>1. Len(queryQueue[h]) \in Nat /\ Len(<<>>) = 0  BY <3>1
      <4> QED  BY <3>3, <4>1
    <3> QED  BY <3>2, <3>3, <3>4, <3>5, <3>6
  <2>3. SlotsHeld'  BY <2>1 DEF SlotsHeld
  <2>4. TakingTurns'  BY <2>1 DEF TakingTurns
  <2>5. TurnOfThread'  BY <2>1 DEF TurnOfThread
  <2>6. FrontIsAtHand'
    <3>1. queryQueue[h] # <<>> => Head(queryQueue[h]') = Head(queryQueue[h])
      BY <2>1, <2>2, TailFacts
    <3> QED  BY <2>1, <2>2, <3>1 DEF FrontIsAtHand
  <2>7. (\A g \in Original : Consecutive(g))'
    <3> SUFFICES ASSUME NEW g \in Original PROVE Consecutive(g)'
      BY <2>1
    <3>1. Undelivered(g)' = Undelivered(g)  BY <2>1 DEF Undelivered, Rest
    <3>2. Settled(g)' = Settled(g)
      <4>1. CASE g # h  BY <2>1, <4>1 DEF Settled
      <4>2. CASE g = h
        <5>1. /\ Len(queryQueue[g]) \in Nat /\ issued[g] \in Nat
              /\ issued[g]' = issued[g] + 1 /\ Len(queryQueue[g]') = Len(queryQueue[g]) + 1
          BY <2>1, <2>2, <4>2
        <5>2. issued[g]' - Len(queryQueue[g]') = issued[g] - Len(queryQueue[g])  BY <5>1
        <5> QED  BY <2>1, <5>2 DEF Settled
      <4> QED  BY <4>1, <4>2
    <3>3. CASE g # h  BY <2>1, <3>1, <3>2, <3>3 DEF Consecutive
    <3>4. CASE g = h
      <4>1. /\ Len(queryQueue[g]') <= issued[g]'
            /\ issued[g]' - Len(queryQueue[g]') = issued[g] - Len(queryQueue[g])
            /\ \A i \in 1 .. Len(queryQueue[g]') :
                  queryQueue[g]'[i] = issued[g]' - Len(queryQueue[g]') + i
        <5>1. Len(queryQueue[g]) \in Nat /\ issued[g] \in Nat /\ issued[g]' = issued[g] + 1
          BY <2>1, <3>4
        <5>2. /\ Len(queryQueue[g]) <= issued[g]
              /\ \A i \in 1 .. Len(queryQueue[g]) :
                    queryQueue[g][i] = issued[g] - Len(queryQueue[g]) + i
          BY DEF Consecutive
        <5>3. ASSUME NEW i \in 1 .. Len(queryQueue[g]')
              PROVE  queryQueue[g]'[i] = issued[g]' - Len(queryQueue[g]') + i
          <6>1. CASE i \in 1 .. Len(queryQueue[g])  BY <2>2, <3>4, <5>1, <5>2, <6>1
          <6>2. CASE i = Len(queryQueue[g]) + 1  BY <2>2, <3>4, <5>1, <6>2
          <6> QED  BY <2>2, <3>4, <5>1, <6>1, <6>2
        <5>4. Len(queryQueue[g]') = Len(queryQueue[g]) + 1  BY <2>2, <3>4
        <5>5. Len(queryQueue[g]') <= issued[g]'  BY <5>1, <5>2, <5>4
        <5>6. issued[g]' - Len(queryQueue[g]') = issued[g] - Len(queryQueue[g])  BY <5>1, <5>4
        <5> QED  BY <5>3, <5>5, <5>6
      <4>2. /\ threadQueue[g]' = threadQueue[g] /\ answered[g]' = answered[g]
        BY <2>1
      <4> QED  BY <3>1, <3>2, <4>1, <4>2 DEF Consecutive
    <3> QED  BY <3>3, <3>4
  <2>8. NoDangling'  BY <1>0, <2>1 DEF NoDangling
  <2> QED  BY <2>3, <2>4, <2>5, <2>6, <2>7, <2>8
<1>6. CASE RunQuery(t, h)
  BY <1>6, QuietInv DEF RunQuery
<1>7. CASE StoreResult(t, h)
  BY <1>7, QuietInv DEF StoreResult
<1>8. CASE FreeResult(t, h)
  BY <1>8, QuietInv DEF FreeResult
<1>9. CASE CallInUse(t, h) \/ StoreInUse(t, h)
  BY <1>9, CrashInv DEF CallInUse, StoreInUse
<1>10. CASE CallOnEmptySlot(t) \/ ConnectWithoutMysql(t)
  BY <1>10, CrashInv DEF CallOnEmptySlot, ConnectWithoutMysql
<1>11. CASE CallOnDeleted(t)
  <2>1. AtReplaced  BY <1>11 DEF CallOnDeleted, SlotsHeld, AtReplaced
  <2> QED  BY <1>11, <2>1, CrashInv DEF CallOnDeleted
<1> QED
  BY <1>1, <1>2, <1>3, <1>4, <1>5, <1>6, <1>7, <1>8, <1>9, <1>10, <1>11, <1>12, <1>13

(* The invariant behind the theorems below. *)
THEOREM PipelineCorrect == Spec => []PipelineInv
<1>1. TypeOK /\ PipelineInv /\ [Next]_vars => PipelineInv'
  <2>1. TypeOK /\ PipelineInv /\ UNCHANGED vars => PipelineInv'
    BY QuietInv DEF vars, tableVars
  <2> QED  BY <2>1, QueryThreadInv, ServerInv, ScriptInv DEF Next
<1> QED  BY <1>1, InitInv, TypeCorrect, PTL DEF Spec

(***************************************************************************)
(* What the invariant says of the queries that are not answered yet.       *)
(***************************************************************************)
LEMMA UndeliveredFacts ==
    ASSUME TypeOK, PipelineInv, NEW h \in Original
    PROVE  /\ Undelivered(h) \in Seq(Nat)
           /\ Len(Undelivered(h)) \in {0, 1}
           /\ Len(Undelivered(h)) = 1 => Undelivered(h)[1] = Settled(h)
<1>1. threadQueue[h] \in Seq(Nat) /\ Len(threadQueue[h]) <= 1
  BY DEF TypeOK, QueueTypes, PipelineInv, TakingTurns, Original
<1>2. CASE threadQueue[h] = <<>>  BY <1>2 DEF Undelivered, Rest
<1>3. CASE threadQueue[h] # <<>>
  <2>1. /\ Len(threadQueue[h]) = 1 /\ Tail(threadQueue[h]) = <<>>
        /\ Len(<<>>) = 0 /\ <<>> \in Seq(Nat)
    BY <1>1, <1>3, OneElement
  <2>2. threadQueue[h][1] = Settled(h)  BY <1>3 DEF PipelineInv, Consecutive
  <2>3. Undelivered(h) \in {<<>>, threadQueue[h]}  BY <1>3, <2>1 DEF Undelivered, Rest
  <2>4. CASE Undelivered(h) = <<>>  BY <2>1, <2>4
  <2>5. CASE Undelivered(h) = threadQueue[h]  BY <1>1, <2>1, <2>2, <2>5
  <2> QED  BY <2>3, <2>4, <2>5
<1> QED  BY <1>2, <1>3

LEMMA UnexecutedFacts ==
    ASSUME TypeOK, PipelineInv, NEW h \in Original
    PROVE  /\ Unexecuted(h) \in Seq(Nat)
           /\ Len(Unexecuted(h)) = issued[h] - Settled(h)
           /\ \A i \in 1 .. Len(Unexecuted(h)) : Unexecuted(h)[i] = Settled(h) + i
<1> DEFINE q == queryQueue[h]
<1>1. /\ q \in Seq(Nat) /\ Len(q) \in Nat /\ issued[h] \in Nat
      /\ \A i \in 1 .. Len(q) : q[i] = issued[h] - Len(q) + i
  BY DEF TypeOK, QueueTypes, HistoryTypes, PipelineInv, Consecutive, Original
<1>2. CASE qh = h /\ qpc \in {"error", "pop"}
  <2>1. q # <<>>  BY <1>2 DEF PipelineInv, FrontIsAtHand, AtHandle
  <2>2. Unexecuted(h) = Tail(q)  BY <1>2, <2>1 DEF Unexecuted, Rest
  <2>3. Settled(h) = issued[h] - Len(q) + 1  BY <1>2 DEF Settled
  <2>4. /\ Tail(q) \in Seq(Nat) /\ Len(Tail(q)) = Len(q) - 1
        /\ \A i \in 1 .. Len(q) - 1 : Tail(q)[i] = q[i + 1]
    <3> HIDE DEF q
    <3> QED  BY <1>1, <2>1, TailFacts
  <2> HIDE DEF q
  <2> QED  BY <1>1, <2>2, <2>3, <2>4
<1>3. CASE ~(qh = h /\ qpc \in {"error", "pop"})
  <2>1. Unexecuted(h) = q /\ Settled(h) = issued[h] - Len(q)  BY <1>1, <1>3 DEF Unexecuted, Settled
  <2> HIDE DEF q
  <2> QED  BY <1>1, <2>1
<1> QED  BY <1>2, <1>3

LEMMA InvExactlyOnce == TypeOK /\ PipelineInv => ExactlyOnceInOrder
<1> SUFFICES ASSUME TypeOK, PipelineInv, NEW h \in Original
             PROVE  /\ Len(answered[h]) + Len(Unanswered(h)) = issued[h]
                    /\ \A i \in 1 .. Len(answered[h]) : answered[h][i].query = i
                    /\ \A i \in 1 .. Len(Unanswered(h)) :
                          Unanswered(h)[i] = Len(answered[h]) + i
  BY DEF ExactlyOnceInOrder
<1> DEFINE u == Undelivered(h)
           e == Unexecuted(h)
           n == Len(answered[h])
<1>1. /\ u \in Seq(Nat) /\ Len(u) \in {0, 1}
      /\ Len(u) = 1 => u[1] = Settled(h)
  BY UndeliveredFacts
<1>2. /\ e \in Seq(Nat) /\ Len(e) = issued[h] - Settled(h)
      /\ \A i \in 1 .. Len(e) : e[i] = Settled(h) + i
  BY UnexecutedFacts
<1>3. /\ n \in Nat /\ issued[h] \in Nat /\ n + Len(u) = Settled(h)
      /\ \A i \in 1 .. n : answered[h][i].query = i
  BY DEF TypeOK, HistoryTypes, PipelineInv, Consecutive, Original
<1>4. Unanswered(h) = u \o e  BY DEF Unanswered
<1> HIDE DEF u, e
<1>5. /\ Len(u \o e) = Len(u) + Len(e)
      /\ \A i \in 1 .. Len(u) + Len(e) :
            (u \o e)[i] = IF i <= Len(u) THEN u[i] ELSE e[i - Len(u)]
  BY <1>1, <1>2, ConcatProperties
<1> HIDE DEF n
<1>6. n + Len(u \o e) = issued[h]  BY <1>1, <1>2, <1>3, <1>5
<1>7. ASSUME NEW i \in 1 .. Len(u \o e) PROVE (u \o e)[i] = n + i
  <2>1. Len(e) \in Nat /\ Settled(h) \in Int  BY <1>1, <1>2, <1>3
  <2>2. CASE i <= Len(u)
    <3>1. i = 1 /\ Len(u) = 1
      <4>1. i \in Int /\ i >= 1  OBVIOUS
      <4>2. CASE Len(u) = 0  BY <2>2, <4>1, <4>2
      <4>3. CASE Len(u) = 1  BY <2>2, <4>1, <4>3
      <4> QED  BY <1>1, <4>2, <4>3
    <3>2. u[1] = n + 1  BY <1>1, <1>3, <3>1
    <3>3. (u \o e)[1] = u[1]  BY <1>5, <2>1, <3>1
    <3> QED  BY <3>1, <3>2, <3>3
  <2>3. CASE i > Len(u)
    <3>1. i - Len(u) \in 1 .. Len(e)  BY <1>1, <1>5, <2>1, <2>3
    <3> QED  BY <1>1, <1>2, <1>3, <1>5, <2>1, <2>3, <3>1
  <2> QED  BY <1>1, <2>1, <2>2, <2>3
<1> QED  BY <1>3, <1>4, <1>6, <1>7 DEF n

(* Threaded queries on a handle are answered exactly once and in order     *)
(* until its object is replaced, for any number of slots, queries and      *)
(* scripts: closing a handle, or losing one to two mysql_init at once,     *)
(* disturbs no other (Thread.cpp, Natives.cpp).                            *)
THEOREM ExactlyOnce == Spec => []ExactlyOnceInOrder
BY TypeCorrect, PipelineCorrect, InvExactlyOnce, PTL

(* The handshake of the two threads by itself: the order of the writes to  *)
(* parsing and threadQueue (Thread.cpp:61-62, 130-131) is enough without a *)
(* lock on every handle whose object is not replaced.                      *)
THEOREM Handshake == Spec => []TakingTurns
<1>1. PipelineInv => TakingTurns  BY DEF PipelineInv
<1> QED  BY <1>1, PipelineCorrect, PTL

(* No use after free and no pop of an empty queue (Thread.cpp:40-75,       *)
(* 89-131) but at a handle whose own object was replaced: mysql_close and   *)
(* concurrent mysql_init are the only causes, and no danger to others.     *)
THEOREM NothingDangles == Spec => []NoDangling
<1>1. PipelineInv => NoDangling  BY DEF PipelineInv
<1> QED  BY <1>1, PipelineCorrect, PTL
=============================================================================
