----------------------- MODULE ThreadedScriptsProofs -----------------------
(***************************************************************************)
(* What the discipline of ThreadedScripts buys, for any number of slots    *)
(* and queries.  A disciplined behaviour is one of QueryThread, so its     *)
(* invariants hold; DisciplineInv is proved on top of them.                *)
(***************************************************************************)
EXTENDS ThreadedScripts, QueryThreadProofs

USE ParameterAssumption DEF Original

LEMMA DisciplinedSteps == DisciplinedNext => Next
<1> SUFFICES ASSUME DisciplinedNext PROVE Next
  OBVIOUS
<1>1. "server" \in Threads  BY DEF Threads
<1>2. CASE QueryThreadStep  BY <1>2 DEF Next
<1>3. CASE DisciplinedServer
  <2>1. (\E h \in Handles : UseResult(h)) => ScriptStep
    BY <1>1 DEF UseResult, ScriptStep
  <2> QED  BY <1>3, <2>1 DEF DisciplinedServer, Next
<1>4. CASE DisciplinedScript
  <2>1. ScriptStep  BY <1>4 DEF DisciplinedScript, ScriptStep
  <2> QED  BY <2>1 DEF Next
<1> QED  BY <1>2, <1>3, <1>4 DEF DisciplinedNext

(* The invariants of QueryThread, for disciplined scripts.                 *)
LEMMA DisciplinedPipeline ==
    DisciplinedSpec => [](TypeOK /\ PipelineInv)
<1>1. DisciplinedSpec => Spec
  <2>1. [DisciplinedNext]_vars => [Next]_vars  BY DisciplinedSteps
  <2> QED  BY <2>1, PTL DEF DisciplinedSpec, Spec
<1> QED  BY <1>1, TypeCorrect, PipelineCorrect, PTL

(***************************************************************************)
(* What the handshake says of a handle in use: while the query thread has  *)
(* a query of it at hand, the callback of its last query is over.          *)
(***************************************************************************)
LEMMA NotBoth ==
    ASSUME TypeOK, PipelineInv, DisciplineInv
    PROVE  /\ qpc \in {"executing", "executed"} =>
                 qh \in Handles /\ ~parsing[qh] /\ threadQueue[qh] = <<>>
           /\ qpc = "push" => qh \in Handles /\ threadQueue[qh] = <<>>
           /\ spc = "callback" => sh \in Handles /\ threadQueue[sh] # <<>> /\ parsing[sh]
           /\ qpc \in {"executing", "executed", "push"} /\ spc = "callback" => sh # qh
           /\ qpc \in {"executing", "executed", "push"} /\ spc = "clear" => sh # qh
<1>0. Original = Handles  BY DEF DisciplineInv, SlotSpare, Original
<1>1. qpc \in {"executing", "executed", "push"} => qh \in Handles
  BY DEF TypeOK, ThreadTypes, AtHandle
<1>2. spc \in {"callback", "clear"} => sh \in Handles  BY DEF TypeOK, TickTypes
<1>3. \A h \in Handles : threadQueue[h] # <<>> => parsing[h]
  BY <1>0 DEF PipelineInv, TakingTurns
<1> QED  BY <1>0, <1>1, <1>2, <1>3 DEF PipelineInv, TurnOfThread

LEMMA DisciplineQuiet ==
    ASSUME DisciplineInv, UNCHANGED vars
    PROVE  DisciplineInv'
BY DEF DisciplineInv, SlotSpare, ScannedOpen, RowsOfQuery, OutcomeKept, NoCrash,
       OutcomeReported, InOwnCallback, vars, tableVars, queueVars, resultVars, threadVars,
       tickVars, history

LEMMA InitDiscipline == Init => DisciplineInv
<1> SUFFICES ASSUME Init PROVE DisciplineInv
  OBVIOUS
<1>1. SlotSpare
  <2>1. 0 \in Handles /\ NoHandle # 0 /\ "server" \in Threads /\ "query" \in Threads
    BY DEF Handles, NoHandle, Threads
  <2> QED  BY <2>1 DEF Init, SlotSpare
<1>2. ScannedOpen
  <2>1. \A g \in Handles : ~(g < 0)  BY DEF Handles
  <2> QED  BY <2>1 DEF Init, ScannedOpen
<1>3. RowsOfQuery  BY DEF Init, RowsOfQuery
<1> QED  BY <1>1, <1>2, <1>3 DEF DisciplineInv, Init, OutcomeKept, NoCrash, OutcomeReported

(* A scan stops at the free slot, before the end of the table.             *)
LEMMA ScansStop ==
    ASSUME TypeOK, DisciplineInv
    PROVE  qh \in Handles /\ sh \in Handles
<1>1. PICK g \in Handles : my[g] = "NULL"  BY DEF DisciplineInv, SlotSpare
<1>2. ~(g < qh) /\ ~(g < sh)  BY <1>1 DEF DisciplineInv, ScannedOpen
<1>3. qh \in 0 .. MaxConnections /\ sh \in 0 .. MaxConnections
  BY DEF TypeOK, ThreadTypes, TickTypes
<1> QED  BY <1>2, <1>3 DEF Handles

LEMMA QueryThreadDiscipline ==
    ASSUME TypeOK, PipelineInv, DisciplineInv, QueryThreadStep
    PROVE  DisciplineInv'
<1> USE DEF DisciplineInv, SlotSpare, tableVars, tickVars
<1>1. qh \in Handles /\ sh \in Handles  BY ScansStop
<1>2. qpc \in AtHandle => my[qh] = "object"  BY <1>1 DEF PipelineInv, SlotsHeld
<1>3. ASSUME UNCHANGED <<tableVars, sh>>, qh' \in {0, qh}
      PROVE  SlotSpare' /\ ScannedOpen'
  <2>1. \A g \in Handles : ~(g < 0)  BY DEF Handles
  <2> QED  BY <1>3, <2>1 DEF SlotSpare, ScannedOpen
<1>4. ASSUME UNCHANGED <<tableVars, sh>>, qh' = qh + 1, my[qh] = "object"
      PROVE  SlotSpare' /\ ScannedOpen'
  <2>1. \A g \in Handles : g < qh + 1 => g < qh \/ g = qh  BY <1>1 DEF Handles
  <2> QED  BY <1>4, <2>1 DEF SlotSpare, ScannedOpen
<1>5. ASSUME UNCHANGED <<threadQueue, resultVars, tickVars>>,
             ~(qpc \in {"executed", "push"} /\ wire[qh] # NoRows)
      PROVE  RowsOfQuery'
  BY <1>5 DEF RowsOfQuery, resultVars, InOwnCallback
<1>6. CASE StartThread \/ Scan \/ SkipHandle \/ TakeQuery
  <2>1. /\ UNCHANGED <<tableVars, sh>> /\ fault' = fault
        /\ qh' \in {0, qh} \/ (qh' = qh + 1 /\ my[qh] = "object")
        /\ qpc' \in {"scan", "exited", "check", "executing"}
    BY <1>6 DEF StartThread, Scan, SkipHandle, TakeQuery
  <2>2. SlotSpare' /\ ScannedOpen'  BY <1>3, <1>4, <2>1
  <2>3. RowsOfQuery'
    BY <1>5, <1>6 DEF StartThread, Scan, SkipHandle, TakeQuery, queueVars
  <2> QED  BY <2>1, <2>2, <2>3 DEF OutcomeKept, NoCrash, OutcomeReported
<1>7. CASE ExecuteOk
  <2>1. SlotSpare' /\ ScannedOpen'  BY <1>3, <1>7 DEF ExecuteOk
  <2>2. /\ qpc = "executing" /\ threadQueue[qh] = <<>> /\ wire[qh] = NoRows
        /\ (spc = "callback" => sh # qh)
    BY <1>7, NotBoth DEF ExecuteOk
  <2>3. /\ state' = [state EXCEPT ![qh] = "ok"] /\ result' = result
        /\ wire'[qh] \in {NoRows, qcur} /\ \A h \in Handles : h # qh => wire'[h] = wire[h]
        /\ UNCHANGED <<qh, qcur, spc, sh, threadQueue>> /\ qpc' = "executed"
    BY <1>1, <1>7 DEF ExecuteOk, queueVars, TypeOK, ResultTypes
  <2>4. RowsOfQuery'
    <3>1. result[qh] = NoRows  BY <1>1, <2>2 DEF RowsOfQuery, InOwnCallback
    <3>2. state'[qh] = "ok" /\ \A h \in Handles : h # qh => state'[h] = state[h]
      BY <1>1, <2>3 DEF TypeOK, ResultTypes
    <3> QED  BY <2>2, <2>3, <3>1, <3>2 DEF RowsOfQuery, InOwnCallback
  <2>5. OutcomeKept'  BY <1>1, <1>7, <2>3 DEF ExecuteOk, OutcomeKept, TypeOK, ResultTypes
  <2> QED  BY <1>7, <2>1, <2>4, <2>5 DEF ExecuteOk, NoCrash, OutcomeReported
<1>8. CASE ExecuteFails
  <2>1. SlotSpare' /\ ScannedOpen'  BY <1>3, <1>8 DEF ExecuteFails
  <2>2. qpc = "executing" /\ threadQueue[qh] = <<>>
    BY <1>8, NotBoth DEF ExecuteFails
  <2>3. /\ state' = [state EXCEPT ![qh] = "failed"] /\ result' = result /\ wire' = wire
        /\ UNCHANGED <<qh, qcur, spc, sh, threadQueue>> /\ qpc' = "executed"
    BY <1>8 DEF ExecuteFails, queueVars
  <2>4. RowsOfQuery'
    <3>1. wire[qh] = NoRows  BY <1>1, <2>2 DEF RowsOfQuery
    <3>2. \A h \in Handles : h # qh => state'[h] = state[h]
      BY <1>1, <2>3 DEF TypeOK, ResultTypes
    <3> QED  BY <2>2, <2>3, <3>1, <3>2 DEF RowsOfQuery, InOwnCallback
  <2>5. OutcomeKept'  BY <1>1, <1>8, <2>3 DEF ExecuteFails, OutcomeKept, TypeOK, ResultTypes
  <2> QED  BY <1>8, <2>1, <2>4, <2>5 DEF ExecuteFails, NoCrash, OutcomeReported
<1>9. CASE SetParsing
  <2>1. SlotSpare' /\ ScannedOpen'  BY <1>3, <1>9 DEF SetParsing
  <2>2. RowsOfQuery'  BY <1>9 DEF SetParsing, RowsOfQuery, InOwnCallback, resultVars
  <2> QED  BY <1>9, <2>1, <2>2 DEF SetParsing, OutcomeKept, NoCrash, OutcomeReported
<1>10. CASE ReportError
  <2>1. SlotSpare' /\ ScannedOpen'  BY <1>3, <1>10 DEF ReportError
  <2>2. wire[qh] = NoRows  BY <1>1, <1>10 DEF ReportError, RowsOfQuery
  <2>3. RowsOfQuery'  BY <1>5, <1>10, <2>2 DEF ReportError
  <2> QED  BY <1>10, <2>1, <2>3 DEF ReportError, OutcomeKept, NoCrash, OutcomeReported
<1>11. CASE PushResult
  <2>1. SlotSpare' /\ ScannedOpen'  BY <1>3, <1>11 DEF PushResult
  <2>2. qpc = "push" /\ threadQueue[qh] = <<>> /\ (spc = "callback" => sh # qh)
    BY <1>11, NotBoth DEF PushResult
  <2>3. /\ threadQueue'[qh] # <<>> /\ Head(threadQueue'[qh]) = qcur
        /\ \A h \in Handles : h # qh => threadQueue'[h] = threadQueue[h]
        /\ UNCHANGED <<resultVars, tickVars>>
    <3>1. /\ threadQueue' = [threadQueue EXCEPT ![qh] = Append(@, qcur)]
          /\ threadQueue \in [Handles -> Seq(Nat)] /\ qcur \in Nat
          /\ UNCHANGED <<resultVars, tickVars>>
      BY <1>11 DEF PushResult, TypeOK, QueueTypes, ThreadTypes
    <3>2. threadQueue'[qh] = Append(<<>>, qcur)  BY <1>1, <2>2, <3>1
    <3>3. Append(<<>>, qcur) = <<qcur>>  BY <3>1
    <3>4. <<qcur>> # <<>> /\ Head(<<qcur>>) = qcur  BY <3>1
    <3>5. threadQueue'[qh] # <<>> /\ Head(threadQueue'[qh]) = qcur  BY <3>2, <3>3, <3>4
    <3>6. \A h \in Handles : h # qh => threadQueue'[h] = threadQueue[h]  BY <3>1
    <3> QED  BY <3>1, <3>5, <3>6
  <2>4. RowsOfQuery'
    BY <2>2, <2>3 DEF RowsOfQuery, InOwnCallback, resultVars
  <2> QED  BY <1>11, <2>1, <2>4 DEF PushResult, OutcomeKept, NoCrash, OutcomeReported
<1>12. CASE ErrorReturns
  <2>1. SlotSpare' /\ ScannedOpen'  BY <1>3, <1>12 DEF ErrorReturns
  <2>2. RowsOfQuery'  BY <1>5, <1>12 DEF ErrorReturns, queueVars
  <2> QED  BY <1>12, <2>1, <2>2 DEF ErrorReturns, OutcomeKept, NoCrash, OutcomeReported
<1>13. CASE PopQuery
  <2>1. /\ qpc = "pop" /\ qpc' = "scan" /\ qh' = qh + 1 /\ fault' = fault /\ my[qh] = "object"
        /\ UNCHANGED <<tableVars, threadQueue, resultVars, tickVars>>
    BY <1>1, <1>2, <1>13 DEF PopQuery, PipelineInv, FrontIsAtHand, AtHandle
  <2>2. SlotSpare' /\ ScannedOpen'  BY <1>4, <2>1
  <2>3. RowsOfQuery'  BY <1>5, <2>1
  <2> QED  BY <2>1, <2>2, <2>3 DEF OutcomeKept, NoCrash, OutcomeReported
<1>14. CASE ScanPastTable  BY <1>1, <1>14 DEF ScanPastTable, Handles
<1>15. CASE QueryThreadDangling  BY <1>2, <1>15 DEF QueryThreadDangling
<1> QED
  BY <1>6, <1>7, <1>8, <1>9, <1>10, <1>11, <1>12, <1>13, <1>14, <1>15 DEF QueryThreadStep

LEMMA ServerDiscipline ==
    ASSUME TypeOK, PipelineInv, DisciplineInv, ServerStep, spc = "callback" => CallbackDone
    PROVE  DisciplineInv'
<1> USE DEF DisciplineInv, SlotSpare, tableVars, threadVars
<1>1. qh \in Handles /\ sh \in Handles  BY ScansStop
<1>2. spc \in {"callback", "clear"} => my[sh] = "object"  BY <1>1 DEF PipelineInv, SlotsHeld
<1>3. ASSUME UNCHANGED <<tableVars, qh>>,
             sh' \in {0, sh} \/ (sh' = sh + 1 /\ my[sh] = "object")
      PROVE  SlotSpare' /\ ScannedOpen'
  <2>1. \A g \in Handles : ~(g < 0)  BY DEF Handles
  <2>2. \A g \in Handles : g < sh + 1 => g < sh \/ g = sh  BY <1>1 DEF Handles
  <2> QED  BY <1>3, <2>1, <2>2 DEF SlotSpare, ScannedOpen
<1>4. ASSUME UNCHANGED <<resultVars, threadVars, fault>>
      PROVE  OutcomeKept' /\ NoCrash' /\ OutcomeReported'
  BY <1>4 DEF OutcomeKept, NoCrash, OutcomeReported, resultVars
<1>5. ASSUME UNCHANGED <<threadQueue, resultVars, threadVars>>, spc # "callback"
      PROVE  RowsOfQuery'
  BY <1>5 DEF RowsOfQuery, resultVars, InOwnCallback
<1>6. CASE TickStart \/ TickEnd \/ TickSkip \/ TickDeliver \/ TickClear
  <2>1. /\ UNCHANGED <<tableVars, resultVars, threadVars, threadQueue, fault>>
        /\ spc # "callback"
        /\ sh' \in {0, sh} \/ (sh' = sh + 1 /\ my[sh] = "object")
    BY <1>6 DEF TickStart, TickEnd, TickSkip, TickDeliver, TickClear, queueVars
  <2>2. SlotSpare' /\ ScannedOpen'  BY <1>3, <2>1
  <2>3. RowsOfQuery'  BY <1>5, <2>1
  <2>4. OutcomeKept' /\ NoCrash' /\ OutcomeReported'  BY <1>4, <2>1
  <2> QED  BY <2>2, <2>3, <2>4
<1>7. CASE TickPop
  <2>1. /\ spc = "callback" /\ wire[sh] = NoRows /\ result[sh] = NoRows
        /\ threadQueue' = [threadQueue EXCEPT ![sh] = Tail(@)]
        /\ UNCHANGED <<tableVars, resultVars, threadVars, sh, fault>>
    BY <1>7, NotBoth DEF TickPop, CallbackDone
  <2>2. \A h \in Handles : h # sh => threadQueue'[h] = threadQueue[h]
    BY <2>1 DEF TypeOK, QueueTypes
  <2>3. \A h \in Handles : result[h] = NoRows
    BY <2>1 DEF RowsOfQuery, InOwnCallback
  <2>4. RowsOfQuery'  BY <2>1, <2>2, <2>3 DEF RowsOfQuery, resultVars, InOwnCallback
  <2> QED  BY <1>3, <1>4, <2>1, <2>4
<1>8. CASE TickPastTable  BY <1>1, <1>8 DEF TickPastTable, Handles
<1>9. CASE TickDangling
  <2>1. my[sh] # "deleted"  BY <1>1 DEF PipelineInv, SlotsHeld
  <2> QED  BY <1>2, <1>9, <2>1 DEF TickDangling
<1> QED  BY <1>6, <1>7, <1>8, <1>9 DEF ServerStep

(* A callback asks for its rows and frees them. *)
LEMMA UseResultDiscipline ==
    ASSUME TypeOK, PipelineInv, DisciplineInv, NEW h \in Handles, UseResult(h)
    PROVE  DisciplineInv'
<1> USE DEF DisciplineInv, SlotSpare, tableVars, threadVars, tickVars
<1>1. /\ spc = "callback" /\ sh = h /\ threadQueue[h] # <<>>
      /\ (qpc \in {"executing", "executed", "push"} => qh # h)
  BY NotBoth DEF UseResult, InOwnCallback
<1>2. ASSUME UNCHANGED <<tableVars, threadVars, tickVars, fault>>
      PROVE  SlotSpare' /\ ScannedOpen' /\ NoCrash' /\ OutcomeReported'
  BY <1>2 DEF SlotSpare, ScannedOpen, NoCrash, OutcomeReported
<1>3. CASE StoreResult("server", h)
  <2>1. /\ UNCHANGED <<tableVars, queueVars, state, threadVars, tickVars, fault>>
        /\ result'[h] \in {NoRows, wire[h]} /\ wire'[h] = NoRows
        /\ \A g \in Handles : g # h => result'[g] = result[g] /\ wire'[g] = wire[g]
    BY <1>3 DEF StoreResult, TypeOK, ResultTypes
  <2>2. wire[h] # NoRows => wire[h] = Head(threadQueue[h])  BY <1>1 DEF RowsOfQuery
  <2>3. RowsOfQuery'  BY <1>1, <2>1, <2>2 DEF RowsOfQuery, InOwnCallback, queueVars
  <2>4. OutcomeKept'  BY <2>1 DEF OutcomeKept
  <2> QED  BY <1>2, <2>1, <2>3, <2>4
<1>4. CASE StoreInUse("server", h)  BY <1>1, <1>4 DEF StoreInUse, InUse
<1>5. CASE result[h] # NoRows /\ FreeResult("server", h)
  <2>1. /\ UNCHANGED <<tableVars, queueVars, wire, threadVars, tickVars, fault>>
        /\ result'[h] = NoRows
        /\ \A g \in Handles : g # h => result'[g] = result[g] /\ state'[g] = state[g]
    BY <1>5 DEF FreeResult, TypeOK, ResultTypes
  <2>2. wire[h] = NoRows  BY <1>5 DEF RowsOfQuery
  <2>3. RowsOfQuery'  BY <1>1, <2>1, <2>2 DEF RowsOfQuery, InOwnCallback, queueVars
  <2>4. OutcomeKept'
    <3>1. qpc = "executed" => qh \in Handles /\ qh # h  BY <1>1, NotBoth
    <3> QED  BY <2>1, <3>1 DEF OutcomeKept
  <2> QED  BY <1>2, <2>1, <2>3, <2>4
<1> QED  BY <1>3, <1>4, <1>5 DEF UseResult

LEMMA ScriptDiscipline ==
    ASSUME TypeOK, PipelineInv, DisciplineInv, DisciplinedScript
    PROVE  DisciplineInv'
<1> USE DEF DisciplineInv, SlotSpare, threadVars, tickVars
<1>1. \A t \in Threads : creating[t] # NoHandle =>
          /\ t = "server" /\ creating[t] \in Handles /\ my[creating[t]] = "NULL"
          /\ (qpc \in AtHandle => qh # creating[t])
  <2>1. \A t \in Threads : t \in {"server", "query"}  BY DEF Threads
  <2> QED  BY <2>1 DEF SlotSpare, PipelineInv, SlotsHeld, TypeOK, TableTypes
<1>2. ASSUME UNCHANGED <<threadVars, fault>> PROVE NoCrash' /\ OutcomeReported'
  BY <1>2 DEF NoCrash, OutcomeReported
<1>3. CASE SpareSlot /\ ClaimSlot("server")
  <2>1. PICK s \in Handles : my[s] = "NULL" /\ creating' = [creating EXCEPT !["server"] = s]
    BY <1>3 DEF ClaimSlot
  <2>2. UNCHANGED <<my, replaced, queueVars, resultVars, threadVars, tickVars, fault>>
    BY <1>3 DEF ClaimSlot
  <2>3. creating'["server"] = s /\ creating'["query"] = creating["query"]
    BY <2>1 DEF TypeOK, TableTypes, Threads
  <2>4. SlotSpare'  BY <1>3, <2>1, <2>2, <2>3 DEF SlotSpare, SpareSlot
  <2>5. ScannedOpen' /\ OutcomeKept'  BY <2>2 DEF ScannedOpen, OutcomeKept, resultVars
  <2>6. RowsOfQuery'  BY <2>2 DEF RowsOfQuery, InOwnCallback, queueVars, resultVars
  <2> QED  BY <1>2, <2>2, <2>4, <2>5, <2>6
<1>4. ASSUME NEW t \in Threads, CreateObject(t) PROVE DisciplineInv'
  <2> DEFINE s == creating["server"]
  <2>1. t = "server" /\ s \in Handles /\ my[s] = "NULL" /\ (qpc \in AtHandle => qh # s)
    BY <1>1, <1>4 DEF CreateObject
  <2>2. /\ UNCHANGED <<replaced, threadVars, tickVars, fault>>
        /\ my' = [my EXCEPT ![s] = "object"]
        /\ threadQueue' = [threadQueue EXCEPT ![s] = <<>>]
        /\ state' = [state EXCEPT ![s] = "none"]
        /\ result' = [result EXCEPT ![s] = NoRows]
        /\ wire' = [wire EXCEPT ![s] = NoRows]
        /\ creating' = [creating EXCEPT !["server"] = NoHandle]
    BY <1>4, <2>1 DEF CreateObject
  <2>3. /\ my'[s] = "object" /\ result'[s] = NoRows /\ wire'[s] = NoRows
        /\ \A h \in Handles : h # s =>
              /\ my'[h] = my[h] /\ threadQueue'[h] = threadQueue[h]
              /\ state'[h] = state[h] /\ result'[h] = result[h] /\ wire'[h] = wire[h]
        /\ creating'["server"] = NoHandle /\ creating'["query"] = creating["query"]
    BY <2>1, <2>2 DEF TypeOK, TableTypes, QueueTypes, ResultTypes, Threads
  <2>4. SlotSpare'
    <3>1. \A g \in Handles : g # NoHandle  BY DEF Handles, NoHandle
    <3> QED  BY <2>2, <2>3, <3>1 DEF SlotSpare
  <2>5. ScannedOpen'  BY <2>2, <2>3 DEF ScannedOpen
  <2>6. RowsOfQuery'  BY <2>2, <2>3 DEF RowsOfQuery, InOwnCallback
  <2>7. OutcomeKept'
    <3>1. qpc = "executed" => qh \in Handles /\ qh # s  BY <2>1, NotBoth DEF AtHandle
    <3> QED  BY <2>2, <2>3, <3>1 DEF OutcomeKept
  <2> QED  BY <1>2, <2>2, <2>4, <2>5, <2>6, <2>7
<1>5. ASSUME NEW t \in Threads, CreateInUse(t) PROVE DisciplineInv'
  BY <1>1, <1>5 DEF CreateInUse, InUse, AtHandle
<1>6. ASSUME NEW t \in Threads, NEW h \in Handles, Connect(t, h) PROVE DisciplineInv'
  <2>1. /\ UNCHANGED <<my, creating, replaced, queueVars, state, result, threadVars, tickVars, fault>>
        /\ wire'[h] = NoRows /\ \A g \in Handles : g # h => wire'[g] = wire[g]
    BY <1>6 DEF Connect, TypeOK, ResultTypes
  <2>2. RowsOfQuery'  BY <2>1 DEF RowsOfQuery, InOwnCallback, queueVars
  <2> QED  BY <1>2, <2>1, <2>2 DEF SlotSpare, ScannedOpen, OutcomeKept
<1>7. ASSUME NEW t \in Threads, NEW h \in Handles, QueueQuery(t, h) PROVE DisciplineInv'
  <2>1. /\ UNCHANGED <<my, creating, replaced, threadQueue, state, wire, threadVars, tickVars, fault>>
        /\ result'[h] = NoRows /\ \A g \in Handles : g # h => result'[g] = result[g]
    BY <1>7 DEF QueueQuery, tableVars, TypeOK, ResultTypes
  <2>2. RowsOfQuery'  BY <2>1 DEF RowsOfQuery, InOwnCallback
  <2> QED  BY <1>2, <2>1, <2>2 DEF SlotSpare, ScannedOpen, OutcomeKept
<1> QED  BY <1>3, <1>4, <1>5, <1>6, <1>7 DEF DisciplinedScript

(* The discipline of ThreadedScripts is enough to keep DisciplineInv: a    *)
(* spare slot, rows tied to the query at hand or to the callback that runs,*)
(* and no writer of state (Thread.cpp:45-50) between its two uses.         *)
THEOREM DisciplineKept == DisciplinedSpec => []DisciplineInv
<1>1. TypeOK /\ PipelineInv /\ DisciplineInv /\ [DisciplinedNext]_vars => DisciplineInv'
  <2>1. ASSUME TypeOK, PipelineInv, DisciplineInv, DisciplinedServer PROVE DisciplineInv'
    BY <2>1, ServerDiscipline, UseResultDiscipline DEF DisciplinedServer
  <2> QED
    BY <2>1, QueryThreadDiscipline, ScriptDiscipline, DisciplineQuiet DEF DisciplinedNext
<1> QED  BY <1>1, InitDiscipline, DisciplinedPipeline, PTL DEF DisciplinedSpec

(* In OnMysqlQuery a script gets the rows of the query it is the callback  *)
(* of (Mysql.cpp:197-212), however the query thread goes on meanwhile.     *)
THEOREM OwnResults == DisciplinedSpec => []CallbackSeesOwnResult
<1>1. TypeOK /\ PipelineInv /\ DisciplineInv => CallbackSeesOwnResult
  BY NotBoth DEF DisciplineInv, RowsOfQuery, CallbackSeesOwnResult, StoreAsks
<1> QED  BY <1>1, DisciplineKept, DisciplinedPipeline, PTL

(* mysql_real_query (Thread.cpp:45) never finds rows waiting or a callback *)
(* at work on its handle.                                                  *)
THEOREM Exclusive == DisciplinedSpec => []ConnectionExclusive
<1>1. TypeOK /\ PipelineInv /\ DisciplineInv => ConnectionExclusive
  BY NotBoth DEF DisciplineInv, RowsOfQuery, ConnectionExclusive, InUse, InOwnCallback
<1> QED  BY <1>1, DisciplineKept, DisciplinedPipeline, PTL

(* No undefined behaviour, the read past my[MAX_CONNECTIONS]               *)
(* (Thread.cpp:38, 87) included.                                           *)
THEOREM CrashFree == DisciplinedSpec => []NoCrash
<1>1. DisciplineInv => NoCrash  BY DEF DisciplineInv
<1> QED  BY <1>1, DisciplineKept, PTL

(* OnMysqlError is made for the queries that mysql_real_query refused, and *)
(* OnMysqlQuery for the others (Thread.cpp:50, 64).                        *)
THEOREM TrueOutcomes == DisciplinedSpec => []OutcomeReported
<1>1. DisciplineInv => OutcomeReported  BY DEF DisciplineInv
<1> QED  BY <1>1, DisciplineKept, PTL

(* No rows are left on a connection that mysql_store_result refuses to ask *)
(* for (Mysql.cpp:201).                                                    *)
THEOREM NoRowsLost == DisciplinedSpec => []RowsReachable
<1>1. DisciplineInv => RowsReachable  BY DEF DisciplineInv, RowsOfQuery, RowsReachable
<1> QED  BY <1>1, DisciplineKept, PTL
=============================================================================
