-------------------------- MODULE ThreadedScripts --------------------------
(***************************************************************************)
(* The scripts for which the pipeline of QueryThread works: every query is *)
(* given a resultid, results are stored, used and freed in the callback of *)
(* their query, no handle is closed, and one slot of my[] is left unused.  *)
(* The natives, the query thread and ProcessTick are those of QueryThread; *)
(* only what scripts choose to call is restricted.  The plugin documents   *)
(* no such rule: this module states one that is enough, and the properties *)
(* say what it buys.                                                       *)
(***************************************************************************)
EXTENDS QueryThread

InOwnCallback(h) == spc = "callback" /\ sh = h

(* In OnMysqlQuery a script asks for its rows, and frees them when done.   *)
UseResult(h) ==
    /\ InOwnCallback(h)
    /\ \/ StoreResult("server", h)
       \/ StoreInUse("server", h)
       \/ result[h] # NoRows /\ FreeResult("server", h)

(* A callback returns when it has taken its rows and freed them.           *)
CallbackDone == wire[sh] = NoRows /\ result[sh] = NoRows

DisciplinedServer ==
    \/ ServerStep /\ (spc = "callback" => CallbackDone)
    \/ \E h \in Handles : UseResult(h)

SpareSlot == \E g, h \in Handles : g # h /\ my[g] = "NULL" /\ my[h] = "NULL"

(* mysql_init is called on the server thread; mysql_connect is called      *)
(* once, after a mysql_init that succeeded; a query may be made from       *)
(* anywhere, OnMysqlError on the query thread too.                         *)
DisciplinedScript ==
    \E t \in Threads :
        \/ SpareSlot /\ t = "server" /\ ClaimSlot(t)
        \/ CreateObject(t) \/ CreateInUse(t)
        \/ \E h \in Handles : conn[h] = "initialised" /\ Connect(t, h)
        \/ \E h \in Handles : QueueQuery(t, h)

DisciplinedNext == QueryThreadStep \/ DisciplinedServer \/ DisciplinedScript

DisciplinedSpec == Init /\ [][DisciplinedNext]_vars

(* Callbacks return, so the server thread also runs them to their end.     *)
DisciplinedFairSpec ==
    /\ DisciplinedSpec
    /\ WF_vars(QueryThreadStep) /\ WF_vars(DisciplinedServer)
    /\ WF_vars(CreateObject("server"))

-----------------------------------------------------------------------------
(* In OnMysqlQuery the rows a script gets are those of the query it is the *)
(* callback of: mysql_store_result (Mysql.cpp:197) neither refuses them    *)
(* nor returns the rows of the next query.                                 *)
CallbackSeesOwnResult ==
    spc = "callback" =>
        /\ wire[sh] \in {NoRows, Head(threadQueue[sh])}
        /\ result[sh] \in {NoRows, Head(threadQueue[sh])}
        /\ wire[sh] # NoRows => StoreAsks(sh)

(* While the query thread is inside mysql_real_query (Thread.cpp:45) the   *)
(* last query of the handle is over: its rows are taken and freed and its  *)
(* callback has returned.  So no query is refused as out of sync.          *)
ConnectionExclusive ==
    \A h \in Handles : InUse(h) =>
        /\ wire[h] = NoRows /\ result[h] = NoRows
        /\ threadQueue[h] = <<>> /\ ~(spc \in {"callback", "clear"} /\ sh = h)

(* No step has undefined behaviour: no slot is used empty, no queue popped *)
(* empty, no connection used by both threads, my[] not read past its end.  *)
NoCrash == fault = "none"

(* The inductive invariant behind the five: no object is replaced, a slot   *)
(* stays free, the slots that a scan has passed stay taken, rows belong to *)
(* the query at the front of threadQueue or at hand, and nothing writes to *)
(* state between mysql_real_query (Thread.cpp:45) and the test of it.      *)
SlotSpare ==
    /\ replaced = {} /\ creating["query"] = NoHandle
    /\ creating["server"] # NoHandle => my[creating["server"]] = "NULL"
    /\ \E g \in Handles : my[g] = "NULL" /\ g # creating["server"]

ScannedOpen ==
    \A g \in Handles : g < qh \/ g < sh => my[g] = "object"

RowsOfQuery ==
    \A h \in Handles :
        /\ wire[h] # NoRows =>
              /\ state[h] = "ok" /\ result[h] = NoRows
              /\ \/ threadQueue[h] # <<>> /\ wire[h] = Head(threadQueue[h])
                 \/ qpc \in {"executed", "push"} /\ qh = h /\ wire[h] = qcur
        /\ result[h] # NoRows =>
              InOwnCallback(h) /\ result[h] = Head(threadQueue[h])

DisciplineInv ==
    /\ SlotSpare /\ ScannedOpen /\ RowsOfQuery /\ OutcomeKept
    /\ NoCrash /\ OutcomeReported
=============================================================================
