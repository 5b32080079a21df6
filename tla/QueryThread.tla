---------------------------- MODULE QueryThread ----------------------------
(***************************************************************************)
(* The threaded-query pipeline of the plugin: the table my[] of connection *)
(* objects (MySQL/Main.cpp), the query thread and ProcessTick              *)
(* (MySQL/Thread.cpp), and the natives through which scripts open, use and *)
(* close handles (MySQL/Natives.cpp, MySQL/Mysql.cpp).                     *)
(*                                                                         *)
(* Two threads share every variable without a lock.  The server thread     *)
(* runs scripts and, once per server tick, ProcessTick; the query thread   *)
(* runs QueryThread(), and scripts too, while Error() makes the            *)
(* OnMysqlError callbacks.  A step is what one thread does between two     *)
(* points where the other can make a difference.  The code reads           *)
(* my[handle] anew at every access, so the state of an object is indexed   *)
(* by its slot.  A call of undefined effect (a NULL or deleted object, one *)
(* connection used by two threads, pop() of an empty queue, a read past    *)
(* the table) ends the behaviour and is named by the variable fault.       *)
(***************************************************************************)
EXTENDS Integers, Sequences

CONSTANTS MaxConnections,   \* MAX_CONNECTIONS
          MaxQueries,       \* bound of the model: threaded queries per handle
          Calls,            \* the natives that the loaded scripts call
          InitBy,           \* the threads whose scripts call mysql_init
          WordAfterMy       \* what the build may place after my[]

(* mysql_query and mysql_query_array are one call when resultid is given    *)
(* ("queue") and another when it is -1 ("run").  "command" stands for the   *)
(* natives that use the connection and none of the state modelled here.     *)
AllCalls == {"connect", "close", "queue", "run", "store", "free", "command"}

ASSUME ParameterAssumption ==
    /\ MaxConnections \in Nat \ {0}
    /\ MaxQueries \in Nat
    /\ Calls \subseteq AllCalls
    /\ InitBy \subseteq {"server", "query"}
    /\ WordAfterMy \subseteq {"NULL", "other"}
    /\ WordAfterMy # {}

Handles == 0 .. MaxConnections - 1
NoHandle == -1
Threads == {"server", "query"}

(* The rows a connection or an object holds: none, those of the n-th        *)
(* threaded query of the handle, or those of a query run by a native.       *)
NoRows == 0
RowsOfRun == -1

VARIABLES
    my,           \* [h] the slot: "NULL", "object", or "deleted" and not yet NULL
    conn,         \* [h] mysql and connected: "none", "initialised", "connected"
    creating,     \* [t] the slot that mysql_init on thread t has chosen, or NoHandle
    deleting,     \* [t] the handle thread t is closing, or NoHandle
    replaced,     \* the slots whose object was deleted or overwritten; ghost
    queryQueue,   \* [h] queries to execute
    threadQueue,  \* [h] queries executed, their callback not finished
    parsing,      \* [h] the flag by which the two threads take turns
    state,        \* [h] what mysql_real_query returned: "none" is -1, "ok" is 0
    result,       \* [h] the rows held by MySQL::result
    wire,         \* [h] the rows the connection waits to be asked for
    qpc, qh,      \* where the query thread is, and its loop variable
    qcur,         \* mysqlQueryQueue, its copy of the query at hand
    returned,     \* what mysql_real_query returned for it; ghost
    spc, sh,      \* where the server thread is, and ProcessTick's loop variable
    issued,       \* [h] number of threaded queries made
    answered,     \* [h] history of the callbacks made for them
    fault         \* the undefined behaviour that was reached, or "none"

tableVars == <<my, conn, creating, deleting, replaced>>
queueVars == <<queryQueue, threadQueue, parsing>>
resultVars == <<state, result, wire>>
threadVars == <<qpc, qh, qcur, returned>>
tickVars == <<spc, sh>>
history == <<issued, answered>>
vars == <<tableVars, queueVars, resultVars, threadVars, tickVars, history, fault>>

Callbacks == {"OnMysqlQuery", "OnMysqlError"}

(* Where the query thread is working on the handle qh. *)
AtHandle == {"check", "executing", "executed", "push", "error", "pop"}

TableTypes ==
    /\ my \in [Handles -> {"NULL", "object", "deleted"}]
    /\ conn \in [Handles -> {"none", "initialised", "connected"}]
    /\ creating \in [Threads -> Handles \cup {NoHandle}]
    /\ deleting \in [Threads -> Handles \cup {NoHandle}]
    /\ replaced \subseteq Handles

QueueTypes ==
    /\ queryQueue \in [Handles -> Seq(Nat)]
    /\ threadQueue \in [Handles -> Seq(Nat)]
    /\ parsing \in [Handles -> BOOLEAN]

ResultTypes ==
    /\ state \in [Handles -> {"none", "ok", "failed"}]
    /\ result \in [Handles -> Nat \cup {RowsOfRun}]
    /\ wire \in [Handles -> Nat \cup {RowsOfRun}]

ThreadTypes ==
    /\ qpc \in {"start", "exited", "scan"} \cup AtHandle
    /\ qh \in 0 .. MaxConnections
    /\ qpc \in AtHandle => qh \in Handles
    /\ qcur \in Nat
    /\ returned \in {"none", "ok", "failed"}

TickTypes ==
    /\ spc \in {"idle", "tick", "callback", "clear"}
    /\ sh \in 0 .. MaxConnections
    /\ spc \in {"callback", "clear"} => sh \in Handles

HistoryTypes ==
    /\ issued \in [Handles -> Nat]
    /\ answered \in [Handles -> Seq([query : Nat, callback : Callbacks])]

FaultTypes == fault \in {"none", "nohandle", "nomysql", "dangling", "emptypop", "overrun", "race"}

TypeOK ==
    /\ TableTypes /\ QueueTypes /\ ResultTypes
    /\ ThreadTypes /\ TickTypes /\ HistoryTypes
    /\ FaultTypes

(* Load() has started the query thread; no script has called mysql_init. *)
Init ==
    /\ my = [h \in Handles |-> "NULL"]
    /\ conn = [h \in Handles |-> "none"]
    /\ creating = [t \in Threads |-> NoHandle]
    /\ deleting = [t \in Threads |-> NoHandle]
    /\ replaced = {}
    /\ queryQueue = [h \in Handles |-> <<>>]
    /\ threadQueue = [h \in Handles |-> <<>>]
    /\ parsing = [h \in Handles |-> FALSE]
    /\ state = [h \in Handles |-> "none"]
    /\ result = [h \in Handles |-> NoRows]
    /\ wire = [h \in Handles |-> NoRows]
    /\ qpc = "start" /\ qh = 0 /\ qcur = 0 /\ returned = "none"
    /\ spc = "idle" /\ sh = 0
    /\ issued = [h \in Handles |-> 0]
    /\ answered = [h \in Handles |-> <<>>]
    /\ fault = "none"

(* Thread t is not inside mysql_init or mysql_close. *)
OutsideNative(t) == creating[t] = NoHandle /\ deleting[t] = NoHandle

Crash(f) ==
    /\ fault' = f
    /\ UNCHANGED <<tableVars, queueVars, resultVars, threadVars, tickVars, history>>

(* The callback that ends a threaded query; ghost, for the properties. *)
Record(h, q, c) ==
    answered' = [answered EXCEPT ![h] = Append(@, [query |-> q, callback |-> c])]

-----------------------------------------------------------------------------
(* The query thread.                                                       *)

(* Without mysql_thread_init the thread exits and the plugin goes on.      *)
StartThread ==
    /\ qpc = "start"
    /\ qpc' \in {"scan", "exited"}
    /\ UNCHANGED <<tableVars, queueVars, resultVars, qh, qcur, returned, tickVars, history, fault>>

(* Defect: the test of the for loop is dropped. *)
ScanUnguarded ==
    /\ qpc = "scan" /\ qh \in Handles
    /\ qpc' = "check"
    /\ UNCHANGED <<tableVars, queueVars, resultVars, qh, qcur, returned, tickVars, history, fault>>

(* The test of the for loop; a NULL slot ends the round, and the next one  *)
(* starts from handle 0 after SLEEP_THREAD.                                *)
Scan ==
    /\ qpc = "scan" /\ qh \in Handles
    /\ \/ my[qh] = "NULL" /\ qh' = 0 /\ UNCHANGED qpc
       \/ my[qh] # "NULL" /\ qpc' = "check" /\ UNCHANGED qh
    /\ UNCHANGED <<tableVars, queueVars, resultVars, qcur, returned, tickVars, history, fault>>

(* Every slot is taken and the loop reads my[MAX_CONNECTIONS]. *)
ScanPastTable ==
    /\ qpc = "scan" /\ qh = MaxConnections
    /\ \/ /\ "NULL" \in WordAfterMy
          /\ qh' = 0
          /\ UNCHANGED <<tableVars, queueVars, resultVars, qpc, qcur, returned, tickVars, history, fault>>
       \/ "other" \in WordAfterMy /\ Crash("overrun")

(* Past the test of the loop every access goes through my[handle] again. *)
QueryThreadDangling ==
    /\ qpc \in AtHandle /\ OutsideNative("query")
    /\ my[qh] # "object"
    /\ Crash("dangling")

(* Defect: the flag parsing is not tested. *)
ReadyToExecuteAnyTime(h) == queryQueue[h] # <<>>

ReadyToExecute(h) == queryQueue[h] # <<>> /\ ~parsing[h]

(* Defect: break where the loop goes on to the next handle. *)
SkipHandleEndsRound ==
    /\ qpc = "check" /\ my[qh] = "object"
    /\ ~ReadyToExecute(qh)
    /\ qpc' = "scan" /\ qh' = 0
    /\ UNCHANGED <<tableVars, queueVars, resultVars, qcur, returned, tickVars, history, fault>>

SkipHandle ==
    /\ qpc = "check" /\ my[qh] = "object"
    /\ ~ReadyToExecute(qh)
    /\ qpc' = "scan" /\ qh' = qh + 1
    /\ UNCHANGED <<tableVars, queueVars, resultVars, qcur, returned, tickVars, history, fault>>

(* The query is copied from the front of the queue and sent. *)
TakeQuery ==
    /\ qpc = "check" /\ my[qh] = "object"
    /\ ReadyToExecute(qh)
    /\ qcur' = Head(queryQueue[qh])
    /\ qpc' = "executing"
    /\ UNCHANGED <<tableVars, queueVars, resultVars, qh, returned, tickVars, history, fault>>

(* mysql_real_query returns 0.  libmysql refuses a query while rows of an  *)
(* earlier one wait, so none do; a query with a result set leaves its own. *)
ExecuteOk ==
    /\ qpc = "executing" /\ my[qh] = "object"
    /\ wire[qh] = NoRows
    /\ \E rows \in {NoRows, qcur} : wire' = [wire EXCEPT ![qh] = rows]
    /\ state' = [state EXCEPT ![qh] = "ok"]
    /\ returned' = "ok"
    /\ qpc' = "executed"
    /\ UNCHANGED <<tableVars, queueVars, result, qh, qcur, tickVars, history, fault>>

ExecuteFails ==
    /\ qpc = "executing" /\ my[qh] = "object"
    /\ state' = [state EXCEPT ![qh] = "failed"]
    /\ returned' = "failed"
    /\ qpc' = "executed"
    /\ UNCHANGED <<tableVars, queueVars, result, wire, qh, qcur, tickVars, history, fault>>

(* Defect: the result of mysql_real_query is not tested. *)
SetParsingAlways ==
    /\ qpc = "executed" /\ my[qh] = "object"
    /\ parsing' = [parsing EXCEPT ![qh] = TRUE]
    /\ qpc' = "push"
    /\ UNCHANGED <<tableVars, queryQueue, threadQueue, resultVars, qh, qcur, returned, tickVars, history, fault>>

(* The result is read back from my[handle]->state, which scripts write too.*)
SetParsing ==
    /\ qpc = "executed" /\ my[qh] = "object"
    /\ state[qh] = "ok"
    /\ parsing' = [parsing EXCEPT ![qh] = TRUE]
    /\ qpc' = "push"
    /\ UNCHANGED <<tableVars, queryQueue, threadQueue, resultVars, qh, qcur, returned, tickVars, history, fault>>

(* Error() starts the OnMysqlError callbacks on this thread. *)
ReportError ==
    /\ qpc = "executed" /\ my[qh] = "object"
    /\ state[qh] # "ok"
    /\ parsing' = [parsing EXCEPT ![qh] = FALSE]
    /\ Record(qh, qcur, "OnMysqlError")
    /\ qpc' = "error"
    /\ UNCHANGED <<tableVars, queryQueue, threadQueue, resultVars, qh, qcur, returned, tickVars, issued, fault>>

PushResult ==
    /\ qpc = "push" /\ my[qh] = "object"
    /\ threadQueue' = [threadQueue EXCEPT ![qh] = Append(@, qcur)]
    /\ qpc' = "pop"
    /\ UNCHANGED <<tableVars, queryQueue, parsing, resultVars, qh, qcur, returned, tickVars, history, fault>>

(* Defect: continue after Error(), before the query is popped. *)
ErrorReturnsEarly ==
    /\ qpc = "error" /\ my[qh] = "object" /\ OutsideNative("query")
    /\ qpc' = "scan" /\ qh' = qh + 1
    /\ UNCHANGED <<tableVars, queueVars, resultVars, qcur, returned, tickVars, history, fault>>

ErrorReturns ==
    /\ qpc = "error" /\ my[qh] = "object" /\ OutsideNative("query")
    /\ qpc' = "pop"
    /\ UNCHANGED <<tableVars, queueVars, resultVars, qh, qcur, returned, tickVars, history, fault>>

(* Defect: handle is incremented in the body of the loop as well. *)
PopQueryAdvancesTwice ==
    /\ qpc = "pop" /\ my[qh] = "object" /\ queryQueue[qh] # <<>>
    /\ queryQueue' = [queryQueue EXCEPT ![qh] = Tail(@)]
    /\ qpc' = "scan" /\ qh' = qh + 2
    /\ qcur' = 0 /\ returned' = "none"
    /\ UNCHANGED <<tableVars, threadQueue, parsing, resultVars, tickVars, history, fault>>

PopQuery ==
    /\ qpc = "pop" /\ my[qh] = "object"
    /\ \/ queryQueue[qh] = <<>> /\ Crash("emptypop")
       \/ /\ queryQueue[qh] # <<>>
          /\ queryQueue' = [queryQueue EXCEPT ![qh] = Tail(@)]
          /\ qpc' = "scan" /\ qh' = qh + 1
          /\ qcur' = 0 /\ returned' = "none"
          /\ UNCHANGED <<tableVars, threadQueue, parsing, resultVars, tickVars, history, fault>>

-----------------------------------------------------------------------------
(* ProcessTick, on the server thread.                                      *)

TickStart ==
    /\ spc = "idle" /\ OutsideNative("server")
    /\ spc' = "tick" /\ sh' = 0
    /\ UNCHANGED <<tableVars, queueVars, resultVars, threadVars, history, fault>>

TickEnd ==
    /\ spc = "tick" /\ sh \in Handles
    /\ my[sh] = "NULL"
    /\ spc' = "idle"
    /\ UNCHANGED <<tableVars, queueVars, resultVars, threadVars, sh, history, fault>>

TickPastTable ==
    /\ spc = "tick" /\ sh = MaxConnections
    /\ \/ /\ "NULL" \in WordAfterMy
          /\ spc' = "idle"
          /\ UNCHANGED <<tableVars, queueVars, resultVars, threadVars, sh, history, fault>>
       \/ "other" \in WordAfterMy /\ Crash("overrun")

(* A script closed the handle: its own callback, before ProcessTick pops   *)
(* the queue, or an OnMysqlError callback on the query thread.             *)
TickDangling ==
    /\ spc \in {"tick", "callback", "clear"} /\ sh \in Handles
    /\ OutsideNative("server")
    /\ my[sh] = "deleted" \/ (my[sh] = "NULL" /\ spc # "tick")
    /\ Crash("dangling")

ReadyToDeliver(h) == threadQueue[h] # <<>> /\ parsing[h]

TickSkip ==
    /\ spc = "tick" /\ sh \in Handles /\ my[sh] = "object"
    /\ ~ReadyToDeliver(sh)
    /\ sh' = sh + 1
    /\ UNCHANGED <<tableVars, queueVars, resultVars, threadVars, spc, history, fault>>

(* Defect: parsing is cleared before the scripts are called. *)
TickDeliverClearsFlag ==
    /\ spc = "tick" /\ sh \in Handles /\ my[sh] = "object"
    /\ ReadyToDeliver(sh)
    /\ Record(sh, Head(threadQueue[sh]), "OnMysqlQuery")
    /\ parsing' = [parsing EXCEPT ![sh] = FALSE]
    /\ spc' = "callback"
    /\ UNCHANGED <<tableVars, queryQueue, threadQueue, resultVars, threadVars, sh, issued, fault>>

(* The loop over pAmx starts to call the scripts. *)
TickDeliver ==
    /\ spc = "tick" /\ sh \in Handles /\ my[sh] = "object"
    /\ ReadyToDeliver(sh)
    /\ Record(sh, Head(threadQueue[sh]), "OnMysqlQuery")
    /\ spc' = "callback"
    /\ UNCHANGED <<tableVars, queueVars, resultVars, threadVars, sh, issued, fault>>

(* Defect: threadQueue is not popped. *)
TickPopKeepsResult ==
    /\ spc = "callback" /\ my[sh] = "object" /\ OutsideNative("server")
    /\ spc' = "clear"
    /\ UNCHANGED <<tableVars, queueVars, resultVars, threadVars, sh, history, fault>>

(* The callbacks have returned. *)
TickPop ==
    /\ spc = "callback" /\ my[sh] = "object" /\ OutsideNative("server")
    /\ \/ threadQueue[sh] = <<>> /\ Crash("emptypop")
       \/ /\ threadQueue[sh] # <<>>
          /\ threadQueue' = [threadQueue EXCEPT ![sh] = Tail(@)]
          /\ spc' = "clear"
          /\ UNCHANGED <<tableVars, queryQueue, parsing, resultVars, threadVars, sh, history, fault>>

(* Defect: parsing is not cleared. *)
TickClearForgotten ==
    /\ spc = "clear" /\ my[sh] = "object"
    /\ spc' = "tick" /\ sh' = sh + 1
    /\ UNCHANGED <<tableVars, queueVars, resultVars, threadVars, history, fault>>

TickClear ==
    /\ spc = "clear" /\ my[sh] = "object"
    /\ parsing' = [parsing EXCEPT ![sh] = FALSE]
    /\ spc' = "tick" /\ sh' = sh + 1
    /\ UNCHANGED <<tableVars, queryQueue, threadQueue, resultVars, threadVars, history, fault>>

-----------------------------------------------------------------------------
(* Scripts: the natives, each a step of the thread that runs the script;   *)
(* mysql_init and mysql_close are two, as each leaves the table between    *)
(* its two writes to it.                                                   *)
(* A native that returns early, or whose CHECK_CONNECTION fails on an      *)
(* object that is not connected, changes nothing but what Error() reports. *)

(* The server thread runs scripts between ticks and in a callback of       *)
(* ProcessTick, the query thread in a callback of Error().                 *)
InScript(t) ==
    /\ fault = "none" /\ OutsideNative(t)
    /\ t = "server" => spc \in {"idle", "callback"}
    /\ t = "query" => qpc = "error"

(* CHECK_CONNECTION lets the native proceed. *)
Connected(h) == my[h] = "object" /\ conn[h] = "connected"

(* The query thread is inside mysql_real_query with this connection. *)
InUse(h) == qpc = "executing" /\ qh = h

(* mysql_init chooses the first NULL slot ... *)
ClaimSlot(t) ==
    /\ t \in InitBy /\ InScript(t)
    /\ \E h \in Handles :
         /\ my[h] = "NULL" /\ \A g \in Handles : g < h => my[g] # "NULL"
         /\ creating' = [creating EXCEPT ![t] = h]
    /\ UNCHANGED <<my, conn, deleting, replaced, queueVars, resultVars, threadVars, tickVars, history, fault>>

(* ... and stores a new object there, whatever the slot holds by now: one  *)
(* that the other thread created is lost.  mysql_init(NULL) may return     *)
(* NULL, which leaves the slot taken.                                      *)
CreateObject(t) ==
    /\ fault = "none" /\ creating[t] # NoHandle /\ ~InUse(creating[t])
    /\ \E c \in {"none", "initialised"} : conn' = [conn EXCEPT ![creating[t]] = c]
    /\ my' = [my EXCEPT ![creating[t]] = "object"]
    /\ queryQueue' = [queryQueue EXCEPT ![creating[t]] = <<>>]
    /\ threadQueue' = [threadQueue EXCEPT ![creating[t]] = <<>>]
    /\ parsing' = [parsing EXCEPT ![creating[t]] = FALSE]
    /\ state' = [state EXCEPT ![creating[t]] = "none"]
    /\ result' = [result EXCEPT ![creating[t]] = NoRows]
    /\ wire' = [wire EXCEPT ![creating[t]] = NoRows]
    /\ creating' = [creating EXCEPT ![t] = NoHandle]
    /\ replaced' = replaced \cup {h \in {creating[t]} : my[h] # "NULL"}
    /\ UNCHANGED <<deleting, threadVars, tickVars, history, fault>>

(* The query thread is executing on the object that is lost. *)
CreateInUse(t) ==
    /\ fault = "none" /\ creating[t] # NoHandle /\ InUse(creating[t])
    /\ Crash("race")

(* mysql_real_connect succeeds; a failure leaves the object as it was, and *)
(* the script may call mysql_connect again.                                *)
Connect(t, h) ==
    /\ "connect" \in Calls /\ InScript(t)
    /\ my[h] = "object" /\ conn[h] # "none" /\ ~InUse(h)
    /\ conn' = [conn EXCEPT ![h] = "connected"]
    /\ wire' = [wire EXCEPT ![h] = NoRows]
    /\ UNCHANGED <<my, creating, deleting, replaced, queueVars, state, result, threadVars, tickVars, history, fault>>

(* SAFE_DELETE: the destructor closes the connection ...                   *)
Close(t, h) ==
    /\ "close" \in Calls /\ InScript(t)
    /\ Connected(h) /\ ~InUse(h)
    /\ my' = [my EXCEPT ![h] = "deleted"]
    /\ deleting' = [deleting EXCEPT ![t] = h]
    /\ replaced' = replaced \cup {h}
    /\ UNCHANGED <<conn, creating, queueVars, resultVars, threadVars, tickVars, history, fault>>

(* ... and the slot becomes NULL once delete has returned.                 *)
CloseDone(t) ==
    /\ fault = "none" /\ deleting[t] # NoHandle
    /\ my' = [my EXCEPT ![deleting[t]] = "NULL"]
    /\ deleting' = [deleting EXCEPT ![t] = NoHandle]
    /\ UNCHANGED <<conn, creating, replaced, queueVars, resultVars, threadVars, tickVars, history, fault>>

(* mysql_query or mysql_query_array with a resultid. *)
QueueQuery(t, h) ==
    /\ "queue" \in Calls /\ InScript(t)
    /\ Connected(h)
    /\ issued[h] < MaxQueries
    /\ result' = [result EXCEPT ![h] = NoRows]
    /\ issued' = [issued EXCEPT ![h] = @ + 1]
    /\ queryQueue' = [queryQueue EXCEPT ![h] = Append(@, issued[h] + 1)]
    /\ UNCHANGED <<tableVars, threadQueue, parsing, state, wire, threadVars, tickVars, answered, fault>>

(* mysql_query or mysql_query_array without one: executed by the native. *)
RunQuery(t, h) ==
    /\ "run" \in Calls /\ InScript(t)
    /\ Connected(h) /\ ~InUse(h)
    /\ result' = [result EXCEPT ![h] = NoRows]
    /\ \/ /\ wire[h] = NoRows
          /\ \E rows \in {NoRows, RowsOfRun} : wire' = [wire EXCEPT ![h] = rows]
          /\ state' = [state EXCEPT ![h] = "ok"]
       \/ /\ state' = [state EXCEPT ![h] = "failed"]
          /\ UNCHANGED wire
    /\ UNCHANGED <<tableVars, queueVars, threadVars, tickVars, history, fault>>

(* MySQL::store_result goes on to ask the connection for its rows. *)
StoreAsks(h) == result[h] = NoRows /\ state[h] = "ok"

(* The rows are stored, or the connection fails while they are read. *)
StoreResult(t, h) ==
    /\ "store" \in Calls /\ InScript(t)
    /\ Connected(h) /\ ~InUse(h)
    /\ StoreAsks(h)
    /\ \E rows \in {NoRows, wire[h]} : result' = [result EXCEPT ![h] = rows]
    /\ wire' = [wire EXCEPT ![h] = NoRows]
    /\ UNCHANGED <<tableVars, queueVars, state, threadVars, tickVars, history, fault>>

FreeResult(t, h) ==
    /\ "free" \in Calls /\ InScript(t)
    /\ Connected(h)
    /\ result' = [result EXCEPT ![h] = NoRows]
    /\ state' = [state EXCEPT ![h] = "none"]
    /\ UNCHANGED <<tableVars, queueVars, wire, threadVars, tickVars, history, fault>>

(* CHECK_CONNECTION finds the slot NULL and passes it to Error(), which    *)
(* reads handle->mysql.                                                    *)
CallOnEmptySlot(t) ==
    /\ InScript(t) /\ Calls \ {"connect"} # {}
    /\ \E h \in Handles : my[h] = "NULL"
    /\ Crash("nohandle")

(* mysql_connect on a handle whose mysql_init failed. *)
ConnectWithoutMysql(t) ==
    /\ "connect" \in Calls /\ InScript(t)
    /\ \E h \in Handles : my[h] = "object" /\ conn[h] = "none"
    /\ Crash("nomysql")

(* A native on a handle that the other thread is closing. *)
CallOnDeleted(t) ==
    /\ InScript(t) /\ Calls # {}
    /\ \E h \in Handles : my[h] = "deleted"
    /\ Crash("dangling")

(* A native hands libmysql a connection that the query thread is using.    *)
CallInUse(t, h) ==
    /\ InScript(t)
    /\ Calls \cap {"connect", "close", "run", "command"} # {}
    /\ Connected(h) /\ InUse(h)
    /\ Crash("race")

StoreInUse(t, h) ==
    /\ InScript(t) /\ "store" \in Calls
    /\ Connected(h) /\ InUse(h) /\ StoreAsks(h)
    /\ Crash("race")

-----------------------------------------------------------------------------
(* Each thread runs its own steps; what scripts call is up to them.        *)

QueryThreadStep ==
    /\ fault = "none"
    /\ \/ StartThread \/ Scan \/ ScanPastTable \/ QueryThreadDangling
       \/ SkipHandle \/ TakeQuery
       \/ ExecuteOk \/ ExecuteFails
       \/ SetParsing \/ ReportError \/ PushResult \/ ErrorReturns \/ PopQuery

ServerStep ==
    /\ fault = "none"
    /\ \/ TickStart \/ TickEnd \/ TickPastTable \/ TickDangling
       \/ TickSkip \/ TickDeliver \/ TickPop \/ TickClear

ScriptStep ==
    \E t \in Threads :
        \/ ClaimSlot(t) \/ CreateObject(t) \/ CreateInUse(t)
        \/ CloseDone(t)
        \/ \E h \in Handles :
             \/ Connect(t, h) \/ Close(t, h)
             \/ QueueQuery(t, h) \/ RunQuery(t, h)
             \/ StoreResult(t, h) \/ FreeResult(t, h)
             \/ CallInUse(t, h) \/ StoreInUse(t, h)
        \/ CallOnEmptySlot(t) \/ ConnectWithoutMysql(t)
        \/ CallOnDeleted(t)

Next == QueryThreadStep \/ ServerStep \/ ScriptStep

Spec == Init /\ [][Next]_vars

(* The query thread loops for ever and the server calls ProcessTick on     *)
(* every tick.  Both run scripts on the way, and scripts owe nothing but   *)
(* to return: strong fairness, as a thread cannot take its own step while  *)
(* a script that it runs is inside mysql_init or mysql_close.              *)
FairSpec ==
    /\ Spec
    /\ SF_vars(QueryThreadStep) /\ SF_vars(ServerStep)
    /\ \A t \in Threads : WF_vars(CreateObject(t)) /\ WF_vars(CloseDone(t))

-----------------------------------------------------------------------------
(* The queries of h that no callback has answered.  While the query thread *)
(* is between answering a query and popping it, the front of queryQueue is *)
(* answered or in threadQueue; while ProcessTick is in the callback, so is *)
(* the front of threadQueue.                                               *)
Rest(s) == IF s = <<>> THEN s ELSE Tail(s)

Unexecuted(h) ==
    IF qh = h /\ qpc \in {"error", "pop"} THEN Rest(queryQueue[h]) ELSE queryQueue[h]

Undelivered(h) ==
    IF sh = h /\ spc = "callback" THEN Rest(threadQueue[h]) ELSE threadQueue[h]

Unanswered(h) == Undelivered(h) \o Unexecuted(h)

Waiting(h) == {Unanswered(h)[i] : i \in 1 .. Len(Unanswered(h))}

-----------------------------------------------------------------------------
(* The slots that still hold their first object, or none yet. *)
Original == Handles \ replaced

(* The two threads hand a handle's connection to each other.  A result in   *)
(* threadQueue means that parsing is set (Thread.cpp:61-62), there is never *)
(* a second one, and a flag set over an empty queue is a thread between its *)
(* two writes, so no turn is lost and no handle is blocked by its own flag. *)
(* This and the next hold of every handle until its object is replaced (by  *)
(* mysql_close, or by two mysql_init at once), whatever becomes of others.  *)
TakingTurns ==
    \A h \in Original :
        /\ Len(threadQueue[h]) <= 1
        /\ threadQueue[h] # <<>> => parsing[h]
        /\ parsing[h] /\ threadQueue[h] = <<>> =>
              \/ qpc = "push" /\ qh = h
              \/ spc = "clear" /\ sh = h

(* Every threaded query is either answered or still on its way, none is     *)
(* answered twice, and the callbacks come in the order of the mysql_query   *)
(* calls, whichever of the two queues and of the two threads (OnMysqlQuery  *)
(* on one, OnMysqlError on the other) has it.                               *)
ExactlyOnceInOrder ==
    \A h \in Original :
        /\ Len(answered[h]) + Len(Unanswered(h)) = issued[h]
        /\ \A i \in 1 .. Len(answered[h]) : answered[h][i].query = i
        /\ \A i \in 1 .. Len(Unanswered(h)) : Unanswered(h)[i] = Len(answered[h]) + i

(* A slot without an object is used, or an empty queue popped, only for a   *)
(* handle whose own object was replaced while a thread was at it (or is    *)
(* being deleted), for all that the threads read my[handle] again at every *)
(* step (Thread.cpp:40-75, 89-131): the other handles are in no danger.     *)
AtReplaced ==
    \E h \in replaced :
        \/ qpc \in AtHandle /\ qh = h
        \/ spc \in {"tick", "callback", "clear"} /\ sh = h
        \/ my[h] = "deleted"

NoDangling == fault \in {"dangling", "emptypop"} => AtReplaced

(* With handles closed and slots reused at any moment, and two threads in   *)
(* mysql_init at the same time (Natives.cpp:50): no query is answered twice *)
(* for a handle, and the callbacks of a kind come in the order of the       *)
(* calls.  OnMysqlError may overtake OnMysqlQuery: a query of a handle that *)
(* is closed while the query thread holds it is pushed into the queue of    *)
(* the next object of the slot (Thread.cpp:62), without the flag.           *)
AtMostOnce ==
    \A h \in Handles : \A i, j \in 1 .. Len(answered[h]) : i < j =>
        /\ answered[h][i].query # answered[h][j].query
        /\ answered[h][i].callback = answered[h][j].callback =>
              answered[h][i].query < answered[h][j].query

(* OnMysqlError says that the query could not be executed (Thread.cpp:67)   *)
(* only of one that mysql_real_query refused, and only one that it executed *)
(* goes on to OnMysqlQuery, although the outcome is read back from a field  *)
(* (Thread.cpp:50) that the natives assign as well.                         *)
OutcomeReported ==
    qh \in Original =>
        /\ qpc = "error" => returned = "failed"
        /\ qpc = "push" => returned = "ok"

(* What makes it inductive under the discipline of ThreadedScripts: nothing *)
(* writes state between mysql_real_query and the test (Thread.cpp:45-50).   *)
OutcomeKept ==
    qh \in Original /\ qpc = "executed" => state[qh] = returned /\ returned \in {"ok", "failed"}

(* Rows that wait on a connection can be asked for: mysql_store_result      *)
(* (Mysql.cpp:201) refuses unless state is 0, and until the rows are stored *)
(* libmysql refuses every other query of the handle.                        *)
RowsReachable == \A h \in Handles : wire[h] # NoRows => state[h] = "ok"

(* A query on an open handle is answered in the end, if the query thread    *)
(* has started and nothing undefined happens.                               *)
EveryQueryAnswered ==
    \A h \in Handles, n \in 1 .. MaxQueries :
        n \in Waiting(h) ~>
            \/ n \notin Waiting(h) \/ my[h] # "object"
            \/ fault # "none" \/ qpc = "exited"

(* The same while handles are closed and created again, for a handle that   *)
(* keeps its object, if from some time on those below it stay open: the     *)
(* scans of my[] (Thread.cpp:38, 87) stop at the first NULL.  It is not so  *)
(* for a slot that is used again: a query that the query thread holds when *)
(* its object is closed makes it pop one that was queued for the next      *)
(* object (Thread.cpp:75), and that one is never answered.                 *)
AnsweredUnlessGapBelow ==
    \A h \in Handles, n \in 1 .. MaxQueries :
        <>[](\A g \in 0 .. h : my[g] = "object") =>
            (n \in Waiting(h) ~>
                n \notin Waiting(h) \/ h \in replaced \/ fault # "none" \/ qpc = "exited")

(* The inductive invariant behind TakingTurns, NoDangling and               *)
(* ExactlyOnceInOrder.  Until it is replaced an object in use stays in its  *)
(* slot, the thread whose turn it is finds the queue it works on nonempty,  *)
(* and every queue and history holds consecutive query numbers.             *)
SlotsHeld ==
    \A h \in Original :
        /\ my[h] # "deleted"
        /\ \A t \in Threads : deleting[t] # h
        /\ qpc \in AtHandle /\ qh = h => my[h] = "object"
        /\ spc \in {"callback", "clear"} /\ sh = h => my[h] = "object"
        /\ my[h] = "NULL" =>
              /\ queryQueue[h] = <<>> /\ threadQueue[h] = <<>> /\ ~parsing[h]
              /\ issued[h] = 0 /\ answered[h] = <<>>

TurnOfThread ==
    /\ qh \in Original =>
          /\ qpc \in {"executing", "executed"} => ~parsing[qh]
          /\ qpc = "push" => parsing[qh] /\ threadQueue[qh] = <<>>
    /\ sh \in Original =>
          /\ spc = "callback" => threadQueue[sh] # <<>>
          /\ spc = "clear" => /\ parsing[sh] /\ threadQueue[sh] = <<>>
                              /\ ~(qpc = "push" /\ qh = sh)

FrontIsAtHand ==
    qh \in Original =>
        /\ qpc \in AtHandle \ {"check"} => queryQueue[qh] # <<>>
        /\ qpc \in {"executing", "executed", "push"} => qcur = Head(queryQueue[qh])

(* The number of queries of h that the query thread is done with. *)
Settled(h) ==
    issued[h] - Len(queryQueue[h]) + (IF qh = h /\ qpc \in {"error", "pop"} THEN 1 ELSE 0)

Consecutive(h) ==
    /\ Len(queryQueue[h]) <= issued[h]
    /\ \A i \in 1 .. Len(queryQueue[h]) :
          queryQueue[h][i] = issued[h] - Len(queryQueue[h]) + i
    /\ threadQueue[h] # <<>> => threadQueue[h][1] = Settled(h)
    /\ Len(answered[h]) + Len(Undelivered(h)) = Settled(h)
    /\ \A i \in 1 .. Len(answered[h]) : answered[h][i].query = i

PipelineInv ==
    /\ SlotsHeld /\ TakingTurns /\ TurnOfThread /\ FrontIsAtHand
    /\ \A h \in Original : Consecutive(h)
    /\ NoDangling

(* The inductive invariant behind AtMostOnce: the numbers that a handle has *)
(* given out increase from the results to deliver over the query at hand to *)
(* those not sent, and what is answered is none of them.                    *)
Elements(s) == {s[i] : i \in 1 .. Len(s)}

InHand(h) ==
    IF qh = h /\ qpc \in {"executing", "executed", "push"} THEN {qcur} ELSE {}

(* After a close the front of the queue need not be the query at hand, and *)
(* is popped all the same.                                                 *)
Unsent(h) ==
    IF qh = h /\ qpc \in AtHandle \ {"check"} THEN Rest(queryQueue[h]) ELSE queryQueue[h]

Increasing(s) == \A i, j \in 1 .. Len(s) : i < j => s[i] < s[j]

AllLess(S, T) == \A x \in S, y \in T : x < y

AnsweredQueries(h) == {answered[h][i].query : i \in 1 .. Len(answered[h])}

InOrder(h) ==
    /\ Increasing(threadQueue[h]) /\ Increasing(queryQueue[h])
    /\ AllLess(Elements(threadQueue[h]), InHand(h))
    /\ AllLess(Elements(threadQueue[h]) \cup InHand(h), Elements(Unsent(h)))
    /\ AllLess(AnsweredQueries(h), InHand(h) \cup Elements(Unsent(h)))
    /\ \A n \in Elements(threadQueue[h]) \cup InHand(h)
                 \cup Elements(queryQueue[h]) \cup AnsweredQueries(h) : n \in 1 .. issued[h]
    /\ \A i \in 1 .. Len(answered[h]), n \in Elements(Undelivered(h)) :
          /\ answered[h][i].query # n
          /\ answered[h][i].callback = "OnMysqlQuery" => answered[h][i].query < n

OnceInv == AtMostOnce /\ \A h \in Handles : InOrder(h)

Async == INSTANCE AsyncQueries WITH
             lost <- replaced,
             pending <- [h \in Handles |-> IF h \in replaced THEN <<>> ELSE Unanswered(h)]

(* Whatever scripts call, closing and creating handles on both threads      *)
(* included, the pipeline does what AsyncQueries promises: a handle whose   *)
(* object is replaced loses the promise of an answer, and no other does.    *)
Implements == Async!Spec
=============================================================================
