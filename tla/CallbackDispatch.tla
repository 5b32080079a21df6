-------------------------- MODULE CallbackDispatch --------------------------
(***************************************************************************)
(* The scripts and the callbacks made to them: the list pAmx that AmxLoad  *)
(* and AmxUnload keep (MySQL/Main.cpp), the loops over it in ProcessTick   *)
(* (MySQL/Thread.cpp) and in Error() (MySQL/Main.cpp), and the text        *)
(* extraVars that a query of mysql_query_array carries to its callback.    *)
(*                                                                         *)
(* Both threads run such loops: the server thread in ProcessTick, the      *)
(* query thread in Error(), and either one again, inside a callback, when  *)
(* a native that the script calls fails and Error() loops over all scripts *)
(* once more.  So each thread has a stack of loops.  One handle stands for *)
(* all, and what QueryThread says of its queues is one step here.  Scripts *)
(* call natives on a handle that is open (what happens to calls on others  *)
(* is in QueryThread), and may close it wherever they are, callbacks       *)
(* included; that is the end of the handle here.                           *)
(***************************************************************************)
EXTENDS Integers

CONSTANTS Scripts,      \* the AMX instances
          MaxLoads,     \* bound of the model: calls of AmxLoad
          MaxQueries,   \* bound of the model: threaded queries
          MaxDepth      \* bound of the model: loops within loops on one thread

ASSUME DispatchAssumption ==
    MaxLoads \in Nat /\ MaxQueries \in Nat /\ MaxDepth \in Nat \ {0}

Threads == {"server", "query"}
Depths == 1 .. MaxDepth
Queries == 1 .. MaxQueries
Callbacks == {"OnMysqlQuery", "OnMysqlQueryArray", "OnMysqlError"}

(* A node of the list pAmx: nodes are numbered in the order of the          *)
(* push_backs, so the list is read off the numbers of the loaded scripts.  *)
Nodes == 1 .. MaxLoads
End == 0        \* pAmx.end(); no node
NoQuery == 0

(* A loop over pAmx, or a public that the host calls by itself.             *)
Frames ==
    [event : Callbacks \cup {"none", "public"},
     query : Queries \cup {NoQuery},           \* the query it is the callback of
     text  : BOOLEAN,                          \* mysqlThreadQueue.extraVars is set
     at    : Nodes \cup {End},                 \* the iterator i
     pc    : {"test", "running", "next"},      \* at i != end(), in amx_Exec, at ++i
     start : Nodes \cup {0},                   \* last node when it began; ghost
     calls : [Nodes -> Nat]]                   \* calls made to each node; ghost

VARIABLES
    publics,    \* [a] the callbacks that script a defines
    node,       \* [a] the node of script a in pAmx, or 0
    loads,      \* nodes made so far
    depth,      \* [t] how many loops thread t is in
    frame,      \* [t][d] the d-th of them, innermost last
    issued,     \* threaded queries made
    done,       \* those answered and popped, always the oldest ones
    parsing,    \* the query after them is executed and waits for ProcessTick
    extraVars,  \* [q] the text of query q: "none" (TYPE_ID), "live", "freed"
    given,      \* [q] how often OnMysqlQueryArray was given the text of query q; ghost
    handle,     \* "open"; "closed"; "closedInLoop": closed while a loop ran
    fault       \* the undefined behaviour that was reached, or "none"

listVars == <<publics, node, loads>>
loopVars == <<depth, frame>>
queryVars == <<issued, done, parsing, extraVars, given, handle>>
vars == <<listVars, loopVars, queryVars, fault>>

NoCalls == [n \in Nodes |-> 0]

NoFrame == [event |-> "none", query |-> NoQuery, text |-> FALSE, at |-> End,
            pc |-> "test", start |-> 0, calls |-> NoCalls]

TypeOK ==
    /\ publics \in [Scripts -> SUBSET Callbacks]
    /\ node \in [Scripts -> Nodes \cup {0}]
    /\ loads \in 0 .. MaxLoads
    /\ depth \in [Threads -> 0 .. MaxDepth]
    /\ frame \in [Threads -> [Depths -> Frames]]
    /\ issued \in 0 .. MaxQueries
    /\ done \in 0 .. issued
    /\ parsing \in BOOLEAN
    /\ extraVars \in [Queries -> {"none", "live", "freed"}]
    /\ given \in [Queries -> Nat]
    /\ handle \in {"open", "closed", "closedInLoop"}
    /\ fault \in {"none", "iterator", "amx", "unloaded", "nulltext", "handle"}

Init ==
    /\ publics \in [Scripts -> SUBSET Callbacks]
    /\ node = [a \in Scripts |-> 0] /\ loads = 0
    /\ depth = [t \in Threads |-> 0]
    /\ frame = [t \in Threads |-> [d \in Depths |-> NoFrame]]
    /\ issued = 0 /\ done = 0 /\ parsing = FALSE
    /\ extraVars = [q \in Queries |-> "none"]
    /\ given = [q \in Queries |-> 0]
    /\ handle = "open"
    /\ fault = "none"

Crash(f) == fault' = f /\ UNCHANGED <<listVars, loopVars, queryVars>>

-----------------------------------------------------------------------------
(* The list.                                                               *)

Loaded == {a \in Scripts : node[a] # 0}

Linked(n) == \E a \in Scripts : node[a] = n /\ n # 0

ScriptAt(n) == CHOOSE a \in Scripts : node[a] = n

(* The first node after n: ++i, and pAmx.begin() for n = 0.                 *)
Successor(n) ==
    LET later == {m \in Nodes : m > n /\ Linked(m)}
    IN  IF later = {} THEN End ELSE CHOOSE m \in later : \A k \in later : m <= k

-----------------------------------------------------------------------------
(* The loops of a thread.                                                  *)

Top(t) == frame[t][depth[t]]

(* The scripts whose code thread t is in, the suspended ones included.      *)
RunningOn(t) ==
    {a \in Scripts : \E d \in 1 .. depth[t] :
        frame[t][d].pc = "running" /\ node[a] # 0 /\ frame[t][d].at = node[a]}

Other(t) == IF t = "server" THEN "query" ELSE "server"

(* The thread runs a script, which may call natives. *)
InScript(t) == depth[t] > 0 /\ Top(t).pc = "running"

(* The loops over pAmx that thread t is in. *)
Loops(t) == {d \in 1 .. depth[t] : frame[t][d].event # "public"}

SetTop(t, f) == frame' = [frame EXCEPT ![t][depth[t]] = f]

(* Thread t enters a loop over the scripts.                                *)
Enter(t, event, q, text) ==
    /\ depth[t] < MaxDepth
    /\ depth' = [depth EXCEPT ![t] = @ + 1]
    /\ frame' = [frame EXCEPT ![t][depth[t] + 1] =
                   [event |-> event, query |-> q, text |-> text, at |-> Successor(0),
                    pc |-> "test", start |-> loads, calls |-> NoCalls]]

Leave(t) ==
    /\ depth' = [depth EXCEPT ![t] = @ - 1]
    /\ SetTop(t, NoFrame)

(* i is neither end() nor a node of the list any more. *)
Dangling(t) == Top(t).at # End /\ ~Linked(Top(t).at)

(* Defect: every call of Error() ends with the pop of queryQueue. *)
LoopEndsAlwaysPops(t) ==
    /\ depth[t] > 0 /\ Top(t).pc = "test" /\ Top(t).at = End
    /\ Leave(t)
    /\ done' = done + 1 /\ parsing' = FALSE
    /\ UNCHANGED <<listVars, issued, extraVars, given, handle, fault>>

(* i != end() is false: the loop is over, and what follows it is done, the  *)
(* pop of queryQueue (Thread.cpp:75), or of threadQueue with parsing       *)
(* cleared (Thread.cpp:130), or the return of Error() to a native, which   *)
(* reads nothing of the handle any more.                                   *)
LoopEnds(t) ==
    /\ depth[t] > 0 /\ Top(t).pc = "test" /\ Top(t).at = End
    /\ Top(t).query # NoQuery => handle = "open"
    /\ Leave(t)
    /\ \/ Top(t).query = NoQuery /\ UNCHANGED <<done, parsing>>
       \/ Top(t).query # NoQuery /\ done' = done + 1 /\ parsing' = FALSE
    /\ UNCHANGED <<listVars, issued, extraVars, given, handle, fault>>

(* amx_FindPublic says that the script has no such callback.               *)
SkipScript(t) ==
    /\ depth[t] > 0 /\ Top(t).pc = "test" /\ Linked(Top(t).at)
    /\ Top(t).event \notin publics[ScriptAt(Top(t).at)]
    /\ SetTop(t, [Top(t) EXCEPT !.pc = "next"])
    /\ UNCHANGED <<listVars, depth, queryVars, fault>>

(* The call of the script at i is well defined: no other thread executes    *)
(* that script, the text of mysql_query_array is there for                 *)
(* amx_PushString, and the handle for Error(), which passes its id.         *)
CanCall(t) ==
    /\ ScriptAt(Top(t).at) \notin RunningOn(Other(t))
    /\ Top(t).event = "OnMysqlQueryArray" => Top(t).text
    /\ Top(t).event = "OnMysqlError" => handle = "open"

(* amx_Exec calls the script, with the text that extraVars points to if the *)
(* query was made by mysql_query_array.                                    *)
CallScript(t) ==
    /\ depth[t] > 0 /\ Top(t).pc = "test" /\ Linked(Top(t).at)
    /\ Top(t).event \in publics[ScriptAt(Top(t).at)]
    /\ CanCall(t)
    /\ SetTop(t, [Top(t) EXCEPT !.pc = "running", !.calls[Top(t).at] = @ + 1])
    /\ given' = IF Top(t).event = "OnMysqlQueryArray"
                THEN [given EXCEPT ![Top(t).query] = @ + 1] ELSE given
    /\ UNCHANGED <<listVars, depth, issued, done, parsing, extraVars, handle, fault>>

(* The call is not: the script is executed by the other thread, the text    *)
(* was freed after an earlier script got it, or the handle is gone.        *)
CallFails(t) ==
    /\ depth[t] > 0 /\ Top(t).pc = "test" /\ Linked(Top(t).at)
    /\ Top(t).event \in publics[ScriptAt(Top(t).at)]
    /\ \/ ScriptAt(Top(t).at) \in RunningOn(Other(t)) /\ Crash("amx")
       \/ Top(t).event = "OnMysqlQueryArray" /\ ~Top(t).text /\ Crash("nulltext")
       \/ Top(t).event = "OnMysqlError" /\ handle # "open" /\ Crash("handle")

(* Defect: the pointer is not cleared when the text is freed. *)
ScriptReturnsKeepsText(t) ==
    /\ InScript(t)
    /\ Top(t).event \in {"OnMysqlQuery", "OnMysqlQueryArray"} => handle = "open"
    /\ \/ /\ Top(t).event = "public"
          /\ Leave(t) /\ UNCHANGED extraVars
       \/ /\ Top(t).event = "OnMysqlQueryArray"
          /\ extraVars' = [extraVars EXCEPT ![Top(t).query] = IF Top(t).text THEN "freed" ELSE @]
          /\ SetTop(t, [Top(t) EXCEPT !.pc = "next"])
          /\ UNCHANGED depth
       \/ /\ Top(t).event \in {"OnMysqlQuery", "OnMysqlError"}
          /\ SetTop(t, [Top(t) EXCEPT !.pc = "next"])
          /\ UNCHANGED <<depth, extraVars>>
    /\ UNCHANGED <<listVars, issued, done, parsing, given, handle, fault>>

(* amx_Exec returns.  ProcessTick reads logtype of the handle; SAFE_DELETE   *)
(* frees the text if the pointer is set, and clears the pointer in the     *)
(* loop's own copy of the queue's front.                                   *)
ScriptReturns(t) ==
    /\ InScript(t)
    /\ Top(t).event \in {"OnMysqlQuery", "OnMysqlQueryArray"} => handle = "open"
    /\ \/ /\ Top(t).event = "public"
          /\ Leave(t) /\ UNCHANGED extraVars
       \/ /\ Top(t).event = "OnMysqlQueryArray"
          /\ extraVars' = [extraVars EXCEPT ![Top(t).query] = IF Top(t).text THEN "freed" ELSE @]
          /\ SetTop(t, [Top(t) EXCEPT !.pc = "next", !.text = FALSE])
          /\ UNCHANGED depth
       \/ /\ Top(t).event \in {"OnMysqlQuery", "OnMysqlError"}
          /\ SetTop(t, [Top(t) EXCEPT !.pc = "next"])
          /\ UNCHANGED <<depth, extraVars>>
    /\ UNCHANGED <<listVars, issued, done, parsing, given, handle, fault>>

(* The handle is gone when ProcessTick reads its logtype after a callback   *)
(* (Thread.cpp:108, 124), or when its queue is popped (Thread.cpp:75, 130). *)
UseClosedHandle(t) ==
    /\ depth[t] > 0 /\ handle # "open"
    /\ \/ Top(t).pc = "running" /\ Top(t).event \in {"OnMysqlQuery", "OnMysqlQueryArray"}
       \/ Top(t).pc = "test" /\ Top(t).at = End /\ Top(t).query # NoQuery
    /\ Crash("handle")

(* Defect: ++i is forgotten for scripts that were called. *)
NextScriptStays(t) ==
    /\ depth[t] > 0 /\ Top(t).pc = "next" /\ ~Dangling(t)
    /\ SetTop(t, [Top(t) EXCEPT !.pc = "test",
                                !.at = IF Top(t).calls[@] = 1 THEN @ ELSE Successor(@)])
    /\ UNCHANGED <<listVars, depth, queryVars, fault>>

(* ++i *)
NextScript(t) ==
    /\ depth[t] > 0 /\ Top(t).pc = "next" /\ ~Dangling(t)
    /\ SetTop(t, [Top(t) EXCEPT !.pc = "test", !.at = Successor(@)])
    /\ UNCHANGED <<listVars, depth, queryVars, fault>>

(* The other thread has erased the node that i stands on.                  *)
UseDangling(t) ==
    /\ depth[t] > 0 /\ Top(t).pc # "running" /\ Dangling(t)
    /\ Crash("iterator")

-----------------------------------------------------------------------------
(* The host, on the server thread, outside the plugin's loops.             *)

(* AmxLoad: pAmx.push_back. *)
AmxLoad(a) ==
    /\ depth["server"] = 0
    /\ node[a] = 0 /\ loads < MaxLoads
    /\ loads' = loads + 1
    /\ node' = [node EXCEPT ![a] = loads + 1]
    /\ UNCHANGED <<publics, loopVars, queryVars, fault>>

(* AmxUnload: the node is erased, then the host frees the AMX, which the    *)
(* query thread may be executing.                                          *)
AmxUnload(a) ==
    /\ depth["server"] = 0
    /\ node[a] # 0
    /\ \/ a \in RunningOn("query") /\ Crash("unloaded")
       \/ /\ a \notin RunningOn("query")
          /\ node' = [node EXCEPT ![a] = 0]
          /\ UNCHANGED <<publics, loads, loopVars, queryVars, fault>>

(* The host calls a public of a script: a timer, a command of a player.    *)
RunPublic(a) ==
    /\ depth["server"] = 0
    /\ node[a] # 0
    /\ \/ a \in RunningOn("query") /\ Crash("amx")
       \/ /\ a \notin RunningOn("query")
          /\ depth' = [depth EXCEPT !["server"] = 1]
          /\ frame' = [frame EXCEPT !["server"][1] =
                         [NoFrame EXCEPT !.event = "public", !.at = node[a], !.pc = "running"]]
          /\ UNCHANGED <<listVars, queryVars, fault>>

-----------------------------------------------------------------------------
(* Natives, as far as they concern callbacks.                              *)

(* mysql_query or mysql_query_array with a resultid. *)
QueueQuery(t) ==
    /\ InScript(t) /\ handle = "open" /\ issued < MaxQueries
    /\ issued' = issued + 1
    /\ \E text \in {"none", "live"} : extraVars' = [extraVars EXCEPT ![issued + 1] = text]
    /\ UNCHANGED <<listVars, loopVars, done, parsing, given, handle, fault>>

(* A native fails and calls Error(). *)
NativeFails(t) ==
    /\ InScript(t) /\ handle = "open"
    /\ Enter(t, "OnMysqlError", NoQuery, FALSE)
    /\ UNCHANGED <<listVars, queryVars, fault>>

(* mysql_close: the object is deleted, its queues with it. *)
CloseHandle(t) ==
    /\ InScript(t) /\ handle = "open"
    /\ handle' = IF \A u \in Threads : Loops(u) = {} THEN "closed" ELSE "closedInLoop"
    /\ UNCHANGED <<listVars, loopVars, issued, done, parsing, extraVars, given, fault>>

-----------------------------------------------------------------------------
(* Queries.                                                                *)

(* The query thread executes the oldest query when none waits to be        *)
(* delivered; a failure is reported by Error() on this thread.             *)
Execute ==
    /\ depth["query"] = 0
    /\ handle = "open" /\ done < issued /\ ~parsing
    /\ \/ /\ parsing' = TRUE
          /\ UNCHANGED loopVars
       \/ /\ Enter("query", "OnMysqlError", done + 1, FALSE)
          /\ UNCHANGED parsing
    /\ UNCHANGED <<listVars, issued, done, extraVars, given, handle, fault>>

(* Defect: the scan does not stop at a handle that was closed. *)
TickClosed ==
    /\ depth["server"] = 0
    /\ parsing
    /\ \/ /\ extraVars[done + 1] = "none"
          /\ Enter("server", "OnMysqlQuery", done + 1, FALSE)
       \/ /\ extraVars[done + 1] # "none"
          /\ Enter("server", "OnMysqlQueryArray", done + 1, TRUE)
    /\ UNCHANGED <<listVars, queryVars, fault>>

(* ProcessTick finds a result and copies the front of threadQueue.         *)
Tick ==
    /\ depth["server"] = 0
    /\ handle = "open" /\ parsing
    /\ \/ /\ extraVars[done + 1] = "none"
          /\ Enter("server", "OnMysqlQuery", done + 1, FALSE)
       \/ /\ extraVars[done + 1] # "none"
          /\ Enter("server", "OnMysqlQueryArray", done + 1, TRUE)
    /\ UNCHANGED <<listVars, queryVars, fault>>

-----------------------------------------------------------------------------
LoopStep(t) ==
    \/ LoopEnds(t) \/ SkipScript(t) \/ CallScript(t) \/ CallFails(t) \/ ScriptReturns(t)
    \/ UseClosedHandle(t) \/ NextScript(t) \/ UseDangling(t)

Next ==
    /\ fault = "none"
    /\ \/ \E t \in Threads : LoopStep(t) \/ QueueQuery(t) \/ NativeFails(t) \/ CloseHandle(t)
       \/ \E a \in Scripts : AmxLoad(a) \/ AmxUnload(a) \/ RunPublic(a)
       \/ Execute \/ Tick

Spec == Init /\ [][Next]_vars

-----------------------------------------------------------------------------
(* Whatever is loaded or unloaded meanwhile, and whatever loops the scripts *)
(* start in between: a loop (Main.cpp:205, Thread.cpp:95) calls no script   *)
(* twice, and when it ends it has called every script that was loaded when *)
(* it began, is loaded still and defines the callback.                     *)
EachScriptCalledOnce ==
    \A t \in Threads : \A d \in Loops(t) :
        /\ \A n \in Nodes : frame[t][d].calls[n] <= 1
        /\ frame[t][d].at = End =>
              \A a \in Scripts :
                  node[a] \in 1 .. frame[t][d].start /\ frame[t][d].event \in publics[a]
                      => frame[t][d].calls[node[a]] = 1

(* The text of mysql_query_array (Thread.cpp:101-111) is given to one script *)
(* at most, freed at most once and never before that script returns: the   *)
(* loop's copy of the pointer is cleared with the free, and a query that   *)
(* is still queued has its text.  A text that no script got is never freed, *)
(* which is how the texts of failed queries are lost.                      *)
TextOwnership ==
    \A q \in Queries :
        /\ given[q] <= 1
        /\ extraVars[q] = "freed" => given[q] = 1 /\ q <= issued
        /\ extraVars[q] = "freed" /\ q > done => parsing /\ q = done + 1
        /\ q <= done /\ given[q] = 1 => extraVars[q] = "freed"
        /\ \A t \in Threads : \A d \in Loops(t) :
              frame[t][d].query = q /\ frame[t][d].text => extraVars[q] = "live"

TwoArrayScripts ==
    \E a, b \in Scripts : a # b /\ "OnMysqlQueryArray" \in publics[a] \cap publics[b]

(* All that scripts which use open handles must avoid, for the loops over   *)
(* them to meet no undefined behaviour: two of them define                 *)
(* OnMysqlQueryArray (the second gets the text that was freed when the     *)
(* first returned, Thread.cpp:102 after 111); one closes a handle while a   *)
(* loop runs on either thread (Thread.cpp:75, 108, 124, 130 and            *)
(* Main.cpp:211 use it afterwards), whereas a handle that is closed from a  *)
(* timer, with callbacks still due, does no harm here; and the query thread *)
(* reports an error to scripts which the server thread runs or unloads     *)
(* meanwhile (Main.cpp:205-225).                                           *)
FaultCauses ==
    /\ fault = "nulltext" => TwoArrayScripts
    /\ fault = "handle" => handle = "closedInLoop"
    /\ fault \in {"iterator", "amx", "unloaded"} => depth["query"] > 0

(* A query is popped (Thread.cpp:75, 130), and only the oldest one, where   *)
(* the loop that answers it ends: the outermost one of its thread, on the  *)
(* server thread if and only if the query was executed without an error,   *)
(* and every script that was loaded all the time has been called.  The     *)
(* loops of Error() that failing natives start inside it pop nothing.      *)
AnsweredBeforePop ==
    [][done' # done =>
          /\ done' = done + 1 /\ done < issued
          /\ \E t \in Threads :
                LET f == frame[t][1] IN
                /\ depth[t] = 1 /\ depth'[t] = 0
                /\ f.query = done + 1 /\ (parsing <=> t = "server")
                /\ \A a \in Scripts :
                      node[a] \in 1 .. f.start /\ f.event \in publics[a] => f.calls[node[a]] = 1]_vars

(* The inductive invariant behind them.  Nodes are found by number, so a    *)
(* loop has called what lies before its iterator and nothing after it.     *)
ListInv ==
    /\ \A a \in Scripts : node[a] <= loads
    /\ \A a, b \in Scripts : node[a] = node[b] /\ node[a] # 0 => a = b

(* The loop has been at node n. *)
Passed(f, n) == f.at = End \/ n < f.at \/ (n = f.at /\ f.pc # "test")

(* A delivery holds the text or has given it to a script.                   *)
GivenOK(t, f) ==
    f.event = "OnMysqlQueryArray" =>
        /\ t = "server"
        /\ (f.text => f.pc = "running") =>
              \E a \in Scripts :
                  node[a] # 0 /\ Passed(f, node[a]) /\ "OnMysqlQueryArray" \in publics[a]

LoopOK(t, d, f) ==
    /\ f.event # "none" /\ f.start <= loads
    /\ f.pc # "test" => f.at # End
    /\ t = "server" => f.at = End \/ Linked(f.at)
    /\ f.event = "public" => t = "server" /\ d = 1
    /\ \A n \in Nodes : f.calls[n] <= 1 /\ (f.calls[n] = 1 => Passed(f, n))
    /\ f.event # "public" => \A a \in Scripts :
          node[a] \in 1 .. f.start /\ f.event \in publics[a] /\ Passed(f, node[a])
              => f.calls[node[a]] = 1
    /\ GivenOK(t, f)

(* A query is in the hands of one loop at most, the outermost of a thread.  *)
QueryOK(t, d, f) ==
    /\ f.query # NoQuery =>
          /\ f.event # "public" /\ d = 1
          /\ f.query = done + 1 /\ done < issued /\ (parsing <=> t = "server")
    /\ f.event = "OnMysqlQueryArray" => t = "server" /\ f.query # NoQuery
    /\ f.text => f.event = "OnMysqlQueryArray"

LoopsInv == \A t \in Threads : \A d \in 1 .. depth[t] : LoopOK(t, d, frame[t][d])

QueriesInv ==
    /\ parsing => done < issued
    /\ \A t \in Threads : \A d \in 1 .. depth[t] : QueryOK(t, d, frame[t][d])

(* The server thread is in the loop that delivers the result of query q.   *)
Delivering(q) ==
    /\ depth["server"] > 0
    /\ frame["server"][1].event = "OnMysqlQueryArray"
    /\ frame["server"][1].query = q

(* The text of query q, until it is popped, and what is left of it.         *)
TextOf(q) ==
    LET f == frame["server"][1] IN
    /\ q > issued => extraVars[q] = "none"
    /\ q > done /\ ~Delivering(q) =>
          extraVars[q] # "freed" /\ given[q] = 0
    /\ q <= done => given[q] = IF extraVars[q] = "freed" THEN 1 ELSE 0
    /\ Delivering(q) =>
          IF f.text THEN extraVars[q] = "live" /\ given[q] = IF f.pc = "running" THEN 1 ELSE 0
                    ELSE extraVars[q] = "freed" /\ given[q] = 1 /\ f.pc # "running"

(* No loop runs after the handle was closed outside the loops. *)
HandleInv == handle = "closed" => \A t \in Threads : Loops(t) = {}

TextsInv == \A q \in Queries : TextOf(q)

DispatchInv == ListInv /\ LoopsInv /\ QueriesInv /\ TextsInv /\ HandleInv /\ FaultCauses
=============================================================================
