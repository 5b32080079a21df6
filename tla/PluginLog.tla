------------------------------ MODULE PluginLog ------------------------------
(***************************************************************************)
(* The log of the plugin and its life: Load(), Unload() and Log() of       *)
(* MySQL/Main.cpp.  Load() makes its log calls and then starts the query   *)
(* thread; from then on both threads call Log(), which has no lock, until  *)
(* the host calls Unload().  Unload() makes its last calls and closes the  *)
(* file; it does not stop the query thread.                                *)
(*                                                                         *)
(* A step is a C library call of Log().  Its shared state is the global    *)
(* mLogFile, asctime's static string and the buffers of the streams, which *)
(* all append to mysql_log.txt.  A call of fprintf is atomic, as stdio     *)
(* locks the stream, and so is, here, the call of asctime.                  *)
(***************************************************************************)
EXTENDS Integers, Sequences

CONSTANTS Lines,            \* log calls of Load(), and of Unload(): 3 in the code
          MaxServerCalls,   \* bound of the model: calls of Log by the server thread
          MaxQueryCalls,    \* bound of the model: calls of Log by the query thread
          MaxOpens          \* bound of the model: streams opened

ASSUME LogAssumption ==
    Lines \in Nat \ {0} /\ MaxServerCalls \in Nat /\ MaxQueryCalls \in Nat /\ MaxOpens \in Nat

Threads == {"server", "query"}
MaxCalls(t) == IF t = "server" THEN MaxServerCalls ELSE MaxQueryCalls
Streams == 1 .. MaxOpens
NULL == 0

(* What a call of Log writes, in this order. *)
Parts == {"stamp", "text", "newline"}

(* asctime's string: as it was written, without its last character, and    *)
(* without more than that.                                                 *)
Stamps == {"none", "newline", "stripped", "short"}

Pieces == [by : Threads, call : Nat, part : Parts, stamp : Stamps]

Steps == {"idle", "open", "opened", "time", "strip", "stamp", "text", "newline", "flush"}

(* load: Load() runs; run: both threads run; unload: Unload() logs;         *)
(* closing: fclose is done, mLogFile not yet NULL; unloaded.               *)
Phases == {"load", "run", "unload", "closing", "unloaded"}

VARIABLES
    mLogFile,   \* the stream, or NULL
    opened,     \* streams opened so far
    closed,     \* those that fclose was called on
    buffer,     \* [s] what is written to stream s and not yet flushed
    disk,       \* mysql_log.txt
    timestr,    \* asctime's static string
    pc,         \* [t] where thread t is in Log()
    calls,      \* [t] its calls of Log
    phase,
    left,       \* log calls that Load() or Unload() still has to make
    disturbed,  \* [t] the other thread was in Log() during t's last call; ghost
    failed,     \* an fopen has failed; ghost
    fault       \* a stream was used that is NULL or closed

fileVars == <<mLogFile, opened, closed, buffer, disk>>
lifeVars == <<phase, left>>
vars == <<fileVars, timestr, pc, calls, lifeVars, disturbed, failed, fault>>

TypeOK ==
    /\ mLogFile \in Streams \cup {NULL}
    /\ opened \in 0 .. MaxOpens
    /\ closed \subseteq Streams
    /\ buffer \in [Streams -> Seq(Pieces)]
    /\ disk \in Seq(Pieces)
    /\ timestr \in Stamps
    /\ pc \in [Threads -> Steps]
    /\ calls \in [Threads -> Nat]
    /\ phase \in Phases
    /\ left \in 0 .. Lines
    /\ disturbed \in [Threads -> BOOLEAN]
    /\ failed \in BOOLEAN
    /\ fault \in {"none", "null", "closed"}

Init ==
    /\ mLogFile = NULL /\ opened = 0 /\ closed = {}
    /\ buffer = [s \in Streams |-> <<>>] /\ disk = <<>>
    /\ timestr = "none"
    /\ pc = [t \in Threads |-> "idle"]
    /\ calls = [t \in Threads |-> 0]
    /\ phase = "load" /\ left = Lines
    /\ disturbed = [t \in Threads |-> FALSE]
    /\ failed = FALSE /\ fault = "none"

-----------------------------------------------------------------------------
(* Log().                                                                  *)

Other(t) == IF t = "server" THEN "query" ELSE "server"

Goto(t, step) == pc' = [pc EXCEPT ![t] = step]

(* Defect: Load() and Unload() make one log call more than they count. *)
MayCallOnceMore(t) ==
    \/ t = "query" /\ phase # "load"
    \/ t = "server" /\ phase = "run"
    \/ t = "server" /\ phase \in {"load", "unload"} /\ left >= 0

(* The query thread exists after Load(); the server thread calls Log() in  *)
(* Load() and Unload() a fixed number of times, and in between from natives *)
(* and from ProcessTick.                                                   *)
MayCall(t) ==
    \/ t = "query" /\ phase # "load"
    \/ t = "server" /\ phase = "run"
    \/ t = "server" /\ phase \in {"load", "unload"} /\ left > 0

(* Log is called and tests mLogFile. *)
Call(t) ==
    /\ pc[t] = "idle" /\ calls[t] < MaxCalls(t)
    /\ MayCall(t)
    /\ left' = IF t = "server" /\ phase # "run" THEN left - 1 ELSE left
    /\ calls' = [calls EXCEPT ![t] = @ + 1]
    /\ Goto(t, IF mLogFile = NULL THEN "open" ELSE "time")
    /\ disturbed' = [u \in Threads |-> IF u = t THEN pc[Other(t)] # "idle" ELSE pc[u] # "idle" \/ disturbed[u]]
    /\ UNCHANGED <<fileVars, timestr, phase, failed, fault>>

(* fopen, whose result is assigned to mLogFile. *)
Open(t) ==
    /\ pc[t] = "open"
    /\ Goto(t, "opened")
    /\ \/ /\ opened < MaxOpens
          /\ opened' = opened + 1 /\ mLogFile' = opened + 1
          /\ UNCHANGED failed
       \/ /\ mLogFile' = NULL /\ failed' = TRUE
          /\ UNCHANGED opened
    /\ UNCHANGED <<closed, buffer, disk, timestr, calls, lifeVars, disturbed, fault>>

(* mLogFile is tested again, and the call returns if it is NULL. *)
Opened(t) ==
    /\ pc[t] = "opened"
    /\ Goto(t, IF mLogFile = NULL THEN "idle" ELSE "time")
    /\ UNCHANGED <<fileVars, timestr, calls, lifeVars, disturbed, failed, fault>>

(* time, localtime and asctime. *)
Time(t) ==
    /\ pc[t] = "time"
    /\ Goto(t, "strip")
    /\ timestr' = "newline"
    /\ UNCHANGED <<fileVars, calls, lifeVars, disturbed, failed, fault>>

(* Defect: the newline of asctime is kept. *)
StripForgotten(t) ==
    /\ pc[t] = "strip"
    /\ Goto(t, "stamp")
    /\ UNCHANGED <<fileVars, timestr, calls, lifeVars, disturbed, failed, fault>>

(* The last character of asctime's string is cut off, whatever it is.      *)
Strip(t) ==
    /\ pc[t] = "strip"
    /\ Goto(t, "stamp")
    /\ timestr' = IF timestr = "newline" THEN "stripped" ELSE "short"
    /\ UNCHANGED <<fileVars, calls, lifeVars, disturbed, failed, fault>>

Usable == mLogFile # NULL /\ mLogFile \notin closed

UseFault ==
    /\ fault' = IF mLogFile = NULL THEN "null" ELSE "closed"
    /\ UNCHANGED <<fileVars, timestr, pc, calls, lifeVars, disturbed, failed>>

Piece(t, part) ==
    [by |-> t, call |-> calls[t], part |-> part,
     stamp |-> IF part = "stamp" THEN timestr ELSE "none"]

After(part) == CASE part = "stamp" -> "text" [] part = "text" -> "newline" [] part = "newline" -> "flush"

(* fprintf( mLogFile, ... ) *)
Write(t, part) ==
    /\ pc[t] = part
    /\ \/ ~Usable /\ UseFault
       \/ /\ Usable
          /\ buffer' = [buffer EXCEPT ![mLogFile] = Append(@, Piece(t, part))]
          /\ Goto(t, After(part))
          /\ UNCHANGED <<mLogFile, opened, closed, disk, timestr, calls, lifeVars, disturbed,
                         failed, fault>>

(* Defect: fflush is left to stdio. *)
FlushForgotten(t) ==
    /\ pc[t] = "flush"
    /\ \/ ~Usable /\ UseFault
       \/ /\ Usable
          /\ Goto(t, "idle")
          /\ UNCHANGED <<fileVars, timestr, calls, lifeVars, disturbed, failed, fault>>

(* fflush, and Log returns. *)
Flush(t) ==
    /\ pc[t] = "flush"
    /\ \/ ~Usable /\ UseFault
       \/ /\ Usable
          /\ disk' = disk \o buffer[mLogFile]
          /\ buffer' = [buffer EXCEPT ![mLogFile] = <<>>]
          /\ Goto(t, "idle")
          /\ UNCHANGED <<mLogFile, opened, closed, timestr, calls, lifeVars, disturbed,
                         failed, fault>>

-----------------------------------------------------------------------------
(* Load() and Unload().                                                    *)

(* Defect: the query thread is started before Load() logs. *)
StartThreadFirst ==
    /\ phase = "load"
    /\ phase' = "run" /\ left' = 0
    /\ UNCHANGED <<fileVars, timestr, pc, calls, disturbed, failed, fault>>

(* Load() has logged and creates the query thread. *)
StartThread ==
    /\ phase = "load" /\ left = 0 /\ pc["server"] = "idle"
    /\ phase' = "run"
    /\ UNCHANGED <<fileVars, timestr, pc, calls, left, disturbed, failed, fault>>

(* The host calls Unload(), outside any native or tick. *)
BeginUnload ==
    /\ phase = "run" /\ pc["server"] = "idle"
    /\ phase' = "unload" /\ left' = Lines
    /\ UNCHANGED <<fileVars, timestr, pc, calls, disturbed, failed, fault>>

(* SAFE_FCLOSE tests mLogFile, and closes it if it is not NULL, ...        *)
Close ==
    /\ phase = "unload" /\ left = 0 /\ pc["server"] = "idle"
    /\ \/ /\ mLogFile # NULL
          /\ phase' = "closing"
          /\ closed' = closed \cup {mLogFile}
          /\ disk' = disk \o buffer[mLogFile]
          /\ buffer' = [buffer EXCEPT ![mLogFile] = <<>>]
       \/ /\ mLogFile = NULL
          /\ phase' = "unloaded"
          /\ UNCHANGED <<closed, disk, buffer>>
    /\ UNCHANGED <<mLogFile, opened, timestr, pc, calls, left, disturbed, failed, fault>>

(* ... and sets it to NULL. *)
Forget ==
    /\ phase = "closing"
    /\ phase' = "unloaded" /\ mLogFile' = NULL
    /\ UNCHANGED <<opened, closed, buffer, disk, timestr, pc, calls, left, disturbed, failed, fault>>

-----------------------------------------------------------------------------
Next ==
    /\ fault = "none"
    /\ \/ \E t \in Threads :
             \/ Call(t) \/ Open(t) \/ Opened(t) \/ Time(t) \/ Strip(t)
             \/ (\E part \in Parts : Write(t, part)) \/ Flush(t)
       \/ StartThread \/ BeginUnload \/ Close \/ Forget

Spec == Init /\ [][Next]_vars

-----------------------------------------------------------------------------
(* A call of Log has returned, and found the file open. *)
Finished(t, n) == n < calls[t] \/ (n = calls[t] /\ pc[t] = "idle")

PieceAt(s, p, t, n, part) == s[p].by = t /\ s[p].call = n /\ s[p].part = part

(* The parts of a line are in s, in the order in which they were written.   *)
LineIn(s, t, n) ==
    \E p, q, r \in 1 .. Len(s) :
        /\ p < q /\ q < r
        /\ PieceAt(s, p, t, n, "stamp") /\ PieceAt(s, q, t, n, "text")
        /\ PieceAt(s, r, t, n, "newline")

BeforeClose == phase \in {"load", "run", "unload"}

(* A line that Log has written (Main.cpp:176-182) is in the file when Log   *)
(* returns, its parts in order, however the two threads interleave, unless *)
(* a failed fopen has let each of them open a stream.                      *)
LoggedIsOnDisk ==
    ~failed /\ BeforeClose =>
        \A t \in Threads : \A n \in 1 .. calls[t] : Finished(t, n) => LineIn(disk, t, n)

(* A line during whose writing the other thread was not in Log is whole:    *)
(* nothing between its parts, and its stamp lost the newline and no more   *)
(* (Main.cpp:172-176).  Nothing of the kind holds of two calls at once.     *)
WholeLine ==
    \A t \in Threads : pc[t] = "flush" /\ ~disturbed[t] /\ Usable =>
        LET s == buffer[mLogFile]
            k == Len(s) - 3
        IN  /\ k >= 0
            /\ PieceAt(s, k + 1, t, calls[t], "stamp") /\ s[k + 1].stamp = "stripped"
            /\ PieceAt(s, k + 2, t, calls[t], "text")
            /\ PieceAt(s, k + 3, t, calls[t], "newline")

(* Until Unload() closes the file no stream is used that is not open, and   *)
(* only one is ever opened, unless an fopen failed in Load(): its first     *)
(* call opens the file before there is a second thread (Main.cpp:49-57).    *)
OneStream ==
    ~failed /\ BeforeClose => opened <= 1 /\ fault = "none"
=============================================================================
