--------------------------- MODULE PluginLogProofs ---------------------------
(***************************************************************************)
(* Proofs about PluginLog, for any number of calls and streams.            *)
(***************************************************************************)
EXTENDS PluginLog, TLAPS

-----------------------------------------------------------------------------
(* Types.                                                                  *)

LEMMA InitType == Init => TypeOK
<1> DEFINE Tokens == Pieces
<1> SUFFICES ASSUME Init PROVE TypeOK
  OBVIOUS
<1>1. buffer \in [Streams -> Seq(Tokens)] /\ disk \in Seq(Tokens)
  <2> HIDE DEF Tokens
  <2> QED  BY DEF Init
<1>2. /\ opened \in 0 .. MaxOpens /\ left \in 0 .. Lines /\ calls \in [Threads -> Nat]
      /\ disturbed \in [Threads -> BOOLEAN] /\ pc \in [Threads -> Steps]
  BY LogAssumption DEF Init, Steps
<1> QED  BY <1>1, <1>2 DEF Init, TypeOK, Stamps, Phases

LEMMA PieceType ==
    ASSUME TypeOK, NEW t \in Threads, NEW part \in Parts
    PROVE  Piece(t, part) \in Pieces
BY DEF TypeOK, Piece, Pieces, Stamps

LEMMA AfterType == \A part \in Parts : After(part) \in Steps
BY DEF After, Parts, Steps

LEMMA NextType ==
    ASSUME TypeOK, [Next]_vars
    PROVE  TypeOK'
<1> DEFINE Tokens == Pieces
<1>0. /\ buffer \in [Streams -> Seq(Tokens)] /\ disk \in Seq(Tokens)
      /\ mLogFile \in Streams \cup {NULL} /\ opened \in 0 .. MaxOpens /\ closed \subseteq Streams
      /\ pc \in [Threads -> Steps] /\ calls \in [Threads -> Nat] /\ left \in 0 .. Lines
      /\ disturbed \in [Threads -> BOOLEAN] /\ Lines \in Nat /\ MaxOpens \in Nat
  BY LogAssumption DEF TypeOK
<1>1. ASSUME NEW t \in Threads, Call(t) PROVE TypeOK'
  <2>1. pc' \in [Threads -> Steps]  BY <1>0, <1>1 DEF Call, Goto, Steps
  <2>2. calls' \in [Threads -> Nat]  BY <1>0, <1>1 DEF Call
  <2>3. left' \in 0 .. Lines  BY <1>0, <1>1 DEF Call, MayCall, Threads
  <2>4. disturbed' \in [Threads -> BOOLEAN]  BY <1>0, <1>1, Zenon DEF Call
  <2> QED  BY <1>0, <1>1, <2>1, <2>2, <2>3, <2>4 DEF Call, TypeOK, fileVars
<1>2. ASSUME NEW t \in Threads, Open(t) PROVE TypeOK'
  <2>1. pc' \in [Threads -> Steps]  BY <1>0, <1>2 DEF Open, Goto, Steps
  <2>2. opened' \in 0 .. MaxOpens /\ mLogFile' \in Streams \cup {NULL}
    BY <1>0, <1>2 DEF Open, Streams
  <2>3. failed' \in BOOLEAN  BY <1>2 DEF Open, TypeOK
  <2> QED  BY <1>0, <1>2, <2>1, <2>2, <2>3 DEF Open, TypeOK, lifeVars
<1>3. ASSUME NEW t \in Threads, Opened(t) PROVE TypeOK'
  <2>1. pc' \in [Threads -> Steps]  BY <1>0, <1>3 DEF Opened, Goto, Steps
  <2> QED  BY <1>0, <1>3, <2>1 DEF Opened, TypeOK, fileVars, lifeVars
<1>4. ASSUME NEW t \in Threads, Time(t) PROVE TypeOK'
  <2>1. pc' \in [Threads -> Steps]  BY <1>0, <1>4 DEF Time, Goto, Steps
  <2> QED  BY <1>0, <1>4, <2>1 DEF Time, TypeOK, fileVars, lifeVars, Stamps
<1>5. ASSUME NEW t \in Threads, Strip(t) PROVE TypeOK'
  <2>1. pc' \in [Threads -> Steps]  BY <1>0, <1>5 DEF Strip, Goto, Steps
  <2> QED  BY <1>0, <1>5, <2>1 DEF Strip, TypeOK, fileVars, lifeVars, Stamps
<1>6. ASSUME UseFault PROVE TypeOK'
  BY <1>6 DEF UseFault, TypeOK, fileVars, lifeVars
<1>7. ASSUME NEW t \in Threads, NEW part \in Parts, Write(t, part), ~UseFault PROVE TypeOK'
  <2>1. /\ Usable /\ buffer' = [buffer EXCEPT ![mLogFile] = Append(@, Piece(t, part))]
        /\ Goto(t, After(part))
        /\ UNCHANGED <<mLogFile, opened, closed, disk, timestr, calls, lifeVars, disturbed,
                         failed, fault>>
    BY <1>7 DEF Write
  <2>2. Piece(t, part) \in Tokens  BY PieceType
  <2>3. pc' \in [Threads -> Steps]  BY <1>0, <2>1, AfterType DEF Goto
  <2>4. mLogFile \in Streams  BY <1>0, <2>1 DEF Usable
  <2>5. buffer' \in [Streams -> Seq(Tokens)]
    <3> HIDE DEF Tokens
    <3> QED  BY <1>0, <2>1, <2>2, <2>4
  <2> QED  BY <1>0, <2>1, <2>3, <2>5 DEF TypeOK, lifeVars
<1>8. ASSUME NEW t \in Threads, Flush(t), ~UseFault PROVE TypeOK'
  <2>1. /\ Usable /\ disk' = disk \o buffer[mLogFile] /\ buffer' = [buffer EXCEPT ![mLogFile] = <<>>]
        /\ Goto(t, "idle")
        /\ UNCHANGED <<mLogFile, opened, closed, timestr, calls, lifeVars, disturbed, failed, fault>>
    BY <1>8 DEF Flush
  <2>2. pc' \in [Threads -> Steps]  BY <1>0, <2>1 DEF Goto, Steps
  <2>3. mLogFile \in Streams  BY <1>0, <2>1 DEF Usable
  <2>4. buffer' \in [Streams -> Seq(Tokens)] /\ disk' \in Seq(Tokens)
    <3> HIDE DEF Tokens
    <3> QED  BY <1>0, <2>1, <2>3
  <2> QED  BY <1>0, <2>1, <2>2, <2>4 DEF TypeOK, lifeVars
<1>9. ASSUME StartThread \/ BeginUnload \/ Forget PROVE TypeOK'
  BY <1>0, <1>9 DEF StartThread, BeginUnload, Forget, TypeOK, fileVars, Phases
<1>10. ASSUME Close PROVE TypeOK'
  <2>1. buffer' \in [Streams -> Seq(Tokens)] /\ disk' \in Seq(Tokens) /\ closed' \subseteq Streams
    <3> HIDE DEF Tokens
    <3>1. CASE mLogFile = NULL /\ UNCHANGED <<closed, disk, buffer>>
      BY <1>0, <3>1
    <3>2. CASE /\ mLogFile # NULL /\ closed' = closed \cup {mLogFile}
               /\ disk' = disk \o buffer[mLogFile] /\ buffer' = [buffer EXCEPT ![mLogFile] = <<>>]
      <4>1. mLogFile \in Streams  BY <1>0, <3>2
      <4> QED  BY <1>0, <3>2, <4>1
    <3> QED  BY <1>10, <3>1, <3>2 DEF Close
  <2>2. phase' \in Phases  BY <1>10 DEF Close, Phases
  <2> QED  BY <1>0, <1>10, <2>1, <2>2 DEF Close, TypeOK
<1>11. CASE UNCHANGED vars
  BY <1>11 DEF vars, fileVars, lifeVars, TypeOK
<1> QED  BY <1>1, <1>2, <1>3, <1>4, <1>5, <1>6, <1>7, <1>8, <1>9, <1>10, <1>11 DEF Next

(* The types hold always.                                                  *)
THEOREM LogTypeCorrect == Spec => []TypeOK
BY InitType, NextType, PTL DEF Spec

-----------------------------------------------------------------------------
(* One stream.                                                             *)

(* The inductive form of OneStream: as long as every fopen succeeded and    *)
(* Unload() has not closed the file, mLogFile is the first stream, opened   *)
(* by the first call in Load(), before the query thread is there.          *)
Sound == ~failed /\ BeforeClose

StreamInv ==
    /\ phase = "load" => pc["query"] = "idle" /\ calls["query"] = 0
    /\ phase = "load" /\ left = Lines => calls["server"] = 0 /\ pc["server"] = "idle" /\ opened = 0
    /\ Sound =>
          /\ closed = {} /\ fault = "none"
          /\ opened \in {0, 1} /\ mLogFile = opened
          /\ phase # "load" => opened = 1
          /\ opened = 0 =>
                /\ calls["query"] = 0 /\ calls["server"] \in {0, 1}
                /\ calls["server"] = 1 => pc["server"] = "open"
                /\ left < Lines => pc["server"] = "open"
          /\ \A t \in Threads :
                /\ pc[t] = "open" => opened = 0 /\ t = "server"
                /\ pc[t] \notin {"idle", "open"} => opened = 1

LEMMA InitStream == Init => StreamInv
BY LogAssumption DEF Init, StreamInv, Sound, BeforeClose, Threads, NULL

LEMMA NextStream ==
    ASSUME TypeOK, StreamInv, [Next]_vars
    PROVE  StreamInv'
<1>0. /\ pc \in [Threads -> Steps] /\ calls \in [Threads -> Nat] /\ left \in 0 .. Lines
      /\ "query" \in Threads /\ "server" \in Threads /\ Lines \in Nat /\ Lines # 0
  BY LogAssumption DEF TypeOK, Threads
<1>1. ASSUME NEW t \in Threads, Call(t) PROVE StreamInv'
  <2>1. /\ \A u \in Threads : pc'[u] = IF u = t THEN (IF mLogFile = NULL THEN "open" ELSE "time") ELSE pc[u]
        /\ \A u \in Threads : calls'[u] = IF u = t THEN calls[u] + 1 ELSE calls[u]
        /\ pc[t] = "idle" /\ MayCall(t)
        /\ left' = IF t = "server" /\ phase # "run" THEN left - 1 ELSE left
        /\ UNCHANGED <<fileVars, phase, failed, fault>>
    BY <1>0, <1>1 DEF Call, Goto
  <2>2. phase' = "load" => t = "server" /\ left' < Lines
    BY <1>0, <2>1 DEF MayCall, Threads
  <2>3. Sound' => Sound  BY <2>1 DEF Sound, BeforeClose
  <2> QED  BY <1>0, <2>1, <2>2, <2>3 DEF StreamInv, MayCall, Threads, fileVars, NULL
<1>2. ASSUME NEW t \in Threads, Open(t) PROVE StreamInv'
  <2>1. /\ \A u \in Threads : pc'[u] = IF u = t THEN "opened" ELSE pc[u]
        /\ pc[t] = "open"
        /\ UNCHANGED <<closed, calls, lifeVars, fault>>
        /\ \/ opened' = opened + 1 /\ mLogFile' = opened + 1 /\ UNCHANGED failed
           \/ failed' = TRUE /\ UNCHANGED opened
    BY <1>0, <1>2 DEF Open, Goto
  <2>2. Sound' => Sound /\ opened' = 1 /\ mLogFile' = 1
    BY <2>1 DEF Sound, BeforeClose, StreamInv, lifeVars
  <2> QED  BY <1>0, <2>1, <2>2 DEF StreamInv, Threads, lifeVars
<1>3. ASSUME NEW t \in Threads, Opened(t) \/ Time(t) \/ Strip(t) PROVE StreamInv'
  <2>1. /\ \A u \in Threads \ {t} : pc'[u] = pc[u]
        /\ pc[t] \notin {"idle", "open"} /\ pc'[t] # "open"
        /\ UNCHANGED <<fileVars, calls, lifeVars, fault, failed>>
    BY <1>0, <1>3 DEF Opened, Time, Strip, Goto
  <2>2. Sound' => Sound  BY <2>1 DEF Sound, BeforeClose, lifeVars
  <2> QED  BY <1>0, <2>1, <2>2 DEF StreamInv, Threads, lifeVars, fileVars
<1>4. ASSUME NEW t \in Threads, NEW part \in Parts, Write(t, part) PROVE StreamInv'
  <2>1. pc[t] \notin {"idle", "open"}  BY <1>4 DEF Write, Parts
  <2>2. Sound => Usable
    BY <2>1 DEF StreamInv, Usable, NULL
  <2>3. UNCHANGED <<mLogFile, opened, closed, calls, lifeVars, failed>>
    BY <1>4 DEF Write, UseFault, fileVars
  <2>4. /\ \A u \in Threads \ {t} : pc'[u] = pc[u]
        /\ pc'[t] \notin {"idle", "open"}
    BY <1>0, <1>4, <2>1 DEF Write, UseFault, Goto, After, Parts
  <2>5. Usable => UNCHANGED fault  BY <1>4 DEF Write
  <2>6. Sound' => Sound  BY <2>3 DEF Sound, BeforeClose, lifeVars
  <2> QED  BY <1>0, <2>1, <2>2, <2>3, <2>4, <2>5, <2>6 DEF StreamInv, Threads, lifeVars
<1>5. ASSUME NEW t \in Threads, Flush(t) PROVE StreamInv'
  <2>1. pc[t] = "flush"  BY <1>5 DEF Flush
  <2>2. Sound => Usable
    BY <2>1 DEF StreamInv, Usable, NULL
  <2>3. UNCHANGED <<mLogFile, opened, closed, calls, lifeVars, failed>>
    BY <1>5 DEF Flush, UseFault, fileVars
  <2>4. /\ \A u \in Threads \ {t} : pc'[u] = pc[u]
        /\ pc'[t] # "open"
    BY <1>0, <1>5, <2>1 DEF Flush, UseFault, Goto
  <2>5. Usable => UNCHANGED fault  BY <1>5 DEF Flush
  <2>6. Sound' => Sound  BY <2>3 DEF Sound, BeforeClose, lifeVars
  <2> QED  BY <1>0, <2>1, <2>2, <2>3, <2>4, <2>5, <2>6 DEF StreamInv, Threads, lifeVars
<1>6. ASSUME StartThread PROVE StreamInv'
  BY <1>0, <1>6 DEF StartThread, StreamInv, Sound, BeforeClose, fileVars
<1>7. ASSUME BeginUnload PROVE StreamInv'
  BY <1>0, <1>7 DEF BeginUnload, StreamInv, Sound, BeforeClose, fileVars
<1>8. ASSUME Close PROVE StreamInv'
  BY <1>8 DEF Close, StreamInv, Sound, BeforeClose
<1>9. ASSUME Forget PROVE StreamInv'
  BY <1>9 DEF Forget, StreamInv, Sound, BeforeClose
<1>10. CASE UNCHANGED vars
  BY <1>10 DEF vars, fileVars, lifeVars, StreamInv, Sound, BeforeClose
<1> QED  BY <1>1, <1>2, <1>3, <1>4, <1>5, <1>6, <1>7, <1>8, <1>9, <1>10 DEF Next

(* Only one stream is ever opened, and no stream is used that is not open,  *)
(* unless an fopen failed or Unload() has closed the file                  *)
(* (Main.cpp:49-57, 63-69, 165-171).                                        *)
THEOREM OneStreamOnly == Spec => []OneStream
<1>1. StreamInv => OneStream
  BY DEF StreamInv, OneStream, Sound
<1> QED  BY InitType, NextType, InitStream, NextStream, <1>1, PTL DEF Spec
-----------------------------------------------------------------------------
(* Whole lines.                                                            *)

(* The last pieces of the stream, while a call that nobody disturbs writes  *)
(* its line.                                                               *)
Ends(s, t, n, k) ==
    /\ Len(s) >= k
    /\ k >= 1 => PieceAt(s, Len(s) - k + 1, t, n, "stamp") /\ s[Len(s) - k + 1].stamp = "stripped"
    /\ k >= 2 => PieceAt(s, Len(s) - k + 2, t, n, "text")
    /\ k >= 3 => PieceAt(s, Len(s) - k + 3, t, n, "newline")

WholeInv ==
    \A t \in Threads : pc[t] # "idle" /\ ~disturbed[t] =>
        /\ pc[Other(t)] = "idle"
        /\ pc[t] = "strip" => timestr = "newline"
        /\ pc[t] = "stamp" => timestr = "stripped"
        /\ pc[t] = "text" /\ Usable => Ends(buffer[mLogFile], t, calls[t], 1)
        /\ pc[t] = "newline" /\ Usable => Ends(buffer[mLogFile], t, calls[t], 2)
        /\ pc[t] = "flush" /\ Usable => Ends(buffer[mLogFile], t, calls[t], 3)

LEMMA OtherFacts ==
    ASSUME NEW t \in Threads
    PROVE  /\ Other(t) \in Threads /\ Other(t) # t /\ Other(Other(t)) = t
           /\ \A u \in Threads : u = t \/ u = Other(t)
BY DEF Other, Threads

(* Appending the next part of the line.                                    *)
LEMMA EndsAppend ==
    ASSUME NEW s \in Seq(Pieces), NEW e \in Pieces, NEW t, NEW n, NEW k \in {0, 1, 2},
           Ends(s, t, n, k), e.by = t, e.call = n,
           k = 0 => e.part = "stamp" /\ e.stamp = "stripped",
           k = 1 => e.part = "text",
           k = 2 => e.part = "newline"
    PROVE  Ends(Append(s, e), t, n, k + 1)
<1> DEFINE Tokens == Pieces  r == Append(s, e)
<1>1. Len(s) \in Nat /\ Len(r) = Len(s) + 1 /\ r[Len(s) + 1] = e
      /\ \A p \in 1 .. Len(s) : r[p] = s[p]
  <2>1. s \in Seq(Tokens) /\ e \in Tokens  OBVIOUS
  <2> HIDE DEF Tokens
  <2> QED  BY <2>1
<1> HIDE DEF r
<1>2. CASE k = 0
  BY <1>1, <1>2 DEF Ends, PieceAt
<1>3. CASE k = 1
  <2>1. Len(s) \in 1 .. Len(s)  BY <1>1, <1>3 DEF Ends
  <2> QED  BY <1>1, <1>3, <2>1 DEF Ends, PieceAt
<1>4. CASE k = 2
  <2>1. Len(s) \in 1 .. Len(s) /\ Len(s) - 1 \in 1 .. Len(s)  BY <1>1, <1>4 DEF Ends
  <2> QED  BY <1>1, <1>4, <2>1 DEF Ends, PieceAt
<1> QED  BY <1>2, <1>3, <1>4

(* A step of t leaves a call of the other thread disturbed, or that thread  *)
(* is in no call.                                                          *)
LEMMA WholeFromT ==
    ASSUME TypeOK, WholeInv, NEW t \in Threads, pc[t] # "idle",
           \A u \in Threads \ {t} : pc'[u] = pc[u],
           UNCHANGED <<calls, disturbed>>,
           pc'[t] # "idle" /\ ~disturbed[t] =>
             /\ pc'[t] = "strip" => timestr' = "newline"
             /\ pc'[t] = "stamp" => timestr' = "stripped"
             /\ pc'[t] = "text" /\ Usable' => Ends(buffer'[mLogFile'], t, calls[t], 1)
             /\ pc'[t] = "newline" /\ Usable' => Ends(buffer'[mLogFile'], t, calls[t], 2)
             /\ pc'[t] = "flush" /\ Usable' => Ends(buffer'[mLogFile'], t, calls[t], 3)
    PROVE  WholeInv'
<1> SUFFICES ASSUME NEW u \in Threads, pc'[u] # "idle", ~disturbed'[u]
             PROVE  /\ pc'[Other(u)] = "idle"
                    /\ pc'[u] = "strip" => timestr' = "newline"
                    /\ pc'[u] = "stamp" => timestr' = "stripped"
                    /\ pc'[u] = "text" /\ Usable' => Ends(buffer'[mLogFile'], u, calls'[u], 1)
                    /\ pc'[u] = "newline" /\ Usable' => Ends(buffer'[mLogFile'], u, calls'[u], 2)
                    /\ pc'[u] = "flush" /\ Usable' => Ends(buffer'[mLogFile'], u, calls'[u], 3)
  BY DEF WholeInv, Ends, PieceAt
<1>1. u = t
  <2>1. SUFFICES ASSUME u # t PROVE FALSE
    OBVIOUS
  <2>2. pc[u] # "idle" /\ ~disturbed[u] /\ Other(u) = t  BY <2>1, OtherFacts
  <2> QED  BY <2>2 DEF WholeInv
<1>2. pc[Other(t)] = "idle" /\ Other(t) \in Threads \ {t}
  BY <1>1, OtherFacts DEF WholeInv
<1> QED  BY <1>1, <1>2
LEMMA InitWhole == Init => WholeInv
BY DEF Init, WholeInv

LEMMA NextWhole ==
    ASSUME TypeOK, StreamInv, WholeInv, [Next]_vars
    PROVE  WholeInv'
<1>0. pc \in [Threads -> Steps] /\ disturbed \in [Threads -> BOOLEAN]
  BY DEF TypeOK
<1>1. ASSUME NEW t \in Threads, Call(t) PROVE WholeInv'
  <2>1. /\ \A u \in Threads : pc'[u] = IF u = t THEN (IF mLogFile = NULL THEN "open" ELSE "time") ELSE pc[u]
        /\ \A u \in Threads : disturbed'[u] =
             IF u = t THEN pc[Other(t)] # "idle" ELSE pc[u] # "idle" \/ disturbed[u]
        /\ pc[t] = "idle" /\ UNCHANGED <<fileVars, timestr>>
    BY <1>0, <1>1 DEF Call, Goto
  <2> SUFFICES ASSUME NEW u \in Threads, pc'[u] # "idle", ~disturbed'[u]
               PROVE  pc'[Other(u)] = "idle" /\ pc'[u] \in {"open", "time"}
    BY DEF WholeInv
  <2>2. CASE u = t
    BY <2>1, <2>2, OtherFacts
  <2>3. CASE u # t
    <3>1. pc[u] # "idle"  BY <2>1, <2>3
    <3> QED  BY <2>1, <2>3, <3>1
  <2> QED  BY <2>2, <2>3
<1>2. ASSUME NEW t \in Threads, Open(t) \/ Opened(t) \/ Time(t) \/ Strip(t) PROVE WholeInv'
  <2>1. /\ \A u \in Threads \ {t} : pc'[u] = pc[u]
        /\ pc[t] # "idle"
        /\ UNCHANGED <<calls, disturbed>>
        /\ pc'[t] \in {"opened", "time", "strip", "stamp", "idle"}
        /\ pc'[t] = "strip" => timestr' = "newline"
    BY <1>0, <1>2 DEF Open, Opened, Time, Strip, Goto
  <2>2. ASSUME pc'[t] = "stamp", ~disturbed[t] PROVE timestr' = "stripped"
    <3>1. Strip(t)  BY <1>0, <1>2, <2>2 DEF Open, Opened, Time, Goto
    <3>2. timestr = "newline"  BY <2>1, <2>2, <3>1 DEF Strip, WholeInv
    <3> QED  BY <3>1, <3>2 DEF Strip
  <2> QED  BY <2>1, <2>2, WholeFromT
<1>3. ASSUME UseFault PROVE WholeInv'
  BY <1>3 DEF UseFault, WholeInv, Usable, Ends, PieceAt, fileVars
<1>4. ASSUME NEW t \in Threads, NEW part \in Parts, Write(t, part), ~UseFault PROVE WholeInv'
  <2>1. /\ pc[t] = part /\ Usable
        /\ buffer' = [buffer EXCEPT ![mLogFile] = Append(@, Piece(t, part))]
        /\ Goto(t, After(part))
        /\ UNCHANGED <<mLogFile, closed, timestr, calls, disturbed>>
    BY <1>4 DEF Write
  <2>2. mLogFile \in Streams /\ buffer[mLogFile] \in Seq(Pieces)
    BY <2>1 DEF TypeOK, Usable
  <2>3. buffer'[mLogFile] = Append(buffer[mLogFile], Piece(t, part)) /\ mLogFile' = mLogFile
    BY <2>1, <2>2 DEF TypeOK
  <2>4. /\ \A u \in Threads \ {t} : pc'[u] = pc[u]
        /\ pc'[t] = After(part) /\ pc[t] # "idle"
    BY <1>0, <2>1, AfterType DEF Goto, Parts
  <2>5. Piece(t, part) \in Pieces
    BY PieceType
  <2>6. Piece(t, part).by = t /\ Piece(t, part).call = calls[t] /\ Piece(t, part).part = part
        /\ (part = "stamp" => Piece(t, part).stamp = timestr)
    BY DEF Piece
  <2>7. ASSUME ~disturbed[t]
        PROVE  /\ part = "stamp" => Ends(buffer'[mLogFile], t, calls[t], 1)
               /\ part = "text" => Ends(buffer'[mLogFile], t, calls[t], 2)
               /\ part = "newline" => Ends(buffer'[mLogFile], t, calls[t], 3)
    <3> DEFINE s == buffer[mLogFile]  e == Piece(t, part)
    <3>0. s \in Seq(Pieces) /\ e \in Pieces /\ e.by = t /\ e.call = calls[t] /\ e.part = part
      BY <2>2, <2>5, <2>6
    <3>1. CASE part = "stamp"
      <4>1. e.stamp = "stripped"  BY <2>1, <2>4, <2>6, <2>7, <3>1 DEF WholeInv
      <4>2. Ends(s, t, calls[t], 0)  BY <3>0 DEF Ends
      <4> HIDE DEF s, e
      <4>3. Ends(Append(s, e), t, calls[t], 0 + 1)
        BY <3>0, <3>1, <4>1, <4>2, EndsAppend
      <4> QED  BY <2>3, <3>1, <4>3 DEF s, e
    <3>2. CASE part = "text"
      <4>1. Ends(s, t, calls[t], 1)  BY <2>1, <2>7, <3>2 DEF WholeInv
      <4> HIDE DEF s, e
      <4>2. Ends(Append(s, e), t, calls[t], 1 + 1)
        BY <3>0, <3>2, <4>1, EndsAppend
      <4> QED  BY <2>3, <3>2, <4>2 DEF s, e
    <3>3. CASE part = "newline"
      <4>1. Ends(s, t, calls[t], 2)  BY <2>1, <2>7, <3>3 DEF WholeInv
      <4> HIDE DEF s, e
      <4>2. Ends(Append(s, e), t, calls[t], 2 + 1)
        BY <3>0, <3>3, <4>1, EndsAppend
      <4> QED  BY <2>3, <3>3, <4>2 DEF s, e
    <3> QED  BY <3>1, <3>2, <3>3 DEF Parts
  <2>8. pc'[t] = "text" => part = "stamp"  BY <2>4 DEF After, Parts
  <2>9. pc'[t] = "newline" => part = "text"  BY <2>4 DEF After, Parts
  <2>10. pc'[t] = "flush" => part = "newline"  BY <2>4 DEF After, Parts
  <2>11. pc'[t] # "strip" /\ pc'[t] # "stamp"  BY <2>4 DEF After, Parts
  <2> QED  BY <2>1, <2>3, <2>4, <2>7, <2>8, <2>9, <2>10, <2>11, WholeFromT
<1>5. ASSUME NEW t \in Threads, Flush(t), ~UseFault PROVE WholeInv'
  <2>1. pc[t] = "flush" /\ pc'[t] = "idle" /\ (\A u \in Threads \ {t} : pc'[u] = pc[u])
        /\ UNCHANGED <<calls, disturbed>>
    BY <1>0, <1>5 DEF Flush, Goto
  <2> QED  BY <2>1, WholeFromT
<1>6. ASSUME StartThread \/ BeginUnload PROVE WholeInv'
  BY <1>6 DEF StartThread, BeginUnload, WholeInv, Usable, Ends, PieceAt, fileVars
<1>7. ASSUME Close PROVE WholeInv'
  <2>1. UNCHANGED <<mLogFile, timestr, pc, calls, disturbed>>  BY <1>7 DEF Close
  <2>2. CASE mLogFile = NULL
    BY <2>1, <2>2 DEF WholeInv, Usable
  <2>3. CASE mLogFile # NULL
    <3>1. ~ Usable'  BY <1>7, <2>1, <2>3 DEF Close, Usable
    <3> QED  BY <2>1, <3>1 DEF WholeInv
  <2> QED  BY <2>2, <2>3
<1>8. ASSUME Forget PROVE WholeInv'
  BY <1>8 DEF Forget, WholeInv, Usable
<1>9. CASE UNCHANGED vars
  BY <1>9 DEF vars, fileVars, WholeInv, Usable, Ends, PieceAt
<1> QED  BY <1>1, <1>2, <1>3, <1>4, <1>5, <1>6, <1>7, <1>8, <1>9 DEF Next

(* A line that no call of the other thread disturbs is whole, and its stamp *)
(* is as Log means it to be (Main.cpp:172-182).                             *)
THEOREM LinesWhole == Spec => []WholeLine
<1>1. TypeOK /\ WholeInv => WholeLine
  <2> SUFFICES ASSUME TypeOK, WholeInv, NEW t \in Threads,
                      pc[t] = "flush", ~disturbed[t], Usable
               PROVE  LET s == buffer[mLogFile]
                          k == Len(s) - 3
                      IN  /\ k >= 0
                          /\ PieceAt(s, k + 1, t, calls[t], "stamp") /\ s[k + 1].stamp = "stripped"
                          /\ PieceAt(s, k + 2, t, calls[t], "text")
                          /\ PieceAt(s, k + 3, t, calls[t], "newline")
    BY DEF WholeLine
  <2> DEFINE n == Len(buffer[mLogFile])
  <2>1. n \in Nat
    <3>1. buffer[mLogFile] \in Seq(Pieces)  BY DEF TypeOK, Usable
    <3> DEFINE Tokens == Pieces
    <3>2. buffer[mLogFile] \in Seq(Tokens)  BY <3>1
    <3> HIDE DEF Tokens
    <3> QED  BY <3>2
  <2>2. Ends(buffer[mLogFile], t, calls[t], 3)  BY DEF WholeInv
  <2>3. n >= 3 /\ n - 3 + 1 = n - 2 /\ n - 3 + 2 = n - 1 /\ n - 3 + 3 = n
    BY <2>1, <2>2 DEF Ends
  <2> QED  BY <2>1, <2>2, <2>3 DEF Ends
<1> QED  BY InitType, NextType, InitStream, NextStream, InitWhole, NextWhole, <1>1, PTL DEF Spec
-----------------------------------------------------------------------------
(* What Log wrote is in the file when it returns.                          *)

(* The first parts of line n of thread t are in s. *)
StampIn(s, t, n) == \E p \in 1 .. Len(s) : PieceAt(s, p, t, n, "stamp")
TextIn(s, t, n) ==
    \E p, q \in 1 .. Len(s) :
        p < q /\ PieceAt(s, p, t, n, "stamp") /\ PieceAt(s, q, t, n, "text")

All == disk \o buffer[1]

DiskInv ==
    Sound /\ opened = 1 =>
        \A t \in Threads :
            /\ \A n \in 1 .. calls[t] : Finished(t, n) => LineIn(disk, t, n)
            /\ pc[t] = "text" => StampIn(All, t, calls[t])
            /\ pc[t] = "newline" => TextIn(All, t, calls[t])
            /\ pc[t] = "flush" => LineIn(All, t, calls[t])

(* A file or a stream that only grows keeps what was in it. *)
LEMMA GrowKeeps ==
    ASSUME NEW s \in Seq(Pieces), NEW r \in Seq(Pieces), Len(s) <= Len(r),
           \A p \in 1 .. Len(s) : r[p] = s[p], NEW t, NEW n
    PROVE  /\ StampIn(s, t, n) => StampIn(r, t, n)
           /\ TextIn(s, t, n) => TextIn(r, t, n)
           /\ LineIn(s, t, n) => LineIn(r, t, n)
<1> DEFINE Tokens == Pieces
<1>1. Len(s) \in Nat /\ Len(r) \in Nat
  <2>1. s \in Seq(Tokens) /\ r \in Seq(Tokens)  OBVIOUS
  <2> HIDE DEF Tokens
  <2> QED  BY <2>1
<1>2. \A p \in 1 .. Len(s) : p \in 1 .. Len(r)
  BY <1>1
<1>3. \A p \in 1 .. Len(s), part \in Parts : PieceAt(s, p, t, n, part) => PieceAt(r, p, t, n, part)
  BY DEF PieceAt
<1>4. StampIn(s, t, n) => StampIn(r, t, n)
  BY <1>2, <1>3 DEF StampIn, Parts
<1>5. TextIn(s, t, n) => TextIn(r, t, n)
  BY <1>2, <1>3 DEF TextIn, Parts
<1>6. LineIn(s, t, n) => LineIn(r, t, n)
  BY <1>2, <1>3 DEF LineIn, Parts
<1> QED  BY <1>4, <1>5, <1>6

LEMMA ConcatGrows ==
    ASSUME NEW s \in Seq(Pieces), NEW r \in Seq(Pieces)
    PROVE  /\ s \o r \in Seq(Pieces) /\ Len(s) <= Len(s \o r)
           /\ \A p \in 1 .. Len(s) : (s \o r)[p] = s[p]
           /\ s \o <<>> = s
<1> DEFINE Tokens == Pieces
<1>1. s \in Seq(Tokens) /\ r \in Seq(Tokens)
  OBVIOUS
<1>2. /\ s \o r \in Seq(Tokens) /\ Len(s) <= Len(s \o r)
      /\ \A p \in 1 .. Len(s) : (s \o r)[p] = s[p]
      /\ s \o <<>> = s
  <2> HIDE DEF Tokens
  <2> QED  BY <1>1
<1> QED  BY <1>2

LEMMA AppendGrows ==
    ASSUME NEW s \in Seq(Pieces), NEW b \in Seq(Pieces), NEW e \in Pieces
    PROVE  /\ s \o Append(b, e) = Append(s \o b, e)
           /\ Append(s \o b, e) \in Seq(Pieces)
           /\ Len(Append(s \o b, e)) = Len(s \o b) + 1 /\ Len(s \o b) \in Nat
           /\ \A p \in 1 .. Len(s \o b) : Append(s \o b, e)[p] = (s \o b)[p]
           /\ Append(s \o b, e)[Len(s \o b) + 1] = e
<1> DEFINE Tokens == Pieces  a == s \o b
<1>1. s \in Seq(Tokens) /\ b \in Seq(Tokens) /\ e \in Tokens
  OBVIOUS
<1>2. a \in Seq(Tokens) /\ s \o Append(b, e) = Append(a, e)
  <2> HIDE DEF Tokens
  <2> QED  BY <1>1
<1>3. /\ Append(a, e) \in Seq(Tokens) /\ Len(Append(a, e)) = Len(a) + 1 /\ Len(a) \in Nat
      /\ \A p \in 1 .. Len(a) : Append(a, e)[p] = a[p]
      /\ Append(a, e)[Len(a) + 1] = e
  <2> HIDE DEF Tokens, a
  <2> QED  BY <1>1, <1>2
<1> QED  BY <1>2, <1>3

(* Neither the file nor the calls change. *)
LEMMA DiskUnchanged ==
    ASSUME DiskInv, UNCHANGED <<buffer, disk, opened, calls, pc>>, Sound' => Sound
    PROVE  DiskInv'
<1> SUFFICES ASSUME Sound', opened' = 1, NEW u \in Threads
             PROVE  /\ \A n \in 1 .. calls'[u] : Finished(u, n)' => LineIn(disk', u, n)
                    /\ pc'[u] = "text" => StampIn(All', u, calls'[u])
                    /\ pc'[u] = "newline" => TextIn(All', u, calls'[u])
                    /\ pc'[u] = "flush" => LineIn(All', u, calls'[u])
  BY DEF DiskInv, LineIn, StampIn, TextIn, PieceAt
<1>1. All' = All /\ Sound /\ opened = 1
  BY DEF All
<1>2. \A n : Finished(u, n)' <=> Finished(u, n)
  BY DEF Finished
<1> QED  BY <1>1, <1>2 DEF DiskInv

LEMMA InitDisk == Init => DiskInv
BY DEF Init, DiskInv

LEMMA NextDisk ==
    ASSUME TypeOK, StreamInv, DiskInv, [Next]_vars
    PROVE  DiskInv'
<1>0. pc \in [Threads -> Steps] /\ calls \in [Threads -> Nat] /\ buffer \in [Streams -> Seq(Pieces)]
      /\ disk \in Seq(Pieces)
  BY DEF TypeOK
<1>1. ASSUME NEW t \in Threads, Call(t) PROVE DiskInv'
  <2>1. /\ \A u \in Threads : pc'[u] = IF u = t THEN (IF mLogFile = NULL THEN "open" ELSE "time") ELSE pc[u]
        /\ \A u \in Threads : calls'[u] = IF u = t THEN calls[u] + 1 ELSE calls[u]
        /\ pc[t] = "idle" /\ UNCHANGED <<fileVars, phase, failed>>
    BY <1>0, <1>1 DEF Call, Goto
  <2> SUFFICES ASSUME Sound', opened' = 1, NEW u \in Threads
               PROVE  /\ \A n \in 1 .. calls'[u] : Finished(u, n)' => LineIn(disk', u, n)
                      /\ pc'[u] = "text" => StampIn(All', u, calls'[u])
                      /\ pc'[u] = "newline" => TextIn(All', u, calls'[u])
                      /\ pc'[u] = "flush" => LineIn(All', u, calls'[u])
    BY DEF DiskInv, LineIn, StampIn, TextIn, PieceAt
  <2>2. Sound /\ opened = 1 /\ All' = All /\ disk' = disk
    BY <2>1 DEF Sound, BeforeClose, fileVars, All
  <2>3. CASE u # t
    <3>1. pc'[u] = pc[u] /\ calls'[u] = calls[u]  BY <2>1, <2>3
    <3> QED  BY <2>2, <3>1 DEF DiskInv, Finished
  <2>4. CASE u = t
    <3>1. pc'[u] \in {"open", "time"} /\ calls'[u] = calls[u] + 1 /\ calls[u] \in Nat /\ pc[u] = "idle"
      BY <1>0, <2>1, <2>4
    <3>2. ASSUME NEW n \in 1 .. calls'[u], Finished(u, n)' PROVE LineIn(disk', u, n)
      <4>1. n < calls'[u]  BY <3>1, <3>2 DEF Finished
      <4>2. n \in 1 .. calls[u] /\ Finished(u, n)  BY <3>1, <4>1 DEF Finished
      <4> QED  BY <2>2, <4>2 DEF DiskInv
    <3> QED  BY <3>1, <3>2
  <2> QED  BY <2>3, <2>4
<1>2. ASSUME NEW t \in Threads, Open(t) PROVE DiskInv'
  <2> SUFFICES ASSUME Sound', opened' = 1, NEW u \in Threads
               PROVE  /\ \A n \in 1 .. calls'[u] : ~ Finished(u, n)'
                      /\ pc'[u] \notin {"text", "newline", "flush"}
    BY DEF DiskInv
  <2>1. /\ \A v \in Threads : pc'[v] = IF v = t THEN "opened" ELSE pc[v]
        /\ pc[t] = "open" /\ UNCHANGED <<calls, phase>> /\ Sound
    BY <1>0, <1>2 DEF Open, Goto, Sound, BeforeClose, lifeVars
  <2>2. opened = 0 /\ t = "server"
    BY <2>1 DEF StreamInv
  <2>3. calls["query"] = 0 /\ calls["server"] \in {0, 1}
    BY <2>1, <2>2 DEF StreamInv
  <2>4. pc[u] \notin {"text", "newline", "flush"}
    BY <2>1, <2>2 DEF StreamInv
  <2> QED  BY <2>1, <2>2, <2>3, <2>4 DEF Finished, Threads
<1>3. ASSUME NEW t \in Threads, Opened(t) \/ Time(t) \/ Strip(t) PROVE DiskInv'
  <2>1. /\ \A u \in Threads \ {t} : pc'[u] = pc[u]
        /\ pc[t] \in {"opened", "time", "strip"} /\ UNCHANGED <<fileVars, calls, lifeVars, failed>>
        /\ pc'[t] \in {"time", "strip", "stamp", "idle"}
        /\ mLogFile # NULL => pc'[t] # "idle"
    BY <1>0, <1>3 DEF Opened, Time, Strip, Goto
  <2> SUFFICES ASSUME Sound', opened' = 1, NEW u \in Threads
               PROVE  /\ \A n \in 1 .. calls'[u] : Finished(u, n)' => LineIn(disk', u, n)
                      /\ pc'[u] = "text" => StampIn(All', u, calls'[u])
                      /\ pc'[u] = "newline" => TextIn(All', u, calls'[u])
                      /\ pc'[u] = "flush" => LineIn(All', u, calls'[u])
    BY DEF DiskInv, LineIn, StampIn, TextIn, PieceAt
  <2>2. Sound /\ opened = 1 /\ All' = All /\ disk' = disk /\ calls' = calls
    BY <2>1 DEF Sound, BeforeClose, fileVars, lifeVars, All
  <2>3. pc'[t] # "idle"
    BY <2>1, <2>2 DEF StreamInv, NULL
  <2>4. \A n : Finished(u, n)' => Finished(u, n)
    BY <2>1, <2>2, <2>3 DEF Finished
  <2> QED  BY <2>1, <2>2, <2>4 DEF DiskInv
<1>4. ASSUME UseFault PROVE DiskInv'
  BY <1>4, DiskUnchanged DEF UseFault, Sound, BeforeClose, fileVars, lifeVars
<1>5. ASSUME NEW t \in Threads, NEW part \in Parts, Write(t, part), ~UseFault PROVE DiskInv'
  <2>1. /\ pc[t] = part /\ Usable
        /\ buffer' = [buffer EXCEPT ![mLogFile] = Append(@, Piece(t, part))]
        /\ Goto(t, After(part))
        /\ UNCHANGED <<mLogFile, opened, disk, calls, lifeVars, failed>>
    BY <1>5 DEF Write
  <2> SUFFICES ASSUME Sound', opened' = 1, NEW u \in Threads
               PROVE  /\ \A n \in 1 .. calls'[u] : Finished(u, n)' => LineIn(disk', u, n)
                      /\ pc'[u] = "text" => StampIn(All', u, calls'[u])
                      /\ pc'[u] = "newline" => TextIn(All', u, calls'[u])
                      /\ pc'[u] = "flush" => LineIn(All', u, calls'[u])
    BY DEF DiskInv, LineIn, StampIn, TextIn, PieceAt
  <2>2. Sound /\ opened = 1 /\ mLogFile = 1 /\ 1 \in Streams
    BY <2>1 DEF Sound, BeforeClose, lifeVars, StreamInv, TypeOK, Usable
  <2>3. /\ \A v \in Threads \ {t} : pc'[v] = pc[v]
        /\ pc'[t] = After(part)
    BY <1>0, <2>1, AfterType DEF Goto
  <2> DEFINE e == Piece(t, part)
  <2>4. e \in Pieces /\ e.by = t /\ e.call = calls[t] /\ e.part = part
    BY PieceType DEF Piece
  <2> HIDE DEF e
  <2>5. buffer[1] \in Seq(Pieces) /\ buffer'[1] = Append(buffer[1], e)
    <3>1. buffer' = [buffer EXCEPT ![1] = Append(@, e)]  BY <2>1, <2>2 DEF e
    <3> QED  BY <1>0, <2>2, <3>1
  <2>6. /\ All' = Append(All, e) /\ All' \in Seq(Pieces) /\ All \in Seq(Pieces)
        /\ Len(All') = Len(All) + 1 /\ Len(All) \in Nat
        /\ \A p \in 1 .. Len(All) : All'[p] = All[p]
        /\ All'[Len(All) + 1] = e
    <3>1. All' = disk \o Append(buffer[1], e)  BY <2>1, <2>5 DEF All
    <3>2. All \in Seq(Pieces)  BY <1>0, <2>5, ConcatGrows DEF All
    <3> DEFINE b == buffer[1]
    <3>3. All' = disk \o Append(b, e) /\ All = disk \o b /\ b \in Seq(Pieces)
      BY <2>5, <3>1 DEF All
    <3> HIDE DEF b
    <3>4. /\ disk \o Append(b, e) = Append(disk \o b, e)
          /\ Append(disk \o b, e) \in Seq(Pieces)
          /\ Len(Append(disk \o b, e)) = Len(disk \o b) + 1 /\ Len(disk \o b) \in Nat
          /\ \A p \in 1 .. Len(disk \o b) : Append(disk \o b, e)[p] = (disk \o b)[p]
          /\ Append(disk \o b, e)[Len(disk \o b) + 1] = e
      BY <1>0, <2>4, <3>3, AppendGrows
    <3> QED  BY <3>2, <3>3, <3>4
  <2>7. \A v \in Threads, n \in Nat : /\ StampIn(All, v, n) => StampIn(All', v, n)
                                      /\ TextIn(All, v, n) => TextIn(All', v, n)
                                      /\ LineIn(All, v, n) => LineIn(All', v, n)
    <3>1. Len(All) <= Len(All')  BY <2>6
    <3> QED  BY <2>6, <3>1, GrowKeeps
  <2>8. ASSUME NEW n \in 1 .. calls'[u], Finished(u, n)' PROVE LineIn(disk', u, n)
    <3>1. Finished(u, n) /\ n \in 1 .. calls[u]
      BY <2>1, <2>3, <2>8 DEF Finished, After, Parts
    <3> QED  BY <2>1, <2>2, <3>1 DEF DiskInv
  <2>9. CASE u # t
    <3>1. pc'[u] = pc[u] /\ calls'[u] = calls[u] /\ calls[u] \in Nat  BY <1>0, <2>1, <2>3, <2>9
    <3> QED  BY <2>2, <2>7, <2>8, <3>1 DEF DiskInv
  <2>10. CASE u = t
    <3>1. calls'[t] = calls[t] /\ Len(All) + 1 \in 1 .. Len(All')
          /\ \A p \in 1 .. Len(All) : p \in 1 .. Len(All') /\ p < Len(All) + 1
      BY <2>1, <2>6
    <3>2. PieceAt(All', Len(All) + 1, t, calls[t], part)
      BY <2>4, <2>6 DEF PieceAt
    <3>3. \A p \in 1 .. Len(All), x \in Parts :
             PieceAt(All, p, t, calls[t], x) => PieceAt(All', p, t, calls[t], x)
      BY <2>6 DEF PieceAt
    <3>4. pc'[t] = "text" => StampIn(All', t, calls[t])
      <4>1. pc'[t] = "text" => part = "stamp"  BY <2>3 DEF After, Parts
      <4> QED  BY <3>1, <3>2, <4>1 DEF StampIn
    <3>5. ASSUME pc'[t] = "newline" PROVE TextIn(All', t, calls[t])
      <4>1. part = "text"  BY <2>3, <3>5 DEF After, Parts
      <4>2. StampIn(All, t, calls[t])  BY <2>1, <2>2, <4>1 DEF DiskInv
      <4>3. PICK p \in 1 .. Len(All) : PieceAt(All, p, t, calls[t], "stamp")  BY <4>2 DEF StampIn
      <4>4. PieceAt(All', p, t, calls[t], "stamp") /\ p \in 1 .. Len(All') /\ p < Len(All) + 1
        BY <3>1, <3>3, <4>3 DEF Parts
      <4> QED  BY <3>1, <3>2, <4>1, <4>4 DEF TextIn
    <3>6. ASSUME pc'[t] = "flush" PROVE LineIn(All', t, calls[t])
      <4>1. part = "newline"  BY <2>3, <3>6 DEF After, Parts
      <4>2. TextIn(All, t, calls[t])  BY <2>1, <2>2, <4>1 DEF DiskInv
      <4>3. PICK p \in 1 .. Len(All), q \in 1 .. Len(All) :
               p < q /\ PieceAt(All, p, t, calls[t], "stamp") /\ PieceAt(All, q, t, calls[t], "text")
        BY <4>2 DEF TextIn
      <4>4. PieceAt(All', p, t, calls[t], "stamp") /\ PieceAt(All', q, t, calls[t], "text")
            /\ p \in 1 .. Len(All') /\ q \in 1 .. Len(All') /\ q < Len(All) + 1
        BY <3>1, <3>3, <4>3 DEF Parts
      <4> QED  BY <3>1, <3>2, <4>1, <4>3, <4>4 DEF LineIn
    <3> QED  BY <2>8, <2>10, <3>1, <3>4, <3>5, <3>6
  <2> QED  BY <2>9, <2>10
<1>6. ASSUME NEW t \in Threads, Flush(t), ~UseFault PROVE DiskInv'
  <2>1. /\ pc[t] = "flush" /\ Usable
        /\ disk' = disk \o buffer[mLogFile] /\ buffer' = [buffer EXCEPT ![mLogFile] = <<>>]
        /\ Goto(t, "idle")
        /\ UNCHANGED <<mLogFile, opened, calls, lifeVars, failed>>
    BY <1>6 DEF Flush
  <2> SUFFICES ASSUME Sound', opened' = 1, NEW u \in Threads
               PROVE  /\ \A n \in 1 .. calls'[u] : Finished(u, n)' => LineIn(disk', u, n)
                      /\ pc'[u] = "text" => StampIn(All', u, calls'[u])
                      /\ pc'[u] = "newline" => TextIn(All', u, calls'[u])
                      /\ pc'[u] = "flush" => LineIn(All', u, calls'[u])
    BY DEF DiskInv, LineIn, StampIn, TextIn, PieceAt
  <2>2. Sound /\ opened = 1 /\ mLogFile = 1 /\ 1 \in Streams
    BY <2>1 DEF Sound, BeforeClose, lifeVars, StreamInv, TypeOK, Usable
  <2>3. /\ \A v \in Threads \ {t} : pc'[v] = pc[v]
        /\ pc'[t] = "idle"
    BY <1>0, <2>1 DEF Goto
  <2>4. disk' = All /\ buffer'[1] = <<>>
    <3>1. disk' = disk \o buffer[1] /\ buffer' = [buffer EXCEPT ![1] = <<>>]  BY <2>1, <2>2
    <3> QED  BY <1>0, <2>2, <3>1 DEF All
  <2>5. buffer[1] \in Seq(Pieces) /\ All \in Seq(Pieces)
    BY <1>0, <2>2, ConcatGrows DEF All
  <2>6. All' = All
    <3>1. All' = All \o <<>>  BY <2>4 DEF All
    <3> QED  BY <2>5, <3>1, ConcatGrows
  <2>7. \A v \in Threads, n \in Nat : LineIn(disk, v, n) => LineIn(disk', v, n)
    <3>1. Len(disk) <= Len(All) /\ \A p \in 1 .. Len(disk) : All[p] = disk[p]
      BY <1>0, <2>5, ConcatGrows DEF All
    <3> QED  BY <1>0, <2>4, <2>5, <3>1, GrowKeeps
  <2>8. calls'[u] = calls[u] /\ calls[u] \in Nat
    BY <1>0, <2>1
  <2>9. ASSUME NEW n \in 1 .. calls'[u], Finished(u, n)' PROVE LineIn(disk', u, n)
    <3>1. CASE Finished(u, n)
      BY <2>2, <2>7, <2>8, <3>1 DEF DiskInv
    <3>2. CASE ~ Finished(u, n)
      <4>1. u = t /\ n = calls[t]  BY <2>1, <2>3, <2>8, <2>9, <3>2 DEF Finished
      <4> QED  BY <2>1, <2>2, <2>4, <4>1 DEF DiskInv
    <3> QED  BY <3>1, <3>2
  <2>10. CASE u # t
    <3>1. pc'[u] = pc[u]  BY <2>3, <2>10
    <3> QED  BY <2>2, <2>6, <2>8, <2>9, <3>1 DEF DiskInv
  <2>11. CASE u = t
    BY <2>3, <2>9, <2>11
  <2> QED  BY <2>10, <2>11
<1>7. ASSUME StartThread \/ BeginUnload PROVE DiskInv'
  BY <1>7, DiskUnchanged DEF StartThread, BeginUnload, Sound, BeforeClose, fileVars
<1>8. ASSUME Close \/ Forget PROVE DiskInv'
  <2>1. ~ Sound'  BY <1>8 DEF Close, Forget, Sound, BeforeClose
  <2> QED  BY <2>1 DEF DiskInv
<1>9. CASE UNCHANGED vars
  BY <1>9, DiskUnchanged DEF vars, fileVars, lifeVars, Sound, BeforeClose
<1> QED  BY <1>1, <1>2, <1>3, <1>4, <1>5, <1>6, <1>7, <1>8, <1>9 DEF Next

(* Whatever the interleaving of the two threads, a line is in the file when *)
(* the Log call that wrote it returns, its parts in order                  *)
(* (Main.cpp:160-183).                                                      *)
THEOREM LogDurable == Spec => []LoggedIsOnDisk
<1>1. TypeOK /\ StreamInv /\ DiskInv => LoggedIsOnDisk
  <2> SUFFICES ASSUME TypeOK, StreamInv, DiskInv, Sound, NEW t \in Threads, NEW n \in 1 .. calls[t],
                      Finished(t, n)
               PROVE  LineIn(disk, t, n)
    BY DEF LoggedIsOnDisk, Sound
  <2>1. opened = 1
    <3> SUFFICES ASSUME opened # 1 PROVE FALSE
      OBVIOUS
    <3>1. opened = 0  BY DEF StreamInv
    <3>2. calls["query"] = 0 /\ calls["server"] \in {0, 1} /\ (calls["server"] = 1 => pc["server"] = "open")
      BY <3>1 DEF StreamInv
    <3> QED  BY <3>2 DEF Threads, Finished
  <2> QED  BY <2>1 DEF DiskInv
<1> QED  BY InitType, NextType, InitStream, NextStream, InitDisk, NextDisk, <1>1, PTL DEF Spec
=============================================================================
