--------------------------- MODULE DispatchProofs ---------------------------
(***************************************************************************)
(* Proofs about CallbackDispatch, for any number of scripts, loads,        *)
(* queries and nested loops.  TypeOK /\ DispatchInv is inductive; the       *)
(* properties that Dispatch.cfg checks follow from it.                     *)
(***************************************************************************)
EXTENDS CallbackDispatch, WellFoundedInduction, TLAPS

-----------------------------------------------------------------------------
(* ++i.                                                                    *)

(* A set of naturals has a least element: stated for any relation that     *)
(* holds < on Nat, the form that the library's WFMin can be cited in.       *)
LEMMA LeastIn ==
    ASSUME NEW R, IsWellFoundedOn(R, Nat), \A x, y \in Nat : y < x => <<y, x>> \in R,
           NEW S, S \subseteq Nat, S # {}
    PROVE  \E m \in S : \A k \in S : m <= k
<1>1. PICK m \in S : \A k \in S : ~ (<<k, m>> \in R)
  BY WFMin, Zenon
<1>2. ASSUME NEW k \in S PROVE m <= k
  <2>1. k \in Nat /\ m \in Nat  OBVIOUS
  <2>2. ~ (k < m)  BY <1>1, <2>1
  <2> QED  BY <2>1, <2>2
<1> QED  BY <1>2

LEMMA LeastElement ==
    ASSUME NEW S, S \subseteq Nat, S # {}
    PROVE  \E m \in S : \A k \in S : m <= k
<1>1. \A x, y \in Nat : y < x => <<y, x>> \in OpToRel(<, Nat)
  BY Zenon DEF OpToRel
<1>2. IsWellFoundedOn(OpToRel(<, Nat), Nat)
  BY NatLessThanWellFounded, Zenon
<1> QED  BY <1>1, <1>2, LeastIn, Zenon

(* What ++i finds: the first linked node after n, or the end of the list.  *)
LEMMA SuccessorFacts ==
    ASSUME NEW n \in Nodes \cup {0}
    PROVE  /\ Successor(n) \in Nodes \cup {End}
           /\ Successor(n) # End => Successor(n) > n /\ Linked(Successor(n))
           /\ \A m \in Nodes : m > n /\ Linked(m) => Successor(n) # End /\ Successor(n) <= m
<1> DEFINE later == {m \in Nodes : m > n /\ Linked(m)}
<1>1. later \subseteq Nat
  BY DispatchAssumption DEF Nodes
<1>2. CASE later = {}
  <2>1. Successor(n) = End  BY <1>2 DEF Successor
  <2>2. \A m \in Nodes : ~ (m > n /\ Linked(m))  BY <1>2
  <2> QED  BY <2>1, <2>2
<1>3. CASE later # {}
  <2>1. \E m \in later : \A k \in later : m <= k
    <3> HIDE DEF later
    <3> QED  BY <1>1, <1>3, LeastElement
  <2>2. Successor(n) = CHOOSE m \in later : \A k \in later : m <= k
    BY <1>3 DEF Successor
  <2>3. Successor(n) \in later /\ \A k \in later : Successor(n) <= k
    <3> HIDE DEF later
    <3> QED  BY <2>1, <2>2
  <2>4. Successor(n) \in Nodes /\ Successor(n) > n /\ Linked(Successor(n))  BY <2>3
  <2>5. Successor(n) # End  BY <2>4 DEF Nodes, End
  <2>6. \A m \in Nodes : m > n /\ Linked(m) => Successor(n) <= m  BY <2>3
  <2> QED  BY <2>4, <2>5, <2>6
<1> QED  BY <1>2, <1>3
-----------------------------------------------------------------------------
(* Types, and what the steps of a thread do to its frames.                 *)

DispatchIInv == TypeOK /\ DispatchInv

(* A linked node is the node of the script that stands there, and of no     *)
(* other.                                                                  *)
LEMMA LinkedFacts ==
    ASSUME TypeOK, ListInv, NEW n, Linked(n)
    PROVE  /\ n \in Nodes
           /\ ScriptAt(n) \in Scripts /\ node[ScriptAt(n)] = n
           /\ \A a \in Scripts : node[a] = n => a = ScriptAt(n)
<1>1. PICK a \in Scripts : node[a] = n /\ n # 0
  BY DEF Linked
<1>2. n \in Nodes
  BY <1>1 DEF TypeOK
<1>3. ScriptAt(n) \in Scripts /\ node[ScriptAt(n)] = n
  BY <1>1 DEF ScriptAt
<1>4. \A b \in Scripts : node[b] = n => b = ScriptAt(n)
  BY <1>1, <1>3 DEF ListInv
<1> QED  BY <1>2, <1>3, <1>4

LEMMA DepthFacts ==
    ASSUME TypeOK, NEW t \in Threads
    PROVE  /\ depth[t] \in 0 .. MaxDepth /\ MaxDepth \in Nat
           /\ depth[t] > 0 => depth[t] \in Depths /\ Top(t) \in Frames
           /\ depth[t] < MaxDepth => depth[t] + 1 \in Depths
           /\ \A d \in 1 .. depth[t] : d \in Depths /\ frame[t][d] \in Frames
<1>1. depth[t] \in 0 .. MaxDepth /\ frame[t] \in [Depths -> Frames]
  BY DEF TypeOK
<1>2. MaxDepth \in Nat
  BY DispatchAssumption
<1> QED  BY <1>1, <1>2 DEF Depths, Top

LEMMA NoFrameType == NoCalls \in [Nodes -> Nat] /\ NoFrame \in Frames
BY DEF NoCalls, NoFrame, Frames, Callbacks, Queries, NoQuery, Nodes, End

LEMMA SetTopFacts ==
    ASSUME TypeOK, NEW t \in Threads, depth[t] > 0, NEW f \in Frames, SetTop(t, f)
    PROVE  /\ frame' \in [Threads -> [Depths -> Frames]]
           /\ \A u \in Threads, d \in Depths :
                 frame'[u][d] = IF u = t /\ d = depth[t] THEN f ELSE frame[u][d]
<1> DEFINE Loop == Frames
<1>1. frame \in [Threads -> [Depths -> Loop]] /\ f \in Loop
  BY DEF TypeOK
<1>2. depth[t] \in Depths
  BY DepthFacts
<1>3. frame' = [frame EXCEPT ![t][depth[t]] = f]
  BY DEF SetTop
<1> HIDE DEF Loop
<1>4. frame' \in [Threads -> [Depths -> Loop]]
  BY <1>1, <1>2, <1>3
<1>5. ASSUME NEW u \in Threads, NEW d \in Depths
      PROVE  frame'[u][d] = IF u = t /\ d = depth[t] THEN f ELSE frame[u][d]
  BY <1>1, <1>2, <1>3
<1> QED  BY <1>4, <1>5 DEF Loop

(* Enter pushes one frame, which no iterator has left yet.                  *)
EnteredFrame(event, q, text) ==
    [event |-> event, query |-> q, text |-> text, at |-> Successor(0),
     pc |-> "test", start |-> loads, calls |-> NoCalls]

LEMMA EnterFacts ==
    ASSUME TypeOK, NEW t \in Threads,
           NEW event \in Callbacks, NEW q \in Queries \cup {NoQuery}, NEW text \in BOOLEAN,
           Enter(t, event, q, text)
    PROVE  /\ depth' \in [Threads -> 0 .. MaxDepth]
           /\ frame' \in [Threads -> [Depths -> Frames]]
           /\ depth[t] + 1 \in Depths
           /\ \A u \in Threads : depth'[u] = IF u = t THEN depth[t] + 1 ELSE depth[u]
           /\ \A u \in Threads, d \in Depths :
                 frame'[u][d] = IF u = t /\ d = depth[t] + 1
                                THEN EnteredFrame(event, q, text) ELSE frame[u][d]
<1> DEFINE Loop == Frames  f == EnteredFrame(event, q, text)
<1>1. Successor(0) \in Nodes \cup {End}
  BY SuccessorFacts
<1>2. loads \in Nodes \cup {0}
  BY DispatchAssumption DEF TypeOK, Nodes
<1>3. f \in Loop
  BY <1>1, <1>2, NoFrameType DEF EnteredFrame, Frames
<1>4. depth[t] + 1 \in Depths /\ depth \in [Threads -> 0 .. MaxDepth] /\ MaxDepth \in Nat
  BY DepthFacts DEF Enter, TypeOK
<1>5. frame \in [Threads -> [Depths -> Loop]]
  BY DEF TypeOK
<1>6. depth' = [depth EXCEPT ![t] = @ + 1] /\ frame' = [frame EXCEPT ![t][depth[t] + 1] = f]
  BY DEF Enter, EnteredFrame
<1>7. depth' \in [Threads -> 0 .. MaxDepth]
  BY <1>4, <1>6 DEF Depths
<1>8. \A u \in Threads : depth'[u] = IF u = t THEN depth[t] + 1 ELSE depth[u]
  BY <1>4, <1>6
<1> HIDE DEF Loop, f
<1>9. frame' \in [Threads -> [Depths -> Loop]]
  BY <1>3, <1>4, <1>5, <1>6
<1>10. ASSUME NEW u \in Threads, NEW d \in Depths
       PROVE  frame'[u][d] = IF u = t /\ d = depth[t] + 1 THEN f ELSE frame[u][d]
  BY <1>3, <1>4, <1>5, <1>6
<1> QED  BY <1>4, <1>7, <1>8, <1>9, <1>10 DEF Loop, f

LEMMA LeaveFacts ==
    ASSUME TypeOK, NEW t \in Threads, depth[t] > 0, Leave(t)
    PROVE  /\ depth' \in [Threads -> 0 .. MaxDepth]
           /\ frame' \in [Threads -> [Depths -> Frames]]
           /\ \A u \in Threads : depth'[u] = IF u = t THEN depth[t] - 1 ELSE depth[u]
           /\ \A u \in Threads : \A d \in 1 .. depth'[u] :
                 d \in 1 .. depth[u] /\ frame'[u][d] = frame[u][d]
<1>1. depth \in [Threads -> 0 .. MaxDepth] /\ MaxDepth \in Nat
  BY DispatchAssumption DEF TypeOK
<1>2. depth' = [depth EXCEPT ![t] = @ - 1] /\ SetTop(t, NoFrame)
  BY DEF Leave
<1>3. depth' \in [Threads -> 0 .. MaxDepth]
  BY <1>1, <1>2
<1>4. \A u \in Threads : depth'[u] = IF u = t THEN depth[t] - 1 ELSE depth[u]
  BY <1>1, <1>2
<1>5. /\ frame' \in [Threads -> [Depths -> Frames]]
      /\ \A u \in Threads, d \in Depths :
            frame'[u][d] = IF u = t /\ d = depth[t] THEN NoFrame ELSE frame[u][d]
  BY <1>2, SetTopFacts, NoFrameType
<1>6. ASSUME NEW u \in Threads, NEW d \in 1 .. depth'[u]
      PROVE  d \in 1 .. depth[u] /\ frame'[u][d] = frame[u][d]
  <2>1. depth[u] \in 0 .. MaxDepth /\ depth[t] \in 0 .. MaxDepth  BY <1>1
  <2>2. d \in Depths /\ d \in 1 .. depth[u]  BY <1>1, <1>4, <2>1 DEF Depths
  <2>3. ~ (u = t /\ d = depth[t])  BY <1>1, <1>4, <2>1
  <2> QED  BY <2>2, <2>3, <1>5
<1> QED  BY <1>3, <1>4, <1>5, <1>6

-----------------------------------------------------------------------------
(* What a loop may be in carries over the changes of the list that happen   *)
(* meanwhile, and a loop that begins is in order.                          *)

LEMMA EnteredOK ==
    ASSUME TypeOK, ListInv, NEW t \in Threads, NEW d \in Depths,
           NEW event \in Callbacks, NEW q, NEW text \in BOOLEAN,
           event = "OnMysqlQueryArray" => t = "server" /\ text
    PROVE  LoopOK(t, d, EnteredFrame(event, q, text))
<1> DEFINE f == EnteredFrame(event, q, text)
<1>1. /\ f.event = event /\ f.at = Successor(0) /\ f.pc = "test" /\ f.start = loads
      /\ f.calls = NoCalls /\ f.text = text
  BY DEF EnteredFrame
<1>2. /\ Successor(0) \in Nodes \cup {End}
      /\ Successor(0) # End => Linked(Successor(0))
      /\ \A m \in Nodes : m > 0 /\ Linked(m) => Successor(0) # End /\ Successor(0) <= m
  BY SuccessorFacts
<1>3. event # "none" /\ event # "public"
  BY DEF Callbacks
<1>4. loads \in Nat
  BY DEF TypeOK
<1>5. ASSUME NEW a \in Scripts, node[a] \in 1 .. loads PROVE ~ Passed(f, node[a])
  <2>1. node[a] \in Nodes /\ node[a] > 0 /\ Linked(node[a])
    BY <1>4, <1>5 DEF TypeOK, Linked
  <2>2. Successor(0) # End /\ Successor(0) <= node[a]
    BY <1>2, <2>1
  <2> HIDE DEF f
  <2> QED  BY <1>1, <1>2, <2>1, <2>2 DEF Passed, Nodes, End
<1>6. \A n \in Nodes : f.calls[n] = 0
  BY <1>1 DEF NoCalls
<1> HIDE DEF f
<1>6a. GivenOK(t, f)
  BY <1>1 DEF GivenOK
<1>7. LoopOK(t, d, f)
  BY <1>1, <1>2, <1>3, <1>4, <1>5, <1>6, <1>6a DEF LoopOK
<1> QED  BY <1>7 DEF f
LEMMA LoopUnchanged ==
    ASSUME UNCHANGED listVars, NEW t \in Threads, NEW d \in Depths
    PROVE  LoopOK(t, d, frame[t][d])' <=> LoopOK(t, d, frame'[t][d])
BY DEF LoopOK, GivenOK, Linked, Passed, listVars

LEMMA LoopsTop ==
    ASSUME TypeOK, LoopsInv, UNCHANGED <<listVars, depth>>,
           NEW t \in Threads, depth[t] > 0, NEW f \in Frames, SetTop(t, f),
           LoopOK(t, depth[t], f)
    PROVE  LoopsInv'
<1> SUFFICES ASSUME NEW u \in Threads, NEW d \in 1 .. depth[u]
             PROVE  LoopOK(u, d, frame[u][d])'
  BY DEF LoopsInv
<1>1. d \in Depths
  BY DepthFacts
<1>2. frame'[u][d] = IF u = t /\ d = depth[t] THEN f ELSE frame[u][d]
  BY <1>1, SetTopFacts
<1>3. LoopOK(u, d, frame[u][d])
  BY DEF LoopsInv
<1>4. LoopOK(u, d, frame'[u][d])
  BY <1>2, <1>3
<1> QED  BY <1>1, <1>4, LoopUnchanged

LEMMA LoopsPush ==
    ASSUME TypeOK, ListInv, LoopsInv, UNCHANGED listVars, NEW t \in Threads,
           NEW event \in Callbacks, NEW q \in Queries \cup {NoQuery}, NEW text \in BOOLEAN,
           Enter(t, event, q, text),
           event = "OnMysqlQueryArray" => t = "server" /\ text
    PROVE  LoopsInv'
<1> SUFFICES ASSUME NEW u \in Threads, NEW d \in 1 .. depth'[u]
             PROVE  LoopOK(u, d, frame[u][d])'
  BY DEF LoopsInv
<1>1. /\ depth[t] + 1 \in Depths
      /\ depth'[u] = IF u = t THEN depth[t] + 1 ELSE depth[u]
      /\ \A e \in Depths : frame'[u][e] = IF u = t /\ e = depth[t] + 1
                                          THEN EnteredFrame(event, q, text) ELSE frame[u][e]
  BY EnterFacts
<1>2. depth[u] \in 0 .. MaxDepth /\ depth[t] \in 0 .. MaxDepth /\ MaxDepth \in Nat
  BY DepthFacts
<1>3. d \in Depths /\ (~ (u = t /\ d = depth[t] + 1) => d \in 1 .. depth[u])
  BY <1>1, <1>2 DEF Depths
<1>4. CASE u = t /\ d = depth[t] + 1
  BY <1>1, <1>3, <1>4, EnteredOK, LoopUnchanged
<1>5. CASE ~ (u = t /\ d = depth[t] + 1)
  <2>1. LoopOK(u, d, frame[u][d])  BY <1>3, <1>5 DEF LoopsInv
  <2> QED  BY <1>1, <1>3, <1>5, <2>1, LoopUnchanged
<1> QED  BY <1>4, <1>5

LEMMA LoopsPop ==
    ASSUME TypeOK, LoopsInv, UNCHANGED listVars,
           NEW t \in Threads, depth[t] > 0, Leave(t)
    PROVE  LoopsInv'
<1> SUFFICES ASSUME NEW u \in Threads, NEW d \in 1 .. depth'[u]
             PROVE  LoopOK(u, d, frame[u][d])'
  BY DEF LoopsInv
<1>1. d \in 1 .. depth[u] /\ frame'[u][d] = frame[u][d]
  BY LeaveFacts
<1>2. d \in Depths
  BY <1>1, DepthFacts
<1>3. LoopOK(u, d, frame'[u][d])
  BY <1>1 DEF LoopsInv
<1> QED  BY <1>2, <1>3, LoopUnchanged

(* The queries in the hands of loops, when only the iterators move on.      *)
LEMMA QueryUnchanged ==
    ASSUME UNCHANGED <<issued, done, parsing>>, NEW t \in Threads, NEW d \in Depths
    PROVE  QueryOK(t, d, frame[t][d])' <=> QueryOK(t, d, frame'[t][d])
BY DEF QueryOK

LEMMA QueriesTop ==
    ASSUME TypeOK, QueriesInv, UNCHANGED <<depth, issued, done, parsing>>,
           NEW t \in Threads, depth[t] > 0, NEW f \in Frames, SetTop(t, f),
           f.event = Top(t).event, f.query = Top(t).query, f.text => Top(t).text
    PROVE  QueriesInv'
<1>1. parsing' => done' < issued'
  BY DEF QueriesInv
<1>2. ASSUME NEW u \in Threads, NEW d \in 1 .. depth[u]
      PROVE  QueryOK(u, d, frame[u][d])'
  <2>1. d \in Depths
    BY DepthFacts
  <2>2. frame'[u][d] = IF u = t /\ d = depth[t] THEN f ELSE frame[u][d]
    BY <2>1, SetTopFacts
  <2>3. QueryOK(u, d, frame[u][d])
    BY DEF QueriesInv
  <2>4. QueryOK(u, d, frame'[u][d])
    BY <2>2, <2>3 DEF QueryOK, Top
  <2> QED  BY <2>1, <2>4, QueryUnchanged
<1> QED  BY <1>1, <1>2 DEF QueriesInv

(* The texts of the queries, when none of them moves and the server's       *)
(* outermost loop stays where it is.                                       *)
LEMMA TextsUnchanged ==
    ASSUME TypeOK, TextsInv, UNCHANGED <<issued, done, extraVars, given>>,
           \A q \in Queries : Delivering(q)' <=> Delivering(q),
           \A q \in Queries : Delivering(q) =>
              /\ frame'["server"][1].text = frame["server"][1].text
              /\ frame'["server"][1].pc = "running" <=> frame["server"][1].pc = "running"
    PROVE  TextsInv'
<1> SUFFICES ASSUME NEW q \in Queries PROVE TextOf(q)'
  BY DEF TextsInv
<1>1. TextOf(q)
  BY DEF TextsInv
<1> QED  BY <1>1 DEF TextOf
Faults == {"none", "iterator", "amx", "unloaded", "nulltext", "handle"}

(* A step that leaves the list and whether anything went wrong as they are. *)
LEMMA Undisturbed ==
    ASSUME DispatchIInv, fault = "none", UNCHANGED <<listVars, fault>>
    PROVE  /\ ListInv' /\ FaultCauses'
           /\ publics' \in [Scripts -> SUBSET Callbacks]
           /\ node' \in [Scripts -> Nodes \cup {0}]
           /\ loads' \in 0 .. MaxLoads
           /\ fault' \in Faults
BY DEF DispatchIInv, DispatchInv, TypeOK, ListInv, FaultCauses, Faults, listVars

(* Undefined behaviour ends the behaviour where it is. *)
LEMMA CrashKeeps ==
    ASSUME DispatchIInv, NEW f \in Faults, Crash(f), FaultCauses'
    PROVE  DispatchIInv'
<1>1. UNCHANGED <<listVars, loopVars, queryVars>> /\ fault' = f
  BY DEF Crash
<1>2. TypeOK'
  BY <1>1 DEF DispatchIInv, TypeOK, Faults, listVars, loopVars, queryVars
<1>3. ListInv'
  BY <1>1 DEF DispatchIInv, DispatchInv, ListInv, listVars
<1>4. LoopsInv'
  BY <1>1 DEF DispatchIInv, DispatchInv, LoopsInv, LoopOK, GivenOK, Linked, Passed, listVars, loopVars
<1>5. QueriesInv'
  BY <1>1 DEF DispatchIInv, DispatchInv, QueriesInv, QueryOK, loopVars, queryVars
<1>6. TextsInv'
  BY <1>1 DEF DispatchIInv, DispatchInv, TextsInv, TextOf, Delivering, loopVars, queryVars
<1>7. HandleInv'
  BY <1>1 DEF DispatchIInv, DispatchInv, HandleInv, Loops, loopVars, queryVars
<1> QED  BY <1>2, <1>3, <1>4, <1>5, <1>6, <1>7 DEF DispatchIInv, DispatchInv

(* Undefined behaviour that the query thread's loops lead to.               *)
LEMMA ThreadCrashKeeps ==
    ASSUME DispatchIInv, NEW f \in {"iterator", "amx", "unloaded"}, Crash(f), depth["query"] > 0
    PROVE  DispatchIInv'
<1>1. fault' = f /\ depth' = depth
  BY DEF Crash, loopVars
<1>2. FaultCauses'
  BY <1>1 DEF FaultCauses
<1> QED  BY <1>2, CrashKeeps DEF Faults

(* The handle, when the loops of the threads end or move on.                *)
LEMMA HandleKept ==
    ASSUME TypeOK, HandleInv, UNCHANGED handle,
           \A t \in Threads : \A d \in 1 .. depth'[t] :
              d \in 1 .. depth[t] /\ frame'[t][d].event = frame[t][d].event
    PROVE  HandleInv'
<1> SUFFICES ASSUME handle = "closed", NEW t \in Threads, NEW d \in Loops(t)' PROVE FALSE
  BY DEF HandleInv
<1>1. d \in 1 .. depth'[t] /\ frame'[t][d].event # "public"
  BY DEF Loops
<1>2. d \in Loops(t)
  BY <1>1 DEF Loops
<1> QED  BY <1>2 DEF HandleInv

(* The iterator of a loop moves on: the texts stay as they are.             *)
LEMMA TextsTop ==
    ASSUME TypeOK, TextsInv, UNCHANGED <<depth, issued, done, extraVars, given>>,
           NEW t \in Threads, depth[t] > 0, NEW f \in Frames, SetTop(t, f),
           f.event = Top(t).event, f.query = Top(t).query,
           f.event = "OnMysqlQueryArray" =>
              f.text = Top(t).text /\ (f.pc = "running" <=> Top(t).pc = "running")
    PROVE  TextsInv'
<1>1. 1 \in Depths /\ "server" \in Threads
  BY DispatchAssumption DEF Depths, Threads
<1>2. frame'["server"][1] = IF "server" = t /\ 1 = depth[t] THEN f ELSE frame["server"][1]
  BY <1>1, SetTopFacts
<1>3. \A q \in Queries : Delivering(q)' <=> Delivering(q)
  BY <1>2 DEF Delivering, Top
<1>4. \A q \in Queries : Delivering(q) =>
              /\ frame'["server"][1].text = frame["server"][1].text
              /\ frame'["server"][1].pc = "running" <=> frame["server"][1].pc = "running"
  BY <1>2 DEF Delivering, Top
<1> QED  BY <1>3, <1>4, TextsUnchanged

-----------------------------------------------------------------------------
(* The steps of a loop.                                                    *)

TextTypes ==
    /\ extraVars \in [Queries -> {"none", "live", "freed"}]
    /\ given \in [Queries -> Nat]

(* The innermost loop of a thread moves on, and nothing else of the loops,  *)
(* the list or the queues does.                                            *)
LEMMA TopKeeps ==
    ASSUME DispatchIInv, fault = "none", NEW t \in Threads, depth[t] > 0,
           NEW f \in Frames, SetTop(t, f),
           UNCHANGED <<listVars, depth, issued, done, parsing, handle, fault>>,
           LoopOK(t, depth[t], f),
           f.event = Top(t).event, f.query = Top(t).query, f.text => Top(t).text
    PROVE  /\ ListInv' /\ LoopsInv' /\ QueriesInv' /\ HandleInv' /\ FaultCauses'
           /\ TextTypes' => TypeOK'
<1>0. TypeOK /\ ListInv /\ LoopsInv /\ QueriesInv /\ HandleInv
  BY DEF DispatchIInv, DispatchInv
<1>1. LoopsInv'
  BY <1>0, LoopsTop
<1>2. QueriesInv'
  BY <1>0, QueriesTop
<1>3. frame' \in [Threads -> [Depths -> Frames]]
  BY <1>0, SetTopFacts
<1>4. TextTypes' => TypeOK'
  BY <1>0, <1>3 DEF TypeOK, TextTypes, listVars
<1>5. HandleInv'
  <2>1. ASSUME NEW u \in Threads, NEW d \in 1 .. depth'[u]
        PROVE  d \in 1 .. depth[u] /\ frame'[u][d].event = frame[u][d].event
    <3>1. d \in 1 .. depth[u] /\ d \in Depths  BY <1>0, DepthFacts
    <3>2. frame'[u][d] = IF u = t /\ d = depth[t] THEN f ELSE frame[u][d]
      BY <1>0, <3>1, SetTopFacts
    <3> QED  BY <3>1, <3>2 DEF Top
  <2> QED  BY <1>0, <2>1, HandleKept
<1> QED  BY <1>1, <1>2, <1>4, <1>5, Undisturbed

(* What the invariant says of the innermost loop.                          *)
LEMMA TopFacts ==
    ASSUME DispatchIInv, NEW t \in Threads, depth[t] > 0
    PROVE  /\ depth[t] \in Depths /\ Top(t) \in Frames
           /\ LoopOK(t, depth[t], Top(t)) /\ QueryOK(t, depth[t], Top(t))
BY DepthFacts DEF DispatchIInv, DispatchInv, LoopsInv, QueriesInv, Top, TypeOK

LEMMA NextScriptKeeps ==
    ASSUME DispatchIInv, fault = "none", NEW t \in Threads, NextScript(t)
    PROVE  DispatchIInv'
<1> DEFINE g == Top(t)  f == [g EXCEPT !.pc = "test", !.at = Successor(@)]
<1>0. TypeOK /\ ListInv /\ LoopsInv /\ QueriesInv /\ TextsInv
  BY DEF DispatchIInv, DispatchInv
<1>1. /\ depth[t] > 0 /\ g.pc = "next" /\ ~Dangling(t) /\ SetTop(t, f)
      /\ UNCHANGED <<listVars, depth, queryVars, fault>>
  BY DEF NextScript
<1>2. depth[t] \in Depths /\ depth[t] \in 1 .. depth[t] /\ g \in Frames
  BY <1>0, <1>1, DepthFacts DEF Depths
<1>3. LoopOK(t, depth[t], g)
  BY <1>0, <1>2 DEF LoopsInv, Top
<1>4. g.at \in Nodes /\ Linked(g.at)
  BY <1>1, <1>2, <1>3 DEF LoopOK, Dangling, Frames
<1>5. /\ Successor(g.at) \in Nodes \cup {End}
      /\ Successor(g.at) # End => Successor(g.at) > g.at /\ Linked(Successor(g.at))
      /\ \A m \in Nodes : m > g.at /\ Linked(m) => Successor(g.at) # End /\ Successor(g.at) <= m
  BY <1>4, SuccessorFacts
<1>6. /\ f \in Frames
      /\ f.event = g.event /\ f.query = g.query /\ f.text = g.text /\ f.start = g.start
      /\ f.calls = g.calls /\ f.pc = "test" /\ f.at = Successor(g.at)
  BY <1>2, <1>5 DEF Frames
<1>7. LoopOK(t, depth[t], f)
  <2>1. ASSUME NEW n \in Nodes, Passed(g, n) PROVE Passed(f, n)
    BY <1>1, <1>4, <1>5, <1>6, <2>1 DEF Passed, Nodes, End
  <2>2. ASSUME NEW a \in Scripts, node[a] \in Nodes, Passed(f, node[a])
        PROVE  Passed(g, node[a])
    <3>1. Linked(node[a])  BY <2>2 DEF Linked, Nodes
    <3>2. ~ (node[a] > g.at)
      BY <1>4, <1>5, <1>6, <2>2, <3>1 DEF Passed, Nodes, End
    <3> QED  BY <1>1, <1>4, <2>2, <3>2 DEF Passed, Nodes
  <2>3. \A n \in Nodes : f.calls[n] <= 1 /\ (f.calls[n] = 1 => Passed(f, n))
    BY <1>3, <1>6, <2>1 DEF LoopOK
  <2>4. \A a \in Scripts : node[a] \in 1 .. f.start => node[a] \in Nodes
    BY <1>0, <1>2, <1>6 DEF TypeOK, Frames
  <2>5. f.event # "public" => \A a \in Scripts :
          node[a] \in 1 .. f.start /\ f.event \in publics[a] /\ Passed(f, node[a])
              => f.calls[node[a]] = 1
    <3> HIDE DEF f, g
    <3> QED  BY <1>3, <1>6, <2>2, <2>4 DEF LoopOK
  <2> HIDE DEF f, g
  <2>6. GivenOK(t, g)
    BY <1>3 DEF LoopOK
  <2>7. GivenOK(t, f)
    <3>1. \A a \in Scripts : node[a] # 0 => node[a] \in Nodes
      BY <1>0 DEF TypeOK
    <3> QED  BY <1>1, <1>6, <2>1, <2>6, <3>1 DEF GivenOK
  <2> QED  BY <1>3, <1>5, <1>6, <2>3, <2>5, <2>7 DEF LoopOK
<1>8. UNCHANGED <<listVars, depth, issued, done, parsing, handle, fault>> /\ UNCHANGED <<extraVars, given>>
  BY <1>1 DEF queryVars
<1> HIDE DEF f, g
<1>9. /\ ListInv' /\ LoopsInv' /\ QueriesInv' /\ HandleInv' /\ FaultCauses'
      /\ TextTypes' => TypeOK'
  BY <1>1, <1>6, <1>7, <1>8, TopKeeps DEF g
<1>10. TextsInv'
  BY <1>0, <1>1, <1>6, <1>8, TextsTop DEF g
<1>11. TypeOK'
  BY <1>0, <1>8, <1>9 DEF TypeOK, TextTypes
<1> QED  BY <1>9, <1>10, <1>11 DEF DispatchIInv, DispatchInv

LEMMA SkipScriptKeeps ==
    ASSUME DispatchIInv, fault = "none", NEW t \in Threads, SkipScript(t)
    PROVE  DispatchIInv'
<1> DEFINE g == Top(t)  f == [g EXCEPT !.pc = "next"]
<1>0. TypeOK /\ ListInv /\ TextsInv
  BY DEF DispatchIInv, DispatchInv
<1>1. /\ depth[t] > 0 /\ g.pc = "test" /\ Linked(g.at) /\ SetTop(t, f)
      /\ g.event \notin publics[ScriptAt(g.at)]
  BY DEF SkipScript
<1>2. g \in Frames /\ LoopOK(t, depth[t], g) /\ depth[t] \in Depths
  BY <1>1, TopFacts
<1>3. /\ g.at \in Nodes /\ \A a \in Scripts : node[a] = g.at => a = ScriptAt(g.at)
  BY <1>0, <1>1, LinkedFacts
<1>4. /\ f \in Frames
      /\ f.event = g.event /\ f.query = g.query /\ f.text = g.text /\ f.start = g.start
      /\ f.calls = g.calls /\ f.pc = "next" /\ f.at = g.at
  BY <1>2 DEF Frames
<1>5. LoopOK(t, depth[t], f)
  <2>1. \A n \in Nodes : f.calls[n] <= 1 /\ (f.calls[n] = 1 => Passed(f, n))
    <3> HIDE DEF f, g
    <3> QED  BY <1>1, <1>2, <1>4 DEF LoopOK, Passed
  <2>2. f.event # "public" => \A a \in Scripts :
          node[a] \in 1 .. f.start /\ f.event \in publics[a] /\ Passed(f, node[a])
              => f.calls[node[a]] = 1
    <3> HIDE DEF f, g
    <3>1. ASSUME NEW a \in Scripts, f.event \in publics[a], Passed(f, node[a]) PROVE Passed(g, node[a])
      <4>1. node[a] # g.at  BY <1>1, <1>3, <1>4, <3>1
      <4> QED  BY <1>4, <3>1, <4>1 DEF Passed
    <3> QED  BY <1>2, <1>4, <3>1 DEF LoopOK
  <2>3. g.at # End /\ Linked(g.at)
    BY <1>1 DEF Linked, End
  <2> HIDE DEF f, g
  <2>4. GivenOK(t, f)
    <3>1. GivenOK(t, g)  BY <1>2 DEF LoopOK
    <3>2. \A a \in Scripts : Passed(g, node[a]) => Passed(f, node[a])  BY <1>4 DEF Passed
    <3> QED  BY <1>1, <1>4, <3>1, <3>2 DEF GivenOK
  <2> QED  BY <1>2, <1>4, <2>1, <2>2, <2>3, <2>4 DEF LoopOK
<1>6. UNCHANGED <<listVars, depth, issued, done, parsing, handle, fault>> /\ UNCHANGED <<extraVars, given>>
  BY DEF SkipScript, queryVars
<1> HIDE DEF f, g
<1>7. ListInv' /\ LoopsInv' /\ QueriesInv' /\ HandleInv' /\ FaultCauses' /\ (TextTypes' => TypeOK')
  BY <1>1, <1>4, <1>5, <1>6, TopKeeps DEF g
<1>8. TextsInv'
  BY <1>0, <1>1, <1>4, <1>6, TextsTop DEF g
<1>9. TypeOK'
  BY <1>0, <1>6, <1>7 DEF TypeOK, TextTypes
<1> QED  BY <1>7, <1>8, <1>9 DEF DispatchIInv, DispatchInv

LEMMA CallScriptKeeps ==
    ASSUME DispatchIInv, fault = "none", NEW t \in Threads, CallScript(t)
    PROVE  DispatchIInv'
<1> DEFINE g == Top(t)  f == [g EXCEPT !.pc = "running", !.calls[g.at] = @ + 1]
<1>0. TypeOK /\ ListInv /\ TextsInv
  BY DEF DispatchIInv, DispatchInv
<1>1. /\ depth[t] > 0 /\ g.pc = "test" /\ Linked(g.at) /\ SetTop(t, f)
      /\ UNCHANGED <<listVars, depth, issued, done, parsing, extraVars, handle, fault>>
      /\ g.event \in publics[ScriptAt(g.at)]
      /\ g.event = "OnMysqlQueryArray" => g.text
      /\ given' = IF g.event = "OnMysqlQueryArray" THEN [given EXCEPT ![g.query] = @ + 1] ELSE given
  BY DEF CallScript, CanCall
<1>2. g \in Frames /\ LoopOK(t, depth[t], g) /\ QueryOK(t, depth[t], g) /\ depth[t] \in Depths
  BY <1>1, TopFacts
<1>3. g.at \in Nodes /\ g.at # End
  BY <1>0, <1>1, LinkedFacts DEF Linked, End
<1>4. g.calls \in [Nodes -> Nat]
  BY <1>2 DEF Frames
<1>5. g.calls[g.at] = 0
  <2>1. ~ Passed(g, g.at)  BY <1>1, <1>3 DEF Passed, Nodes
  <2> QED  BY <1>2, <1>3, <1>4, <2>1 DEF LoopOK
<1>6. /\ f.event = g.event /\ f.query = g.query /\ f.text = g.text /\ f.start = g.start
      /\ f.pc = "running" /\ f.at = g.at
      /\ f.calls \in [Nodes -> Nat]
      /\ \A n \in Nodes : f.calls[n] = IF n = g.at THEN 1 ELSE g.calls[n]
  <2>1. f.calls = [g.calls EXCEPT ![g.at] = @ + 1]  BY <1>2 DEF Frames
  <2>2. /\ f.event = g.event /\ f.query = g.query /\ f.text = g.text /\ f.start = g.start
        /\ f.pc = "running" /\ f.at = g.at
    BY <1>2 DEF Frames
  <2> HIDE DEF f, g
  <2> QED  BY <1>3, <1>4, <1>5, <2>1, <2>2
<1>7. f \in Frames
  <2> DEFINE c == [g.calls EXCEPT ![g.at] = @ + 1]
  <2>1. f = [g EXCEPT !.pc = "running", !.calls = c]
    BY <1>2 DEF Frames
  <2>2. c \in [Nodes -> Nat]
    BY <1>3, <1>4
  <2> HIDE DEF f, c, g
  <2> QED  BY <1>2, <2>1, <2>2 DEF Frames
<1> HIDE DEF f
<1>8. LoopOK(t, depth[t], f)
  <2>1. \A n \in Nodes : Passed(f, n) <=> Passed(g, n) \/ n = g.at
    BY <1>1, <1>3, <1>6 DEF Passed
  <2>2. \A n \in Nodes : f.calls[n] <= 1 /\ (f.calls[n] = 1 => Passed(f, n))
    BY <1>2, <1>6, <2>1 DEF LoopOK
  <2>3. \A a \in Scripts : node[a] \in 1 .. f.start => node[a] \in Nodes
    BY <1>0, <1>2, <1>6 DEF TypeOK, Frames
  <2>4. f.event # "public" => \A a \in Scripts :
          node[a] \in 1 .. f.start /\ f.event \in publics[a] /\ Passed(f, node[a])
              => f.calls[node[a]] = 1
    <3> HIDE DEF g
    <3> QED  BY <1>2, <1>6, <2>1, <2>3 DEF LoopOK
  <2>5. GivenOK(t, f)
    <3> SUFFICES ASSUME f.event = "OnMysqlQueryArray"
                 PROVE  /\ t = "server"
                        /\ \E a \in Scripts : /\ node[a] # 0 /\ Passed(f, node[a])
                                              /\ "OnMysqlQueryArray" \in publics[a]
      BY DEF GivenOK
    <3>1. t = "server"  BY <1>2, <1>6 DEF LoopOK, GivenOK
    <3>2. ScriptAt(g.at) \in Scripts /\ node[ScriptAt(g.at)] = g.at
      BY <1>0, <1>1, LinkedFacts
    <3>3. Passed(f, g.at)  BY <1>3, <1>6 DEF Passed
    <3>4. g.at # 0  BY <1>3 DEF End
    <3> HIDE DEF g
    <3> QED  BY <1>1, <1>6, <3>1, <3>2, <3>3, <3>4
  <2> HIDE DEF g
  <2> QED  BY <1>1, <1>2, <1>3, <1>6, <2>2, <2>4, <2>5 DEF LoopOK
<1>9. ListInv' /\ LoopsInv' /\ QueriesInv' /\ HandleInv' /\ FaultCauses' /\ (TextTypes' => TypeOK')
  BY <1>1, <1>6, <1>7, <1>8, TopKeeps DEF g
<1>10. extraVars' \in [Queries -> {"none", "live", "freed"}]
  BY <1>0, <1>1 DEF TypeOK
<1>11. CASE g.event # "OnMysqlQueryArray"
  <2>1. UNCHANGED given
    BY <1>1, <1>11
  <2>2. TextsInv'
    BY <1>0, <1>1, <1>6, <1>7, <1>11, <2>1, TextsTop DEF g
  <2>3. TypeOK'
    BY <1>0, <1>9, <1>10, <2>1 DEF TypeOK, TextTypes
  <2> QED  BY <1>9, <2>2, <2>3 DEF DispatchIInv, DispatchInv
<1>12. CASE g.event = "OnMysqlQueryArray"
  <2>1. t = "server" /\ g.query # NoQuery /\ depth[t] = 1 /\ g.text
    BY <1>1, <1>2, <1>12 DEF QueryOK
  <2>2. PICK p \in Queries : p = g.query
    BY <1>2, <2>1 DEF Frames
  <2>3. 1 \in Depths /\ "server" \in Threads
    BY <1>2, <2>1 DEF Threads
  <2>4. frame["server"][1] = g /\ frame'["server"][1] = f
    BY <1>0, <1>1, <1>7, <2>1, <2>3, SetTopFacts DEF Top
  <2>5. \A q \in Queries : (Delivering(q) <=> q = p) /\ (Delivering(q)' <=> q = p)
    BY <1>1, <1>6, <1>12, <2>1, <2>2, <2>4 DEF Delivering
  <2>6. given \in [Queries -> Nat]
    BY <1>0 DEF TypeOK
  <2>7. given' = [given EXCEPT ![p] = @ + 1]
    BY <1>1, <1>12, <2>2
  <2>8. /\ given' \in [Queries -> Nat] /\ given'[p] = given[p] + 1
        /\ \A q \in Queries : q # p => given'[q] = given[q]
    BY <2>6, <2>7
  <2>9. g.query = done + 1 /\ done < issued /\ p \in Nat /\ done \in Nat /\ issued \in Nat
    BY <1>0, <1>2, <2>1, <2>2 DEF QueryOK, TypeOK, Queries
  <2>10. TextOf(p)'
    <3>1. TextOf(p)  BY <1>0, <2>2 DEF TextsInv
    <3>2. extraVars[p] = "live" /\ given[p] = 0
      BY <1>1, <2>1, <2>2, <2>4, <2>5, <3>1 DEF TextOf
    <3>3. Delivering(p)'  BY <2>2, <2>5
    <3>4. p <= issued /\ p > done  BY <2>2, <2>9
    <3>5. f.text /\ extraVars'[p] = "live" /\ given'[p] = 1
      BY <1>1, <1>6, <2>1, <2>8, <3>2
    <3> HIDE DEF g
    <3> QED  BY <1>1, <1>6, <2>4, <2>9, <3>3, <3>4, <3>5 DEF TextOf
  <2>11. ASSUME NEW q \in Queries, q # p PROVE TextOf(q)'
    <3>1. TextOf(q)  BY <1>0 DEF TextsInv
    <3> QED  BY <1>1, <2>5, <2>8, <2>11, <3>1 DEF TextOf
  <2>12. TextsInv'
    BY <2>10, <2>11 DEF TextsInv
  <2>13. TypeOK'
    BY <1>9, <1>10, <2>8 DEF TextTypes
  <2> QED  BY <1>9, <2>12, <2>13 DEF DispatchIInv, DispatchInv
<1> QED  BY <1>11, <1>12
(* A frame is popped and the queues stay as they are.                      *)
LEMMA QueriesPop ==
    ASSUME TypeOK, QueriesInv, UNCHANGED <<issued, done, parsing>>,
           NEW t \in Threads, depth[t] > 0, Leave(t)
    PROVE  QueriesInv'
<1>1. parsing' => done' < issued'
  BY DEF QueriesInv
<1>2. ASSUME NEW u \in Threads, NEW d \in 1 .. depth'[u]
      PROVE  QueryOK(u, d, frame[u][d])'
  <2>1. d \in 1 .. depth[u] /\ frame'[u][d] = frame[u][d]
    BY LeaveFacts
  <2>2. d \in Depths
    BY <2>1, DepthFacts
  <2>3. QueryOK(u, d, frame'[u][d])
    BY <2>1 DEF QueriesInv
  <2> QED  BY <2>2, <2>3, QueryUnchanged
<1> QED  BY <1>1, <1>2 DEF QueriesInv

LEMMA ScriptReturnsKeeps ==
    ASSUME DispatchIInv, fault = "none", NEW t \in Threads, ScriptReturns(t)
    PROVE  DispatchIInv'
<1> DEFINE g == Top(t)
<1>0. TypeOK /\ ListInv /\ LoopsInv /\ QueriesInv /\ TextsInv /\ HandleInv
  BY DEF DispatchIInv, DispatchInv
<1>1. /\ depth[t] > 0 /\ g.pc = "running"
      /\ UNCHANGED <<listVars, issued, done, parsing, given, handle, fault>>
  BY DEF ScriptReturns, InScript
<1>2. g \in Frames /\ LoopOK(t, depth[t], g) /\ QueryOK(t, depth[t], g) /\ depth[t] \in Depths
  BY <1>1, TopFacts
<1>3. 1 \in Depths /\ "server" \in Threads
  BY DispatchAssumption DEF Depths, Threads
<1>4. CASE g.event = "public" /\ Leave(t) /\ UNCHANGED extraVars
  <2>1. t = "server" /\ depth[t] = 1 /\ frame["server"][1] = g
    BY <1>2, <1>4 DEF LoopOK, Top
  <2>2. depth' \in [Threads -> 0 .. MaxDepth] /\ frame' \in [Threads -> [Depths -> Frames]]
    BY <1>0, <1>1, <1>4, LeaveFacts
  <2>3. depth'["server"] = 0
    BY <1>0, <1>1, <1>3, <1>4, <2>1, LeaveFacts
  <2>4. LoopsInv' /\ QueriesInv'
    BY <1>0, <1>1, <1>4, LoopsPop, QueriesPop
  <2>5. \A q \in Queries : ~ Delivering(q) /\ ~ Delivering(q)'
    BY <1>4, <2>1, <2>3 DEF Delivering
  <2>6. TextsInv'
    BY <1>0, <1>1, <1>4, <2>5, TextsUnchanged
  <2>7. TypeOK'
    BY <1>0, <1>1, <1>4, <2>2 DEF TypeOK, listVars
  <2>8. HandleInv'
    BY <1>0, <1>1, <1>4, LeaveFacts, HandleKept
  <2> QED  BY <1>1, <2>4, <2>6, <2>7, <2>8, Undisturbed DEF DispatchIInv, DispatchInv
<1>5. CASE /\ g.event \in {"OnMysqlQuery", "OnMysqlError"}
           /\ SetTop(t, [g EXCEPT !.pc = "next"])
           /\ UNCHANGED <<depth, extraVars>>
  <2> DEFINE f == [g EXCEPT !.pc = "next"]
  <2>1. /\ f \in Frames
        /\ f.event = g.event /\ f.query = g.query /\ f.text = g.text /\ f.start = g.start
        /\ f.calls = g.calls /\ f.pc = "next" /\ f.at = g.at
    BY <1>2 DEF Frames
  <2>2. SetTop(t, f)  BY <1>5
  <2> HIDE DEF f
  <2>3. LoopOK(t, depth[t], f)
    BY <1>1, <1>2, <2>1 DEF LoopOK, GivenOK, Passed
  <2>4. ListInv' /\ LoopsInv' /\ QueriesInv' /\ HandleInv' /\ FaultCauses' /\ (TextTypes' => TypeOK')
    BY <1>1, <1>5, <2>1, <2>2, <2>3, TopKeeps DEF g
  <2>5. TextsInv'
    BY <1>0, <1>1, <1>5, <2>1, <2>2, TextsTop DEF g
  <2>6. TypeOK'
    BY <1>0, <1>1, <1>5, <2>4 DEF TypeOK, TextTypes
  <2> QED  BY <2>4, <2>5, <2>6 DEF DispatchIInv, DispatchInv
<1>6. CASE /\ g.event = "OnMysqlQueryArray"
           /\ extraVars' = [extraVars EXCEPT ![g.query] = IF g.text THEN "freed" ELSE @]
           /\ SetTop(t, [g EXCEPT !.pc = "next", !.text = FALSE])
           /\ UNCHANGED depth
  <2> DEFINE f == [g EXCEPT !.pc = "next", !.text = FALSE]
  <2>1. /\ f \in Frames
        /\ f.event = g.event /\ f.query = g.query /\ f.text = FALSE /\ f.start = g.start
        /\ f.calls = g.calls /\ f.pc = "next" /\ f.at = g.at
    BY <1>2 DEF Frames
  <2>2. SetTop(t, f)  BY <1>6
  <2> HIDE DEF f
  <2>3. LoopOK(t, depth[t], f)
    BY <1>1, <1>2, <2>1 DEF LoopOK, GivenOK, Passed
  <2>4. ListInv' /\ LoopsInv' /\ QueriesInv' /\ HandleInv' /\ FaultCauses' /\ (TextTypes' => TypeOK')
    BY <1>1, <1>6, <2>1, <2>2, <2>3, TopKeeps DEF g
  <2>5. t = "server" /\ g.query # NoQuery /\ depth[t] = 1
    BY <1>2, <1>6 DEF QueryOK
  <2>6. PICK p \in Queries : p = g.query
    BY <1>2, <2>5 DEF Frames
  <2>7. frame["server"][1] = g /\ frame'["server"][1] = f
    BY <1>0, <1>1, <1>3, <2>1, <2>2, <2>5, SetTopFacts DEF Top
  <2>8. \A q \in Queries : (Delivering(q) <=> q = p) /\ (Delivering(q)' <=> q = p)
    BY <1>1, <1>6, <2>1, <2>5, <2>6, <2>7 DEF Delivering
  <2>9. extraVars \in [Queries -> {"none", "live", "freed"}]
    BY <1>0 DEF TypeOK
  <2>10. /\ extraVars' \in [Queries -> {"none", "live", "freed"}]
         /\ extraVars'[p] = IF g.text THEN "freed" ELSE extraVars[p]
         /\ \A q \in Queries : q # p => extraVars'[q] = extraVars[q]
    BY <1>6, <2>6, <2>9
  <2>11. p = done + 1 /\ done < issued /\ p \in Nat /\ done \in Nat /\ issued \in Nat
    BY <1>0, <1>2, <2>5, <2>6 DEF QueryOK, TypeOK, Queries
  <2>12. TextOf(p)'
    <3>1. TextOf(p)  BY <1>0 DEF TextsInv
    <3>2. g.text /\ extraVars[p] = "live" /\ given[p] = 1
      BY <1>1, <2>7, <2>8, <3>1 DEF TextOf
    <3>3. Delivering(p)'  BY <2>8
    <3>4. p <= issued /\ p > done  BY <2>11
    <3>5. extraVars'[p] = "freed" /\ given'[p] = 1
      BY <1>1, <2>10, <3>2
    <3> HIDE DEF g
    <3> QED  BY <1>1, <2>1, <2>7, <2>11, <3>3, <3>4, <3>5 DEF TextOf
  <2>13. ASSUME NEW q \in Queries, q # p PROVE TextOf(q)'
    <3>1. TextOf(q)  BY <1>0 DEF TextsInv
    <3> QED  BY <1>1, <2>8, <2>10, <2>13, <3>1 DEF TextOf
  <2>14. TextsInv'
    BY <2>12, <2>13 DEF TextsInv
  <2>15. TypeOK'
    BY <1>0, <1>1, <2>4, <2>10 DEF TextTypes, TypeOK
  <2> QED  BY <2>4, <2>14, <2>15 DEF DispatchIInv, DispatchInv
<1> QED  BY <1>4, <1>5, <1>6 DEF ScriptReturns

LEMMA LoopEndsKeeps ==
    ASSUME DispatchIInv, fault = "none", NEW t \in Threads, LoopEnds(t)
    PROVE  DispatchIInv'
<1> DEFINE g == Top(t)
<1>0. TypeOK /\ ListInv /\ LoopsInv /\ QueriesInv /\ TextsInv /\ HandleInv
  BY DEF DispatchIInv, DispatchInv
<1>1. /\ depth[t] > 0 /\ g.pc = "test" /\ g.at = End /\ Leave(t)
      /\ UNCHANGED <<listVars, issued, extraVars, given, handle, fault>>
  BY DEF LoopEnds
<1>2. g \in Frames /\ LoopOK(t, depth[t], g) /\ QueryOK(t, depth[t], g) /\ depth[t] \in Depths
  BY <1>1, TopFacts
<1>3. 1 \in Depths /\ "server" \in Threads /\ depth["server"] \in 0 .. MaxDepth
  BY <1>0, DispatchAssumption DEF Depths, Threads, TypeOK
<1>4. /\ depth' \in [Threads -> 0 .. MaxDepth] /\ frame' \in [Threads -> [Depths -> Frames]]
      /\ \A u \in Threads : depth'[u] = IF u = t THEN depth[t] - 1 ELSE depth[u]
      /\ \A u \in Threads : \A d \in 1 .. depth'[u] :
            d \in 1 .. depth[u] /\ frame'[u][d] = frame[u][d]
  BY <1>0, <1>1, LeaveFacts
<1>5. LoopsInv' /\ ListInv' /\ HandleInv' /\ FaultCauses'
  BY <1>0, <1>1, <1>4, LoopsPop, Undisturbed, HandleKept
<1>6. \A q \in Queries : Delivering(q)' <=> Delivering(q) /\ g.query = NoQuery
  <2>1. CASE t = "server" /\ depth[t] = 1
    BY <1>3, <1>4, <2>1 DEF Delivering, Top, Queries, NoQuery
  <2>2. CASE t = "server" /\ depth[t] # 1
    <3>1. depth'["server"] > 0 /\ 1 \in 1 .. depth'["server"] /\ g.query = NoQuery /\ depth["server"] > 0
      BY <1>1, <1>2, <1>3, <1>4, <2>2 DEF QueryOK
    <3> QED  BY <1>3, <1>4, <3>1 DEF Delivering
  <2>3. CASE t # "server"
    <3>1. depth'["server"] = depth["server"]
      BY <1>3, <1>4, <2>3
    <3>2. depth["server"] > 0 => frame'["server"][1] = frame["server"][1]
      BY <1>3, <1>4, <3>1
    <3>3. g.query # NoQuery => ~parsing
      BY <1>2, <2>3 DEF QueryOK
    <3>4. ASSUME NEW q \in Queries, Delivering(q) PROVE parsing
      <4>1. 1 \in 1 .. depth["server"]  BY <1>3, <3>4 DEF Delivering
      <4>2. QueryOK("server", 1, frame["server"][1])  BY <1>0, <1>3, <4>1 DEF QueriesInv
      <4> QED  BY <3>4, <4>2 DEF QueryOK, Delivering, Queries, NoQuery
    <3> QED  BY <3>1, <3>2, <3>3, <3>4 DEF Delivering
  <2> QED  BY <2>1, <2>2, <2>3
<1>7. CASE g.query = NoQuery /\ UNCHANGED <<done, parsing>>
  <2>1. QueriesInv'
    BY <1>0, <1>1, <1>7, QueriesPop
  <2>2. \A q \in Queries : Delivering(q) => frame'["server"][1] = frame["server"][1]
    <3> SUFFICES ASSUME NEW q \in Queries, Delivering(q)
                 PROVE  frame'["server"][1] = frame["server"][1]
      OBVIOUS
    <3>1. Delivering(q)'  BY <1>6, <1>7
    <3>2. 1 \in 1 .. depth'["server"]  BY <1>3, <1>4, <3>1 DEF Delivering
    <3> QED  BY <1>3, <1>4, <3>2
  <2>3. TextsInv'
    BY <1>0, <1>1, <1>6, <1>7, <2>2, TextsUnchanged
  <2>4. TypeOK'
    BY <1>0, <1>1, <1>4, <1>7 DEF TypeOK, listVars
  <2> QED  BY <1>5, <2>1, <2>3, <2>4 DEF DispatchIInv, DispatchInv
<1>8. CASE g.query # NoQuery /\ done' = done + 1 /\ parsing' = FALSE
  <2>1. /\ depth[t] = 1 /\ g.query = done + 1 /\ done < issued /\ (parsing <=> t = "server")
        /\ done \in Nat /\ issued \in Nat /\ g.query \in Queries
    BY <1>0, <1>2, <1>8 DEF QueryOK, TypeOK, Frames
  <2>2. ASSUME NEW u \in Threads, NEW d \in 1 .. depth'[u] PROVE QueryOK(u, d, frame[u][d])'
    <3>1. d \in 1 .. depth[u] /\ frame'[u][d] = frame[u][d] /\ u # t
      BY <1>4, <2>1
    <3>2. QueryOK(u, d, frame[u][d])
      BY <1>0, <3>1 DEF QueriesInv
    <3>3. frame[u][d].query = NoQuery
      BY <2>1, <3>1, <3>2 DEF QueryOK, Threads
    <3> QED  BY <3>1, <3>2, <3>3 DEF QueryOK
  <2>3. QueriesInv'
    BY <1>8, <2>2 DEF QueriesInv
  <2>4. TextsInv'
    <3> SUFFICES ASSUME NEW q \in Queries PROVE TextOf(q)'
      BY DEF TextsInv
    <3>1. TextOf(q) /\ q \in Nat
      BY <1>0 DEF TextsInv, Queries
    <3>2. ~ Delivering(q)'
      BY <1>6, <1>8
    <3>3. Delivering(q) => q = done + 1 /\ frame["server"][1] = g
      <4> SUFFICES ASSUME Delivering(q) PROVE q = done + 1 /\ frame["server"][1] = g
        OBVIOUS
      <4>1. 1 \in 1 .. depth["server"]  BY <1>3 DEF Delivering
      <4>2. QueryOK("server", 1, frame["server"][1])  BY <1>3, <1>0, <4>1 DEF QueriesInv
      <4>3. q = done + 1 /\ parsing  BY <4>2 DEF QueryOK, Delivering, Queries, NoQuery
      <4>4. t = "server"  BY <2>1, <4>3
      <4> QED  BY <2>1, <4>3, <4>4 DEF Top
    <3>4. CASE q = done + 1 /\ Delivering(q)
      <4>1. g.pc # "running"  BY <1>1
      <4> HIDE DEF g
      <4> QED  BY <1>1, <1>8, <2>1, <3>1, <3>2, <3>3, <3>4, <4>1 DEF TextOf
    <3>5. CASE ~ Delivering(q)
      <4> HIDE DEF g
      <4> QED  BY <1>1, <1>8, <2>1, <3>1, <3>2, <3>5 DEF TextOf
    <3> QED  BY <3>3, <3>4, <3>5
  <2>5. TypeOK'
    <3>1. done' \in 0 .. issued'  BY <1>1, <1>8, <2>1
    <3>2. parsing' \in BOOLEAN  BY <1>8
    <3> QED  BY <1>0, <1>1, <1>4, <3>1, <3>2 DEF TypeOK, listVars
  <2> QED  BY <1>5, <2>3, <2>4, <2>5 DEF DispatchIInv, DispatchInv
<1> QED  BY <1>7, <1>8 DEF LoopEnds
-----------------------------------------------------------------------------
(* The host's steps and the queries' steps.                                *)

(* The list changes while the server thread is in no loop: what the loops   *)
(* of the query thread have done is not affected by nodes after start, nor *)
(* by a node that is gone.                                                 *)
LEMMA ListChanges ==
    ASSUME DispatchIInv, fault = "none", depth["server"] = 0,
           UNCHANGED <<publics, loopVars, queryVars, fault>>,
           loads' \in loads .. MaxLoads,
           node' \in [Scripts -> Nodes \cup {0}],
           \A a \in Scripts : node'[a] \in {node[a], 0} \/ node'[a] > loads,
           ListInv'
    PROVE  DispatchIInv'
<1>0. TypeOK /\ ListInv /\ LoopsInv /\ QueriesInv /\ TextsInv /\ HandleInv
  BY DEF DispatchIInv, DispatchInv
<1>1. ASSUME NEW u \in Threads, NEW d \in 1 .. depth[u]
      PROVE  LoopOK(u, d, frame[u][d])'
  <2> DEFINE f == frame[u][d]
  <2>1. LoopOK(u, d, f) /\ f \in Frames /\ u # "server"
    BY <1>0, DepthFacts DEF LoopsInv
  <2>2. frame'[u][d] = f
    BY DEF loopVars
  <2>3. loads \in Nat /\ loads' \in Nat /\ loads <= loads' /\ f.start <= loads /\ f.start \in Nat
    BY <1>0, <2>1 DEF TypeOK, LoopOK, Frames, Nodes
  <2>4. \A a \in Scripts : node'[a] \in 1 .. f.start => node'[a] = node[a]
    BY <1>0, <2>3 DEF TypeOK, Nodes
  <2> HIDE DEF f
  <2> QED  BY <2>1, <2>2, <2>3, <2>4 DEF LoopOK, GivenOK, Passed
<1>2. LoopsInv'
  BY <1>1 DEF LoopsInv, loopVars
<1>3. QueriesInv'
  BY <1>0 DEF QueriesInv, QueryOK, loopVars, queryVars
<1>4. TextsInv'
  BY <1>0 DEF TextsInv, TextOf, Delivering, loopVars, queryVars
<1>5. FaultCauses'
  BY DEF DispatchIInv, DispatchInv, FaultCauses
<1>6. TypeOK'
  <2>1. loads' \in 0 .. MaxLoads  BY <1>0 DEF TypeOK
  <2> QED  BY <1>0, <2>1 DEF TypeOK, loopVars, queryVars
<1>7. HandleInv'
  BY <1>0 DEF HandleInv, Loops, loopVars, queryVars
<1> QED  BY <1>2, <1>3, <1>4, <1>5, <1>6, <1>7 DEF DispatchIInv, DispatchInv

LEMMA AmxLoadKeeps ==
    ASSUME DispatchIInv, fault = "none", NEW a \in Scripts, AmxLoad(a)
    PROVE  DispatchIInv'
<1>0. TypeOK /\ ListInv
  BY DEF DispatchIInv, DispatchInv
<1>1. /\ depth["server"] = 0 /\ loads' = loads + 1 /\ loads < MaxLoads
      /\ node' = [node EXCEPT ![a] = loads + 1]
      /\ UNCHANGED <<publics, loopVars, queryVars, fault>>
  BY DEF AmxLoad
<1>2. loads \in Nat /\ loads + 1 \in Nodes /\ MaxLoads \in Nat
  BY <1>0, <1>1, DispatchAssumption DEF TypeOK, Nodes
<1>3. node \in [Scripts -> Nodes \cup {0}] /\ node' \in [Scripts -> Nodes \cup {0}]
  BY <1>0, <1>1, <1>2 DEF TypeOK
<1>4. \A b \in Scripts : node'[b] = (IF b = a THEN loads + 1 ELSE node[b]) /\ node[b] <= loads /\ node[b] \in Nat
  BY <1>0, <1>1, <1>3 DEF ListInv, Nodes
<1>5. ListInv'
  BY <1>0, <1>1, <1>2, <1>4 DEF ListInv
<1>6. \A b \in Scripts : node'[b] \in {node[b], 0} \/ node'[b] > loads
  BY <1>2, <1>4
<1>7. loads' \in loads .. MaxLoads
  BY <1>1, <1>2
<1> QED  BY <1>1, <1>3, <1>5, <1>6, <1>7, ListChanges

LEMMA AmxUnloadKeeps ==
    ASSUME DispatchIInv, fault = "none", NEW a \in Scripts, AmxUnload(a)
    PROVE  DispatchIInv'
<1>0. TypeOK /\ ListInv
  BY DEF DispatchIInv, DispatchInv
<1>1. CASE a \in RunningOn("query") /\ Crash("unloaded")
  <2>1. depth["query"] > 0
    BY <1>0, <1>1 DEF RunningOn, TypeOK, Threads
  <2> QED  BY <1>1, <2>1, ThreadCrashKeeps
<1>2. CASE /\ a \notin RunningOn("query")
           /\ node' = [node EXCEPT ![a] = 0]
           /\ UNCHANGED <<publics, loads, loopVars, queryVars, fault>>
  <2>1. node \in [Scripts -> Nodes \cup {0}] /\ node' \in [Scripts -> Nodes \cup {0}]
    BY <1>0, <1>2 DEF TypeOK
  <2>2. \A b \in Scripts : node'[b] = (IF b = a THEN 0 ELSE node[b])
    BY <1>2, <2>1
  <2>3. loads \in Nat /\ loads <= MaxLoads /\ MaxLoads \in Nat
    BY <1>0, DispatchAssumption DEF TypeOK
  <2>4. ListInv'
    BY <1>0, <1>2, <2>2, <2>3 DEF ListInv
  <2>5. loads' \in loads .. MaxLoads
    BY <1>2, <2>3
  <2>6. \A b \in Scripts : node'[b] \in {node[b], 0} \/ node'[b] > loads
    BY <2>2
  <2>7. depth["server"] = 0
    BY DEF AmxUnload
  <2> QED  BY <1>2, <2>1, <2>4, <2>5, <2>6, <2>7, ListChanges
<1> QED  BY <1>1, <1>2 DEF AmxUnload

LEMMA RunPublicKeeps ==
    ASSUME DispatchIInv, fault = "none", NEW a \in Scripts, RunPublic(a)
    PROVE  DispatchIInv'
<1>0. TypeOK /\ ListInv /\ LoopsInv /\ QueriesInv /\ TextsInv /\ HandleInv
  BY DEF DispatchIInv, DispatchInv
<1>1. CASE a \in RunningOn("query") /\ Crash("amx")
  <2>1. depth["query"] > 0
    BY <1>0, <1>1 DEF RunningOn, TypeOK, Threads
  <2> QED  BY <1>1, <2>1, ThreadCrashKeeps
<1>2. CASE /\ a \notin RunningOn("query")
           /\ depth' = [depth EXCEPT !["server"] = 1]
           /\ frame' = [frame EXCEPT !["server"][1] =
                          [NoFrame EXCEPT !.event = "public", !.at = node[a], !.pc = "running"]]
           /\ UNCHANGED <<listVars, queryVars, fault>>
  <2> DEFINE f == [NoFrame EXCEPT !.event = "public", !.at = node[a], !.pc = "running"]
             Loop == Frames
  <2>1. node[a] \in Nodes /\ Linked(node[a]) /\ node[a] # End /\ depth["server"] = 0
    BY <1>0 DEF RunPublic, TypeOK, Linked, End
  <2>2. /\ f.event = "public" /\ f.at = node[a] /\ f.pc = "running" /\ f.start = 0
        /\ f.query = NoQuery /\ f.text = FALSE /\ f.calls = NoCalls
    BY DEF NoFrame
  <2>3. f \in Loop
    BY <2>1, NoFrameType DEF Frames
  <2>4. 1 \in Depths /\ "server" \in Threads /\ MaxDepth \in Nat /\ 1 \in 0 .. MaxDepth
    BY DispatchAssumption DEF Depths, Threads
  <2>5. frame \in [Threads -> [Depths -> Loop]] /\ depth \in [Threads -> 0 .. MaxDepth]
    BY <1>0 DEF TypeOK
  <2>6. frame' = [frame EXCEPT !["server"][1] = f]
    BY <1>2
  <2> HIDE DEF f, Loop
  <2>7. frame' \in [Threads -> [Depths -> Loop]]
    BY <2>3, <2>4, <2>5, <2>6
  <2>8. \A u \in Threads, d \in Depths :
            frame'[u][d] = IF u = "server" /\ d = 1 THEN f ELSE frame[u][d]
    BY <2>3, <2>4, <2>5, <2>6
  <2>9. depth' \in [Threads -> 0 .. MaxDepth]
        /\ \A u \in Threads : depth'[u] = IF u = "server" THEN 1 ELSE depth[u]
    BY <1>2, <2>4, <2>5
  <2>10. LoopOK("server", 1, f)
    BY <1>0, <2>1, <2>2 DEF LoopOK, GivenOK, NoCalls, TypeOK
  <2>11. ASSUME NEW u \in Threads, NEW d \in 1 .. depth'[u]
         PROVE  LoopOK(u, d, frame[u][d])' /\ QueryOK(u, d, frame[u][d])'
    <3>1. d \in Depths
      BY <2>4, <2>5, <2>9 DEF Depths
    <3>2. CASE u = "server"
      <4>1. d = 1 /\ frame'[u][d] = f  BY <2>8, <2>9, <3>1, <3>2
      <4>2. QueryOK(u, d, frame'[u][d])  BY <2>2, <4>1 DEF QueryOK
      <4> QED  BY <1>2, <2>10, <3>1, <3>2, <4>1, <4>2, LoopUnchanged, QueryUnchanged DEF queryVars
    <3>3. CASE u # "server"
      <4>1. d \in 1 .. depth[u] /\ frame'[u][d] = frame[u][d]  BY <2>8, <2>9, <3>1, <3>3
      <4>2. LoopOK(u, d, frame'[u][d]) /\ QueryOK(u, d, frame'[u][d])
        BY <1>0, <4>1 DEF LoopsInv, QueriesInv
      <4> QED  BY <1>2, <3>1, <4>2, LoopUnchanged, QueryUnchanged DEF queryVars
    <3> QED  BY <3>2, <3>3
  <2>12. LoopsInv'
    BY <2>11 DEF LoopsInv
  <2>13. QueriesInv'
    BY <1>0, <1>2, <2>11 DEF QueriesInv, queryVars
  <2>14. \A q \in Queries : ~ Delivering(q) /\ ~ Delivering(q)'
    BY <2>1, <2>2, <2>4, <2>8 DEF Delivering
  <2>15. TextsInv'
    BY <1>0, <1>2, <2>14, TextsUnchanged DEF queryVars
  <2>16. TypeOK'
    BY <1>0, <1>2, <2>7, <2>9 DEF TypeOK, listVars, queryVars, Loop
  <2>17. HandleInv'
    <3> SUFFICES ASSUME handle = "closed", NEW u \in Threads, NEW d \in Loops(u)' PROVE FALSE
      BY <1>2 DEF HandleInv, queryVars
    <3>1. d \in 1 .. depth'[u] /\ frame'[u][d].event # "public"
      BY DEF Loops
    <3>2. d \in Depths
      BY <2>4, <2>5, <2>9, <3>1 DEF Depths
    <3>3. u # "server"
      BY <2>2, <2>8, <2>9, <3>1, <3>2
    <3>4. d \in Loops(u)
      BY <2>8, <2>9, <3>1, <3>2, <3>3 DEF Loops
    <3> QED  BY <1>0, <3>4 DEF HandleInv
  <2> QED  BY <1>2, <2>12, <2>13, <2>15, <2>16, <2>17, Undisturbed DEF DispatchIInv, DispatchInv
<1> QED  BY <1>1, <1>2 DEF RunPublic
(* A loop begins: whoever starts it, whatever it carries.                  *)
LEMMA PushKeeps ==
    ASSUME DispatchIInv, fault = "none", NEW t \in Threads,
           NEW event \in Callbacks, NEW q \in Queries \cup {NoQuery}, NEW text \in BOOLEAN,
           Enter(t, event, q, text), UNCHANGED <<listVars, fault, issued, done, handle>>,
           handle = "open",
           q # NoQuery => depth[t] = 0 /\ q = done + 1 /\ done < issued /\ (parsing' <=> t = "server"),
           event = "OnMysqlQueryArray" => t = "server" /\ q # NoQuery /\ text,
           text => event = "OnMysqlQueryArray",
           parsing' => done < issued,
           \A u \in Threads : \A d \in 1 .. depth[u] :
              frame[u][d].query # NoQuery => parsing' = parsing
    PROVE  ListInv' /\ LoopsInv' /\ QueriesInv' /\ HandleInv' /\ FaultCauses'
<1>0. TypeOK /\ ListInv /\ LoopsInv /\ QueriesInv
  BY DEF DispatchIInv, DispatchInv
<1>1. LoopsInv'
  BY <1>0, LoopsPush
<1>2. ASSUME NEW u \in Threads, NEW d \in 1 .. depth'[u]
      PROVE  QueryOK(u, d, frame[u][d])'
  <2> DEFINE f == EnteredFrame(event, q, text)
  <2>1. /\ depth[t] + 1 \in Depths
        /\ depth'[u] = IF u = t THEN depth[t] + 1 ELSE depth[u]
        /\ \A e \in Depths : frame'[u][e] = IF u = t /\ e = depth[t] + 1 THEN f ELSE frame[u][e]
    BY <1>0, EnterFacts
  <2>2. depth[u] \in 0 .. MaxDepth /\ depth[t] \in 0 .. MaxDepth /\ MaxDepth \in Nat
    BY <1>0, DepthFacts
  <2>3. d \in Depths /\ (~ (u = t /\ d = depth[t] + 1) => d \in 1 .. depth[u])
    BY <2>1, <2>2 DEF Depths
  <2>4. CASE u = t /\ d = depth[t] + 1
    <3>1. frame'[u][d] = f /\ f.event = event /\ f.query = q /\ f.text = text
      BY <2>1, <2>3, <2>4 DEF EnteredFrame
    <3>2. event # "public"  BY DEF Callbacks
    <3> HIDE DEF f
    <3> QED  BY <2>2, <2>4, <3>1, <3>2 DEF QueryOK
  <2>5. CASE ~ (u = t /\ d = depth[t] + 1)
    <3>1. d \in 1 .. depth[u] /\ frame'[u][d] = frame[u][d]  BY <2>1, <2>3, <2>5
    <3>2. QueryOK(u, d, frame[u][d])  BY <1>0, <3>1 DEF QueriesInv
    <3> QED  BY <3>1, <3>2 DEF QueryOK
  <2> QED  BY <2>4, <2>5
<1>3. QueriesInv'
  BY <1>2 DEF QueriesInv
<1>4. HandleInv'
  BY DEF HandleInv
<1> QED  BY <1>1, <1>3, <1>4, Undisturbed

LEMMA NativeFailsKeeps ==
    ASSUME DispatchIInv, fault = "none", NEW t \in Threads, NativeFails(t)
    PROVE  DispatchIInv'
<1>0. TypeOK /\ TextsInv /\ QueriesInv
  BY DEF DispatchIInv, DispatchInv
<1>1. /\ depth[t] > 0 /\ Enter(t, "OnMysqlError", NoQuery, FALSE)
      /\ handle = "open" /\ handle' = handle
      /\ UNCHANGED <<listVars, queryVars, fault>>
  BY DEF NativeFails, InScript, queryVars
<1>2. "OnMysqlError" \in Callbacks
  BY DEF Callbacks
<1>3. ListInv' /\ LoopsInv' /\ QueriesInv' /\ HandleInv' /\ FaultCauses'
  <2>1. parsing' = parsing /\ issued' = issued /\ done' = done /\ (parsing => done < issued)
    BY <1>0, <1>1 DEF queryVars, QueriesInv
  <2> QED  BY <1>1, <1>2, <2>1, PushKeeps
<1>3a. PICK text \in BOOLEAN : Enter(t, "OnMysqlError", NoQuery, text)
  BY <1>1
<1> DEFINE f == EnteredFrame("OnMysqlError", NoQuery, text)
<1>4. /\ depth' \in [Threads -> 0 .. MaxDepth] /\ frame' \in [Threads -> [Depths -> Frames]]
      /\ \A u \in Threads : depth'[u] = IF u = t THEN depth[t] + 1 ELSE depth[u]
      /\ \A u \in Threads, d \in Depths :
            frame'[u][d] = IF u = t /\ d = depth[t] + 1 THEN f ELSE frame[u][d]
  BY <1>0, <1>2, <1>3a, EnterFacts
<1> HIDE DEF f
<1>5. 1 \in Depths /\ "server" \in Threads /\ depth["server"] \in 0 .. MaxDepth /\ MaxDepth \in Nat
  BY <1>0, DispatchAssumption, DepthFacts DEF Depths, Threads
<1>6. TextsInv'
  <2>1. depth'["server"] > 0 <=> depth["server"] > 0
    BY <1>1, <1>4, <1>5
  <2>2. depth["server"] > 0 => frame'["server"][1] = frame["server"][1]
    <3>1. depth["server"] > 0 => ~ ("server" = t /\ 1 = depth[t] + 1)
      BY <1>5
    <3> QED  BY <1>4, <1>5, <3>1
  <2>3. \A q \in Queries : Delivering(q)' <=> Delivering(q)
    BY <2>1, <2>2 DEF Delivering
  <2>4. \A q \in Queries : Delivering(q) => frame'["server"][1] = frame["server"][1]
    BY <2>2 DEF Delivering
  <2> QED  BY <1>0, <1>1, <2>3, <2>4, TextsUnchanged DEF queryVars
<1>7. TypeOK'
  BY <1>0, <1>1, <1>4 DEF TypeOK, listVars, queryVars
<1> QED  BY <1>3, <1>6, <1>7 DEF DispatchIInv, DispatchInv

LEMMA QueueQueryKeeps ==
    ASSUME DispatchIInv, fault = "none", NEW t \in Threads, QueueQuery(t)
    PROVE  DispatchIInv'
<1>0. TypeOK /\ ListInv /\ LoopsInv /\ QueriesInv /\ TextsInv /\ HandleInv
  BY DEF DispatchIInv, DispatchInv
<1>1. PICK text \in {"none", "live"} :
        /\ issued < MaxQueries /\ issued' = issued + 1
        /\ extraVars' = [extraVars EXCEPT ![issued + 1] = text]
        /\ UNCHANGED <<listVars, loopVars, done, parsing, given, handle, fault>>
  BY DEF QueueQuery
<1>2. /\ issued \in Nat /\ done \in Nat /\ done <= issued /\ issued + 1 \in Queries
      /\ MaxQueries \in Nat
  BY <1>0, <1>1, DispatchAssumption DEF TypeOK, Queries
<1>3. LoopsInv'
  BY <1>0, <1>1 DEF LoopsInv, LoopOK, GivenOK, Linked, Passed, listVars, loopVars
<1>4. QueriesInv'
  BY <1>0, <1>1, <1>2 DEF QueriesInv, QueryOK, loopVars
<1>5. /\ extraVars' \in [Queries -> {"none", "live", "freed"}]
      /\ \A q \in Queries : extraVars'[q] = IF q = issued + 1 THEN text ELSE extraVars[q]
  BY <1>0, <1>1, <1>2 DEF TypeOK
<1>6. ASSUME NEW q \in Queries PROVE TextOf(q)'
  <2>1. TextOf(q) /\ q \in Nat
    BY <1>0 DEF TextsInv, Queries
  <2>2. Delivering(q)' <=> Delivering(q)
    BY <1>1 DEF Delivering, loopVars
  <2>3. Delivering(q) => q <= issued
    <3> SUFFICES ASSUME Delivering(q) PROVE q <= issued
      OBVIOUS
    <3>1. "server" \in Threads /\ depth["server"] \in Nat
      BY <1>0, DepthFacts DEF Threads
    <3>2. 1 \in 1 .. depth["server"]
      BY <3>1 DEF Delivering
    <3>3. QueryOK("server", 1, frame["server"][1])
      BY <1>0, <3>1, <3>2 DEF QueriesInv
    <3> QED  BY <1>2, <2>1, <3>3 DEF QueryOK, Delivering, Queries, NoQuery
  <2>4. CASE q = issued + 1
    <3>1. given[q] = 0 /\ ~ Delivering(q)
      BY <1>2, <2>1, <2>3, <2>4 DEF TextOf
    <3>2. extraVars'[q] # "freed"
      BY <1>1, <1>5, <2>4
    <3>3. given' = given /\ done' = done /\ q > done /\ ~ (q > issued')
      BY <1>1, <1>2, <2>4
    <3> QED  BY <1>2, <2>1, <2>2, <3>1, <3>2, <3>3 DEF TextOf
  <2>5. CASE q # issued + 1
    <3>1. extraVars'[q] = extraVars[q] /\ given' = given /\ done' = done
      BY <1>1, <1>5, <2>5
    <3>2. frame' = frame
      BY <1>1 DEF loopVars
    <3>3. q > issued' => q > issued
      BY <1>1, <1>2, <2>1
    <3> QED  BY <2>1, <2>2, <3>1, <3>2, <3>3 DEF TextOf
  <2> QED  BY <2>4, <2>5
<1>7. TextsInv'
  BY <1>6 DEF TextsInv
<1>8. TypeOK'
  <2>1. issued' \in 0 .. MaxQueries /\ done' \in 0 .. issued'
    BY <1>1, <1>2
  <2> QED  BY <1>0, <1>1, <1>5, <2>1 DEF TypeOK, listVars, loopVars
<1>9. HandleInv'
  BY <1>0, <1>1 DEF HandleInv, Loops, loopVars
<1> QED  BY <1>1, <1>3, <1>4, <1>7, <1>8, <1>9, Undisturbed DEF DispatchIInv, DispatchInv

LEMMA CloseHandleKeeps ==
    ASSUME DispatchIInv, fault = "none", NEW t \in Threads, CloseHandle(t)
    PROVE  DispatchIInv'
<1>0. TypeOK /\ LoopsInv /\ QueriesInv /\ TextsInv
  BY DEF DispatchIInv, DispatchInv
<1>1. /\ handle' = IF \A u \in Threads : Loops(u) = {} THEN "closed" ELSE "closedInLoop"
      /\ UNCHANGED <<listVars, loopVars, issued, done, parsing, extraVars, given, fault>>
  BY DEF CloseHandle
<1>2. LoopsInv'
  BY <1>0, <1>1 DEF LoopsInv, LoopOK, GivenOK, Linked, Passed, listVars, loopVars
<1>3. QueriesInv'
  BY <1>0, <1>1 DEF QueriesInv, QueryOK, loopVars
<1>4. TextsInv'
  BY <1>0, <1>1 DEF TextsInv, TextOf, Delivering, loopVars
<1>5. HandleInv'
  BY <1>1 DEF HandleInv, Loops, loopVars
<1>6. TypeOK'
  BY <1>0, <1>1 DEF TypeOK, listVars, loopVars
<1> QED  BY <1>1, <1>2, <1>3, <1>4, <1>5, <1>6, Undisturbed DEF DispatchIInv, DispatchInv

LEMMA ExecuteKeeps ==
    ASSUME DispatchIInv, fault = "none", Execute
    PROVE  DispatchIInv'
<1>0. TypeOK /\ ListInv /\ LoopsInv /\ QueriesInv /\ TextsInv /\ HandleInv
  BY DEF DispatchIInv, DispatchInv
<1>1. /\ depth["query"] = 0 /\ handle = "open" /\ done < issued /\ ~parsing
      /\ UNCHANGED <<listVars, issued, done, extraVars, given, handle, fault>>
  BY DEF Execute
<1>2. "query" \in Threads /\ "server" \in Threads /\ 1 \in Depths
  BY DispatchAssumption DEF Threads, Depths
<1>3. ASSUME NEW u \in Threads, NEW d \in 1 .. depth[u] PROVE frame[u][d].query = NoQuery
  <2>1. QueryOK(u, d, frame[u][d])  BY <1>0 DEF QueriesInv
  <2>2. u # "query"  BY <1>1
  <2>3. u = "server"  BY <2>2 DEF Threads
  <2> QED  BY <1>1, <2>1, <2>3 DEF QueryOK
<1>4. \A q \in Queries : ~ Delivering(q)
  <2>1. depth["server"] > 0 => 1 \in 1 .. depth["server"]  BY <1>0, <1>2, DepthFacts
  <2>2. depth["server"] > 0 => frame["server"][1].query = NoQuery  BY <1>2, <1>3, <2>1
  <2> QED  BY <2>2 DEF Delivering, Queries, NoQuery
<1>5. CASE parsing' = TRUE /\ UNCHANGED loopVars
  <2>1. LoopsInv'
    BY <1>0, <1>1, <1>5 DEF LoopsInv, LoopOK, GivenOK, Linked, Passed, listVars, loopVars
  <2>2. QueriesInv'
    <3>1. ASSUME NEW u \in Threads, NEW d \in 1 .. depth[u] PROVE QueryOK(u, d, frame[u][d])'
      <4>1. QueryOK(u, d, frame[u][d]) /\ frame[u][d].query = NoQuery  BY <1>0, <1>3 DEF QueriesInv
      <4> QED  BY <1>5, <4>1 DEF QueryOK, loopVars
    <3> QED  BY <1>1, <1>5, <3>1 DEF QueriesInv, loopVars
  <2>3. \A q \in Queries : ~ Delivering(q)'
    BY <1>4, <1>5 DEF Delivering, loopVars
  <2>4. TextsInv'
    BY <1>0, <1>1, <1>4, <2>3, TextsUnchanged
  <2>5. TypeOK'
    BY <1>0, <1>1, <1>5 DEF TypeOK, listVars, loopVars
  <2>6. HandleInv'
    BY <1>1 DEF HandleInv
  <2> QED  BY <1>1, <2>1, <2>2, <2>4, <2>5, <2>6, Undisturbed DEF DispatchIInv, DispatchInv
<1>6. CASE Enter("query", "OnMysqlError", done + 1, FALSE) /\ UNCHANGED parsing
  <2>1. PICK text \in BOOLEAN : text = FALSE /\ Enter("query", "OnMysqlError", done + 1, text)
    BY <1>6
  <2>2. "OnMysqlError" \in Callbacks /\ "OnMysqlError" # "OnMysqlQueryArray"
    BY DEF Callbacks
  <2>3. done + 1 \in Queries
    BY <1>0, <1>1, DispatchAssumption DEF TypeOK, Queries
  <2>4. ListInv' /\ LoopsInv' /\ QueriesInv' /\ HandleInv' /\ FaultCauses'
    <3>1. parsing' = parsing /\ (parsing' <=> "query" = "server")  BY <1>1, <1>6
    <3> HIDE DEF Enter
    <3> QED  BY <1>1, <1>2, <2>1, <2>2, <2>3, <3>1, PushKeeps
  <2> DEFINE f == EnteredFrame("OnMysqlError", done + 1, text)
  <2>5. /\ depth' \in [Threads -> 0 .. MaxDepth] /\ frame' \in [Threads -> [Depths -> Frames]]
        /\ \A u \in Threads : depth'[u] = IF u = "query" THEN depth["query"] + 1 ELSE depth[u]
        /\ \A u \in Threads, d \in Depths :
              frame'[u][d] = IF u = "query" /\ d = depth["query"] + 1 THEN f ELSE frame[u][d]
    BY <1>0, <1>2, <2>1, <2>2, <2>3, EnterFacts
  <2> HIDE DEF f
  <2>6. \A q \in Queries : ~ Delivering(q)'
    BY <1>2, <1>4, <2>5 DEF Delivering
  <2>7. TextsInv'
    BY <1>0, <1>1, <1>4, <2>6, TextsUnchanged
  <2>8. TypeOK'
    BY <1>0, <1>1, <1>6, <2>5 DEF TypeOK, listVars
  <2> QED  BY <2>4, <2>7, <2>8 DEF DispatchIInv, DispatchInv
<1> QED  BY <1>5, <1>6 DEF Execute

LEMMA TickKeeps ==
    ASSUME DispatchIInv, fault = "none", Tick
    PROVE  DispatchIInv'
<1>0. TypeOK /\ ListInv /\ LoopsInv /\ QueriesInv /\ TextsInv
  BY DEF DispatchIInv, DispatchInv
<1>1. /\ depth["server"] = 0 /\ handle = "open" /\ parsing
      /\ UNCHANGED <<listVars, queryVars, fault>>
  BY DEF Tick
<1>2. PICK event \in Callbacks, text \in BOOLEAN :
        /\ Enter("server", event, done + 1, text)
        /\ \/ extraVars[done + 1] = "none" /\ event = "OnMysqlQuery" /\ text = FALSE
           \/ extraVars[done + 1] # "none" /\ event = "OnMysqlQueryArray" /\ text = TRUE
  BY DEF Tick, Callbacks
<1>3. "server" \in Threads /\ 1 \in Depths
  BY DispatchAssumption DEF Threads, Depths
<1>4. done < issued /\ done \in Nat /\ issued \in Nat /\ done + 1 \in Queries
  BY <1>0, <1>1, DispatchAssumption DEF QueriesInv, TypeOK, Queries
<1>5. ListInv' /\ LoopsInv' /\ QueriesInv' /\ HandleInv' /\ FaultCauses'
  <2>1. parsing' = parsing /\ (parsing' <=> "server" = "server") /\ done' = done /\ issued' = issued
        /\ handle' = handle
    BY <1>1 DEF queryVars
  <2>2. event = "OnMysqlQueryArray" => done + 1 # NoQuery /\ text
    BY <1>2, <1>4 DEF NoQuery
  <2>3. text => event = "OnMysqlQueryArray"
    BY <1>2
  <2> QED  BY <1>1, <1>2, <1>3, <1>4, <2>1, <2>2, <2>3, PushKeeps
<1> DEFINE f == EnteredFrame(event, done + 1, text)
<1>6. /\ depth' \in [Threads -> 0 .. MaxDepth] /\ frame' \in [Threads -> [Depths -> Frames]]
      /\ \A u \in Threads : depth'[u] = IF u = "server" THEN depth["server"] + 1 ELSE depth[u]
      /\ \A u \in Threads, d \in Depths :
            frame'[u][d] = IF u = "server" /\ d = depth["server"] + 1 THEN f ELSE frame[u][d]
  BY <1>0, <1>2, <1>3, <1>4, EnterFacts
<1>7. f.event = event /\ f.query = done + 1 /\ f.text = text /\ f.pc = "test"
  BY DEF EnteredFrame
<1> HIDE DEF f
<1>8. frame'["server"][1] = f /\ depth'["server"] = 1
  BY <1>1, <1>3, <1>6
<1>9. ASSUME NEW q \in Queries PROVE TextOf(q)'
  <2>1. TextOf(q) /\ q \in Nat /\ ~ Delivering(q)
    BY <1>0, <1>1 DEF TextsInv, Delivering, Queries
  <2>2. Delivering(q)' <=> event = "OnMysqlQueryArray" /\ q = done + 1
    BY <1>7, <1>8 DEF Delivering
  <2>3. UNCHANGED <<issued, done, extraVars, given>>
    BY <1>1 DEF queryVars
  <2>4. CASE q = done + 1 /\ event = "OnMysqlQueryArray"
    <3>1. extraVars[q] # "none" /\ extraVars[q] # "freed" /\ text = TRUE
          /\ given[q] = 0
      BY <1>2, <1>4, <2>1, <2>4 DEF TextOf
    <3>2. extraVars[q] = "live"
      BY <1>0, <3>1 DEF TypeOK
    <3>3. f.text /\ f.pc # "running" /\ frame'["server"][1] = f
      BY <1>7, <1>8, <3>1
    <3>4. ~ (q > issued') /\ ~ (q <= done')
      BY <1>4, <2>3, <2>4
    <3> QED  BY <2>2, <2>3, <2>4, <3>1, <3>2, <3>3, <3>4 DEF TextOf
  <2>5. CASE ~ (q = done + 1 /\ event = "OnMysqlQueryArray")
    BY <2>1, <2>2, <2>3, <2>5 DEF TextOf
  <2> QED  BY <2>4, <2>5
<1>10. TextsInv'
  BY <1>9 DEF TextsInv
<1>11. TypeOK'
  BY <1>0, <1>1, <1>6 DEF TypeOK, listVars, queryVars
<1> QED  BY <1>5, <1>10, <1>11 DEF DispatchIInv, DispatchInv

LEMMA UseDanglingKeeps ==
    ASSUME DispatchIInv, fault = "none", NEW t \in Threads, UseDangling(t)
    PROVE  DispatchIInv'
<1>1. depth[t] > 0 /\ Top(t).at # End /\ ~Linked(Top(t).at) /\ Crash("iterator")
  BY DEF UseDangling, Dangling
<1>2. t # "server"
  BY <1>1, TopFacts DEF LoopOK
<1>3. depth["query"] > 0
  BY <1>1, <1>2 DEF Threads
<1> QED  BY <1>1, <1>3, ThreadCrashKeeps

(* A loop over the scripts runs while the handle is closed: it was closed   *)
(* inside a loop.                                                          *)
LEMMA HandleCrashKeeps ==
    ASSUME DispatchIInv, NEW t \in Threads, depth[t] > 0, Top(t).event # "public",
           handle # "open", Crash("handle")
    PROVE  DispatchIInv'
<1>1. depth[t] \in Loops(t)
  BY DepthFacts DEF DispatchIInv, Loops, Top
<1>2. handle = "closedInLoop"
  BY <1>1 DEF DispatchIInv, DispatchInv, HandleInv, TypeOK
<1>3. fault' = "handle" /\ handle' = handle
  BY DEF Crash, queryVars
<1>4. FaultCauses'
  BY <1>2, <1>3 DEF FaultCauses
<1> QED  BY <1>4, CrashKeeps DEF Faults

LEMMA CallFailsKeeps ==
    ASSUME DispatchIInv, fault = "none", NEW t \in Threads, CallFails(t)
    PROVE  DispatchIInv'
<1> DEFINE g == Top(t)
<1>0. TypeOK /\ ListInv
  BY DEF DispatchIInv, DispatchInv
<1>1. depth[t] > 0 /\ g.pc = "test" /\ Linked(g.at) /\ g.event \in publics[ScriptAt(g.at)]
  BY DEF CallFails
<1>2. g \in Frames /\ LoopOK(t, depth[t], g)
  BY <1>1, TopFacts
<1>3. CASE ScriptAt(g.at) \in RunningOn(Other(t)) /\ Crash("amx")
  <2>1. Other(t) \in Threads /\ (t # "query" => Other(t) = "query")
    BY DEF Other, Threads
  <2>2. depth[Other(t)] > 0
    BY <1>0, <1>3, <2>1, DepthFacts DEF RunningOn
  <2>3. depth["query"] > 0
    BY <1>1, <2>1, <2>2
  <2> QED  BY <1>3, <2>3, ThreadCrashKeeps
<1>4. CASE g.event = "OnMysqlQueryArray" /\ ~g.text /\ Crash("nulltext")
  <2>1. PICK a \in Scripts :
          node[a] # 0 /\ Passed(g, node[a]) /\ "OnMysqlQueryArray" \in publics[a]
    BY <1>2, <1>4 DEF LoopOK, GivenOK
  <2>2. ScriptAt(g.at) \in Scripts /\ node[ScriptAt(g.at)] = g.at /\ g.at \in Nodes
    BY <1>0, <1>1, LinkedFacts
  <2>3. ~ Passed(g, g.at)
    BY <1>1, <2>2 DEF Passed, Nodes, End
  <2>4. a # ScriptAt(g.at)
    BY <2>1, <2>2, <2>3
  <2>5. TwoArrayScripts
    BY <1>1, <1>4, <2>1, <2>2, <2>4 DEF TwoArrayScripts
  <2>6. fault' = "nulltext" /\ publics' = publics
    BY <1>4 DEF Crash, listVars
  <2>7. FaultCauses'
    BY <2>5, <2>6 DEF FaultCauses, TwoArrayScripts
  <2> QED  BY <1>4, <2>7, CrashKeeps DEF Faults
<1>5. CASE g.event = "OnMysqlError" /\ handle # "open" /\ Crash("handle")
  <2> QED  BY <1>1, <1>5, HandleCrashKeeps
<1> QED  BY <1>3, <1>4, <1>5 DEF CallFails

LEMMA UseClosedHandleKeeps ==
    ASSUME DispatchIInv, fault = "none", NEW t \in Threads, UseClosedHandle(t)
    PROVE  DispatchIInv'
<1>1. depth[t] > 0 /\ handle # "open" /\ Crash("handle")
  BY DEF UseClosedHandle
<1>2. Top(t).event # "public"
  BY <1>1, TopFacts DEF UseClosedHandle, QueryOK
<1> QED  BY <1>1, <1>2, HandleCrashKeeps

-----------------------------------------------------------------------------
(* The theorems.                                                           *)

LEMMA InitIInv == Init => DispatchIInv
<1> SUFFICES ASSUME Init PROVE DispatchIInv
  OBVIOUS
<1>1. \A t \in Threads : depth[t] = 0
  BY DEF Init
<1>2. TypeOK
  <2>1. depth \in [Threads -> 0 .. MaxDepth] /\ loads \in 0 .. MaxLoads /\ issued \in 0 .. MaxQueries
        /\ done \in 0 .. issued
    BY DispatchAssumption DEF Init
  <2>2. frame \in [Threads -> [Depths -> Frames]]
    BY NoFrameType DEF Init
  <2>3. given \in [Queries -> Nat] /\ handle \in {"open", "closed", "closedInLoop"}
    BY DEF Init
  <2>4. node \in [Scripts -> Nodes \cup {0}] /\ extraVars \in [Queries -> {"none", "live", "freed"}]
    BY DEF Init
  <2>5. parsing \in BOOLEAN /\ fault \in Faults
        /\ publics \in [Scripts -> SUBSET Callbacks]
    BY DEF Init, Faults
  <2> QED  BY <2>1, <2>2, <2>3, <2>4, <2>5 DEF TypeOK, Faults
<1>3. ListInv /\ LoopsInv /\ QueriesInv /\ HandleInv /\ FaultCauses
  BY <1>1 DEF Init, ListInv, LoopsInv, QueriesInv, HandleInv, FaultCauses
<1>4. TextsInv
  BY DEF Init, TextsInv, TextOf, Delivering, Threads, Queries
<1> QED  BY <1>2, <1>3, <1>4 DEF DispatchIInv, DispatchInv

LEMMA StepIInv == DispatchIInv /\ [Next]_vars => DispatchIInv'
<1> SUFFICES ASSUME DispatchIInv, [Next]_vars PROVE DispatchIInv'
  OBVIOUS
<1>1. CASE UNCHANGED vars
  BY <1>1 DEF vars, listVars, loopVars, queryVars, DispatchIInv, DispatchInv, TypeOK, ListInv,
     LoopsInv, LoopOK, GivenOK, Linked, Passed, QueriesInv, QueryOK, TextsInv, TextOf, Delivering,
     HandleInv, Loops, FaultCauses, TwoArrayScripts
<1>2. CASE Next
  <2>1. fault = "none"
    BY <1>2 DEF Next
  <2>2. ASSUME NEW t \in Threads, LoopStep(t) PROVE DispatchIInv'
    BY <2>1, <2>2, LoopEndsKeeps, SkipScriptKeeps, CallScriptKeeps, CallFailsKeeps,
       ScriptReturnsKeeps, UseClosedHandleKeeps, NextScriptKeeps, UseDanglingKeeps DEF LoopStep
  <2>3. ASSUME NEW t \in Threads, QueueQuery(t) \/ NativeFails(t) \/ CloseHandle(t)
        PROVE  DispatchIInv'
    BY <2>1, <2>3, QueueQueryKeeps, NativeFailsKeeps, CloseHandleKeeps
  <2>4. ASSUME NEW a \in Scripts, AmxLoad(a) \/ AmxUnload(a) \/ RunPublic(a) PROVE DispatchIInv'
    BY <2>1, <2>4, AmxLoadKeeps, AmxUnloadKeeps, RunPublicKeeps
  <2>5. ASSUME Execute \/ Tick PROVE DispatchIInv'
    BY <2>1, <2>5, ExecuteKeeps, TickKeeps
  <2> QED  BY <1>2, <2>2, <2>3, <2>4, <2>5 DEF Next
<1> QED  BY <1>1, <1>2

(* The types, and the inductive invariant, hold always: whatever is loaded, *)
(* unloaded, queued and reported while loops over pAmx run.                 *)
THEOREM DispatchTypeCorrect == Spec => []TypeOK
<1>1. DispatchIInv => TypeOK  BY DEF DispatchIInv
<1> QED  BY InitIInv, StepIInv, <1>1, PTL DEF Spec

THEOREM DispatchCorrect == Spec => []DispatchInv
<1>1. DispatchIInv => DispatchInv  BY DEF DispatchIInv
<1> QED  BY InitIInv, StepIInv, <1>1, PTL DEF Spec

(* No loop over the scripts calls one twice or leaves one out that was      *)
(* there all along (Thread.cpp:95-128, Main.cpp:205-227).                   *)
THEOREM CalledOnce == Spec => []EachScriptCalledOnce
<1>1. DispatchIInv => EachScriptCalledOnce
  <2> SUFFICES ASSUME DispatchIInv, NEW t \in Threads, NEW d \in Loops(t)
               PROVE  /\ \A n \in Nodes : frame[t][d].calls[n] <= 1
                      /\ frame[t][d].at = End =>
                            \A a \in Scripts :
                                /\ node[a] \in 1 .. frame[t][d].start
                                /\ frame[t][d].event \in publics[a]
                                => frame[t][d].calls[node[a]] = 1
    BY DEF EachScriptCalledOnce
  <2>1. d \in 1 .. depth[t] /\ frame[t][d].event # "public"  BY DEF Loops
  <2>2. LoopOK(t, d, frame[t][d])  BY <2>1 DEF DispatchIInv, DispatchInv, LoopsInv
  <2> QED  BY <2>1, <2>2 DEF LoopOK, Passed
<1> QED  BY InitIInv, StepIInv, <1>1, PTL DEF Spec

(* The text of mysql_query_array reaches one script at most, before it is    *)
(* freed, is freed once, and no pointer to it outlives it                  *)
(* (Thread.cpp:101-111).                                                   *)
THEOREM TextOwned == Spec => []TextOwnership
<1>1. DispatchIInv => TextOwnership
  <2> SUFFICES ASSUME DispatchIInv, NEW q \in Queries
               PROVE  /\ given[q] <= 1
                      /\ extraVars[q] = "freed" => given[q] = 1 /\ q <= issued
                      /\ extraVars[q] = "freed" /\ q > done => parsing /\ q = done + 1
                      /\ q <= done /\ given[q] = 1 => extraVars[q] = "freed"
                      /\ \A t \in Threads : \A d \in Loops(t) :
                            frame[t][d].query = q /\ frame[t][d].text => extraVars[q] = "live"
    BY DEF TextOwnership
  <2>1. /\ TextOf(q) /\ q \in Nat /\ done \in Nat /\ issued \in Nat /\ done <= issued
        /\ QueriesInv /\ TypeOK
    BY DEF DispatchIInv, DispatchInv, TextsInv, TypeOK, Queries
  <2>2. Delivering(q) => q = done + 1 /\ parsing
    <3>1. "server" \in Threads /\ depth["server"] \in 0 .. MaxDepth  BY <2>1, DepthFacts DEF Threads
    <3>2. Delivering(q) => 1 \in 1 .. depth["server"]  BY <3>1 DEF Delivering
    <3>3. Delivering(q) => QueryOK("server", 1, frame["server"][1])  BY <2>1, <3>1, <3>2 DEF QueriesInv
    <3> QED  BY <3>3 DEF QueryOK, Delivering, Queries, NoQuery
  <2>3. ASSUME NEW t \in Threads, NEW d \in Loops(t), frame[t][d].query = q, frame[t][d].text
        PROVE  extraVars[q] = "live"
    <3>1. d \in 1 .. depth[t] /\ depth[t] \in 0 .. MaxDepth  BY <2>1, DepthFacts DEF Loops
    <3>2. QueryOK(t, d, frame[t][d])  BY <2>1, <3>1 DEF QueriesInv
    <3>3. t = "server" /\ d = 1 /\ Delivering(q)
      BY <2>3, <3>1, <3>2 DEF QueryOK, Delivering, Queries, NoQuery
    <3> QED  BY <2>1, <2>3, <3>3 DEF TextOf
  <2>4. given[q] \in {0, 1}
    BY <2>1 DEF TextOf
  <2>5. extraVars[q] = "freed" => given[q] = 1 /\ q <= issued /\ (q > done => Delivering(q))
    BY <2>1 DEF TextOf
  <2>6. q <= done /\ given[q] = 1 => extraVars[q] = "freed"
    BY <2>1 DEF TextOf
  <2> QED  BY <2>2, <2>3, <2>4, <2>5, <2>6
<1> QED  BY InitIInv, StepIInv, <1>1, PTL DEF Spec

(* The loops over the scripts meet undefined behaviour in three ways only:  *)
(* two scripts share OnMysqlQueryArray, a handle is closed while a loop     *)
(* runs, or the query thread reports an error (Thread.cpp:95-131,          *)
(* Main.cpp:205-225).                                                      *)
THEOREM FaultsHaveCauses == Spec => []FaultCauses
<1>1. DispatchIInv => FaultCauses  BY DEF DispatchIInv, DispatchInv
<1> QED  BY InitIInv, StepIInv, <1>1, PTL DEF Spec

(* No step but the end of a loop that answers a query changes done.        *)
LEMMA OnlyLoopsPop ==
    ASSUME Next, done' # done
    PROVE  \E t \in Threads :
              /\ depth[t] > 0 /\ Top(t).at = End /\ Top(t).query # NoQuery
              /\ depth' = [depth EXCEPT ![t] = @ - 1] /\ done' = done + 1
BY DEF Next, LoopStep, LoopEnds, SkipScript, CallScript, CallFails, ScriptReturns,
       UseClosedHandle, NextScript, UseDangling, QueueQuery, NativeFails, CloseHandle, AmxLoad, AmxUnload, RunPublic, Execute, Tick, Crash, queryVars,
       listVars, loopVars, Leave

(* A query is popped where the loop that answers it ends, with every script *)
(* called (Thread.cpp:75, 130).                                            *)
THEOREM PoppedWhenAnswered == Spec => AnsweredBeforePop
<1>1. ASSUME DispatchIInv, Next, done' # done
      PROVE  /\ done' = done + 1 /\ done < issued
             /\ \E t \in Threads :
                   /\ depth[t] = 1 /\ depth'[t] = 0
                   /\ frame[t][1].query = done + 1 /\ (parsing <=> t = "server")
                   /\ \A a \in Scripts :
                         node[a] \in 1 .. frame[t][1].start /\ frame[t][1].event \in publics[a]
                             => frame[t][1].calls[node[a]] = 1
  <2>1. PICK t \in Threads : /\ depth[t] > 0 /\ Top(t).at = End /\ Top(t).query # NoQuery
                             /\ depth' = [depth EXCEPT ![t] = @ - 1] /\ done' = done + 1
    BY <1>1, OnlyLoopsPop
  <2> DEFINE d == depth[t]  f == frame[t][d]
  <2>2. d \in 1 .. MaxDepth /\ d \in 1 .. depth[t] /\ f = Top(t)
    BY <1>1, <2>1, DispatchAssumption DEF DispatchIInv, TypeOK, Top
  <2>3. LoopOK(t, d, f) /\ QueryOK(t, d, f)
    BY <1>1, <2>2 DEF DispatchIInv, DispatchInv, LoopsInv, QueriesInv
  <2>4. d = 1 /\ f.query = done + 1 /\ done < issued /\ (parsing <=> t = "server")
    BY <2>1, <2>2, <2>3 DEF QueryOK
  <2>5. depth'[t] = 0
    BY <1>1, <2>1, <2>4 DEF DispatchIInv, TypeOK
  <2>6. ASSUME NEW a \in Scripts, node[a] \in 1 .. f.start, f.event \in publics[a]
        PROVE  f.calls[node[a]] = 1
    <3>1. publics[a] \subseteq Callbacks  BY <1>1 DEF DispatchIInv, TypeOK
    <3>2. f.event # "public"  BY <2>6, <3>1 DEF Callbacks
    <3>3. Passed(f, node[a])  BY <2>1, <2>2 DEF Passed
    <3> HIDE DEF f
    <3> QED  BY <2>3, <2>6, <3>2, <3>3 DEF LoopOK
  <2> QED  BY <2>1, <2>4, <2>5, <2>6
<1>2. DispatchIInv /\ [Next]_vars =>
        [done' # done =>
          /\ done' = done + 1 /\ done < issued
          /\ \E t \in Threads :
                LET f == frame[t][1] IN
                /\ depth[t] = 1 /\ depth'[t] = 0
                /\ f.query = done + 1 /\ (parsing <=> t = "server")
                /\ \A a \in Scripts :
                      node[a] \in 1 .. f.start /\ f.event \in publics[a] => f.calls[node[a]] = 1]_vars
  BY <1>1
<1> QED  BY InitIInv, StepIInv, <1>2, PTL DEF Spec, AnsweredBeforePop
=============================================================================
