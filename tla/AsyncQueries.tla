---------------------------- MODULE AsyncQueries ----------------------------
(***************************************************************************)
(* What a script is promised of its threaded queries, and nothing of how   *)
(* the plugin keeps the promise: every threaded query on a handle is       *)
(* answered exactly once, in the order the queries were made, by one of    *)
(* the callbacks that mysql.inc forwards (OnMysqlQuery and                 *)
(* OnMysqlQueryArray are one callback here, OnMysqlError the other).       *)
(* A connection may be lost, by mysql_close.  Then, and for whoever uses   *)
(* its number next, no answer is promised any more, but none comes twice,  *)
(* and each of the two callbacks keeps to the order.                       *)
(***************************************************************************)
EXTENDS Integers, Sequences

CONSTANT Handles              \* the connections a script may use

VARIABLES issued,             \* [h] how many threaded queries h was given
          pending,            \* [h] the queries not answered yet, oldest first
          answered,           \* [h] the callbacks made for h, oldest first
          lost                \* the connections that were lost

vars == <<issued, pending, answered, lost>>

Callbacks == {"OnMysqlQuery", "OnMysqlError"}

Init ==
    /\ issued = [h \in Handles |-> 0]
    /\ pending = [h \in Handles |-> <<>>]
    /\ answered = [h \in Handles |-> <<>>]
    /\ lost = {}

(* A script makes a query; queries on a handle are numbered from 1. *)
Submit(h) ==
    /\ issued' = [issued EXCEPT ![h] = @ + 1]
    /\ pending' = [pending EXCEPT ![h] = IF h \in lost THEN @ ELSE Append(@, issued[h] + 1)]
    /\ UNCHANGED <<answered, lost>>

AnswerWith(h, q, c) ==
    answered' = [answered EXCEPT ![h] = Append(@, [query |-> q, callback |-> c])]

(* The oldest unanswered query of h is answered. *)
Answer(h) ==
    /\ pending[h] # <<>>
    /\ \E c \in Callbacks : AnswerWith(h, Head(pending[h]), c)
    /\ pending' = [pending EXCEPT ![h] = Tail(@)]
    /\ UNCHANGED <<issued, lost>>

(* On a connection that was lost some query may still be answered, if it    *)
(* was not before and comes after those the same callback was made for.    *)
AnswerLate(h) ==
    /\ h \in lost
    /\ \E q \in 1 .. issued[h], c \in Callbacks :
          /\ \A i \in 1 .. Len(answered[h]) :
                /\ answered[h][i].query # q
                /\ answered[h][i].callback = c => answered[h][i].query < q
          /\ AnswerWith(h, q, c)
    /\ UNCHANGED <<issued, pending, lost>>

Lose(h) ==
    /\ lost' = lost \cup {h}
    /\ pending' = [pending EXCEPT ![h] = <<>>]
    /\ UNCHANGED <<issued, answered>>

Next == \E h \in Handles : Submit(h) \/ Answer(h) \/ AnswerLate(h) \/ Lose(h)

Spec == Init /\ [][Next]_vars
=============================================================================
