---------------------------- MODULE QueryService ----------------------------
(***************************************************************************)
(* What the query pipeline promises a client, with no threads, queues or   *)
(* locks: requests are numbered in the order they are made, they are       *)
(* answered in that order, each at most once, and never after the client   *)
(* has left.                                                               *)
(***************************************************************************)
EXTENDS Integers, Sequences

CONSTANTS Users   \* the clients

VARIABLES
  present,    \* clients that are connected
  issued,     \* number of requests made, per client
  answered    \* the requests answered, per client, in order

serviceVars == <<present, issued, answered>>

Init ==
  /\ present = {}
  /\ issued = [u \in Users |-> 0]
  /\ answered = [u \in Users |-> <<>>]

Connect(u) ==
  /\ present' = present \cup {u}
  /\ UNCHANGED <<issued, answered>>

Request(u) ==
  /\ u \in present
  /\ issued' = [issued EXCEPT ![u] = @ + 1]
  /\ UNCHANGED <<present, answered>>

(* One pass of the server answers the oldest open request of each client   *)
(* in S.                                                                   *)
Answer(S) ==
  /\ \A u \in S : u \in present /\ Len(answered[u]) < issued[u]
  /\ answered' = [u \in Users |->
        IF u \in S THEN Append(answered[u], Len(answered[u]) + 1)
                   ELSE answered[u]]
  /\ UNCHANGED <<present, issued>>

Leave(S) ==
  /\ present' = present \ S
  /\ UNCHANGED <<issued, answered>>

Next ==
  \/ \E u \in Users : Connect(u) \/ Request(u)
  \/ \E S \in SUBSET Users : Answer(S) \/ Leave(S)

Spec == Init /\ [][Next]_serviceVars
=============================================================================
