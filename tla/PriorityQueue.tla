---------------------------- MODULE PriorityQueue ----------------------------
(***************************************************************************)
(* What min_queue.h promises: a set of elements, of which peek and pop     *)
(* take one that no other is smaller than.  Which of several equal ones is *)
(* not promised, so elements of one priority may leave in any order.       *)
(***************************************************************************)
EXTENDS Naturals

CONSTANTS Elements,   \* the pointers a caller may push
          Priority    \* the key that the compare function reads of each, a
                      \* function from Elements to Nat

VARIABLE content

IsMinimal(x) ==
  x \in content /\ \A y \in content : Priority[x] <= Priority[y]

PQInit == content = {}

PQPush == \E x \in Elements \ content : content' = content \cup {x}

PQPop == \E x \in content : IsMinimal(x) /\ content' = content \ {x}

PQNext == PQPush \/ PQPop

PQSpec == PQInit /\ [][PQNext]_content
=============================================================================
