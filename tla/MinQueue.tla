------------------------------ MODULE MinQueue ------------------------------
(***************************************************************************)
(* The binary heap of min_queue.c, in which link_sim keeps the segments it *)
(* delays.  A push or a pop is its first step and one step per iteration   *)
(* of its heapify loop.  The layout of the code is not the usual one: the  *)
(* root has index 0 and LCHILD(0) is 0, so the root has one child, 1, and  *)
(* only the nodes below have two.                                          *)
(***************************************************************************)
EXTENDS Naturals

CONSTANTS Elements, Priority,   \* as in PriorityQueue
          Junk,                 \* a cell that malloc or realloc returned
          SLOTS_PER_MALLOC,
          MaxSize               \* bound: elements in the queue

ASSUME MinQueueAssumption ==
  /\ Priority \in [Elements -> Nat] /\ Junk \notin Elements
  /\ SLOTS_PER_MALLOC \in Nat \ {0} /\ MaxSize \in Nat

VARIABLES e, size, alloc,   \* struct minqueue
          op,               \* the loop being run: "idle", "up" or "down"
          pos,              \* i of minq_push, current of minq_pop
          val               \* v of minq_push

queueVars == <<e, size, alloc, op, pos, val>>

LCHILD(x) == 2 * x
PARENT(x) == x \div 2

\* cmp: is a greater than b?
cmp(a, b) == Priority[a] > Priority[b]

Init == /\ e = [k \in 0..(SLOTS_PER_MALLOC - 1) |-> Junk]
        /\ size = 0 /\ alloc = SLOTS_PER_MALLOC
        /\ op = "idle" /\ pos = 0 /\ val = Junk

\* The cells in use, without the one that a heapify-up has opened, and the
\* elements of the queue, the one on its way up included.
InUse == (0..(size - 1)) \ (IF op = "up" THEN {pos} ELSE {})

Queued == {e[k] : k \in InUse} \cup (IF op = "up" THEN {val} ELSE {})

-----------------------------------------------------------------------------
\* Growing without the cells in use.
Grown_Fresh == IF size < alloc THEN e
               ELSE [k \in 0..(size + SLOTS_PER_MALLOC - 1) |-> Junk]

\* The cells after a push made room: one more step of cells when all are in
\* use.  (A realloc that fails returns with the queue unchanged.)
Grown == IF size < alloc THEN e
         ELSE [k \in 0..(size + SLOTS_PER_MALLOC - 1) |->
                 IF k < size THEN e[k] ELSE Junk]

\* minq_push up to its loop.  A pointer is pushed once at a time.
Push == /\ op = "idle" /\ size < MaxSize
        /\ \E v \in Elements \ Queued : val' = v
        /\ e' = Grown
        /\ alloc' = IF size < alloc THEN alloc ELSE size + SLOTS_PER_MALLOC
        /\ op' = "up" /\ pos' = size /\ size' = size + 1

\* Moving the parent down without moving the insertion point up.
ParentDown_InPlace == /\ op = "up"
                      /\ pos # 0 /\ cmp(e[PARENT(pos)], val)
                      /\ e' = [e EXCEPT ![pos] = e[PARENT(pos)]]
                      /\ UNCHANGED <<size, alloc, op, pos, val>>

\* The parent is greater than the new element: it moves down.
ParentDown == /\ op = "up"
              /\ pos # 0 /\ cmp(e[PARENT(pos)], val)
              /\ e' = [e EXCEPT ![pos] = e[PARENT(pos)]]
              /\ pos' = PARENT(pos)
              /\ UNCHANGED <<size, alloc, op, val>>

\* The loop of minq_push has ended.
Insert == /\ op = "up"
          /\ ~(pos # 0 /\ cmp(e[PARENT(pos)], val))
          /\ e' = [e EXCEPT ![pos] = val]
          /\ op' = "idle" /\ pos' = 0 /\ val' = Junk
          /\ UNCHANGED <<size, alloc>>

\* minq_pop up to its loop: the last entry takes the root's place.
Pop == /\ op = "idle" /\ size > 0
       /\ e' = [e EXCEPT ![0] = e[size - 1]]
       /\ size' = size - 1
       /\ op' = "down"
       /\ UNCHANGED <<alloc, pos, val>>

\* Always the left child.
has_child_Left(i) == IF LCHILD(i) >= size THEN 0 ELSE LCHILD(i)

\* The smaller child of node i, or the root when it has none.
has_child(i) ==
  LET left == LCHILD(i)
  IN  IF left >= size THEN 0
      ELSE IF left + 1 < size /\ cmp(e[left], e[left + 1]) THEN left + 1
           ELSE left

\* Comparing the other way round.
SinksTo_Reversed(m) == m # 0 /\ cmp(e[m], e[pos])

SinksTo(m) == m # 0 /\ cmp(e[pos], e[m])

ChildUp == /\ op = "down"
           /\ LET m == has_child(pos)
              IN  /\ SinksTo(m)
                  /\ e' = [e EXCEPT ![pos] = e[m], ![m] = e[pos]]
                  /\ pos' = m
           /\ UNCHANGED <<size, alloc, op, val>>

Settled == /\ op = "down"
           /\ ~SinksTo(has_child(pos))
           /\ op' = "idle" /\ pos' = 0
           /\ UNCHANGED <<e, size, alloc, val>>

Next == Push \/ ParentDown \/ Insert \/ Pop \/ ChildUp \/ Settled

\* A call that has begun runs to its end.
Spec == /\ Init /\ [][Next]_queueVars
        /\ WF_queueVars(ParentDown \/ Insert \/ ChildUp \/ Settled)
-----------------------------------------------------------------------------
\* Types and cells: every cell in use holds a pushed element, but for the one
\* that a heapify-up has opened, and no element is in two of them.
TypeOK == /\ size \in Nat /\ alloc \in Nat /\ size <= alloc
          /\ e \in [0..(alloc - 1) -> Elements \cup {Junk}]
          /\ op \in {"idle", "up", "down"} /\ pos \in 0..size
          /\ op = "idle" => pos = 0
          /\ op = "up" => pos < size /\ val \in Elements

CellsInv == /\ \A k \in InUse : e[k] \in Elements /\ (op = "up" => e[k] # val)
            /\ \A j, k \in InUse : j # k => e[j] # e[k]

\* Heap order, except between the open or sinking node and its neighbours;
\* there the parent stands for the node towards the node's children.
OrderInv ==
  \A k \in InUse \ {0} :
    LET p == PARENT(k)
    IN  /\ op = "idle" \/ p # pos => ~cmp(e[p], e[k])
        /\ op = "up" /\ p = pos => ~cmp(val, e[k])
        /\ op # "idle" /\ p = pos /\ p # 0 => ~cmp(e[PARENT(p)], e[k])

\* The invariant that the proofs rest on.
HeapInv == TypeOK /\ CellsInv /\ OrderInv

\* Between calls no element is smaller than the one that minq_peek returns,
\* whatever sequence of pushes and pops led there.
PeekIsMinimal ==
  op = "idle" => \A k \in 0..(size - 1) : ~cmp(e[0], e[k])

PQ == INSTANCE PriorityQueue WITH content <- Queued

\* The heap is a priority queue: pop removes an element that no other is
\* smaller than, and neither call loses or invents one.
ImplementsQueue == PQ!PQSpec

\* A push or a pop returns.
CallsReturn == op # "idle" ~> op = "idle"
=============================================================================
