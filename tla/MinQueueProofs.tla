--------------------------- MODULE MinQueueProofs ---------------------------
(***************************************************************************)
(* For every set of elements, every priority and every size: the heap      *)
(* keeps its invariant, peek returns a minimal element, and the heap       *)
(* implements PriorityQueue.                                               *)
(***************************************************************************)
EXTENDS MinQueue, WellFoundedInduction, TLAPS

-----------------------------------------------------------------------------
\* A node and its parent.
LEMMA ParentFacts ==
  ASSUME NEW x \in Nat
  PROVE  /\ PARENT(x) \in Nat
         /\ x # 0 => PARENT(x) < x
         /\ \A y \in Nat : PARENT(x) = y <=> x = 2 * y \/ x = 2 * y + 1
  BY DEF PARENT

\* Priorities are compared as numbers.
LEMMA CmpFacts ==
  ASSUME NEW a \in Elements, NEW b \in Elements
  PROVE  /\ Priority[a] \in Nat /\ Priority[b] \in Nat
         /\ cmp(a, b) <=> Priority[a] > Priority[b]
  BY MinQueueAssumption DEF cmp

\* Not being greater is transitive, and holds one way or the other.
LEMMA CmpOrder ==
  ASSUME NEW a \in Elements, NEW b \in Elements, NEW c \in Elements
  PROVE  /\ cmp(a, b) => ~cmp(b, a)
         /\ ~cmp(a, b) /\ ~cmp(b, c) => ~cmp(a, c)
  BY CmpFacts

LEMMA InitInv == Init => HeapInv
<1> SUFFICES ASSUME Init PROVE HeapInv
  OBVIOUS
<1>1. TypeOK
  BY MinQueueAssumption DEF Init, TypeOK
<1>2. InUse = {}
  BY DEF Init, InUse
<1> QED BY <1>1, <1>2 DEF HeapInv, CellsInv, OrderInv

-----------------------------------------------------------------------------
LEMMA PushInv == HeapInv /\ Push => HeapInv'
<1> SUFFICES ASSUME HeapInv, Push PROVE HeapInv'
  OBVIOUS
<1> USE MinQueueAssumption
<1>1. PICK v \in Elements \ Queued : val' = v
  BY DEF Push
<1>2. /\ op = "idle" /\ op' = "up" /\ pos' = size /\ size' = size + 1
      /\ size \in Nat /\ alloc \in Nat
  BY DEF Push, HeapInv, TypeOK
<1>3. InUse' = InUse /\ InUse = 0..(size - 1)
  BY <1>2 DEF InUse
<1>4. \A k \in InUse : e'[k] = e[k]
  BY <1>2, <1>3 DEF Push, Grown, HeapInv, TypeOK
<1>5. TypeOK'
  <2>1. alloc' \in Nat /\ size' <= alloc' /\ size' \in Nat
    BY <1>2 DEF Push, HeapInv, TypeOK
  <2>2. e' \in [0..(alloc' - 1) -> Elements \cup {Junk}]
    BY <1>2 DEF Push, Grown, HeapInv, TypeOK
  <2>3. /\ pos' \in 0..size' /\ pos' < size'
        /\ op' \in {"idle", "up", "down"} /\ op' # "idle" /\ val' \in Elements
    BY <1>1, <1>2
  <2> QED BY <2>1, <2>2, <2>3 DEF TypeOK
<1>6. CellsInv'
  <2>1. Queued = {e[k] : k \in InUse}
    BY <1>2 DEF Queued
  <2>2. \A k \in InUse : e'[k] \in Elements /\ e'[k] # val'
    BY <1>1, <1>4, <2>1 DEF HeapInv, CellsInv
  <2>3. \A j, k \in InUse : j # k => e'[j] # e'[k]
    BY <1>4 DEF HeapInv, CellsInv
  <2> QED BY <1>3, <2>2, <2>3 DEF CellsInv
<1>7. OrderInv'
  <2> SUFFICES ASSUME NEW k \in InUse \ {0}
               PROVE  PARENT(k) # size /\ ~cmp(e'[PARENT(k)], e'[k])
    BY <1>2, <1>3 DEF OrderInv
  <2>1. k \in Nat /\ k < size /\ PARENT(k) \in Nat /\ PARENT(k) < k
    BY <1>2, <1>3, ParentFacts
  <2>2. PARENT(k) \in InUse
    BY <1>2, <1>3, <2>1
  <2> QED BY <1>2, <1>4, <2>1, <2>2 DEF HeapInv, OrderInv
<1> QED BY <1>5, <1>6, <1>7 DEF HeapInv

LEMMA ParentDownInv == HeapInv /\ ParentDown => HeapInv'
<1> SUFFICES ASSUME HeapInv, ParentDown PROVE HeapInv'
  OBVIOUS
<1> USE MinQueueAssumption
<1> DEFINE q == PARENT(pos)
<1>1. /\ op = "up" /\ pos # 0 /\ cmp(e[q], val) /\ op' = "up" /\ pos' = q
      /\ e' = [e EXCEPT ![pos] = e[q]]
      /\ size' = size /\ alloc' = alloc /\ val' = val
      /\ size \in Nat /\ alloc \in Nat /\ size <= alloc
      /\ pos \in Nat /\ pos < size /\ val \in Elements
      /\ e \in [0..(alloc - 1) -> Elements \cup {Junk}]
  BY DEF ParentDown, HeapInv, TypeOK
<1>2. q \in Nat /\ q < pos /\ q \in InUse /\ q # pos
  BY <1>1, ParentFacts DEF InUse
<1>3. InUse' = (InUse \ {q}) \cup {pos} /\ pos \notin InUse
  BY <1>1, <1>2 DEF InUse
<1>4. /\ \A k \in InUse : k \in Nat /\ k < size /\ e'[k] = e[k] /\ e[k] \in Elements
      /\ e'[pos] = e[q]
  BY <1>1, <1>2 DEF InUse, HeapInv, CellsInv
<1> HIDE DEF q
<1>5. TypeOK'
  BY <1>1, <1>2, <1>4 DEF TypeOK
<1>6. CellsInv'
  <2>1. /\ \A k \in InUse : e[k] # val
        /\ \A j, k \in InUse : j # k => e[j] # e[k]
    BY <1>1 DEF HeapInv, CellsInv
  <2> QED BY <2>1, <1>1, <1>2, <1>3, <1>4 DEF CellsInv
<1>7. OrderInv'
  <2> SUFFICES ASSUME NEW k \in InUse' \ {0}, NEW p, p = PARENT(k)
               PROVE  /\ p # q => ~cmp(e'[p], e'[k])
                      /\ p = q => ~cmp(val, e'[k])
                      /\ p = q /\ p # 0 => ~cmp(e'[PARENT(p)], e'[k])
    BY <1>1 DEF OrderInv
  <2>1. q # 0 => PARENT(q) \in Nat /\ PARENT(q) < q
    BY <1>2, ParentFacts
  <2>2. q # 0 => PARENT(q) \in InUse /\ PARENT(q) # pos
    BY <2>1, <1>1, <1>2 DEF InUse
  <2>3. q # 0 => ~cmp(e[PARENT(q)], e[q])
    BY <2>1, <2>2, <1>1, <1>2 DEF HeapInv, OrderInv
  <2>4. k \in Nat /\ k < size /\ k # 0 /\ k # q /\ p \in Nat /\ p < k
    BY <1>1, <1>2, <1>3, <1>4, ParentFacts DEF InUse
  <2>5. CASE k = pos
    <3>1. p = q /\ e'[k] = e[q]
      BY <2>5, <1>4, <2>4 DEF q
    <3>2. ~cmp(val, e[q])
      BY <1>1, <1>2, <1>4, CmpFacts
    <3> QED BY <3>1, <3>2, <2>2, <2>3, <1>4
  <2>6. CASE k # pos
    <3>1. k \in InUse /\ e'[k] = e[k] /\ e[k] \in Elements
      BY <2>6, <1>3, <1>4
    <3>2. /\ p # pos => ~cmp(e[p], e[k])
          /\ p = pos => ~cmp(val, e[k]) /\ ~cmp(e[q], e[k])
      BY <2>4, <3>1, <1>1 DEF HeapInv, OrderInv, q
    <3>3. p # pos => p \in InUse
      BY <2>4, <1>1 DEF InUse
    <3>4. CASE p = pos
      BY <3>4, <3>1, <3>2, <1>2, <1>4
    <3>5. CASE p # pos /\ p # q
      BY <3>5, <3>1, <3>2, <3>3, <1>4
    <3>6. CASE p = q
      <4>1. ~cmp(e[q], e[k])
        BY <3>6, <3>2, <1>2
      <4>2. ~cmp(val, e[k])
        BY <4>1, <3>1, <1>1, <1>2, <1>4, CmpFacts
      <4>3. ASSUME q # 0 PROVE ~cmp(e[PARENT(q)], e[k])
        <5>1. e[PARENT(q)] \in Elements /\ e[q] \in Elements
          BY <4>3, <2>2, <1>2, <1>4
        <5> QED BY <5>1, <4>1, <4>3, <2>3, <3>1, CmpFacts
      <4> QED BY <3>6, <4>2, <4>3, <2>2, <3>1, <1>4
    <3> QED BY <3>4, <3>5, <3>6
  <2> QED BY <2>5, <2>6
<1> QED BY <1>5, <1>6, <1>7 DEF HeapInv

LEMMA InsertInv == HeapInv /\ Insert => HeapInv'
<1> SUFFICES ASSUME HeapInv, Insert PROVE HeapInv'
  OBVIOUS
<1>1. /\ op = "up" /\ op' = "idle" /\ pos' = 0
      /\ pos # 0 => ~cmp(e[PARENT(pos)], val)
      /\ e' = [e EXCEPT ![pos] = val]
      /\ size' = size /\ alloc' = alloc /\ val' = Junk
      /\ size \in Nat /\ alloc \in Nat /\ size <= alloc
      /\ pos \in Nat /\ pos < size /\ val \in Elements
      /\ e \in [0..(alloc - 1) -> Elements \cup {Junk}]
  BY DEF Insert, HeapInv, TypeOK
<1>2. InUse' = InUse \cup {pos} /\ pos \notin InUse
  BY <1>1 DEF InUse
<1>3. /\ \A k \in InUse : k \in Nat /\ k < size /\ e'[k] = e[k]
                           /\ e[k] \in Elements /\ e[k] # val
      /\ e'[pos] = val
  BY <1>1 DEF InUse, HeapInv, CellsInv
<1>4. TypeOK'
  BY <1>1 DEF TypeOK
<1>5. CellsInv'
  <2>1. \A j, k \in InUse : j # k => e[j] # e[k]
    BY DEF HeapInv, CellsInv
  <2> QED BY <2>1, <1>1, <1>2, <1>3 DEF CellsInv
<1>6. OrderInv'
  <2> SUFFICES ASSUME NEW k \in InUse' \ {0}, NEW p, p = PARENT(k)
               PROVE  ~cmp(e'[p], e'[k])
    BY <1>1 DEF OrderInv
  <2>1. k \in Nat /\ k < size /\ p \in Nat /\ p < k
    BY <1>1, <1>2, <1>3, ParentFacts
  <2>2. p # pos => p \in InUse
    BY <2>1, <1>1 DEF InUse
  <2>3. CASE k = pos
    BY <2>1, <2>2, <2>3, <1>1, <1>3
  <2>4. CASE k # pos
    <3>1. k \in InUse \ {0}
      BY <2>4, <1>2
    <3>2. /\ p # pos => ~cmp(e[p], e[k])
          /\ p = pos => ~cmp(val, e[k])
      BY <3>1, <1>1 DEF HeapInv, OrderInv
    <3> QED BY <3>1, <3>2, <2>2, <1>3
  <2> QED BY <2>3, <2>4
<1> QED BY <1>4, <1>5, <1>6 DEF HeapInv

LEMMA PopInv == HeapInv /\ Pop => HeapInv'
<1> SUFFICES ASSUME HeapInv, Pop PROVE HeapInv'
  OBVIOUS
<1>1. /\ op = "idle" /\ op' = "down" /\ pos = 0 /\ pos' = 0
      /\ e' = [e EXCEPT ![0] = e[size - 1]]
      /\ size' = size - 1 /\ alloc' = alloc /\ val' = val
      /\ size \in Nat /\ size > 0 /\ alloc \in Nat /\ size <= alloc
      /\ e \in [0..(alloc - 1) -> Elements \cup {Junk}]
  BY DEF Pop, HeapInv, TypeOK
<1>2. InUse = 0..(size - 1) /\ InUse' = 0..(size - 2)
  BY <1>1 DEF InUse
<1>3. /\ \A k \in InUse' : e'[k] = IF k = 0 THEN e[size - 1] ELSE e[k]
      /\ \A k \in InUse' : k \in InUse /\ k # size - 1
      /\ size - 1 \in InUse
  BY <1>1, <1>2
<1>4. TypeOK'
  BY <1>1 DEF TypeOK, HeapInv
<1>5. CellsInv'
  <2>1. /\ \A k \in InUse : e[k] \in Elements
        /\ \A j, k \in InUse : j # k => e[j] # e[k]
    BY DEF HeapInv, CellsInv
  <2> QED BY <2>1, <1>1, <1>3 DEF CellsInv
<1>6. OrderInv'
  <2> SUFFICES ASSUME NEW k \in InUse' \ {0}, NEW p, p = PARENT(k), p # 0
               PROVE  ~cmp(e'[p], e'[k])
    BY <1>1 DEF OrderInv
  <2>1. k \in Nat /\ p \in Nat /\ p < k /\ p \in InUse'
    <3>1. k \in Nat /\ k # 0 /\ k <= size - 2
      BY <1>1, <1>2
    <3>2. p \in Nat /\ p < k
      BY <3>1, ParentFacts
    <3> QED BY <3>1, <3>2, <1>1, <1>2
  <2>2. ~cmp(e[p], e[k])
    BY <1>1, <1>3 DEF HeapInv, OrderInv
  <2> QED BY <2>1, <2>2, <1>3
<1> QED BY <1>4, <1>5, <1>6 DEF HeapInv

-----------------------------------------------------------------------------
\* What has_child returns: no child of the sinking node is smaller, and when
\* the loop ends there the sinking element is not greater than any of them.
LEMMA HasChild ==
  ASSUME HeapInv, op = "down", NEW m, m = has_child(pos)
  PROVE  /\ m # 0 => /\ m \in InUse \ {0} /\ PARENT(m) = pos
                     /\ pos \in InUse /\ pos # m
                     /\ \A k \in InUse \ {0} : PARENT(k) = pos => ~cmp(e[m], e[k])
         /\ ~SinksTo(m) =>
              \A k \in InUse \ {0} : PARENT(k) = pos => ~cmp(e[pos], e[k])
<1>1. size \in Nat /\ pos \in Nat /\ InUse = 0..(size - 1)
  BY DEF InUse, HeapInv, TypeOK
<1>2. \A k \in InUse : k \in Nat /\ k < size /\ e[k] \in Elements
  BY <1>1 DEF HeapInv, CellsInv
<1>3. \A k \in InUse \ {0} : PARENT(k) = pos
                           => k = 2 * pos \/ k = 2 * pos + 1
  BY <1>1, <1>2, ParentFacts
<1>4. m = IF 2 * pos >= size THEN 0
          ELSE IF 2 * pos + 1 < size /\ cmp(e[2 * pos], e[2 * pos + 1])
               THEN 2 * pos + 1 ELSE 2 * pos
  BY DEF has_child, LCHILD
<1>5. CASE 2 * pos >= size
  <2>1. m = 0 /\ \A k \in InUse \ {0} : PARENT(k) # pos
    BY <1>5, <1>1, <1>2, <1>3, <1>4
  <2> QED BY <2>1
<1>6. CASE 2 * pos < size
  <2>1. 2 * pos \in InUse /\ pos \in InUse
    BY <1>1, <1>6
  <2>2. CASE 2 * pos + 1 < size /\ cmp(e[2 * pos], e[2 * pos + 1])
    <3>1. m = 2 * pos + 1 /\ m \in InUse /\ m # 0 /\ m # pos
      BY <1>1, <1>4, <1>6, <2>2
    <3>2. PARENT(m) = pos
      BY <3>1, <1>1, ParentFacts
    <3>3. ~cmp(e[m], e[2 * pos]) /\ ~cmp(e[m], e[m])
      BY <2>1, <2>2, <3>1, <1>2, CmpOrder
    <3>4. ASSUME NEW k \in InUse \ {0}, PARENT(k) = pos
          PROVE  ~cmp(e[m], e[k])
      BY <3>1, <3>3, <3>4, <1>3
    <3>5. ASSUME ~SinksTo(m), NEW k \in InUse \ {0}, PARENT(k) = pos
          PROVE  ~cmp(e[pos], e[k])
      <4>1. ~cmp(e[pos], e[m])
        BY <3>1, <3>5 DEF SinksTo
      <4> QED BY <4>1, <3>1, <3>4, <3>5, <2>1, <1>2, CmpOrder
    <3> QED BY <3>1, <3>2, <3>4, <3>5, <2>1
  <2>3. CASE ~(2 * pos + 1 < size /\ cmp(e[2 * pos], e[2 * pos + 1]))
    <3>1. m = 2 * pos /\ m \in InUse /\ (m # 0 => m # pos)
      BY <1>1, <1>4, <1>6, <2>1, <2>3
    <3>2. PARENT(m) = pos
      BY <3>1, <1>1, ParentFacts
    <3>3. ~cmp(e[m], e[m])
      BY <3>1, <1>2, CmpOrder
    <3>4. ASSUME NEW k \in InUse \ {0}, PARENT(k) = pos
          PROVE  ~cmp(e[m], e[k])
      <4>1. k < size /\ (k = m \/ k = 2 * pos + 1)
        BY <3>1, <3>4, <1>2, <1>3
      <4> QED BY <4>1, <3>3, <2>3, <3>1
    <3>5. ASSUME ~SinksTo(m), NEW k \in InUse \ {0}, PARENT(k) = pos
          PROVE  ~cmp(e[pos], e[k])
      <4>1. CASE m = 0
        <5>1. pos = m
          BY <4>1, <3>1, <1>1
        <5> QED BY <5>1, <3>4, <3>5
      <4>2. CASE m # 0
        <5>1. ~cmp(e[pos], e[m])
          BY <3>5, <4>2 DEF SinksTo
        <5> QED BY <5>1, <3>1, <3>4, <3>5, <2>1, <1>2, CmpOrder
      <4> QED BY <4>1, <4>2
    <3> QED BY <3>1, <3>2, <3>4, <3>5, <2>1
  <2> QED BY <2>2, <2>3
<1> QED BY <1>1, <1>5, <1>6

LEMMA ChildUpInv == HeapInv /\ ChildUp => HeapInv'
<1> SUFFICES ASSUME HeapInv, ChildUp PROVE HeapInv'
  OBVIOUS
<1>1. PICK m : /\ m = has_child(pos) /\ SinksTo(m)
               /\ e' = [e EXCEPT ![pos] = e[m], ![m] = e[pos]]
               /\ pos' = m
  BY DEF ChildUp
<1>2. /\ op = "down" /\ op' = "down" /\ m # 0 /\ cmp(e[pos], e[m])
      /\ size' = size /\ alloc' = alloc /\ val' = val
      /\ size \in Nat /\ alloc \in Nat /\ size <= alloc /\ pos \in Nat
      /\ e \in [0..(alloc - 1) -> Elements \cup {Junk}]
  BY <1>1 DEF ChildUp, SinksTo, HeapInv, TypeOK
<1>3. /\ m \in InUse \ {0} /\ PARENT(m) = pos /\ pos \in InUse /\ pos # m
      /\ \A k \in InUse \ {0} : PARENT(k) = pos => ~cmp(e[m], e[k])
  BY <1>1, <1>2, HasChild
<1>4. InUse' = InUse /\ InUse = 0..(size - 1)
  BY <1>2 DEF InUse
<1>5. \A k \in InUse : /\ k \in Nat /\ k < size /\ e[k] \in Elements
                      /\ e'[k] = IF k = m THEN e[pos]
                                 ELSE IF k = pos THEN e[m] ELSE e[k]
  BY <1>1, <1>2, <1>3, <1>4 DEF HeapInv, CellsInv
<1>6. TypeOK'
  <2>1. e' \in [0..(alloc - 1) -> Elements \cup {Junk}]
    BY <1>1, <1>2, <1>3, <1>5
  <2>2. m \in 0..size
    BY <1>2, <1>3, <1>4
  <2> QED BY <2>1, <2>2, <1>1, <1>2 DEF TypeOK
<1>7. CellsInv'
  <2>1. \A j, k \in InUse : j # k => e[j] # e[k]
    BY DEF HeapInv, CellsInv
  <2> QED BY <2>1, <1>2, <1>3, <1>4, <1>5 DEF CellsInv
<1>8. OrderInv'
  <2> SUFFICES ASSUME NEW k \in InUse \ {0}, NEW p, p = PARENT(k)
               PROVE  /\ p # m => ~cmp(e'[p], e'[k])
                      /\ p = m => ~cmp(e'[PARENT(p)], e'[k])
    BY <1>1, <1>2, <1>4 DEF OrderInv
  <2>1. k \in Nat /\ k < size /\ p \in Nat /\ p < k /\ p \in InUse
    BY <1>2, <1>4, <1>5, ParentFacts
  <2>2. pos < m
    BY <1>2, <1>3, <1>5, ParentFacts
  <2>3. /\ p # pos => ~cmp(e[p], e[k])
        /\ p = pos /\ p # 0 => ~cmp(e[PARENT(p)], e[k])
    BY <1>2 DEF HeapInv, OrderInv
  <2>4. CASE k = pos
    <3>1. pos # 0 /\ p # m /\ p # pos
      BY <2>1, <2>2, <2>4, <1>2, <1>3, <1>5
    <3>2. ~cmp(e[PARENT(pos)], e[m])
      BY <3>1, <1>2, <1>3 DEF HeapInv, OrderInv
    <3> QED BY <3>1, <3>2, <2>1, <2>4, <1>3, <1>5
  <2>5. CASE k = m
    <3>1. p = pos /\ p # m
      BY <2>5, <1>3
    <3>2. ~cmp(e[m], e[pos])
      BY <1>2, <1>3, <1>5, CmpOrder
    <3> QED BY <3>1, <3>2, <2>5, <1>3, <1>5
  <2>6. CASE k # pos /\ k # m
    <3>1. e'[k] = e[k]
      BY <2>6, <1>5
    <3>2. p = pos => ~cmp(e[m], e[k])
      BY <1>3
    <3>3. p = m => e'[PARENT(p)] = e[m]
      BY <1>3, <1>5
    <3>4. e'[p] = IF p = m THEN e[pos] ELSE IF p = pos THEN e[m] ELSE e[p]
      BY <2>1, <1>5
    <3> QED BY <3>1, <3>2, <3>3, <3>4, <2>3, <1>3
  <2> QED BY <2>4, <2>5, <2>6
<1> QED BY <1>6, <1>7, <1>8 DEF HeapInv

LEMMA SettledInv == HeapInv /\ Settled => HeapInv'
<1> SUFFICES ASSUME HeapInv, Settled PROVE HeapInv'
  OBVIOUS
<1>1. /\ op = "down" /\ op' = "idle" /\ pos' = 0 /\ ~SinksTo(has_child(pos))
      /\ e' = e /\ size' = size /\ alloc' = alloc /\ val' = val
      /\ size \in Nat
  BY DEF Settled, HeapInv, TypeOK
<1>2. InUse' = InUse
  BY <1>1 DEF InUse
<1>3. TypeOK'
  BY <1>1 DEF TypeOK, HeapInv
<1>4. CellsInv'
  BY <1>1, <1>2 DEF CellsInv, HeapInv
<1>5. \A k \in InUse \ {0} : PARENT(k) = pos => ~cmp(e[pos], e[k])
  BY <1>1, HasChild
<1>6. \A k \in InUse \ {0} : PARENT(k) # pos => ~cmp(e[PARENT(k)], e[k])
  BY DEF HeapInv, OrderInv
<1>7. OrderInv'
  BY <1>1, <1>2, <1>5, <1>6 DEF OrderInv
<1> QED BY <1>3, <1>4, <1>7 DEF HeapInv

\* The heap keeps its invariant through every call and every iteration.
THEOREM HeapInvariant == Spec => []HeapInv
<1>1. HeapInv /\ [Next]_queueVars => HeapInv'
  <2> SUFFICES ASSUME HeapInv, [Next]_queueVars PROVE HeapInv'
    OBVIOUS
  <2>1. CASE UNCHANGED queueVars
    BY <2>1 DEF queueVars, HeapInv, TypeOK, CellsInv, OrderInv, InUse
  <2>2. CASE Next
    BY <2>2, PushInv, ParentDownInv, InsertInv, PopInv, ChildUpInv, SettledInv
       DEF Next
  <2> QED BY <2>1, <2>2
<1> QED BY <1>1, InitInv, PTL DEF Spec

-----------------------------------------------------------------------------
\* Every set of naturals that is not empty has a least member.
LEMMA LeastNatural ==
  ASSUME NEW S, S \subseteq Nat, S # {}
  PROVE  \E m \in S : \A n \in S : m <= n
<1>1. PICK m \in S : \A n \in S : ~(<<n, m>> \in OpToRel(<, Nat))
  BY NatLessThanWellFounded, WFMin
<1>2. \A n \in S : ~(n < m)
  BY <1>1 DEF OpToRel
<1> QED BY <1>2

\* Heap order makes the root minimal: a smallest index at which an element
\* were smaller than the root would have a parent that is not.
LEMMA RootIsMinimal == HeapInv => PeekIsMinimal
<1> SUFFICES ASSUME HeapInv, op = "idle",
                    NEW k0 \in 0..(size - 1), cmp(e[0], e[k0])
             PROVE  FALSE
  BY DEF PeekIsMinimal
<1>1. size \in Nat /\ InUse = 0..(size - 1)
  BY DEF HeapInv, TypeOK, InUse
<1> DEFINE Smaller == {k \in InUse : cmp(e[0], e[k])}
<1>2. k0 \in Smaller /\ Smaller \subseteq Nat
  BY <1>1
<1>3. PICK k \in Smaller : \A n \in Smaller : k <= n
  BY <1>2, LeastNatural
<1>4. \A n \in InUse : n \in Nat /\ e[n] \in Elements
  BY <1>1 DEF HeapInv, CellsInv
<1>5. k # 0
  BY <1>4, CmpOrder
<1>6. PARENT(k) \in Nat /\ PARENT(k) < k
  BY <1>4, <1>5, ParentFacts
<1>7. PARENT(k) \in InUse
  BY <1>1, <1>6
<1>8. PARENT(k) \notin Smaller
  BY <1>3, <1>4, <1>6
<1>9. ~cmp(e[0], e[PARENT(k)])
  BY <1>7, <1>8
<1>10. ~cmp(e[PARENT(k)], e[k])
  BY <1>5 DEF HeapInv, OrderInv
<1>11. 0 \in InUse
  BY <1>1
<1> QED BY <1>4, <1>7, <1>9, <1>10, <1>11, CmpOrder

\* Whatever was pushed and popped, peek returns an element that no other in
\* the queue is smaller than.
THEOREM PeekMinimal == Spec => []PeekIsMinimal
  BY HeapInvariant, RootIsMinimal, PTL

-----------------------------------------------------------------------------
\* Each step of a call is a step of the abstract queue or leaves it as it is.
LEMMA PushImplements == HeapInv /\ Push => PQ!PQPush
<1> SUFFICES ASSUME HeapInv, Push PROVE PQ!PQPush
  OBVIOUS
<1>1. PICK v \in Elements \ Queued : val' = v
  BY DEF Push
<1>2. /\ op = "idle" /\ op' = "up" /\ pos' = size /\ size' = size + 1
      /\ size \in Nat /\ alloc \in Nat /\ size <= alloc
  BY DEF Push, HeapInv, TypeOK
<1>3. InUse' = InUse /\ InUse = 0..(size - 1)
  BY <1>2 DEF InUse
<1>4. \A k \in InUse : e'[k] = e[k]
  BY <1>2, <1>3, MinQueueAssumption DEF Push, Grown, HeapInv, TypeOK
<1>5. Queued' = Queued \cup {v}
  BY <1>1, <1>2, <1>3, <1>4 DEF Queued
<1> QED BY <1>1, <1>5 DEF PQ!PQPush

LEMMA ParentDownImplements == HeapInv /\ ParentDown => Queued' = Queued
<1> SUFFICES ASSUME HeapInv, ParentDown PROVE Queued' = Queued
  OBVIOUS
<1> DEFINE q == PARENT(pos)
<1>1. /\ op = "up" /\ pos # 0 /\ op' = "up" /\ pos' = q
      /\ e' = [e EXCEPT ![pos] = e[q]]
      /\ size' = size /\ val' = val
      /\ size \in Nat /\ alloc \in Nat /\ size <= alloc
      /\ pos \in Nat /\ pos < size
      /\ e \in [0..(alloc - 1) -> Elements \cup {Junk}]
  BY DEF ParentDown, HeapInv, TypeOK
<1>2. q \in Nat /\ q < pos /\ q \in InUse /\ q # pos
  BY <1>1, ParentFacts DEF InUse
<1>3. InUse' = (InUse \ {q}) \cup {pos} /\ pos \notin InUse
  BY <1>1, <1>2 DEF InUse
<1>4. (\A k \in InUse : e'[k] = e[k]) /\ e'[pos] = e[q]
  BY <1>1, <1>2 DEF InUse
<1> QED BY <1>1, <1>2, <1>3, <1>4 DEF Queued

LEMMA InsertImplements == HeapInv /\ Insert => Queued' = Queued
<1> SUFFICES ASSUME HeapInv, Insert PROVE Queued' = Queued
  OBVIOUS
<1>1. /\ op = "up" /\ op' = "idle" /\ e' = [e EXCEPT ![pos] = val]
      /\ size' = size /\ size \in Nat /\ alloc \in Nat /\ size <= alloc
      /\ pos \in Nat /\ pos < size
      /\ e \in [0..(alloc - 1) -> Elements \cup {Junk}]
  BY DEF Insert, HeapInv, TypeOK
<1>2. InUse' = InUse \cup {pos} /\ pos \notin InUse
  BY <1>1 DEF InUse
<1>3. (\A k \in InUse : e'[k] = e[k]) /\ e'[pos] = val
  BY <1>1 DEF InUse
<1> QED BY <1>1, <1>2, <1>3 DEF Queued

LEMMA PopImplements == HeapInv /\ Pop => PQ!PQPop
<1> SUFFICES ASSUME HeapInv, Pop PROVE PQ!PQPop
  OBVIOUS
<1>1. /\ op = "idle" /\ op' = "down"
      /\ e' = [e EXCEPT ![0] = e[size - 1]]
      /\ size' = size - 1
      /\ size \in Nat /\ size > 0 /\ alloc \in Nat /\ size <= alloc
      /\ e \in [0..(alloc - 1) -> Elements \cup {Junk}]
  BY DEF Pop, HeapInv, TypeOK
<1>2. InUse = 0..(size - 1) /\ InUse' = 0..(size - 2)
  BY <1>1 DEF InUse
<1>3. /\ \A k \in InUse' : e'[k] = IF k = 0 THEN e[size - 1] ELSE e[k]
      /\ \A k \in InUse : k = size - 1 \/ k \in InUse'
      /\ \A k \in InUse' : k \in InUse /\ k # size - 1
      /\ size - 1 \in InUse /\ 0 \in InUse
      /\ size # 1 => 0 \in InUse'
      /\ size = 1 => InUse' = {} /\ InUse = {0}
  BY <1>1, <1>2
<1>4. Queued = {e[k] : k \in InUse} /\ Queued' = {e'[k] : k \in InUse'}
  BY <1>1 DEF Queued
<1>5. /\ \A k \in InUse : e[k] \in Elements
      /\ \A j, k \in InUse : j # k => e[j] # e[k]
  BY DEF HeapInv, CellsInv
<1>6. Queued' = Queued \ {e[0]}
  <2>1. CASE size = 1
    BY <2>1, <1>3, <1>4
  <2>2. CASE size # 1
    BY <2>2, <1>3, <1>4, <1>5
  <2> QED BY <2>1, <2>2
<1>7. e[0] \in Queued
  BY <1>3, <1>4
<1>8. \A y \in Queued : Priority[e[0]] <= Priority[y]
  BY <1>1, <1>2, <1>3, <1>4, <1>5, RootIsMinimal, CmpFacts DEF PeekIsMinimal
<1> QED BY <1>6, <1>7, <1>8 DEF PQ!PQPop, PQ!IsMinimal

LEMMA ChildUpImplements == HeapInv /\ ChildUp => Queued' = Queued
<1> SUFFICES ASSUME HeapInv, ChildUp PROVE Queued' = Queued
  OBVIOUS
<1>1. PICK m : /\ m = has_child(pos) /\ SinksTo(m)
               /\ e' = [e EXCEPT ![pos] = e[m], ![m] = e[pos]]
  BY DEF ChildUp
<1>2. /\ op = "down" /\ op' = "down" /\ m # 0 /\ size' = size
      /\ size \in Nat /\ alloc \in Nat /\ size <= alloc
      /\ e \in [0..(alloc - 1) -> Elements \cup {Junk}]
  BY <1>1 DEF ChildUp, SinksTo, HeapInv, TypeOK
<1>3. m \in InUse /\ pos \in InUse /\ pos # m
  BY <1>1, <1>2, HasChild
<1>4. InUse' = InUse /\ InUse = 0..(size - 1)
  BY <1>2 DEF InUse
<1>5. \A k \in InUse : e'[k] = IF k = m THEN e[pos]
                              ELSE IF k = pos THEN e[m] ELSE e[k]
  BY <1>1, <1>2, <1>3, <1>4
<1> QED BY <1>2, <1>3, <1>4, <1>5 DEF Queued

LEMMA SettledImplements == HeapInv /\ Settled => Queued' = Queued
  BY DEF Settled, Queued, InUse

\* The heap implements the priority queue: a pop takes a minimal element, and
\* no call loses an element or holds one twice.
THEOREM HeapImplementsQueue == Spec => ImplementsQueue
<1>1. Init => PQ!PQInit
  BY DEF Init, PQ!PQInit, Queued, InUse
<1>2. HeapInv /\ [Next]_queueVars => [PQ!PQNext]_Queued
  <2> SUFFICES ASSUME HeapInv, [Next]_queueVars PROVE [PQ!PQNext]_Queued
    OBVIOUS
  <2>1. CASE UNCHANGED queueVars
    BY <2>1 DEF queueVars, Queued, InUse
  <2>2. CASE Next
    BY <2>2, PushImplements, ParentDownImplements, InsertImplements,
       PopImplements, ChildUpImplements, SettledImplements
       DEF Next, PQ!PQNext
  <2> QED BY <2>1, <2>2
<1> QED BY <1>1, <1>2, HeapInvariant, PTL
        DEF Spec, ImplementsQueue, PQ!PQSpec
=============================================================================
