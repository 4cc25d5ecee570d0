----------------------- MODULE RecurrentMemory_proofs -----------------------
(***************************************************************************)
(* Each sequence of a recurrent model goes on from the state of its own    *)
(* tokens, for any number of cells, sequences and snapshots.               *)
(*                                                                         *)
(* find_slot() works in three steps, and a predicate says what each of     *)
(* them leaves: Claimed, after a cell was claimed for each sequence of the *)
(* ubatch; LaidOut, after these were swapped to lie side by side; Found,   *)
(* after the sources were staged.  LEMMA FindSlotFinds joins them.  The    *)
(* rest is an invariant of the cells (Sound, TypeInv), that any caller     *)
(* keeps, and one of the rows (Stated, StateInv), for which callers have   *)
(* to heed all duties.                                                     *)
(***************************************************************************)
EXTENDS RecurrentMemory, SequenceTheorems, FiniteSetTheorems, TLAPS

-----------------------------------------------------------------------------
(* Numbers, finite sets, recursion.                                        *)

\* A set of naturals that is not empty has a least element.
LEMMA MinExists ==
    ASSUME NEW S \in SUBSET Nat, S # {}
    PROVE  Min(S) \in S /\ \A x \in S : Min(S) <= x
<1> DEFINE R == {ss \in Nat \X Nat : ss[1] < ss[2]}
<1>1. IsWellFoundedOn(R, Nat)
    BY NatLessThanWellFounded DEF OpToRel
<1>2. PICK x \in S : \A y \in S : ~(<<y, x>> \in R)
    <2> HIDE DEF R
    <2> QED BY <1>1, WFMin
<1>3. ASSUME NEW y \in S PROVE x <= y
    <2>1. <<y, x>> \in Nat \X Nat /\ ~(<<y, x>> \in R)
      BY <1>2
    <2>2. ~(y < x)
      BY <2>1
    <2> QED BY <2>2
<1> QED BY <1>3 DEF Min

\* One with a bound has a greatest element.
LEMMA MaxExists ==
    ASSUME NEW b \in Nat, NEW S \in SUBSET (0 .. b), S # {}
    PROVE  Max(S) \in S /\ \A x \in S : Max(S) >= x
<1> DEFINE D == {d \in Nat : b - d \in S}
<1>1. PICK x \in S : TRUE
    OBVIOUS
<1>2. b - x \in Nat /\ b - (b - x) = x
    OBVIOUS
<1>3. D \in SUBSET Nat /\ D # {}
    BY <1>1, <1>2
<1>4. Min(D) \in D /\ \A y \in D : Min(D) <= y
    <2> HIDE DEF D
    <2> QED BY <1>3, MinExists
<1>5. PICK d \in Nat : b - d \in S /\ \A y \in D : d <= y
    BY <1>4
<1>6. ASSUME NEW y \in S PROVE b - d >= y
    <2>1. b - y \in Nat /\ b - (b - y) = y
      OBVIOUS
    <2>2. b - y \in D
      BY <2>1
    <2>3. d <= b - y
      BY <1>5, <2>2
    <2> QED BY <2>1, <2>3
<1> QED BY <1>5, <1>6 DEF Max

\* A set with 0 and with the successor of each of its elements below n has all of 0 .. n.
LEMMA Steps ==
    ASSUME NEW n \in Nat, NEW B, 0 \in B,
           \A k \in 1 .. n : k - 1 \in B => k \in B
    PROVE  \A k \in 0 .. n : k \in B
<1> DEFINE C == (0 .. n) \ B
<1> SUFFICES ASSUME C # {} PROVE FALSE
    OBVIOUS
<1>1. Min(C) \in C /\ \A x \in C : Min(C) <= x
    BY MinExists
<1> DEFINE k == Min(C)
<1>2. k \in 1 .. n /\ k - 1 \in 0 .. n /\ ~(k <= k - 1)
    BY <1>1
<1>3. k - 1 \in B
    BY <1>1, <1>2
<1> QED BY <1>1, <1>2, <1>3

\* f starts at a and goes on by the steps st.
Runs(f, n, a, st) == f = [k \in 0 .. n |-> IF k = 0 THEN a ELSE st[k][f[k - 1]]]

\* Steps that keep to P define a function that does.
LEMMA RunsExist ==
    ASSUME NEW n \in Nat, NEW a, NEW st, NEW P, <<0, a>> \in P,
           \A k \in 1 .. n : \A x : <<k - 1, x>> \in P => <<k, st[k][x]>> \in P
    PROVE  \E f : Runs(f, n, a, st) /\ \A k \in 0 .. n : <<k, f[k]>> \in P
<1> DEFINE Good(m, f) == Runs(f, m, a, st) /\ \A k \in 0 .. m : <<k, f[k]>> \in P
           B == {m \in 0 .. n : \E f : Good(m, f)}
<1>1. 0 \in B
    <2> DEFINE f == [k \in 0 .. 0 |-> a]
    <2>1. Good(0, f)
      BY DEF Runs
    <2> HIDE DEF f
    <2> QED BY <2>1
<1>2. ASSUME NEW m \in 1 .. n, m - 1 \in B PROVE m \in B
    <2>1. PICK f : Good(m - 1, f)
      BY <1>2
    <2> DEFINE v == st[m][f[m - 1]]
               g == [k \in 0 .. m |-> IF k = m THEN v ELSE f[k]]
    <2>2. f = [k \in 0 .. m - 1 |-> IF k = 0 THEN a ELSE st[k][f[k - 1]]]
      BY <2>1 DEF Runs
    <2>3. <<m, v>> \in P
      <3>1. m - 1 \in 0 .. m - 1
        OBVIOUS
      <3> QED BY <2>1, <3>1
    <2> HIDE DEF v
    <2>4. ASSUME NEW k \in 0 .. m
          PROVE  <<k, g[k]>> \in P /\ g[k] = IF k = 0 THEN a ELSE st[k][g[k - 1]]
      <3>1. CASE k = m
        BY <2>3, <3>1 DEF v
      <3>2. CASE k # m
        <4>1. k \in 0 .. m - 1 /\ g[k] = f[k] /\ (k # 0 => g[k - 1] = f[k - 1])
          BY <3>2
        <4>2. f[k] = IF k = 0 THEN a ELSE st[k][f[k - 1]]
          BY <2>2, <4>1
        <4> QED BY <2>1, <4>1, <4>2
      <3> QED BY <3>1, <3>2
    <2>5. Runs(g, m, a, st)
      <3>1. g = [k \in 0 .. m |-> g[k]]
        OBVIOUS
      <3> HIDE DEF g
      <3> QED BY <2>4, <3>1 DEF Runs
    <2>6. Good(m, g)
      <3> HIDE DEF g
      <3> QED BY <2>4, <2>5
    <2> HIDE DEF Good
    <2> QED BY <2>6
<1>3. \A m \in 1 .. n : m - 1 \in B => m \in B
    BY <1>2
<1>4. n \in B
    <2> HIDE DEF B
    <2> QED BY <1>1, <1>3, Steps
<1> QED BY <1>4

\* The images of a finite set are no more than its elements.
LEMMA ImageCardinality ==
    ASSUME NEW K, IsFiniteSet(K), NEW f, NEW T, T = {f[d] : d \in K}
    PROVE  IsFiniteSet(T) /\ Cardinality(T) <= Cardinality(K)
<1> DEFINE g == [d \in K |-> f[d]]
<1>1. g \in Surjection(K, T)
    BY DEF Surjection
<1> HIDE DEF g
<1> QED BY <1>1, FS_Surjection

\* 0 .. n - 1 has no more than n elements.
LEMMA CellCount == IsFiniteSet(Idx) /\ Cardinality(Idx) = NSeq
<1>1. NSeq \in Nat \ {0}
    BY SizeAssumption
<1> DEFINE m == NSeq - 1
<1>2. m \in Int /\ 0 \in Int /\ ~(0 > m) /\ m - 0 + 1 = NSeq
    BY <1>1
<1>3. Idx = 0 .. m
    BY DEF Idx
<1> HIDE DEF m
<1> QED BY <1>2, <1>3, FS_Interval

\* Cells that fewer than all sequences name leave one out.
LEMMA SomeCellLeft ==
    ASSUME NEW s \in SeqId, NEW f
    PROVE  \E i \in Idx : \A u \in SeqId \ {s} : f[u] # i
<1> DEFINE K == SeqId \ {s}
           T == {f[u] : u \in K}
<1>1. SeqId = Idx /\ NSeq \in Nat
    BY SizeAssumption DEF SeqId, Idx
<1>2. IsFiniteSet(K) /\ Cardinality(K) = NSeq - 1
    BY <1>1, CellCount, FS_RemoveElement
<1>3. IsFiniteSet(T) /\ Cardinality(T) <= NSeq - 1
    <2> HIDE DEF K
    <2> QED BY <1>2, ImageCardinality
<1>4. ~(Idx \subseteq T)
    <2> HIDE DEF T
    <2> SUFFICES ASSUME Idx \subseteq T PROVE FALSE
      OBVIOUS
    <2>1. Cardinality(Idx) <= Cardinality(T) /\ Cardinality(T) \in Nat
      BY <1>3, FS_Subset, FS_CardinalityType
    <2> QED BY <1>1, <1>3, <2>1, CellCount
<1> QED BY <1>4
-----------------------------------------------------------------------------
(* Cells and tails.                                                        *)

Cells == [pos : Int, src : -1 .. NSeq - 1, seq : SUBSET SeqId]
Memories(n) == [cells : [Idx -> Cells], tail : [SeqId -> -1 .. NSeq - 1],
                head : Idx, used : Int, rs : [SeqId -> 0 .. n]]

\* A sequence is in the cell that its tail names, and in no other.
Linked(m) == \A s \in SeqId, i \in Idx : s \in m.cells[i].seq <=> m.tail[s] = i

\* Between two ubatches a cell takes its state from its own row.
Sourced(m) == \A i \in Idx : /\ m.cells[i].src \in {-1, i}
                             /\ m.cells[i].seq # {} => m.cells[i].src = i

Sound(m) == /\ m \in Memories(nrs) /\ Linked(m) /\ Sourced(m)
            /\ m.used = Cardinality(Used(m.cells))

LEMMA Sizes == /\ NSeq \in Nat /\ NSeq > 0 /\ SeqId = Idx /\ Idx = 0 .. NSeq - 1
               /\ Idx \subseteq Nat /\ 0 \in Idx /\ -1 \notin Idx /\ Idx \subseteq -1 .. NSeq - 1
               /\ \A i \in -1 .. NSeq - 1 : (i < 0 <=> i = -1) /\ (i >= 0 <=> i \in Idx)
BY SizeAssumption DEF SeqId, Idx

LEMMA MemoryParts ==
    ASSUME NEW n, NEW m \in Memories(n)
    PROVE  /\ m.cells \in [Idx -> Cells] /\ m.tail \in [SeqId -> -1 .. NSeq - 1]
           /\ m.head \in Idx /\ m.used \in Int /\ m.rs \in [SeqId -> 0 .. n]
           /\ \A i \in Idx : /\ m.cells[i] \in Cells /\ m.cells[i].pos \in Int
                             /\ m.cells[i].src \in -1 .. NSeq - 1
                             /\ m.cells[i].seq \in SUBSET SeqId
           /\ \A s \in SeqId : m.tail[s] \in Idx \/ m.tail[s] = -1
<1>1. /\ m.cells \in [Idx -> Cells] /\ m.tail \in [SeqId -> -1 .. NSeq - 1]
      /\ m.head \in Idx /\ m.used \in Int /\ m.rs \in [SeqId -> 0 .. n]
    BY DEF Memories
<1>2. \A i \in Idx : /\ m.cells[i] \in Cells /\ m.cells[i].pos \in Int
                     /\ m.cells[i].src \in -1 .. NSeq - 1 /\ m.cells[i].seq \in SUBSET SeqId
    BY <1>1 DEF Cells
<1>3. \A s \in SeqId : m.tail[s] \in Idx \/ m.tail[s] = -1
    BY <1>1, Sizes
<1> QED BY <1>1, <1>2, <1>3

-----------------------------------------------------------------------------
(* find_slot(): a cell of its own for each sequence.                       *)

\* The cell of s is its own and goes on from the cell that s had, or from an empty one.
Own(m0, m, s) ==
    /\ m.tail[s] \in Idx /\ m.cells[m.tail[s]].seq \subseteq {s}
    /\ \A u \in SeqId \ {s} : m.tail[u] # m.tail[s]
    /\ IF m0.tail[s] >= 0 THEN m.cells[m.tail[s]].src = m0.tail[s]
       ELSE m.cells[m.tail[s]] = m0.cells[m.tail[s]] /\ m0.cells[m.tail[s]].seq = {}

\* A cell that none of Q has is as before, without those of Q that shared it.
Rest(m0, m, Q, i) ==
    /\ m.cells[i].pos = m0.cells[i].pos /\ m.cells[i].src = m0.cells[i].src
    /\ m.cells[i].seq = m0.cells[i].seq \ Q
    /\ m0.cells[i].seq # {} => m.cells[i].seq # {}

\* How far the search goes from cell n to cell i.
Dist(n, i) == IF i >= n THEN i - n ELSE i - n + NSeq

Empties(m) == {i \in Idx : m.cells[i].seq = {}}

\* The search comes to a cell that nobody has before it comes to one that was given away.
Ahead(x) ==
    \A i, j \in Empties(x.m) : (\E s \in SeqId : x.m.tail[s] = i) /\ (\A s \in SeqId : x.m.tail[s] # j)
                                  => Dist(x.next, j) < Dist(x.next, i)

\* Those of Q have cells of their own.
Claimed(m0, Q, x) ==
    /\ x.next \in Idx /\ x.ok = TRUE
    /\ x.m \in Memories(nrs) /\ x.m.rs = m0.rs
    /\ \A s \in SeqId, i \in Idx : s \in x.m.cells[i].seq => x.m.tail[s] = i
    /\ \A s \in SeqId \ Q : x.m.tail[s] = m0.tail[s]
    /\ \A s \in Q : Own(m0, x.m, s)
    /\ \A i \in Idx : (\A s \in Q : x.m.tail[s] # i) => Rest(m0, x.m, Q, i)
    /\ Ahead(x)

\* The first empty cell is the nearest.
LEMMA NextEmptyNearest ==
    ASSUME NEW c, NEW n \in Idx, \E j \in Idx : c[j].seq = {}
    PROVE  /\ NextEmpty(c, n) \in Idx /\ c[NextEmpty(c, n)].seq = {}
           /\ \A j \in Idx : c[j].seq = {} => Dist(n, NextEmpty(c, n)) <= Dist(n, j)
<1> DEFINE empty == Idx \ Used(c)
           ahead == {j \in empty : j >= n}
<1>1. /\ empty \in SUBSET Nat /\ empty # {} /\ ahead \in SUBSET Nat
      /\ \A j \in Idx : j \in empty <=> c[j].seq = {}
    BY Sizes DEF Used
<1>2. NextEmpty(c, n) = IF ahead # {} THEN Min(ahead) ELSE Min(empty)
    BY <1>1 DEF NextEmpty
<1>3. /\ Min(empty) \in empty /\ \A j \in empty : Min(empty) <= j
      /\ ahead # {} => Min(ahead) \in ahead /\ \A j \in ahead : Min(ahead) <= j
    <2> HIDE DEF empty, ahead
    <2> QED BY <1>1, MinExists
<1>4. \A j \in ahead : j \in empty /\ j >= n
    OBVIOUS
<1>5. \A j \in empty : j >= n => j \in ahead
    OBVIOUS
<1>6. \A j \in empty : j \in Idx
    OBVIOUS
<1>7. \A j \in Idx : j \in Nat /\ j < NSeq
    BY Sizes
<1> HIDE DEF empty, ahead
<1>8. CASE ahead # {}
    <2>1. PICK e : e = NextEmpty(c, n)
      OBVIOUS
    <2>2. e \in ahead /\ e \in empty /\ e \in Idx /\ e >= n /\ \A j \in ahead : e <= j
      BY <1>2, <1>3, <1>4, <1>6, <1>8, <2>1
    <2>3. ASSUME NEW j \in Idx, c[j].seq = {} PROVE Dist(n, e) <= Dist(n, j)
      <3>1. j >= n => e <= j
        BY <1>1, <1>5, <2>2, <2>3
      <3> QED BY <1>7, <2>2, <3>1, Sizes DEF Dist
    <2> QED BY <1>1, <2>1, <2>2, <2>3
<1>9. CASE ahead = {}
    <2>1. PICK e : e = NextEmpty(c, n)
      OBVIOUS
    <2>2. e \in empty /\ e \in Idx /\ ~(e >= n) /\ \A j \in empty : e <= j /\ ~(j >= n)
      BY <1>2, <1>3, <1>5, <1>6, <1>9, <2>1
    <2>3. ASSUME NEW j \in Idx, c[j].seq = {} PROVE Dist(n, e) <= Dist(n, j)
      <3>1. e <= j /\ ~(j >= n)
        BY <1>1, <2>2, <2>3
      <3> QED BY <1>7, <2>2, <3>1, Sizes DEF Dist
    <2> QED BY <1>1, <2>1, <2>2, <2>3
<1> QED BY <1>8, <1>9

\* Behind the cell that was found, the others come in the same order, and that one last.
LEMMA DistNext ==
    ASSUME NEW n \in Idx, NEW e \in Idx, NEW n2, n2 = IF e + 1 < NSeq THEN e + 1 ELSE 0
    PROVE  /\ n2 \in Idx
           /\ \A i, j \in Idx : Dist(n, e) < Dist(n, j) /\ Dist(n, j) < Dist(n, i)
                                   => Dist(n2, j) < Dist(n2, i)
           /\ \A j \in Idx : Dist(n, e) < Dist(n, j) => Dist(n2, j) < Dist(n2, e)
           /\ \A i, j \in Idx : Dist(n, i) <= Dist(n, j) /\ Dist(n, j) <= Dist(n, i) => i = j
<1>1. \A i \in Idx : i \in Nat /\ i < NSeq
    BY Sizes
<1>2. n2 \in Idx
    BY <1>1, Sizes
<1> QED BY <1>1, <1>2, Sizes DEF Dist

\* The cell of s, which is not claimed yet, is that of m0 without those of Q.
Unclaimed(m0, Q, x, s) ==
    /\ x.m.tail[s] = m0.tail[s]
    /\ m0.tail[s] \in Idx => /\ \A u \in Q : x.m.tail[u] # m0.tail[s]
                             /\ Rest(m0, x.m, Q, m0.tail[s])
                             /\ s \in x.m.cells[m0.tail[s]].seq
                             /\ x.m.cells[m0.tail[s]].src = m0.tail[s]

\* The search ends at e, which is empty and nobody's.
Nearest(m0, x, e) ==
    /\ e \in Idx /\ x.m.cells[e].seq = {} /\ \A u \in SeqId : x.m.tail[u] # e
    /\ \A j \in Empties(x.m) : j # e => Dist(x.next, e) < Dist(x.next, j)
    /\ x.m.cells[e] = m0.cells[e]

\* The cell of a sequence that has not been claimed for.
LEMMA UnclaimedCell ==
    ASSUME NEW m0, Sound(m0), NEW Q \in SUBSET SeqId, NEW x, Claimed(m0, Q, x), NEW s \in SeqId \ Q
    PROVE  Unclaimed(m0, Q, x, s)
<1>1. x.m.tail[s] = m0.tail[s]
    BY DEF Claimed
<1>2. ASSUME m0.tail[s] \in Idx
      PROVE  /\ \A u \in Q : x.m.tail[u] # m0.tail[s]
             /\ Rest(m0, x.m, Q, m0.tail[s])
             /\ s \in x.m.cells[m0.tail[s]].seq
             /\ x.m.cells[m0.tail[s]].src = m0.tail[s]
    <2>1. \A u \in Q : x.m.tail[u] # m0.tail[s]
      BY <1>1 DEF Claimed, Own
    <2>2. Rest(m0, x.m, Q, m0.tail[s])
      BY <1>2, <2>1 DEF Claimed
    <2>3. s \in m0.cells[m0.tail[s]].seq /\ m0.cells[m0.tail[s]].src = m0.tail[s]
      BY <1>2 DEF Sound, Linked, Sourced
    <2> QED BY <2>1, <2>2, <2>3 DEF Rest
<1> QED BY <1>1, <1>2 DEF Unclaimed

\* One that is not alone in its cell, or has none, finds an empty cell that nobody has.
LEMMA FreeCell ==
    ASSUME NEW m0, Sound(m0), NEW Q \in SUBSET SeqId, NEW x, Claimed(m0, Q, x), NEW s \in SeqId \ Q,
           m0.tail[s] \in Idx => x.m.cells[m0.tail[s]].seq # {s},
           NEW e, e = NextEmpty(x.m.cells, x.next)
    PROVE  Nearest(m0, x, e)
<1>1. /\ x.m \in Memories(nrs) /\ x.next \in Idx /\ m0 \in Memories(nrs)
      /\ \A u \in SeqId, i \in Idx : u \in x.m.cells[i].seq => x.m.tail[u] = i
    BY DEF Claimed, Sound
<1>2. PICK i \in Idx : \A u \in SeqId \ {s} : x.m.tail[u] # i
    <2>1. \E i \in Idx : \A u \in SeqId \ {s} : x.m.tail[u] # i
      BY SomeCellLeft
    <2> QED BY <2>1
<1>u. Unclaimed(m0, Q, x, s)
    BY UnclaimedCell
<1>3. x.m.tail[s] = m0.tail[s]
    BY <1>u DEF Unclaimed
<1>4. x.m.cells[i].seq = {}
    <2>1. x.m.cells[i].seq \subseteq {s}
      BY <1>1, <1>2, MemoryParts
    <2>2. s \in x.m.cells[i].seq => m0.tail[s] = i
      BY <1>1, <1>3
    <2> QED BY <2>1, <2>2
<1>5. x.m.tail[s] # i
    <2> SUFFICES ASSUME x.m.tail[s] = i PROVE FALSE
      OBVIOUS
    <2>1. s \in x.m.cells[i].seq
      BY <1>3, <1>u DEF Unclaimed
    <2> QED BY <1>4, <2>1
<1>6. /\ e \in Idx /\ x.m.cells[e].seq = {}
      /\ \A j \in Idx : x.m.cells[j].seq = {} => Dist(x.next, e) <= Dist(x.next, j)
    BY <1>1, <1>4, NextEmptyNearest
<1>7. \A a \in Idx : Dist(x.next, a) \in Int
    BY <1>1, Sizes DEF Dist
<1>8. \A u \in SeqId : x.m.tail[u] # e
    <2> SUFFICES ASSUME NEW u \in SeqId, x.m.tail[u] = e PROVE FALSE
      OBVIOUS
    <2>1. Dist(x.next, i) < Dist(x.next, e)
      BY <1>2, <1>4, <1>5, <1>6 DEF Claimed, Ahead, Empties
    <2> QED BY <1>4, <1>6, <1>7, <2>1
<1>9. ASSUME NEW j \in Empties(x.m), j # e PROVE Dist(x.next, e) < Dist(x.next, j)
    <2>1. j \in Idx /\ Dist(x.next, e) <= Dist(x.next, j)
      BY <1>6 DEF Empties
    <2>2. ~(Dist(x.next, j) <= Dist(x.next, e))
      BY <1>1, <1>6, <1>9, <2>1, DistNext
    <2> QED BY <1>6, <1>7, <2>1, <2>2
<1>10. x.m.cells[e] = m0.cells[e]
    <2>1. Rest(m0, x.m, Q, e)
      BY <1>6, <1>8 DEF Claimed
    <2>2. /\ x.m.cells[e].pos = m0.cells[e].pos /\ x.m.cells[e].src = m0.cells[e].src
          /\ x.m.cells[e].seq = m0.cells[e].seq
      BY <1>6, <2>1 DEF Rest
    <2>3. x.m.cells[e] \in Cells /\ m0.cells[e] \in Cells
      BY <1>1, <1>6, MemoryParts
    <2> QED BY <2>2, <2>3 DEF Cells
<1> QED BY <1>6, <1>8, <1>9, <1>10 DEF Nearest

\* s gets e, the nearest of the empty cells, which nobody had.
GivenAway(x, y, s, e) ==
    /\ x.next \in Idx /\ s \in SeqId /\ e \in Empties(x.m) /\ \A u \in SeqId : x.m.tail[u] # e
    /\ \A j \in Empties(x.m) : j # e => Dist(x.next, e) < Dist(x.next, j)
    /\ y.next = IF e + 1 < NSeq THEN e + 1 ELSE 0
    /\ Empties(y.m) \subseteq Empties(x.m)
    /\ y.m.tail[s] = e /\ \A u \in SeqId \ {s} : y.m.tail[u] = x.m.tail[u]
    /\ x.m.tail[s] \notin Empties(y.m)

\* The empty cells stay in order when e is given away.
LEMMA AheadNext ==
    ASSUME NEW x, NEW y, NEW s, NEW e, Ahead(x), GivenAway(x, y, s, e)
    PROVE  y.next \in Idx /\ Ahead(y)
<1>0. /\ x.next \in Idx /\ s \in SeqId /\ e \in Empties(x.m) /\ \A u \in SeqId : x.m.tail[u] # e
      /\ \A j \in Empties(x.m) : j # e => Dist(x.next, e) < Dist(x.next, j)
      /\ y.next = IF e + 1 < NSeq THEN e + 1 ELSE 0
      /\ Empties(y.m) \subseteq Empties(x.m)
      /\ y.m.tail[s] = e /\ \A u \in SeqId \ {s} : y.m.tail[u] = x.m.tail[u]
      /\ x.m.tail[s] \notin Empties(y.m)
    BY DEF GivenAway
<1>1. e \in Idx /\ Empties(x.m) \subseteq Idx
    BY <1>0 DEF Empties
<1>2. /\ y.next \in Idx
      /\ \A i, j \in Idx : Dist(x.next, e) < Dist(x.next, j) /\ Dist(x.next, j) < Dist(x.next, i)
                                   => Dist(y.next, j) < Dist(y.next, i)
      /\ \A j \in Idx : Dist(x.next, e) < Dist(x.next, j) => Dist(y.next, j) < Dist(y.next, e)
    BY <1>0, <1>1, DistNext
<1>3. ASSUME NEW i \in Empties(y.m), NEW j \in Empties(y.m),
             NEW u \in SeqId, y.m.tail[u] = i, \A v \in SeqId : y.m.tail[v] # j
      PROVE  Dist(y.next, j) < Dist(y.next, i)
    <2>1. i \in Empties(x.m) /\ j \in Empties(x.m) /\ j # e /\ i \in Idx /\ j \in Idx
      BY <1>0, <1>1, <1>3
    <2>2. \A v \in SeqId : x.m.tail[v] # j
      BY <1>0, <1>3
    <2>3. CASE i = e
      BY <1>0, <1>2, <2>1, <2>3
    <2>4. CASE i # e
      <3>1. u # s /\ x.m.tail[u] = i
        BY <1>0, <1>3, <2>4
      <3>2. Dist(x.next, j) < Dist(x.next, i)
        BY <2>1, <2>2, <3>1 DEF Ahead
      <3> QED BY <1>0, <1>2, <2>1, <3>2
    <2> QED BY <2>3, <2>4
<1> QED BY <1>2, <1>3 DEF Ahead

\* A sequence alone in its cell keeps it.
LEMMA ClaimKeeps ==
    ASSUME NEW m0, Sound(m0), NEW Q \in SUBSET SeqId, NEW x, Claimed(m0, Q, x), NEW s \in SeqId \ Q,
           m0.tail[s] \in Idx, x.m.cells[m0.tail[s]].seq = {s}
    PROVE  Claimed(m0, Q \cup {s}, x)
<1> DEFINE t == m0.tail[s]
<1>1. /\ x.m.tail[s] = t /\ \A u \in Q : x.m.tail[u] # t
      /\ Rest(m0, x.m, Q, t) /\ s \in x.m.cells[t].seq /\ x.m.cells[t].src = t
    <2>1. Unclaimed(m0, Q, x, s)
      BY UnclaimedCell
    <2> QED BY <2>1 DEF Unclaimed
<1>2. \A u \in SeqId \ {s} : x.m.tail[u] # t
    <2> SUFFICES ASSUME NEW u \in SeqId \ {s}, x.m.tail[u] = t PROVE FALSE
      OBVIOUS
    <2>1. u \notin Q
      BY <1>1
    <2>2. m0.tail[u] = t
      BY <2>1 DEF Claimed
    <2>3. u \in m0.cells[t].seq
      BY <2>2 DEF Sound, Linked
    <2>4. u \in x.m.cells[t].seq
      BY <1>1, <2>1, <2>3 DEF Rest
    <2> QED BY <2>4
<1>3. Own(m0, x.m, s)
    <2>1. t >= 0
      BY Sizes
    <2> QED BY <1>1, <1>2, <2>1 DEF Own
<1>4. ASSUME NEW i \in Idx, \A u \in Q \cup {s} : x.m.tail[u] # i PROVE Rest(m0, x.m, Q \cup {s}, i)
    <2>1. Rest(m0, x.m, Q, i)
      BY <1>4 DEF Claimed
    <2>2. s \notin m0.cells[i].seq
      BY <1>1, <1>4 DEF Sound, Linked
    <2> QED BY <2>1, <2>2 DEF Rest
<1> QED BY <1>3, <1>4 DEF Claimed

\* One that shares its cell moves to an empty one, with the source of its state.
LEMMA ClaimMoves ==
    ASSUME NEW m0, Sound(m0), NEW Q \in SUBSET SeqId, NEW x, Claimed(m0, Q, x), NEW s \in SeqId \ Q,
           m0.tail[s] \in Idx, x.m.cells[m0.tail[s]].seq # {s}
    PROVE  Claimed(m0, Q \cup {s}, Claim(x, s))
<1> DEFINE t == m0.tail[s]
           e == NextEmpty(x.m.cells, x.next)
           y == Claim(x, s)
<1>1. /\ x.m.tail[s] = t /\ \A u \in Q : x.m.tail[u] # t
      /\ Rest(m0, x.m, Q, t) /\ s \in x.m.cells[t].seq /\ x.m.cells[t].src = t
    <2>1. Unclaimed(m0, Q, x, s)
      BY UnclaimedCell
    <2> QED BY <2>1 DEF Unclaimed
<1>e. e = NextEmpty(x.m.cells, x.next)
    OBVIOUS
<1> HIDE DEF e
<1>2. /\ e \in Idx /\ x.m.cells[e].seq = {} /\ \A u \in SeqId : x.m.tail[u] # e
      /\ \A j \in Empties(x.m) : j # e => Dist(x.next, e) < Dist(x.next, j)
      /\ x.m.cells[e] = m0.cells[e]
    <2>1. Nearest(m0, x, e)
      BY <1>e, FreeCell
    <2> QED BY <2>1 DEF Nearest
<1> DEFINE c == [x.m.cells[t] EXCEPT !.seq = @ \ {s}]
           d == [x.m.cells[t] EXCEPT !.seq = {s}]
           cells == [[x.m.cells EXCEPT ![t] = c] EXCEPT ![e] = d]
           tail == [x.m.tail EXCEPT ![s] = e]
<1>3. t \in Idx /\ t >= 0 /\ e >= 0 /\ t # e /\ x.next \in Idx /\ x.ok = TRUE
    BY <1>1, <1>2, Sizes DEF Claimed
<1>4. /\ y.m = [x.m EXCEPT !.tail = tail, !.cells = cells]
      /\ y.next = IF e + 1 < NSeq THEN e + 1 ELSE 0
      /\ y.ok = TRUE
    <2>1. y = [next |-> IF e + 1 < NSeq THEN e + 1 ELSE 0,
               ok   |-> x.ok /\ e >= 0 /\ \A u \in SeqId : x.m.tail[u] # e,
               m    |-> [x.m EXCEPT !.tail[s] = e, !.cells[t].seq = @ \ {s},
                                    !.cells[e] = [x.m.cells[t] EXCEPT !.seq = {s}]]]
      <3>1. x.m.cells[x.m.tail[s]].seq # {s} /\ ~(x.m.tail[s] < 0)
        BY <1>1, <1>3, Sizes
      <3> QED BY <1>1, <3>1 DEF Claim, e
    <2>2. x.m \in Memories(nrs)
      BY DEF Claimed
    <2>3. [x.m EXCEPT !.tail[s] = e, !.cells[t].seq = @ \ {s},
                      !.cells[e] = [x.m.cells[t] EXCEPT !.seq = {s}]]
          = [x.m EXCEPT !.tail = tail, !.cells = cells]
      BY <2>2 DEF Memories
    <2> HIDE DEF y
    <2> QED BY <1>2, <1>3, <2>1, <2>3
<1> HIDE DEF y
<1>5. /\ x.m \in Memories(nrs) /\ x.m.cells \in [Idx -> Cells] /\ x.m.tail \in [SeqId -> -1 .. NSeq - 1]
      /\ \A i \in Idx : x.m.cells[i] \in Cells
    <2>1. x.m \in Memories(nrs)
      BY DEF Claimed
    <2> QED BY <2>1, MemoryParts
<1>6. /\ c \in Cells /\ d \in Cells /\ c.seq = x.m.cells[t].seq \ {s} /\ d.seq = {s}
      /\ d.src = t /\ c.src = t /\ c.pos = x.m.cells[t].pos
    BY <1>1, <1>5 DEF Cells
<1> HIDE DEF c, d
<1>7. /\ cells \in [Idx -> Cells] /\ tail \in [SeqId -> -1 .. NSeq - 1]
      /\ cells[e] = d /\ cells[t] = c /\ \A i \in Idx \ {e, t} : cells[i] = x.m.cells[i]
      /\ tail[s] = e /\ \A u \in SeqId \ {s} : tail[u] = x.m.tail[u]
    BY <1>2, <1>3, <1>5, <1>6, Sizes
<1> HIDE DEF cells, tail
<1>8. /\ y.m \in Memories(nrs) /\ y.m.rs = m0.rs /\ y.m.cells = cells /\ y.m.tail = tail
    <2>1. x.m.rs = m0.rs
      BY DEF Claimed
    <2>2. y.m = [cells |-> cells, tail |-> tail, head |-> x.m.head, used |-> x.m.used, rs |-> x.m.rs]
      BY <1>4, <1>5 DEF Memories
    <2> QED BY <1>5, <1>7, <2>1, <2>2 DEF Memories
<1>9. ASSUME NEW u \in SeqId, NEW i \in Idx, u \in cells[i].seq PROVE tail[u] = i
    <2>1. \A j \in Idx : u \in x.m.cells[j].seq => x.m.tail[u] = j
      BY DEF Claimed
    <2>2. CASE i = e
      BY <1>6, <1>7, <1>9, <2>2
    <2>3. CASE i = t
      BY <1>3, <1>6, <1>7, <1>9, <2>1, <2>3
    <2>4. CASE i # e /\ i # t
      BY <1>1, <1>7, <1>9, <2>1, <2>4
    <2> QED BY <2>2, <2>3, <2>4
<1>10. ASSUME NEW u \in SeqId \ (Q \cup {s}) PROVE tail[u] = m0.tail[u]
    BY <1>7 DEF Claimed
<1>11. ASSUME NEW u \in Q \cup {s} PROVE Own(m0, y.m, u)
    <2>1. CASE u = s
      <3>1. y.m.tail[s] = e /\ y.m.cells[e].seq = {s} /\ y.m.cells[e].src = t
        BY <1>6, <1>7, <1>8
      <3>2. \A v \in SeqId \ {s} : y.m.tail[v] # e
        BY <1>2, <1>7, <1>8
      <3> QED BY <1>2, <1>3, <2>1, <3>1, <3>2 DEF Own
    <2>2. CASE u # s
      <3>1. Own(m0, x.m, u) /\ u \in Q /\ u \in SeqId
        BY <2>2 DEF Claimed
      <3>2. /\ x.m.tail[u] # e /\ x.m.tail[u] # t /\ tail[u] = x.m.tail[u] /\ x.m.tail[u] \in Idx
        BY <1>1, <1>2, <1>7, <2>2, <3>1 DEF Own
      <3>3. cells[tail[u]] = x.m.cells[x.m.tail[u]]
        BY <1>7, <3>2
      <3>4. \A v \in SeqId \ {u} : tail[v] # tail[u]
        BY <1>7, <3>1, <3>2 DEF Own
      <3> QED BY <1>8, <3>1, <3>2, <3>3, <3>4 DEF Own
    <2> QED BY <2>1, <2>2
<1>12. ASSUME NEW i \in Idx, \A u \in Q \cup {s} : tail[u] # i PROVE Rest(m0, y.m, Q \cup {s}, i)
    <2>1. i # e /\ \A u \in Q : x.m.tail[u] # i
      BY <1>7, <1>12
    <2>2. Rest(m0, x.m, Q, i)
      BY <2>1 DEF Claimed
    <2>3. CASE i = t
      <3>1. c.seq # {}
        BY <1>1, <1>6
      <3> QED BY <1>1, <1>6, <1>7, <1>8, <2>2, <2>3, <3>1 DEF Rest
    <2>4. CASE i # t
      <3>1. s \notin m0.cells[i].seq
        BY <1>1, <2>4 DEF Sound, Linked
      <3> QED BY <1>7, <1>8, <2>1, <2>2, <2>4, <3>1 DEF Rest
    <2> QED BY <2>3, <2>4
<1>13. y.next \in Idx /\ Ahead(y)
    <2>1. c.seq # {}
      BY <1>1, <1>6
    <2>2. Empties(y.m) \subseteq Empties(x.m) /\ t \notin Empties(y.m) /\ e \in Empties(x.m)
      <3>1. e \in Empties(x.m)
        BY <1>2 DEF Empties
      <3>2. y.m.cells[t].seq # {} /\ y.m.cells[e].seq # {}
        BY <1>6, <1>7, <1>8, <2>1
      <3>3. \A i \in Idx \ {e, t} : y.m.cells[i] = x.m.cells[i]
        BY <1>7, <1>8
      <3> QED BY <3>1, <3>2, <3>3 DEF Empties
    <2>3. Ahead(x)
      BY DEF Claimed
    <2>4. /\ y.m.tail[s] = e /\ \A u \in SeqId \ {s} : y.m.tail[u] = x.m.tail[u]
          /\ x.m.tail[s] \notin Empties(y.m)
      BY <1>1, <1>7, <1>8, <2>2
    <2>5. GivenAway(x, y, s, e)
      BY <1>2, <1>3, <1>4, <2>2, <2>4 DEF GivenAway
    <2> QED BY <2>3, <2>5, AheadNext
<1> QED BY <1>4, <1>8, <1>9, <1>10, <1>11, <1>12, <1>13 DEF Claimed, y

\* One that has no cell gets an empty one.
LEMMA ClaimBegins ==
    ASSUME NEW m0, Sound(m0), NEW Q \in SUBSET SeqId, NEW x, Claimed(m0, Q, x), NEW s \in SeqId \ Q,
           m0.tail[s] = -1
    PROVE  Claimed(m0, Q \cup {s}, Claim(x, s))
<1> DEFINE e == NextEmpty(x.m.cells, x.next)
           y == Claim(x, s)
<1>1. x.m.tail[s] = -1 /\ x.next \in Idx /\ x.ok = TRUE
    <2>1. Unclaimed(m0, Q, x, s)
      BY UnclaimedCell
    <2> QED BY <2>1 DEF Claimed, Unclaimed
<1>e. e = NextEmpty(x.m.cells, x.next)
    OBVIOUS
<1> HIDE DEF e
<1>2. /\ e \in Idx /\ x.m.cells[e].seq = {} /\ \A u \in SeqId : x.m.tail[u] # e
      /\ \A j \in Empties(x.m) : j # e => Dist(x.next, e) < Dist(x.next, j)
      /\ x.m.cells[e] = m0.cells[e]
    <2>1. m0.tail[s] \notin Idx
      BY Sizes
    <2>2. Nearest(m0, x, e)
      BY <1>e, <2>1, FreeCell
    <2> QED BY <2>2 DEF Nearest
<1> DEFINE tail == [x.m.tail EXCEPT ![s] = e]
<1>3. e >= 0
    BY <1>2, Sizes
<1>4. /\ y.m = [x.m EXCEPT !.tail = tail]
      /\ y.next = IF e + 1 < NSeq THEN e + 1 ELSE 0
      /\ y.ok = TRUE
    <2>1. y = [next |-> IF e + 1 < NSeq THEN e + 1 ELSE 0,
               ok   |-> x.ok /\ e >= 0 /\ \A u \in SeqId : x.m.tail[u] # e,
               m    |-> [x.m EXCEPT !.tail[s] = e]]
      BY <1>1 DEF Claim, e
    <2> HIDE DEF y
    <2> QED BY <1>1, <1>2, <1>3, <2>1
<1> HIDE DEF y
<1>5. /\ x.m \in Memories(nrs) /\ x.m.cells \in [Idx -> Cells] /\ x.m.tail \in [SeqId -> -1 .. NSeq - 1]
      /\ x.m.rs = m0.rs
    <2>1. x.m \in Memories(nrs) /\ x.m.rs = m0.rs
      BY DEF Claimed
    <2> QED BY <2>1, MemoryParts
<1>6. /\ tail \in [SeqId -> -1 .. NSeq - 1]
      /\ tail[s] = e /\ \A u \in SeqId \ {s} : tail[u] = x.m.tail[u]
    BY <1>2, <1>5, Sizes
<1> HIDE DEF tail
<1>7. /\ y.m \in Memories(nrs) /\ y.m.rs = m0.rs /\ y.m.cells = x.m.cells /\ y.m.tail = tail
    BY <1>4, <1>5, <1>6 DEF Memories
<1>8. ASSUME NEW u \in SeqId, NEW i \in Idx, u \in x.m.cells[i].seq PROVE tail[u] = i
    <2>1. x.m.tail[u] = i
      BY <1>8 DEF Claimed
    <2> QED BY <1>1, <1>6, <2>1, Sizes
<1>9. ASSUME NEW u \in SeqId \ (Q \cup {s}) PROVE tail[u] = m0.tail[u]
    BY <1>6 DEF Claimed
<1>10. ASSUME NEW u \in Q \cup {s} PROVE Own(m0, y.m, u)
    <2>1. CASE u = s
      <3>1. ~(m0.tail[s] >= 0)
        OBVIOUS
      <3> QED BY <1>2, <1>6, <1>7, <2>1, <3>1 DEF Own
    <2>2. CASE u # s
      <3>1. Own(m0, x.m, u) /\ u \in Q /\ u \in SeqId
        BY <2>2 DEF Claimed
      <3>2. tail[u] = x.m.tail[u] /\ x.m.tail[u] # e
        BY <1>2, <1>6, <2>2, <3>1
      <3>3. \A v \in SeqId \ {u} : tail[v] # tail[u]
        BY <1>6, <3>1, <3>2 DEF Own
      <3> QED BY <1>7, <3>1, <3>2, <3>3 DEF Own
    <2> QED BY <2>1, <2>2
<1>11. ASSUME NEW i \in Idx, \A u \in Q \cup {s} : tail[u] # i PROVE Rest(m0, y.m, Q \cup {s}, i)
    <2>1. \A u \in Q : x.m.tail[u] # i
      BY <1>6, <1>11
    <2>2. Rest(m0, x.m, Q, i)
      BY <2>1 DEF Claimed
    <2>3. s \notin m0.cells[i].seq
      BY Sizes DEF Sound, Linked
    <2> QED BY <1>7, <2>2, <2>3 DEF Rest
<1>12. y.next \in Idx /\ Ahead(y)
    <2>1. Empties(y.m) \subseteq Empties(x.m) /\ e \in Empties(x.m) /\ Empties(y.m) \subseteq Idx
      BY <1>2, <1>7 DEF Empties
    <2>2. Ahead(x) /\ x.m.tail[s] \notin Empties(y.m)
      BY <1>1, <2>1, Sizes DEF Claimed
    <2>3. y.m.tail[s] = e /\ \A u \in SeqId \ {s} : y.m.tail[u] = x.m.tail[u]
      BY <1>6, <1>7
    <2>4. GivenAway(x, y, s, e)
      BY <1>1, <1>2, <1>4, <2>1, <2>2, <2>3 DEF GivenAway
    <2> QED BY <2>2, <2>4, AheadNext
<1> QED BY <1>4, <1>7, <1>8, <1>9, <1>10, <1>11, <1>12 DEF Claimed, y

\* One more sequence has a cell of its own.
LEMMA ClaimStep ==
    ASSUME NEW m0, Sound(m0), NEW Q \in SUBSET SeqId, NEW x, Claimed(m0, Q, x), NEW s \in SeqId \ Q
    PROVE  Claimed(m0, Q \cup {s}, Claim(x, s))
<1>1. x.m.tail[s] = m0.tail[s] /\ (m0.tail[s] \in Idx \/ m0.tail[s] = -1)
    <2>1. m0 \in Memories(nrs)
      BY DEF Sound
    <2>2. Unclaimed(m0, Q, x, s)
      BY UnclaimedCell
    <2> QED BY <2>1, <2>2, MemoryParts DEF Unclaimed
<1>2. CASE m0.tail[s] = -1
    BY <1>2, ClaimBegins
<1>3. CASE m0.tail[s] \in Idx /\ x.m.cells[m0.tail[s]].seq # {s}
    BY <1>3, ClaimMoves
<1>4. CASE m0.tail[s] \in Idx /\ x.m.cells[m0.tail[s]].seq = {s}
    <2>1. Claim(x, s) = x
      BY <1>1, <1>4, Sizes DEF Claim
    <2> QED BY <1>4, <2>1, ClaimKeeps
<1> QED BY <1>1, <1>2, <1>3, <1>4

\* The sequences of a ubatch.
Lists == {S \in Seq(SeqId) : Len(S) > 0 /\ \A i, j \in 1 .. Len(S) : i # j => S[i] # S[j]}

LEMMA ListParts ==
    ASSUME NEW S \in Lists
    PROVE  /\ S \in Seq(SeqId) /\ Len(S) \in Nat /\ Len(S) > 0 /\ DOMAIN S = 1 .. Len(S)
           /\ \A k \in 1 .. Len(S) : S[k] \in SeqId
           /\ Range(S) = {S[k] : k \in 1 .. Len(S)} /\ Range(S) \subseteq SeqId
           /\ \A i, j \in 1 .. Len(S) : i # j => S[i] # S[j]
<1>1. S \in Seq(SeqId) /\ Len(S) > 0 /\ \A i, j \in 1 .. Len(S) : i # j => S[i] # S[j]
    BY DEF Lists
<1>2. Len(S) \in Nat /\ DOMAIN S = 1 .. Len(S) /\ \A k \in 1 .. Len(S) : S[k] \in SeqId
    BY <1>1, ElementOfSeq, LenProperties
<1>3. Range(S) = {S[k] : k \in 1 .. Len(S)}
    BY <1>2 DEF Range
<1>4. Range(S) \subseteq SeqId
    BY <1>2, <1>3
<1> QED BY <1>1, <1>2, <1>3, <1>4

\* Each of S has a cell of its own when all have claimed one.
LEMMA ClaimsSound ==
    ASSUME NEW m0, Sound(m0), NEW S \in Lists, NEW from \in Idx
    PROVE  Claimed(m0, Range(S), Claims(m0, S, from))
<1> DEFINE n == Len(S)
           X == [next : Idx, ok : BOOLEAN, m : Memories(nrs)]
           Q(k) == {S[j] : j \in 1 .. k}
           P == {kx \in (0 .. n) \X X : Claimed(m0, Q(kx[1]), kx[2])}
           st == [k \in 1 .. n |-> [x \in X |-> Claim(x, S[k])]]
           a == [next |-> from, ok |-> TRUE, m |-> m0]
           G(g) == g = [k \in 0 .. Len(S) |-> IF k = 0 THEN a ELSE Claim(g[k - 1], S[k])]
           c == CHOOSE g : G(g)
<1>1. /\ n \in Nat /\ \A k \in 1 .. n : S[k] \in SeqId
      /\ \A i, j \in 1 .. n : i # j => S[i] # S[j]
      /\ Range(S) = Q(n)
    BY ListParts
<1>2. Claims(m0, S, from) = c[n]
    BY DEF Claims
<1>3. \A kx : kx \in P <=> /\ kx \in (0 .. n) \X X /\ Claimed(m0, Q(kx[1]), kx[2])
    OBVIOUS
<1>4. \A k, x : <<k, x>> \in P <=> k \in 0 .. n /\ x \in X /\ Claimed(m0, Q(k), x)
    BY <1>3
<1>5. <<0, a>> \in P
    <2>1. m0 \in Memories(nrs) /\ a \in X /\ 0 \in 0 .. n
      BY <1>1 DEF Sound
    <2>2. Q(0) = {}
      OBVIOUS
    <2>3. \A s \in SeqId, i \in Idx : s \in m0.cells[i].seq <=> m0.tail[s] = i
      BY DEF Sound, Linked
    <2>4. Ahead(a)
      BY <2>3 DEF Ahead, Empties
    <2>5. \A i \in Idx : Rest(m0, m0, {}, i)
      BY DEF Rest
    <2>6. Claimed(m0, {}, a)
      BY <2>1, <2>3, <2>4, <2>5 DEF Claimed
    <2> HIDE DEF P, a, X
    <2> QED BY <1>4, <2>1, <2>2, <2>6
<1>6. ASSUME NEW k \in 1 .. n, NEW x, <<k - 1, x>> \in P
      PROVE  <<k, st[k][x]>> \in P /\ <<k, Claim(x, S[k])>> \in P /\ x \in X
    <2>1. x \in X /\ Claimed(m0, Q(k - 1), x)
      BY <1>4, <1>6
    <2>2. S[k] \in SeqId \ Q(k - 1) /\ Q(k - 1) \in SUBSET SeqId /\ Q(k) = Q(k - 1) \cup {S[k]}
      <3>1. k \notin 1 .. k - 1 /\ 1 .. k - 1 \subseteq 1 .. n /\ 1 .. k = (1 .. k - 1) \cup {k}
        OBVIOUS
      <3> QED BY <1>1, <3>1
    <2> DEFINE y == Claim(x, S[k])
    <2>3. Claimed(m0, Q(k), y)
      <3> HIDE DEF Q, X
      <3> QED BY <2>1, <2>2, ClaimStep
    <2>4. y \in X
      <3>1. y.next \in Idx /\ y.ok \in BOOLEAN /\ y.m \in Memories(nrs)
        BY <2>3 DEF Claimed
      <3>2. y = x \/ y = [next |-> y.next, ok |-> y.ok, m |-> y.m]
        BY DEF Claim
      <3> HIDE DEF y
      <3> QED BY <2>1, <3>1, <3>2
    <2>5. st[k][x] = y
      BY <2>1
    <2> HIDE DEF y, X, P, st, Q
    <2> QED BY <1>4, <2>1, <2>3, <2>4, <2>5 DEF y
<1>7. \E f : Runs(f, n, a, st) /\ \A k \in 0 .. n : <<k, f[k]>> \in P
    <2>1. \A k \in 1 .. n : \A x : <<k - 1, x>> \in P => <<k, st[k][x]>> \in P
      BY <1>6
    <2> HIDE DEF P, st, a, n
    <2> QED BY <1>1, <1>5, <2>1, RunsExist
<1>8. PICK f : Runs(f, n, a, st) /\ \A k \in 0 .. n : <<k, f[k]>> \in P
    BY <1>7
<1>9. G(f)
    <2>1. f = [k \in 0 .. n |-> IF k = 0 THEN a ELSE st[k][f[k - 1]]]
      BY <1>8 DEF Runs
    <2>2. ASSUME NEW k \in 0 .. n, k # 0 PROVE st[k][f[k - 1]] = Claim(f[k - 1], S[k])
      <3>1. k - 1 \in 0 .. n /\ k \in 1 .. n
        BY <1>1, <2>2
      <3>2. f[k - 1] \in X
        BY <1>4, <1>8, <3>1
      <3> HIDE DEF X, P, a
      <3> QED BY <3>1, <3>2
    <2> HIDE DEF st, a
    <2> QED BY <2>1, <2>2
<1>10. G(c)
    <2> HIDE DEF G
    <2> QED BY <1>9
<1>11. \A k \in 0 .. n : <<k, c[k]>> \in P
    <2> DEFINE B == {k \in 0 .. n : <<k, c[k]>> \in P}
    <2>1. c[0] = a /\ \A k \in 1 .. n : c[k] = Claim(c[k - 1], S[k])
      <3>1. c = [k \in 0 .. n |-> IF k = 0 THEN a ELSE Claim(c[k - 1], S[k])]
        BY <1>10
      <3> HIDE DEF c, a
      <3> QED BY <1>1, <3>1
    <2> HIDE DEF c, a, P
    <2>2. 0 \in B
      BY <1>1, <1>5, <2>1
    <2>3. ASSUME NEW k \in 1 .. n, k - 1 \in B PROVE k \in B
      <3>1. <<k - 1, c[k - 1]>> \in P /\ c[k] = Claim(c[k - 1], S[k]) /\ k \in 0 .. n
        BY <1>1, <2>1, <2>3
      <3> QED BY <1>6, <3>1
    <2>4. \A k \in 0 .. n : k \in B
      <3> HIDE DEF B
      <3> QED BY <1>1, <2>2, <2>3, Steps
    <2> QED BY <2>4
<1>12. <<n, c[n]>> \in P
    <2>1. n \in 0 .. n
      BY <1>1
    <2> HIDE DEF c, P, n
    <2> QED BY <1>11, <2>1
<1> HIDE DEF c, P, Q
<1> QED BY <1>1, <1>2, <1>4, <1>12

-----------------------------------------------------------------------------
(* find_slot(): the cells come to lie side by side.                        *)

\* Each cell of y is one of m, within lo .. hi when it moved, and the tails follow.
Moved(m, y, p, lo, hi) ==
    /\ y \in Memories(nrs) /\ y.rs = m.rs
    /\ p \in [Idx -> Idx] /\ \A i, j \in Idx : p[i] = p[j] => i = j
    /\ \A i \in Idx : y.cells[i] = m.cells[p[i]]
    /\ \A i \in Idx : IF i \in lo .. hi THEN p[i] \in lo .. hi ELSE p[i] = i
    /\ \A s \in SeqId : IF m.tail[s] \in Idx THEN y.tail[s] \in Idx /\ p[y.tail[s]] = m.tail[s]
                        ELSE y.tail[s] = -1

\* The first k cells of S are in their places.
InPlace(y, S, k, lo, hi) ==
    /\ \A j \in 1 .. k : y.tail[S[j]] = lo + j - 1
    /\ \A j \in 1 .. Len(S) : y.tail[S[j]] \in lo .. hi

\* Two cells of lo .. hi change places.
LEMMA SwapMoves ==
    ASSUME NEW m, NEW y, NEW p, NEW lo \in Idx, NEW hi \in Idx, Moved(m, y, p, lo, hi),
           NEW a \in lo .. hi, NEW b \in lo .. hi
    PROVE  /\ \E q : Moved(m, Swap(y, a, b), q, lo, hi)
           /\ \A s \in SeqId : Swap(y, a, b).tail[s] = IF y.tail[s] = a THEN b
                                                       ELSE IF y.tail[s] = b THEN a ELSE y.tail[s]
<1> DEFINE z == Swap(y, a, b)
           cells == [y.cells EXCEPT ![a] = y.cells[b], ![b] = y.cells[a]]
           tail == [s \in SeqId |-> IF y.tail[s] = a THEN b ELSE IF y.tail[s] = b THEN a ELSE y.tail[s]]
           q == [i \in Idx |-> IF i = a THEN p[b] ELSE IF i = b THEN p[a] ELSE p[i]]
<1>1. /\ y \in Memories(nrs) /\ y.rs = m.rs
      /\ p \in [Idx -> Idx] /\ \A i, j \in Idx : p[i] = p[j] => i = j
      /\ \A i \in Idx : y.cells[i] = m.cells[p[i]]
      /\ \A i \in Idx : IF i \in lo .. hi THEN p[i] \in lo .. hi ELSE p[i] = i
      /\ \A s \in SeqId : IF m.tail[s] \in Idx THEN y.tail[s] \in Idx /\ p[y.tail[s]] = m.tail[s]
                          ELSE y.tail[s] = -1
    BY DEF Moved
<1>2. /\ y.cells \in [Idx -> Cells] /\ y.tail \in [SeqId -> -1 .. NSeq - 1]
      /\ \A i \in Idx : y.cells[i] \in Cells
    BY <1>1, MemoryParts
<1>3. a \in Idx /\ b \in Idx
    BY Sizes
<1>4. z = [y EXCEPT !.cells = cells, !.tail = tail]
    BY <1>1 DEF Swap, Memories
<1>5. cells \in [Idx -> Cells] /\ tail \in [SeqId -> -1 .. NSeq - 1]
    <2>1. \A s \in SeqId : tail[s] \in -1 .. NSeq - 1
      BY <1>2, <1>3, Sizes
    <2> QED BY <1>2, <1>3, <2>1
<1>6. \A i \in Idx : cells[i] = IF i = a THEN y.cells[b] ELSE IF i = b THEN y.cells[a] ELSE y.cells[i]
    BY <1>2, <1>3
<1>7. \A s \in SeqId : tail[s] = IF y.tail[s] = a THEN b ELSE IF y.tail[s] = b THEN a ELSE y.tail[s]
    OBVIOUS
<1>8. /\ q \in [Idx -> Idx]
      /\ \A i \in Idx : q[i] = IF i = a THEN p[b] ELSE IF i = b THEN p[a] ELSE p[i]
    BY <1>1, <1>3
<1> HIDE DEF z, cells, tail, q
<1>9. z.cells = cells /\ z.tail = tail /\ z.rs = m.rs /\ z \in Memories(nrs)
    <2>1. z = [cells |-> cells, tail |-> tail, head |-> y.head, used |-> y.used, rs |-> y.rs]
      BY <1>1, <1>4 DEF Memories
    <2> QED BY <1>1, <1>5, <2>1 DEF Memories
<1>10. \A i, j \in Idx : q[i] = q[j] => i = j
    BY <1>1, <1>3, <1>8
<1>11. \A i \in Idx : z.cells[i] = m.cells[q[i]]
    BY <1>1, <1>3, <1>6, <1>8, <1>9
<1>12. \A i \in Idx : IF i \in lo .. hi THEN q[i] \in lo .. hi ELSE q[i] = i
    BY <1>1, <1>3, <1>8
<1>13. \A s \in SeqId : IF m.tail[s] \in Idx THEN z.tail[s] \in Idx /\ q[z.tail[s]] = m.tail[s]
                        ELSE z.tail[s] = -1
    <2> SUFFICES ASSUME NEW s \in SeqId
                 PROVE  IF m.tail[s] \in Idx THEN z.tail[s] \in Idx /\ q[z.tail[s]] = m.tail[s]
                        ELSE z.tail[s] = -1
      OBVIOUS
    <2>1. CASE m.tail[s] \in Idx
      <3>1. y.tail[s] \in Idx /\ p[y.tail[s]] = m.tail[s]
        BY <1>1, <2>1
      <3>2. CASE y.tail[s] = a
        <4>1. z.tail[s] = b /\ q[b] = p[a]
          BY <1>3, <1>7, <1>8, <1>9, <3>2
        <4> QED BY <1>3, <2>1, <3>1, <3>2, <4>1
      <3>3. CASE y.tail[s] # a /\ y.tail[s] = b
        <4>1. z.tail[s] = a /\ q[a] = p[b]
          BY <1>3, <1>7, <1>8, <1>9, <3>3
        <4> QED BY <1>3, <2>1, <3>1, <3>3, <4>1
      <3>4. CASE y.tail[s] # a /\ y.tail[s] # b
        <4>1. z.tail[s] = y.tail[s] /\ q[y.tail[s]] = p[y.tail[s]]
          BY <1>7, <1>8, <1>9, <3>1, <3>4
        <4> QED BY <2>1, <3>1, <4>1
      <3> QED BY <3>2, <3>3, <3>4
    <2>2. CASE m.tail[s] \notin Idx
      <3>1. y.tail[s] = -1
        BY <1>1, <2>2
      <3>2. y.tail[s] # a /\ y.tail[s] # b
        BY <1>3, <3>1, Sizes
      <3>3. z.tail[s] = -1
        BY <1>7, <1>9, <3>1, <3>2
      <3> QED BY <2>2, <3>3
    <2> QED BY <2>1, <2>2
<1>14. Moved(m, z, q, lo, hi)
    BY <1>8, <1>9, <1>10, <1>11, <1>12, <1>13 DEF Moved
<1> QED BY <1>7, <1>9, <1>14 DEF z

\* The cells of y are those of m, and only some of lo .. hi have moved.
Shuffled(m, y, lo, hi) == \E p : Moved(m, y, p, lo, hi)

\* The sequences of S have a cell each.
Apart(m, S) ==
    /\ \A i \in 1 .. Len(S) : m.tail[S[i]] \in Idx
    /\ \A i, j \in 1 .. Len(S) : i # j => m.tail[S[i]] # m.tail[S[j]]

\* The next cell comes to its place, from one at or behind it.
LEMMA GatherStep ==
    ASSUME NEW m, NEW y, NEW lo \in Idx, NEW hi \in Idx, Shuffled(m, y, lo, hi),
           NEW S \in Lists, Apart(m, S),
           NEW k \in 1 .. Len(S), InPlace(y, S, k - 1, lo, hi),
           NEW z, z = Swap(y, lo + k - 1, y.tail[S[k]])
    PROVE  /\ Shuffled(m, z, lo, hi)
           /\ InPlace(z, S, k, lo, hi)
           /\ lo + k - 1 <= hi
<1> DEFINE n == Len(S)
           a == lo + k - 1
           b == y.tail[S[k]]
<1>1. PICK p : Moved(m, y, p, lo, hi)
    BY DEF Shuffled
<1>2. /\ n \in Nat /\ lo \in Nat /\ hi \in Nat
      /\ \A j \in 1 .. n : S[j] \in SeqId
    BY ListParts, Sizes
<1>3. \A i, j \in 1 .. n : i # j => y.tail[S[i]] # y.tail[S[j]]
    <2> SUFFICES ASSUME NEW i \in 1 .. n, NEW j \in 1 .. n, i # j
                 PROVE  y.tail[S[i]] # y.tail[S[j]]
      OBVIOUS
    <2>1. /\ p[y.tail[S[i]]] = m.tail[S[i]]
          /\ p[y.tail[S[j]]] = m.tail[S[j]]
      BY <1>1, <1>2 DEF Moved, Apart
    <2>2. m.tail[S[i]] # m.tail[S[j]]
      BY DEF Apart
    <2> QED BY <2>1, <2>2
<1>4. /\ \A j \in 1 .. k - 1 : j \in 1 .. n /\ y.tail[S[j]] = lo + j - 1
      /\ \A j \in 1 .. n : y.tail[S[j]] \in lo .. hi
    <2>1. /\ \A j \in 1 .. k - 1 : y.tail[S[j]] = lo + j - 1
          /\ \A j \in 1 .. n : y.tail[S[j]] \in lo .. hi
      BY DEF InPlace
    <2>2. \A j \in 1 .. k - 1 : j \in 1 .. n
      BY <1>2
    <2> QED BY <2>1, <2>2
<1>5. a \in lo .. hi /\ b \in lo .. hi
    <2>1. b \in lo .. hi
      BY <1>4
    <2>2. ~(b < a)
      <3> SUFFICES ASSUME b < a PROVE FALSE
        OBVIOUS
      <3> DEFINE j == b - lo + 1
      <3>0. b \in Nat /\ lo \in Nat /\ b >= lo /\ k \in Nat /\ k > 0 /\ b < lo + k - 1
        BY <1>2, <2>1
      <3> HIDE DEF b
      <3>1. j \in 1 .. k - 1 /\ lo + j - 1 = b /\ j # k
        BY <3>0
      <3> HIDE DEF j
      <3>2. y.tail[S[j]] = b /\ j \in 1 .. n
        BY <1>4, <3>1
      <3>3. y.tail[S[j]] # y.tail[S[k]]
        BY <1>3, <3>1, <3>2
      <3> QED BY <3>2, <3>3 DEF b
    <2> QED BY <1>2, <2>1, <2>2
<1>6. /\ Shuffled(m, z, lo, hi)
      /\ \A s \in SeqId : z.tail[s] = IF y.tail[s] = a THEN b ELSE IF y.tail[s] = b THEN a ELSE y.tail[s]
    <2> HIDE DEF a, b
    <2>1. z = Swap(y, a, b)
      BY DEF a, b
    <2>2. \E q : Moved(m, Swap(y, a, b), q, lo, hi)
      BY <1>1, <1>5, SwapMoves
    <2>3. \A s \in SeqId : Swap(y, a, b).tail[s] = IF y.tail[s] = a THEN b
                                                   ELSE IF y.tail[s] = b THEN a ELSE y.tail[s]
      BY <1>1, <1>5, SwapMoves
    <2> QED BY <2>1, <2>2, <2>3 DEF Shuffled
<1>7. \A j \in 1 .. n : z.tail[S[j]] \in lo .. hi
    BY <1>2, <1>4, <1>5, <1>6
<1>8. ASSUME NEW j \in 1 .. k PROVE z.tail[S[j]] = lo + j - 1
    <2>1. CASE j = k
      <3>1. z.tail[S[k]] = IF b = a THEN b ELSE a
        BY <1>2, <1>6
      <3> QED BY <2>1, <3>1
    <2>2. CASE j # k
      <3>1. j \in 1 .. k - 1 /\ j \in 1 .. n /\ S[j] \in SeqId
        BY <1>2, <2>2
      <3>2. y.tail[S[j]] = lo + j - 1 /\ y.tail[S[j]] # b
        BY <1>3, <1>4, <2>2, <3>1
      <3>3. lo + j - 1 # a
        BY <1>2, <3>1
      <3> QED BY <1>6, <3>1, <3>2, <3>3
    <2> QED BY <2>1, <2>2
<1> QED BY <1>2, <1>5, <1>6, <1>7, <1>8 DEF InPlace

\* The cells of S lie in order from lo on; they are among lo .. hi, which they were in before.
LEMMA GatherPlaces ==
    ASSUME NEW m, m \in Memories(nrs), NEW lo \in Idx, NEW hi \in Idx,
           NEW S \in Lists, \A i \in 1 .. Len(S) : m.tail[S[i]] \in Idx /\ m.tail[S[i]] \in lo .. hi,
           \A i, j \in 1 .. Len(S) : i # j => m.tail[S[i]] # m.tail[S[j]]
    PROVE  /\ Shuffled(m, Gather(m, S, lo), lo, hi)
           /\ InPlace(Gather(m, S, lo), S, Len(S), lo, hi)
           /\ lo + Len(S) - 1 <= hi
<1> DEFINE n == Len(S)
           X == Memories(nrs)
           P == {ky \in (0 .. n) \X X : /\ Shuffled(m, ky[2], lo, hi)
                                        /\ InPlace(ky[2], S, ky[1], lo, hi)}
           st == [k \in 1 .. n |-> [y \in X |-> Swap(y, lo + k - 1, y.tail[S[k]])]]
           G(g) == g = [k \in 0 .. Len(S) |-> IF k = 0 THEN m
                                              ELSE Swap(g[k - 1], lo + k - 1, g[k - 1].tail[S[k]])]
           c == CHOOSE g : G(g)
<1>1. n \in Nat /\ n > 0 /\ \A k \in 1 .. n : S[k] \in SeqId
    BY ListParts
<1>2. Gather(m, S, lo) = c[n]
    BY DEF Gather
<1>3. \A ky : ky \in P <=> /\ ky \in (0 .. n) \X X /\ Shuffled(m, ky[2], lo, hi)
                           /\ InPlace(ky[2], S, ky[1], lo, hi)
    OBVIOUS
<1>4. \A k, y : <<k, y>> \in P <=> /\ k \in 0 .. n /\ y \in X /\ Shuffled(m, y, lo, hi)
                                   /\ InPlace(y, S, k, lo, hi)
    BY <1>3
<1>5. <<0, m>> \in P
    <2> DEFINE p == [i \in Idx |-> i]
    <2>1. \A s \in SeqId : m.tail[s] \in Idx \/ m.tail[s] = -1
      BY MemoryParts
    <2>2. Moved(m, m, p, lo, hi)
      BY <2>1 DEF Moved
    <2>3. InPlace(m, S, 0, lo, hi)
      BY DEF InPlace
    <2> HIDE DEF P, p, X
    <2> QED BY <1>1, <1>4, <2>2, <2>3 DEF X, Shuffled
<1>6. ASSUME NEW k \in 1 .. n, NEW y, <<k - 1, y>> \in P
      PROVE  /\ <<k, st[k][y]>> \in P /\ <<k, Swap(y, lo + k - 1, y.tail[S[k]])>> \in P
             /\ y \in X /\ lo + k - 1 <= hi
    <2> DEFINE z == Swap(y, lo + k - 1, y.tail[S[k]])
    <2>1. y \in X /\ Shuffled(m, y, lo, hi) /\ InPlace(y, S, k - 1, lo, hi)
      BY <1>4, <1>6
    <2>2. z = Swap(y, lo + k - 1, y.tail[S[k]])
      OBVIOUS
    <2>3. st[k][y] = z
      BY <2>1
    <2> HIDE DEF z, P, st, X
    <2>4. Shuffled(m, z, lo, hi) /\ InPlace(z, S, k, lo, hi) /\ lo + k - 1 <= hi
      <3>1. Apart(m, S)
        BY DEF Apart
      <3> QED BY <2>1, <2>2, <3>1, GatherStep
    <2>5. z \in X
      BY <2>4 DEF Moved, Shuffled, X
    <2> QED BY <1>1, <1>4, <2>1, <2>2, <2>3, <2>4, <2>5
<1>7. \E f : Runs(f, n, m, st) /\ \A k \in 0 .. n : <<k, f[k]>> \in P
    <2>1. \A k \in 1 .. n : \A x : <<k - 1, x>> \in P => <<k, st[k][x]>> \in P
      BY <1>6
    <2> HIDE DEF P, st, n
    <2> QED BY <1>1, <1>5, <2>1, RunsExist
<1>8. PICK f : Runs(f, n, m, st) /\ \A k \in 0 .. n : <<k, f[k]>> \in P
    BY <1>7
<1>9. G(f)
    <2>1. f = [k \in 0 .. n |-> IF k = 0 THEN m ELSE st[k][f[k - 1]]]
      BY <1>8 DEF Runs
    <2>2. ASSUME NEW k \in 0 .. n, k # 0
          PROVE  st[k][f[k - 1]] = Swap(f[k - 1], lo + k - 1, f[k - 1].tail[S[k]])
      <3>1. k - 1 \in 0 .. n /\ k \in 1 .. n
        BY <1>1, <2>2
      <3>2. f[k - 1] \in X
        BY <1>4, <1>8, <3>1
      <3> HIDE DEF X, P
      <3> QED BY <3>1, <3>2
    <2> HIDE DEF st
    <2> QED BY <2>1, <2>2
<1>10. G(c)
    <2> HIDE DEF G
    <2> QED BY <1>9
<1>11. \A k \in 0 .. n : <<k, c[k]>> \in P
    <2> DEFINE B == {k \in 0 .. n : <<k, c[k]>> \in P}
    <2>1. c[0] = m /\ \A k \in 1 .. n : c[k] = Swap(c[k - 1], lo + k - 1, c[k - 1].tail[S[k]])
      <3>1. c = [k \in 0 .. n |-> IF k = 0 THEN m ELSE Swap(c[k - 1], lo + k - 1, c[k - 1].tail[S[k]])]
        BY <1>10
      <3> HIDE DEF c
      <3> QED BY <1>1, <3>1
    <2> HIDE DEF c, P
    <2>2. 0 \in B
      BY <1>1, <1>5, <2>1
    <2>3. ASSUME NEW k \in 1 .. n, k - 1 \in B PROVE k \in B
      <3>1. /\ <<k - 1, c[k - 1]>> \in P /\ c[k] = Swap(c[k - 1], lo + k - 1, c[k - 1].tail[S[k]])
            /\ k \in 0 .. n
        BY <1>1, <2>1, <2>3
      <3> QED BY <1>6, <3>1
    <2>4. \A k \in 0 .. n : k \in B
      <3> HIDE DEF B
      <3> QED BY <1>1, <2>2, <2>3, Steps
    <2> QED BY <2>4
<1>12. <<n, c[n]>> \in P /\ <<n - 1, c[n - 1]>> \in P
    <2>1. n \in 0 .. n /\ n - 1 \in 0 .. n
      BY <1>1
    <2> HIDE DEF c, P, n
    <2> QED BY <1>11, <2>1
<1>13. lo + n - 1 <= hi
    <2>1. n \in 1 .. n
      BY <1>1
    <2> HIDE DEF c, P, n, X, st
    <2> QED BY <1>6, <1>12, <2>1
<1> HIDE DEF c, P, X
<1> QED BY <1>2, <1>4, <1>12, <1>13

-----------------------------------------------------------------------------
(* find_slot(): the sources of the states.                                 *)

\* A cell without a state, of which m has one e.
Spare(m, e) == e \in Idx /\ m.cells[e].seq = {}

\* The cells of S lie from lo on, and name where the states of S are in m.
FirstCells(m, S, g, lo) ==
    \A k \in 1 .. Len(S) :
        /\ g.tail[S[k]] = lo + k - 1
        /\ IF m.tail[S[k]] \in Idx THEN g.cells[lo + k - 1].src = m.tail[S[k]]
           ELSE \E e : Spare(m, e) /\ g.cells[lo + k - 1].src = m.cells[e].src

\* The others have the cells that they had, which are elsewhere only within lo .. hi.
OtherTails(m, S, g, lo, hi) ==
    \A u \in SeqId \ Range(S) :
        IF m.tail[u] \in Idx
        THEN /\ g.tail[u] \in Idx /\ g.tail[u] \notin lo .. lo + Len(S) - 1
             /\ u \in g.cells[g.tail[u]].seq
             /\ g.cells[g.tail[u]].pos = m.cells[m.tail[u]].pos
             /\ g.cells[g.tail[u]].src = m.tail[u]
             /\ g.tail[u] \notin lo .. hi => g.tail[u] = m.tail[u]
        ELSE g.tail[u] = -1

OtherCells(m, S, g, lo, hi) ==
    \A i \in Idx :
        /\ i \notin lo .. hi => g.cells[i].src \in {-1, i}
        /\ i \notin lo .. lo + Len(S) - 1 =>
             /\ \A u \in g.cells[i].seq : u \notin Range(S) /\ g.tail[u] = i
             /\ \E e \in Idx : /\ g.cells[i].pos = m.cells[e].pos
                               /\ g.cells[i].seq = {} => Spare(m, e) /\ g.cells[i].src = m.cells[e].src
                               /\ i \notin lo .. hi => e = i

LaidOut(m, S, g, lo, hi) ==
    /\ g \in Memories(nrs) /\ g.rs = m.rs
    /\ lo \in Idx /\ hi \in Idx /\ lo + Len(S) - 1 <= hi /\ (Len(S) = 1 => lo = hi)
    /\ FirstCells(m, S, g, lo) /\ OtherTails(m, S, g, lo, hi) /\ OtherCells(m, S, g, lo, hi)

\* The first and the last of the cells that S has.
LEMMA Bounds ==
    ASSUME NEW m, NEW S \in Lists, \A k \in 1 .. Len(S) : m.tail[S[k]] \in Idx,
           NEW T, T = {m.tail[s] : s \in Range(S)}
    PROVE  /\ Min(T) \in Idx /\ Max(T) \in Idx
           /\ \A k \in 1 .. Len(S) : m.tail[S[k]] \in Min(T) .. Max(T)
           /\ Len(S) = 1 => Min(T) = Max(T)
<1>1. /\ Len(S) \in Nat /\ Len(S) > 0 /\ Range(S) = {S[k] : k \in 1 .. Len(S)}
    BY ListParts
<1>2. T = {m.tail[S[k]] : k \in 1 .. Len(S)}
    BY <1>1
<1>3. 1 \in 1 .. Len(S)
    BY <1>1
<1>4. T # {} /\ T \in SUBSET Idx
    BY <1>2, <1>3
<1>5. T \in SUBSET Nat /\ T \in SUBSET (0 .. NSeq - 1) /\ NSeq - 1 \in Nat
    BY <1>4, Sizes
<1>6. /\ Min(T) \in T /\ \A x \in T : Min(T) <= x
      /\ Max(T) \in T /\ \A x \in T : Max(T) >= x
    BY <1>4, <1>5, MinExists, MaxExists
<1>7. \A k \in 1 .. Len(S) : m.tail[S[k]] \in Min(T) .. Max(T)
    <2> SUFFICES ASSUME NEW k \in 1 .. Len(S) PROVE m.tail[S[k]] \in Min(T) .. Max(T)
      OBVIOUS
    <2>1. m.tail[S[k]] \in T
      BY <1>2
    <2>2. m.tail[S[k]] \in Nat /\ Min(T) \in Nat /\ Max(T) \in Nat
      BY <1>5, <1>6, <2>1
    <2>3. Min(T) <= m.tail[S[k]] /\ Max(T) >= m.tail[S[k]]
      BY <1>6, <2>1
    <2> QED BY <2>2, <2>3
<1>8. Len(S) = 1 => Min(T) = Max(T)
    <2> SUFFICES ASSUME Len(S) = 1 PROVE Min(T) = Max(T)
      OBVIOUS
    <2>1. T = {m.tail[S[1]]}
      BY <1>2
    <2> QED BY <1>6, <2>1
<1> QED BY <1>4, <1>6, <1>7, <1>8

LEMMA CellsLaidOut ==
    ASSUME NEW m, Sound(m), NEW S \in Lists, NEW f, Claimed(m, Range(S), f),
           NEW T, T = {f.m.tail[s] : s \in Range(S)},
           NEW g, g = Gather(f.m, S, Min(T))
    PROVE  LaidOut(m, S, g, Min(T), Max(T))
<1> DEFINE n == Len(S)
           Q == Range(S)
           lo == Min(T)
           hi == Max(T)
           x == f.m
<1>1. /\ n \in Nat /\ n > 0 /\ Q = {S[k] : k \in 1 .. n} /\ Q \subseteq SeqId
      /\ \A k \in 1 .. n : S[k] \in SeqId /\ S[k] \in Q
      /\ \A i, j \in 1 .. n : i # j => S[i] # S[j]
    BY ListParts
<1>2. /\ x \in Memories(nrs) /\ x.rs = m.rs
      /\ \A s \in SeqId, i \in Idx : s \in x.cells[i].seq => x.tail[s] = i
      /\ \A s \in SeqId \ Q : x.tail[s] = m.tail[s]
      /\ \A s \in Q : Own(m, x, s)
      /\ \A i \in Idx : (\A s \in Q : x.tail[s] # i) => Rest(m, x, Q, i)
    BY DEF Claimed
<1>3. /\ m \in Memories(nrs) /\ \A s \in SeqId, i \in Idx : s \in m.cells[i].seq <=> m.tail[s] = i
      /\ \A i \in Idx : m.cells[i].src \in {-1, i} /\ (m.cells[i].seq # {} => m.cells[i].src = i)
    BY DEF Sound, Linked, Sourced
<1>4. \A k \in 1 .. n : x.tail[S[k]] \in Idx
    BY <1>1, <1>2 DEF Own
<1>5. \A i, j \in 1 .. n : i # j => x.tail[S[i]] # x.tail[S[j]]
    BY <1>1, <1>2 DEF Own
<1>6. /\ lo \in Idx /\ hi \in Idx /\ (n = 1 => lo = hi)
      /\ \A k \in 1 .. n : x.tail[S[k]] \in lo .. hi
    BY <1>4, Bounds
<1> HIDE DEF lo, hi, n, Q
<1>7. /\ \E p : Moved(x, g, p, lo, hi)
      /\ InPlace(g, S, n, lo, hi)
      /\ lo + n - 1 <= hi
    <2>1. g = Gather(x, S, lo)
      BY DEF lo
    <2>2. /\ x \in Memories(nrs)
          /\ \A i \in 1 .. Len(S) : x.tail[S[i]] \in Idx /\ x.tail[S[i]] \in lo .. hi
          /\ \A i, j \in 1 .. Len(S) : i # j => x.tail[S[i]] # x.tail[S[j]]
      BY <1>2, <1>4, <1>5, <1>6 DEF n
    <2> HIDE DEF x
    <2>3. Shuffled(x, g, lo, hi)
      BY <1>6, <2>1, <2>2, GatherPlaces
    <2>4. InPlace(g, S, Len(S), lo, hi) /\ lo + Len(S) - 1 <= hi
      BY <1>6, <2>1, <2>2, GatherPlaces
    <2> QED BY <2>3, <2>4 DEF n, Shuffled
<1>8. PICK p : Moved(x, g, p, lo, hi)
    BY <1>7
<1>9. /\ g \in Memories(nrs) /\ g.rs = m.rs
      /\ p \in [Idx -> Idx] /\ \A i, j \in Idx : p[i] = p[j] => i = j
      /\ \A i \in Idx : g.cells[i] = x.cells[p[i]]
      /\ \A i \in Idx : IF i \in lo .. hi THEN p[i] \in lo .. hi ELSE p[i] = i
      /\ \A s \in SeqId : IF x.tail[s] \in Idx THEN g.tail[s] \in Idx /\ p[g.tail[s]] = x.tail[s]
                          ELSE g.tail[s] = -1
    BY <1>2, <1>8 DEF Moved
<1>10. \A k \in 1 .. n : g.tail[S[k]] = lo + k - 1
    BY <1>7 DEF InPlace
\* A cell that is not among the first is nobody's of S, and the rest of one of m.
<1>11. ASSUME NEW i \in Idx, i \notin lo .. lo + n - 1
       PROVE  Rest(m, x, Q, p[i]) /\ p[i] \in Idx
    <2>1. p[i] \in Idx
      BY <1>9
    <2>2. ASSUME NEW s \in Q, x.tail[s] = p[i] PROVE FALSE
      <3>1. PICK k \in 1 .. n : s = S[k]
        BY <1>1
      <3>2. g.tail[s] \in Idx /\ p[g.tail[s]] = p[i] /\ g.tail[s] = lo + k - 1
        BY <1>1, <1>9, <1>10, <2>1, <2>2, <3>1
      <3>3. i = lo + k - 1
        BY <1>9, <3>2
      <3> QED BY <1>1, <1>6, <1>11, <3>3, Sizes
    <2> QED BY <1>2, <2>1, <2>2
<1>12. FirstCells(m, S, g, lo)
    <2> SUFFICES ASSUME NEW k \in 1 .. n
                 PROVE  IF m.tail[S[k]] \in Idx THEN g.cells[lo + k - 1].src = m.tail[S[k]]
                        ELSE \E e : Spare(m, e) /\ g.cells[lo + k - 1].src = m.cells[e].src
      BY <1>10 DEF FirstCells, n
    <2> DEFINE s == S[k]
               e == x.tail[s]
    <2>1. s \in Q /\ s \in SeqId /\ e \in Idx /\ Own(m, x, s)
      BY <1>1, <1>2, <1>4
    <2>2. g.tail[s] = lo + k - 1 /\ g.tail[s] \in Idx /\ p[g.tail[s]] = e
      BY <1>9, <1>10, <2>1
    <2>3. g.cells[lo + k - 1] = x.cells[e]
      <3>1. g.cells[g.tail[s]] = x.cells[p[g.tail[s]]]
        BY <1>9, <2>2
      <3> QED BY <2>2, <3>1
    <2>4. CASE m.tail[s] \in Idx
      <3>1. m.tail[s] >= 0
        BY <2>4, Sizes
      <3> QED BY <2>1, <2>3, <2>4, <3>1 DEF Own
    <2>5. CASE m.tail[s] \notin Idx
      <3>1. ~(m.tail[s] >= 0)
        BY <1>3, <2>1, <2>5, MemoryParts, Sizes
      <3>2. x.cells[e] = m.cells[e] /\ m.cells[e].seq = {}
        BY <2>1, <3>1 DEF Own
      <3>3. Spare(m, e)
        BY <2>1, <3>2 DEF Spare
      <3> HIDE DEF e
      <3> QED BY <2>3, <2>5, <3>2, <3>3
    <2> QED BY <2>4, <2>5
<1>13. OtherTails(m, S, g, lo, hi)
    <2> SUFFICES ASSUME NEW u \in SeqId \ Q
                 PROVE  IF m.tail[u] \in Idx
                        THEN /\ g.tail[u] \in Idx /\ g.tail[u] \notin lo .. lo + n - 1
                             /\ u \in g.cells[g.tail[u]].seq
                             /\ g.cells[g.tail[u]].pos = m.cells[m.tail[u]].pos
                             /\ g.cells[g.tail[u]].src = m.tail[u]
                             /\ g.tail[u] \notin lo .. hi => g.tail[u] = m.tail[u]
                        ELSE g.tail[u] = -1
      BY DEF OtherTails, Q, n
    <2>1. x.tail[u] = m.tail[u]
      BY <1>2
    <2>2. CASE m.tail[u] \notin Idx
      BY <1>9, <2>1, <2>2
    <2>3. CASE m.tail[u] \in Idx
      <3> DEFINE t == m.tail[u]
                 i == g.tail[u]
      <3>1. i \in Idx /\ p[i] = t /\ g.cells[i] = x.cells[t]
        <4>1. i \in Idx /\ p[i] = x.tail[u]
          <5>1. u \in SeqId /\ x.tail[u] \in Idx
            BY <2>1, <2>3
          <5> QED BY <1>9, <5>1
        <4>2. g.cells[i] = x.cells[p[i]]
          BY <1>9, <4>1
        <4> QED BY <2>1, <4>1, <4>2
      <3>2. i \notin lo .. lo + n - 1
        <4> SUFFICES ASSUME i \in lo .. lo + n - 1 PROVE FALSE
          OBVIOUS
        <4>0. lo \in Int
          BY <1>6, Sizes
        <4> DEFINE k == i - lo + 1
        <4>1. k \in 1 .. n /\ lo + k - 1 = i
          BY <1>1, <4>0
        <4> HIDE DEF k
        <4>2. g.tail[S[k]] = i /\ S[k] \in Q /\ S[k] \in SeqId /\ x.tail[S[k]] \in Idx
          BY <1>1, <1>4, <1>10, <4>1
        <4>3. x.tail[S[k]] = t
          <5>1. p[g.tail[S[k]]] = x.tail[S[k]]
            BY <1>9, <4>2
          <5> QED BY <3>1, <4>2, <5>1
        <4>4. x.tail[u] # x.tail[S[k]]
          <5>1. Own(m, x, S[k]) /\ u # S[k]
            BY <1>2, <4>2
          <5> QED BY <5>1 DEF Own
        <4> QED BY <2>1, <4>3, <4>4
      <3>3. Rest(m, x, Q, t)
        BY <1>11, <3>1, <3>2
      <3>4. u \in m.cells[t].seq /\ m.cells[t].src = t
        BY <1>3, <2>3
      <3>5. u \in x.cells[t].seq /\ x.cells[t].pos = m.cells[t].pos /\ x.cells[t].src = t
        BY <3>3, <3>4 DEF Rest
      <3>6. i \notin lo .. hi => i = t
        BY <1>9, <3>1
      <3> QED BY <2>3, <3>1, <3>2, <3>5, <3>6
    <2> QED BY <2>2, <2>3
<1>14. OtherCells(m, S, g, lo, hi)
    <2> SUFFICES ASSUME NEW i \in Idx
                 PROVE  /\ i \notin lo .. hi => g.cells[i].src \in {-1, i}
                        /\ i \notin lo .. lo + n - 1 =>
                             /\ \A u \in g.cells[i].seq : u \notin Q /\ g.tail[u] = i
                             /\ \E e \in Idx : /\ g.cells[i].pos = m.cells[e].pos
                                               /\ g.cells[i].seq = {} => Spare(m, e) /\ g.cells[i].src = m.cells[e].src
                                               /\ i \notin lo .. hi => e = i
      BY DEF OtherCells, Q, n
    <2>1. ASSUME i \notin lo .. lo + n - 1
          PROVE  /\ \A u \in g.cells[i].seq : u \notin Q /\ g.tail[u] = i
                 /\ p[i] \in Idx /\ g.cells[i].pos = m.cells[p[i]].pos
                 /\ g.cells[i].src = m.cells[p[i]].src
                 /\ g.cells[i].seq = {} => Spare(m, p[i])
                 /\ i \notin lo .. hi => p[i] = i
      <3>1. Rest(m, x, Q, p[i]) /\ p[i] \in Idx /\ g.cells[i] = x.cells[p[i]]
        BY <1>9, <1>11, <2>1
      <3>2. ASSUME NEW u \in g.cells[i].seq PROVE u \notin Q /\ g.tail[u] = i
        <4>1. u \in x.cells[p[i]].seq /\ u \notin Q /\ u \in SeqId
          <5>1. u \in x.cells[p[i]].seq /\ x.cells[p[i]].seq = m.cells[p[i]].seq \ Q
            BY <3>1, <3>2 DEF Rest
          <5> QED BY <1>2, <3>1, <5>1, MemoryParts
        <4>2. x.tail[u] = p[i]
          BY <1>2, <3>1, <4>1
        <4>3. g.tail[u] \in Idx /\ p[g.tail[u]] = p[i]
          BY <1>9, <3>1, <4>1, <4>2
        <4>4. g.tail[u] = i
          <5>1. \A a, b \in Idx : p[a] = p[b] => a = b
            BY <1>9
          <5> QED BY <4>3, <5>1
        <4> QED BY <4>1, <4>4
      <3>3. g.cells[i].seq = {} => Spare(m, p[i])
        BY <3>1 DEF Rest, Spare
      <3> QED BY <1>9, <3>1, <3>2, <3>3 DEF Rest
    <2>2. i \notin lo .. hi => g.cells[i].src \in {-1, i}
      <3> SUFFICES ASSUME i \notin lo .. hi PROVE g.cells[i].src \in {-1, i}
        OBVIOUS
      <3>1. i \notin lo .. lo + n - 1
        BY <1>1, <1>6, <1>7, Sizes
      <3> QED BY <1>3, <2>1, <3>1
    <2> QED BY <2>1, <2>2
<1> QED BY <1>6, <1>7, <1>9, <1>12, <1>13, <1>14 DEF LaidOut, lo, hi, n

\* Where a cell has no source, a row is left that no cell names.
LEMMA SpareRow ==
    ASSUME NEW c, NEW lo \in Idx, NEW hi \in Idx, \A j \in Idx : j \notin lo .. hi => c[j].src \in {-1, j},
           NEW i \in lo .. hi, c[i].src = -1
    PROVE  \E z \in lo .. hi : \A j \in Idx : c[j].src # z
<1> DEFINE K == (lo .. hi) \ {i}
           src == [j \in Idx |-> c[j].src]
           T == {src[j] : j \in K}
<1>1. lo \in Int /\ hi \in Int /\ lo .. hi \subseteq Idx /\ lo <= hi /\ -1 \notin lo .. hi
    BY Sizes
<1>2. IsFiniteSet(lo .. hi) /\ Cardinality(lo .. hi) = hi - lo + 1
    <2>1. ~(lo > hi)
      BY <1>1
    <2> QED BY <1>1, <2>1, FS_Interval
<1>3. IsFiniteSet(K) /\ Cardinality(K) = hi - lo
    <2>1. IsFiniteSet(K) /\ Cardinality(K) = Cardinality(lo .. hi) - 1
      BY <1>2, FS_RemoveElement
    <2> QED BY <1>1, <1>2, <2>1
<1>4. IsFiniteSet(T) /\ Cardinality(T) <= hi - lo
    <2> HIDE DEF K, src
    <2> QED BY <1>3, ImageCardinality
<1>5. ~(lo .. hi \subseteq T)
    <2> HIDE DEF T
    <2> SUFFICES ASSUME lo .. hi \subseteq T PROVE FALSE
      OBVIOUS
    <2>1. Cardinality(lo .. hi) <= Cardinality(T) /\ Cardinality(T) \in Nat
      BY <1>4, FS_Subset, FS_CardinalityType
    <2> QED BY <1>1, <1>2, <1>4, <2>1
<1>6. PICK z \in lo .. hi : z \notin T
    BY <1>5
<1>7. ASSUME NEW j \in Idx, c[j].src = z PROVE FALSE
    <2>1. CASE j \in K
      BY <1>6, <1>7, <2>1
    <2>2. CASE j = i
      BY <1>1, <1>7, <2>2
    <2>3. CASE j \notin lo .. hi
      BY <1>1, <1>6, <1>7, <2>3
    <2> QED BY <2>1, <2>2, <2>3
<1> QED BY <1>6, <1>7

\* The end of find_slot(), with all cells found.
Prepared(m, c, lo, hi) == Staged(m, c, lo, hi, TRUE)

\* No cell outside lo .. hi has its source within.
Stageable(c, lo, hi) ==
    \A j \in Idx : c[j].src \in -1 .. NSeq - 1 /\ (j \notin lo .. hi => c[j].src \in {-1, j})

\* A cell of f takes its state from its source in c, or from the row that is cleared.
Sources(c, f, lo, hi) ==
    /\ f.lo = lo /\ f.hi = hi /\ f.z \in {-1} \cup lo .. hi /\ f.src0 \in [lo .. hi -> Idx]
    /\ \A i \in lo .. hi : IF c[i].src = -1 THEN f.src0[i] = f.z
                           ELSE f.src0[i] = c[i].src /\ f.src0[i] # f.z

\* What staging makes of the cells c: each of lo .. hi has a source, its own one or z.
LEMMA StagedSources ==
    ASSUME NEW m, NEW c, NEW lo \in Idx, NEW hi \in Idx, NEW f, f = Prepared(m, c, lo, hi),
           Stageable(c, lo, hi)
    PROVE  Sources(c, f, lo, hi)
<1> DEFINE spare == {i \in lo .. hi : \A j \in Idx : c[j].src # i}
           z == IF spare = {} THEN -1 ELSE Min(spare)
<1>0. \A j \in Idx : c[j].src \in -1 .. NSeq - 1 /\ (j \notin lo .. hi => c[j].src \in {-1, j})
    BY DEF Stageable
<1>1. /\ f.lo = lo /\ f.hi = hi /\ f.z = z
      /\ f.src0 = [i \in lo .. hi |-> IF c[i].src < 0 THEN z ELSE c[i].src]
    BY DEF Prepared, Staged
<1>2. spare \in SUBSET Nat /\ lo .. hi \subseteq Idx
    BY Sizes
<1>3. spare # {} => z \in spare
    <2> HIDE DEF spare
    <2> QED BY <1>2, MinExists
<1>4. \A i \in spare : i \in lo .. hi /\ \A j \in Idx : c[j].src # i
    OBVIOUS
<1>5. z \in {-1} \cup lo .. hi
    <2> HIDE DEF spare
    <2> QED BY <1>3, <1>4
<1>6. ASSUME NEW i \in lo .. hi, c[i].src = -1 PROVE spare # {}
    <2>1. \E k \in lo .. hi : \A j \in Idx : c[j].src # k
      BY <1>0, <1>6, SpareRow
    <2> QED BY <2>1
<1>7. \A i \in lo .. hi : i \in Idx /\ (c[i].src < 0 <=> c[i].src = -1) /\ (c[i].src # -1 => c[i].src \in Idx)
    BY <1>0, <1>2, Sizes
<1>8. ASSUME NEW i \in lo .. hi, c[i].src # -1 PROVE c[i].src # z
    <2> HIDE DEF spare
    <2>1. CASE spare = {}
      BY <1>8, <2>1
    <2>2. CASE spare # {}
      BY <1>3, <1>4, <1>7, <2>2
    <2> QED BY <2>1, <2>2
<1> HIDE DEF z, spare
<1>9. \A i \in lo .. hi : IF c[i].src = -1 THEN f.src0[i] = z
                          ELSE f.src0[i] = c[i].src /\ f.src0[i] # z
    BY <1>1, <1>7, <1>8
<1>10. \A i \in lo .. hi : f.src0[i] \in Idx
    <2> SUFFICES ASSUME NEW i \in lo .. hi PROVE f.src0[i] \in Idx
      OBVIOUS
    <2>1. CASE c[i].src = -1
      <3>1. z \in lo .. hi
        BY <1>3, <1>4, <1>6, <2>1
      <3> QED BY <1>2, <1>9, <2>1, <3>1
    <2>2. CASE c[i].src # -1
      BY <1>7, <1>9, <2>2
    <2> QED BY <2>1, <2>2
<1>11. f.src0 \in [lo .. hi -> Idx]
    BY <1>1, <1>10
<1> QED BY <1>1, <1>5, <1>9, <1>11 DEF Sources

\* The row from which a cell gets the state before the first token.
Blank(m, f, i) == f.src0[i] = f.z \/ \E e : Spare(m, e) /\ m.cells[e].src = e /\ f.src0[i] = e

\* What find_slot() promises for S.
FirstFound(m, S, last, f) ==
    \A k \in 1 .. Len(S) :
        /\ f.m.tail[S[k]] = f.lo + k - 1
        /\ f.m.cells[f.lo + k - 1].pos = last[S[k]] /\ f.m.cells[f.lo + k - 1].seq = {S[k]}
        /\ IF m.tail[S[k]] \in Idx
           THEN f.src0[f.lo + k - 1] = m.tail[S[k]] /\ f.src0[f.lo + k - 1] # f.z
           ELSE Blank(m, f, f.lo + k - 1)

OthersFound(m, S, f) ==
    \A u \in SeqId \ Range(S) :
        IF m.tail[u] \in Idx
        THEN /\ f.m.tail[u] \in Idx /\ f.m.tail[u] \notin f.lo .. f.lo + Len(S) - 1
             /\ f.m.cells[f.m.tail[u]].pos = m.cells[m.tail[u]].pos
             /\ IF f.m.tail[u] \in f.lo .. f.hi
                THEN f.src0[f.m.tail[u]] = m.tail[u] /\ f.src0[f.m.tail[u]] # f.z
                ELSE f.m.tail[u] = m.tail[u]
        ELSE f.m.tail[u] = -1

EmptyFound(m, S, f) ==
    \A i \in Idx : i \notin f.lo .. f.lo + Len(S) - 1 =>
        /\ \E e \in Idx : f.m.cells[i].pos = m.cells[e].pos
        /\ f.m.cells[i].seq = {} => IF i \in f.lo .. f.hi THEN Blank(m, f, i)
                                    ELSE Spare(m, i) /\ f.m.cells[i].src = m.cells[i].src

TogetherFound(m, S, f) ==
    \A u, v \in SeqId : u # v /\ f.m.tail[u] = f.m.tail[v] /\ f.m.tail[u] \in Idx
        => u \notin Range(S) /\ v \notin Range(S) /\ m.tail[u] = m.tail[v]

Found(m, S, last, f) ==
    /\ f.ok /\ f.lo \in Idx /\ f.hi \in Idx /\ f.lo + Len(S) - 1 <= f.hi
    /\ (Len(S) = 1 => f.lo = f.hi)
    /\ f.z \in {-1} \cup f.lo .. f.hi /\ f.src0 \in [f.lo .. f.hi -> Idx]
    /\ Sound(f.m) /\ f.m.rs = m.rs
    /\ FirstFound(m, S, last, f) /\ OthersFound(m, S, f) /\ EmptyFound(m, S, f) /\ TogetherFound(m, S, f)

LEMMA StagedFound ==
    ASSUME NEW m, Sound(m), NEW S \in Lists, NEW last, \A k \in 1 .. Len(S) : last[S[k]] \in Int,
           NEW g, NEW lo, NEW hi, LaidOut(m, S, g, lo, hi),
           NEW f, f = Prepared(g, Placed(g, S, last, lo), lo, hi)
    PROVE  Found(m, S, last, f)
<1> DEFINE n == Len(S)
           Q == Range(S)
           c == Placed(g, S, last, lo)
<1>1. /\ n \in Nat /\ n > 0 /\ Q = {S[k] : k \in 1 .. n} /\ Q \subseteq SeqId
      /\ \A k \in 1 .. n : S[k] \in SeqId /\ S[k] \in Q
      /\ \A i, j \in 1 .. n : i # j => S[i] # S[j]
    BY ListParts
<1>2. /\ g \in Memories(nrs) /\ g.rs = m.rs
      /\ lo \in Idx /\ hi \in Idx /\ lo + n - 1 <= hi /\ (n = 1 => lo = hi)
      /\ FirstCells(m, S, g, lo) /\ OtherTails(m, S, g, lo, hi) /\ OtherCells(m, S, g, lo, hi)
    BY DEF LaidOut
<1>3. /\ m \in Memories(nrs) /\ \A s \in SeqId, i \in Idx : s \in m.cells[i].seq <=> m.tail[s] = i
      /\ \A i \in Idx : m.cells[i].src \in {-1, i} /\ (m.cells[i].seq # {} => m.cells[i].src = i)
    BY DEF Sound, Linked, Sourced
<1>4. /\ g.cells \in [Idx -> Cells] /\ g.tail \in [SeqId -> -1 .. NSeq - 1]
      /\ \A i \in Idx : g.cells[i] \in Cells
      /\ \A s \in SeqId : g.tail[s] \in Idx \/ g.tail[s] = -1
    BY <1>2, MemoryParts
<1>5. /\ lo \in Nat /\ hi \in Nat /\ lo .. lo + n - 1 \subseteq lo .. hi /\ lo .. hi \subseteq Idx
    BY <1>1, <1>2, Sizes
\* The cells that are placed.
<1>6. \A i \in Idx : c[i] = IF i \in lo .. lo + n - 1
                            THEN [g.cells[i] EXCEPT !.pos = last[S[i - lo + 1]], !.seq = {S[i - lo + 1]}]
                            ELSE g.cells[i]
    BY DEF Placed
<1> HIDE DEF c, n, Q
<1>7. ASSUME NEW k \in 1 .. n
      PROVE  /\ lo + k - 1 \in Idx /\ lo + k - 1 \in lo .. lo + n - 1 /\ lo + k - 1 \in lo .. hi
             /\ c[lo + k - 1] \in Cells /\ c[lo + k - 1].pos = last[S[k]] /\ c[lo + k - 1].seq = {S[k]}
             /\ c[lo + k - 1].src = g.cells[lo + k - 1].src
    <2> DEFINE i == lo + k - 1
    <2>1. i \in lo .. lo + n - 1 /\ i \in lo .. hi /\ i \in Idx /\ i - lo + 1 = k
      BY <1>1, <1>5
    <2> HIDE DEF i
    <2>2. c[i] = [g.cells[i] EXCEPT !.pos = last[S[k]], !.seq = {S[k]}]
      BY <1>6, <2>1
    <2>3. g.cells[i] \in Cells /\ last[S[k]] \in Int /\ {S[k]} \in SUBSET SeqId
      BY <1>1, <1>4, <2>1 DEF n
    <2>4. c[i] \in Cells /\ c[i].pos = last[S[k]] /\ c[i].seq = {S[k]} /\ c[i].src = g.cells[i].src
      BY <2>2, <2>3 DEF Cells
    <2> QED BY <2>1, <2>4 DEF i
<1>8. ASSUME NEW i \in Idx, i \in lo .. lo + n - 1
      PROVE  \E k \in 1 .. n : i = lo + k - 1
    <2>1. i - lo + 1 \in 1 .. n /\ i = lo + (i - lo + 1) - 1
      BY <1>1, <1>5, <1>8
    <2> QED BY <2>1
<1>9. \A i \in Idx : c[i] \in Cells /\ c[i].src = g.cells[i].src
    <2> SUFFICES ASSUME NEW i \in Idx PROVE c[i] \in Cells /\ c[i].src = g.cells[i].src
      OBVIOUS
    <2>1. CASE i \in lo .. lo + n - 1
      <3>1. PICK k \in 1 .. n : i = lo + k - 1
        BY <1>8, <2>1
      <3> QED BY <1>7, <3>1
    <2>2. CASE i \notin lo .. lo + n - 1
      BY <1>4, <1>6, <2>2
    <2> QED BY <2>1, <2>2
<1>10. Stageable(c, lo, hi)
    <2>1. \A j \in Idx : g.cells[j].src \in -1 .. NSeq - 1
      BY <1>4 DEF Cells
    <2>2. \A j \in Idx : j \notin lo .. hi => g.cells[j].src \in {-1, j}
      BY <1>2 DEF OtherCells
    <2> QED BY <1>9, <2>1, <2>2 DEF Stageable
<1>11. /\ f.lo = lo /\ f.hi = hi /\ f.z \in {-1} \cup lo .. hi
       /\ \A i \in lo .. hi : IF c[i].src = -1 THEN f.src0[i] = f.z
                              ELSE f.src0[i] = c[i].src /\ f.src0[i] # f.z
       /\ f.src0 \in [lo .. hi -> Idx]
    <2>1. f = Prepared(g, c, lo, hi)
      BY DEF c
    <2>2. lo \in Idx /\ hi \in Idx
      BY <1>2
    <2>3. Sources(c, f, lo, hi)
      BY <1>10, <2>1, <2>2, StagedSources
    <2> QED BY <2>3 DEF Sources
\* The memory that is left.
<1> DEFINE c2 == [i \in Idx |-> IF i \in lo .. hi THEN [c[i] EXCEPT !.src = i] ELSE c[i]]
       used == Cardinality(Used(c2))
<1>12. f.m = [g EXCEPT !.cells = c2, !.head = lo, !.used = used] /\ f.ok
    BY DEF Prepared, Staged, c
<1>13. \A i \in Idx : c2[i] = IF i \in lo .. hi THEN [c[i] EXCEPT !.src = i] ELSE c[i]
    OBVIOUS
<1>14. c2 \in [Idx -> Cells] /\ \A i \in Idx : /\ c2[i].pos = c[i].pos /\ c2[i].seq = c[i].seq
                                               /\ c2[i].src = IF i \in lo .. hi THEN i ELSE c[i].src
    <2> SUFFICES ASSUME NEW i \in Idx
                 PROVE  /\ c2[i] \in Cells /\ c2[i].pos = c[i].pos /\ c2[i].seq = c[i].seq
                        /\ c2[i].src = IF i \in lo .. hi THEN i ELSE c[i].src
      OBVIOUS
    <2> HIDE DEF c2
    <2>1. c[i] \in Cells /\ i \in -1 .. NSeq - 1
      BY <1>9, Sizes
    <2> QED BY <1>13, <2>1 DEF Cells
<1> HIDE DEF c2
<1>15. used \in Int
    <2>1. Used(c2) \subseteq Idx
      BY DEF Used
    <2>2. IsFiniteSet(Used(c2))
      BY <2>1, CellCount, FS_Subset
    <2> QED BY <2>2, FS_CardinalityType
<1> HIDE DEF used
<1>16. /\ f.m \in Memories(nrs) /\ f.m.cells = c2 /\ f.m.tail = g.tail /\ f.m.rs = m.rs
       /\ f.m.used = Cardinality(Used(c2))
    <2>1. f.m = [cells |-> c2, tail |-> g.tail, head |-> lo, used |-> used, rs |-> g.rs]
      BY <1>2, <1>12 DEF Memories
    <2>2. f.m.cells = c2 /\ f.m.tail = g.tail /\ f.m.rs = m.rs /\ f.m.used = used
      BY <1>2, <2>1
    <2>3. g.tail \in [SeqId -> -1 .. NSeq - 1] /\ g.rs \in [SeqId -> 0 .. nrs] /\ lo \in Idx
      BY <1>2, MemoryParts
    <2>4. f.m \in Memories(nrs)
      BY <1>14, <1>15, <2>1, <2>3 DEF Memories
    <2> QED BY <2>2, <2>4 DEF used
<1>17. \A i \in Idx : /\ f.m.cells[i].pos = c[i].pos /\ f.m.cells[i].seq = c[i].seq
                      /\ f.m.cells[i].src = IF i \in lo .. hi THEN i ELSE c[i].src
    BY <1>14, <1>16
\* The cells behind those of S are what they were in g.
<1>18. ASSUME NEW i \in Idx, i \notin lo .. lo + n - 1
       PROVE  /\ c[i] = g.cells[i]
              /\ \A u \in g.cells[i].seq : u \notin Q /\ g.tail[u] = i
              /\ \E e \in Idx : /\ g.cells[i].pos = m.cells[e].pos
                                /\ g.cells[i].seq = {} => Spare(m, e) /\ g.cells[i].src = m.cells[e].src
                                /\ i \notin lo .. hi => e = i
    BY <1>2, <1>6, <1>18 DEF OtherCells, Q, n
<1>19. ASSUME NEW u \in SeqId \ Q
       PROVE  IF m.tail[u] \in Idx
              THEN /\ g.tail[u] \in Idx /\ g.tail[u] \notin lo .. lo + n - 1
                   /\ u \in g.cells[g.tail[u]].seq
                   /\ g.cells[g.tail[u]].pos = m.cells[m.tail[u]].pos
                   /\ g.cells[g.tail[u]].src = m.tail[u]
                   /\ g.tail[u] \notin lo .. hi => g.tail[u] = m.tail[u]
              ELSE g.tail[u] = -1
    BY <1>2, <1>19 DEF OtherTails, Q, n
<1>20. ASSUME NEW k \in 1 .. n
       PROVE  /\ g.tail[S[k]] = lo + k - 1
              /\ IF m.tail[S[k]] \in Idx THEN c[lo + k - 1].src = m.tail[S[k]]
                 ELSE \E e : Spare(m, e) /\ c[lo + k - 1].src = m.cells[e].src
    <2>1. /\ g.tail[S[k]] = lo + k - 1
          /\ IF m.tail[S[k]] \in Idx THEN g.cells[lo + k - 1].src = m.tail[S[k]]
             ELSE \E e : Spare(m, e) /\ g.cells[lo + k - 1].src = m.cells[e].src
      BY <1>2 DEF FirstCells, n
    <2>2. c[lo + k - 1].src = g.cells[lo + k - 1].src
      BY <1>7
    <2> QED BY <2>1, <2>2
<1>21. ASSUME NEW i \in lo .. hi, NEW e, Spare(m, e), c[i].src = m.cells[e].src
       PROVE  Blank(m, f, i)
    <2>1. e \in Idx /\ m.cells[e].src \in {-1, e}
      BY <1>3, <1>21 DEF Spare
    <2>2. CASE m.cells[e].src = -1
      BY <1>11, <1>21, <2>2 DEF Blank
    <2>3. CASE m.cells[e].src = e
      <3>1. e # -1
        BY <2>1, Sizes
      <3>2. f.src0[i] = e
        BY <1>11, <1>21, <2>3, <3>1
      <3> QED BY <1>21, <2>3, <3>2 DEF Blank
    <2> QED BY <2>1, <2>2, <2>3
<1>22. ASSUME NEW i \in lo .. hi, NEW t \in Idx, c[i].src = t
       PROVE  f.src0[i] = t /\ f.src0[i] # f.z
    <2>1. t # -1
      BY Sizes
    <2> QED BY <1>11, <1>22, <2>1
<1>23. Linked(f.m)
    <2> SUFFICES ASSUME NEW s \in SeqId, NEW i \in Idx PROVE s \in f.m.cells[i].seq <=> f.m.tail[s] = i
      BY DEF Linked
    <2> SUFFICES s \in c[i].seq <=> g.tail[s] = i
      BY <1>16, <1>17
    <2>1. CASE s \in Q
      <3>1. PICK k \in 1 .. n : s = S[k]
        BY <1>1, <2>1
      <3>2. g.tail[s] = lo + k - 1 /\ c[lo + k - 1].seq = {s}
        BY <1>7, <1>20, <3>1
      <3>3. CASE i \in lo .. lo + n - 1
        <4>1. PICK j \in 1 .. n : i = lo + j - 1
          BY <1>8, <3>3
        <4>2. c[i].seq = {S[j]}
          BY <1>7, <4>1
        <4>3. CASE j = k
          BY <3>1, <3>2, <4>1, <4>3
        <4>4. CASE j # k
          <5>1. S[j] # s
            BY <1>1, <3>1, <4>4
          <5>2. i # lo + k - 1
            BY <1>5, <4>1, <4>4
          <5> QED BY <3>2, <4>2, <5>1, <5>2
        <4> QED BY <4>3, <4>4
      <3>4. CASE i \notin lo .. lo + n - 1
        <4>1. i # lo + k - 1
          BY <1>7, <3>4
        <4>2. s \notin c[i].seq
          BY <1>18, <2>1, <3>4
        <4> QED BY <3>2, <4>1, <4>2
      <3> QED BY <3>3, <3>4
    <2>2. CASE s \notin Q
      <3>1. CASE i \in lo .. lo + n - 1
        <4>1. PICK j \in 1 .. n : i = lo + j - 1
          BY <1>8, <3>1
        <4>2. s \notin c[i].seq
          <5>1. c[i].seq = {S[j]} /\ S[j] \in Q
            BY <1>1, <1>7, <4>1
          <5> QED BY <2>2, <5>1
        <4>3. g.tail[s] # i
          <5>1. CASE m.tail[s] \in Idx
            BY <1>19, <2>2, <3>1, <5>1
          <5>2. CASE m.tail[s] \notin Idx
            BY <1>19, <2>2, <5>2, Sizes
          <5> QED BY <5>1, <5>2
        <4> QED BY <4>2, <4>3
      <3>2. CASE i \notin lo .. lo + n - 1
        <4>1. s \in c[i].seq => g.tail[s] = i
          BY <1>18, <3>2
        <4>2. ASSUME g.tail[s] = i PROVE s \in c[i].seq
          <5>1. m.tail[s] \in Idx
            BY <1>19, <2>2, <4>2, Sizes
          <5>2. s \in g.cells[g.tail[s]].seq
            BY <1>19, <2>2, <5>1
          <5> QED BY <1>18, <3>2, <4>2, <5>2
        <4> QED BY <4>1, <4>2
      <3> QED BY <3>1, <3>2
    <2> QED BY <2>1, <2>2
<1>24. Sourced(f.m)
    <2> SUFFICES ASSUME NEW i \in Idx
                 PROVE  f.m.cells[i].src \in {-1, i} /\ (f.m.cells[i].seq # {} => f.m.cells[i].src = i)
      BY DEF Sourced
    <2>1. CASE i \in lo .. hi
      BY <1>17, <2>1
    <2>2. CASE i \notin lo .. hi
      <3>1. i \notin lo .. lo + n - 1
        BY <1>5, <2>2
      <3>2. g.cells[i].src \in {-1, i}
        BY <1>2, <2>2 DEF OtherCells
      <3>3. f.m.cells[i].src = g.cells[i].src /\ f.m.cells[i].seq = g.cells[i].seq
        BY <1>17, <1>18, <2>2, <3>1
      <3>4. ASSUME NEW u \in g.cells[i].seq PROVE g.cells[i].src = i
        <4>1. u \in SeqId /\ u \notin Q /\ g.tail[u] = i
          BY <1>4, <1>18, <3>1 DEF Cells
        <4>2. m.tail[u] \in Idx
          BY <1>19, <4>1, Sizes
        <4>3. g.cells[i].src = m.tail[u] /\ i = m.tail[u]
          BY <1>19, <2>2, <4>1, <4>2
        <4> QED BY <4>3
      <3> QED BY <3>2, <3>3, <3>4
    <2> QED BY <2>1, <2>2
<1>25. Sound(f.m)
    BY <1>16, <1>23, <1>24 DEF Sound
<1>26. FirstFound(m, S, last, f)
    <2> SUFFICES ASSUME NEW k \in 1 .. n
                 PROVE  /\ f.m.tail[S[k]] = lo + k - 1
                        /\ f.m.cells[lo + k - 1].pos = last[S[k]] /\ f.m.cells[lo + k - 1].seq = {S[k]}
                        /\ IF m.tail[S[k]] \in Idx
                           THEN f.src0[lo + k - 1] = m.tail[S[k]] /\ f.src0[lo + k - 1] # f.z
                           ELSE Blank(m, f, lo + k - 1)
      BY <1>11 DEF FirstFound, n
    <2>1. f.m.tail[S[k]] = lo + k - 1
      BY <1>16, <1>20
    <2>2. f.m.cells[lo + k - 1].pos = last[S[k]] /\ f.m.cells[lo + k - 1].seq = {S[k]}
      BY <1>7, <1>17
    <2>3. lo + k - 1 \in lo .. hi
      BY <1>7
    <2>4. CASE m.tail[S[k]] \in Idx
      <3>1. c[lo + k - 1].src = m.tail[S[k]]
        BY <1>20, <2>4
      <3>2. f.src0[lo + k - 1] = m.tail[S[k]] /\ f.src0[lo + k - 1] # f.z
        BY <1>22, <2>3, <2>4, <3>1
      <3> QED BY <2>1, <2>2, <2>4, <3>2
    <2>5. CASE m.tail[S[k]] \notin Idx
      <3>1. Blank(m, f, lo + k - 1)
        BY <1>20, <1>21, <2>3, <2>5
      <3> QED BY <2>1, <2>2, <2>5, <3>1
    <2> QED BY <2>4, <2>5
<1>27. OthersFound(m, S, f)
    <2> SUFFICES ASSUME NEW u \in SeqId \ Q
                 PROVE  IF m.tail[u] \in Idx
                        THEN /\ f.m.tail[u] \in Idx /\ f.m.tail[u] \notin lo .. lo + n - 1
                             /\ f.m.cells[f.m.tail[u]].pos = m.cells[m.tail[u]].pos
                             /\ IF f.m.tail[u] \in lo .. hi
                                THEN f.src0[f.m.tail[u]] = m.tail[u] /\ f.src0[f.m.tail[u]] # f.z
                                ELSE f.m.tail[u] = m.tail[u]
                        ELSE f.m.tail[u] = -1
      BY <1>11 DEF OthersFound, n, Q
    <2>0. f.m.tail[u] = g.tail[u]
      BY <1>16
    <2>1. CASE m.tail[u] \notin Idx
      BY <1>19, <2>0, <2>1
    <2>2. CASE m.tail[u] \in Idx
      <3> DEFINE i == g.tail[u]
      <3>1. /\ i \in Idx /\ i \notin lo .. lo + n - 1
            /\ g.cells[i].pos = m.cells[m.tail[u]].pos /\ g.cells[i].src = m.tail[u]
            /\ i \notin lo .. hi => i = m.tail[u]
        BY <1>19, <2>2
      <3>2. c[i] = g.cells[i]
        BY <1>18, <3>1
      <3>3. f.m.cells[i].pos = m.cells[m.tail[u]].pos
        BY <1>17, <3>1, <3>2
      <3>4. i \in lo .. hi => f.src0[i] = m.tail[u] /\ f.src0[i] # f.z
        BY <1>22, <2>2, <3>1, <3>2
      <3> HIDE DEF i
      <3>5. f.m.tail[u] = i
        BY <2>0 DEF i
      <3> QED BY <2>2, <3>1, <3>3, <3>4, <3>5
    <2> QED BY <2>1, <2>2
<1>28. EmptyFound(m, S, f)
    <2> SUFFICES ASSUME NEW i \in Idx, i \notin lo .. lo + n - 1
                 PROVE  /\ \E e \in Idx : f.m.cells[i].pos = m.cells[e].pos
                        /\ f.m.cells[i].seq = {} => IF i \in lo .. hi THEN Blank(m, f, i)
                                                    ELSE Spare(m, i) /\ f.m.cells[i].src = m.cells[i].src
      BY <1>11 DEF EmptyFound, n
    <2>1. c[i] = g.cells[i]
      BY <1>18
    <2>2. PICK e \in Idx : /\ g.cells[i].pos = m.cells[e].pos
                           /\ g.cells[i].seq = {} => Spare(m, e) /\ g.cells[i].src = m.cells[e].src
                           /\ i \notin lo .. hi => e = i
      BY <1>18
    <2>3. f.m.cells[i].pos = m.cells[e].pos /\ f.m.cells[i].seq = g.cells[i].seq
      BY <1>17, <2>1, <2>2
    <2>4. CASE i \in lo .. hi
      BY <1>21, <2>1, <2>2, <2>3, <2>4
    <2>5. CASE i \notin lo .. hi
      BY <1>17, <2>1, <2>2, <2>3, <2>5
    <2> QED BY <2>4, <2>5
<1>29. TogetherFound(m, S, f)
    <2> SUFFICES ASSUME NEW u \in SeqId, NEW v \in SeqId, u # v, g.tail[u] = g.tail[v], g.tail[u] \in Idx
                 PROVE  u \notin Q /\ v \notin Q /\ m.tail[u] = m.tail[v]
      BY <1>16 DEF TogetherFound, Q
    <2>1. \A w \in Q : g.tail[w] \in lo .. lo + n - 1 /\ \E k \in 1 .. n : w = S[k] /\ g.tail[w] = lo + k - 1
      BY <1>1, <1>7, <1>20
    <2>2. \A w \in SeqId \ Q : g.tail[w] \in Idx =>
             g.tail[w] \notin lo .. lo + n - 1 /\ g.cells[g.tail[w]].src = m.tail[w]
      BY <1>19, Sizes
    <2>3. CASE u \in Q /\ v \in Q
      <3>1. PICK j \in 1 .. n : u = S[j] /\ g.tail[u] = lo + j - 1
        BY <2>1, <2>3
      <3>2. PICK k \in 1 .. n : v = S[k] /\ g.tail[v] = lo + k - 1
        BY <2>1, <2>3
      <3>3. j = k
        BY <1>5, <3>1, <3>2
      <3> QED BY <3>1, <3>2, <3>3
    <2>4. CASE u \notin Q /\ v \notin Q
      BY <2>2, <2>4
    <2> QED BY <2>1, <2>2, <2>3, <2>4
<1> QED BY <1>2, <1>5, <1>11, <1>12, <1>16, <1>25, <1>26, <1>27, <1>28, <1>29 DEF Found, n

LEMMA FindSlotFinds ==
    ASSUME NEW m, Sound(m), NEW S \in Lists, NEW last, \A k \in 1 .. Len(S) : last[S[k]] \in Int
    PROVE  Found(m, S, last, FindSlot(m, S, last))
<1> DEFINE from == IF m.head > m.used + 2 * Len(S) THEN 0 ELSE m.head
           f == Claims(m, S, from)
           T == {f.m.tail[s] : s \in Range(S)}
           g == Gather(f.m, S, Min(T))
<1>1. from \in Idx
    <2>1. m \in Memories(nrs)
      BY DEF Sound
    <2>2. m.head \in Idx
      BY <2>1, MemoryParts
    <2> QED BY <2>2, Sizes
<1> HIDE DEF from
<1>2. Claimed(m, Range(S), f)
    BY <1>1, ClaimsSound
<1>3. FindSlot(m, S, last) = Staged(g, Placed(g, S, last, Min(T)), Min(T), Max(T), f.ok)
    BY DEF FindSlot, from
<1>4. f.ok = TRUE
    BY <1>2 DEF Claimed
<1> HIDE DEF f
<1>5. FindSlot(m, S, last) = Prepared(g, Placed(g, S, last, Min(T)), Min(T), Max(T))
    BY <1>3, <1>4 DEF Prepared
<1>6. LaidOut(m, S, g, Min(T), Max(T))
    <2>1. T = {f.m.tail[s] : s \in Range(S)} /\ g = Gather(f.m, S, Min(T))
      OBVIOUS
    <2> HIDE DEF T, g
    <2> QED BY <1>2, <2>1, CellsLaidOut
<1> HIDE DEF T, g
<1> QED BY <1>5, <1>6, StagedFound

-----------------------------------------------------------------------------
(* A sequence leaves its cell.                                             *)

Left(m, y, s) ==
    /\ Sound(y) /\ y.tail[s] = -1
    /\ \A u \in SeqId \ {s} : y.tail[u] = m.tail[u]
    /\ \A i \in Idx : IF i # m.tail[s] THEN y.cells[i] = m.cells[i]
                      ELSE IF m.cells[i].seq = {s} THEN y.cells[i] = Empty
                      ELSE /\ y.cells[i].pos = m.cells[i].pos /\ y.cells[i].src = m.cells[i].src
                           /\ y.cells[i].seq = m.cells[i].seq \ {s} /\ y.cells[i].seq # {}

LEMMA UsedFinite == ASSUME NEW c PROVE IsFiniteSet(Used(c)) /\ Cardinality(Used(c)) \in 0 .. NSeq
<1>1. Used(c) \subseteq Idx
    BY DEF Used
<1>2. IsFiniteSet(Used(c)) /\ Cardinality(Used(c)) <= NSeq
    BY <1>1, CellCount, FS_Subset
<1>3. Cardinality(Used(c)) \in Nat
    BY <1>2, FS_CardinalityType
<1> QED BY <1>2, <1>3, Sizes

LEMMA EmptyFine == Empty \in Cells /\ Empty.pos = -1 /\ Empty.src = -1 /\ Empty.seq = {}
BY Sizes DEF Empty, Cells

LEMMA LeaveLeft ==
    ASSUME NEW m, Sound(m), NEW s \in SeqId
    PROVE  Left(m, Leave(m, s), s) /\ Leave(m, s).rs = m.rs /\ Leave(m, s).head = m.head
<1> DEFINE t == m.tail[s]
           alone == m.cells[t].seq = {s}
           y == Leave(m, s)
<1>1. /\ m \in Memories(nrs) /\ m.used = Cardinality(Used(m.cells))
      /\ \A u \in SeqId, i \in Idx : u \in m.cells[i].seq <=> m.tail[u] = i
      /\ \A i \in Idx : m.cells[i].src \in {-1, i} /\ (m.cells[i].seq # {} => m.cells[i].src = i)
    BY DEF Sound, Linked, Sourced
<1>2. /\ m.cells \in [Idx -> Cells] /\ m.tail \in [SeqId -> -1 .. NSeq - 1] /\ m.used \in Int
      /\ \A i \in Idx : m.cells[i] \in Cells
      /\ t \in Idx \/ t = -1
    BY <1>1, MemoryParts
<1>3. CASE t = -1
    <2>1. y = m
      BY <1>3 DEF Leave
    <2>2. \A i \in Idx : i # m.tail[s]
      BY <1>3, Sizes
    <2> QED BY <1>3, <2>1, <2>2 DEF Left
<1>4. CASE t \in Idx
    <2> DEFINE d == IF alone THEN Empty ELSE [m.cells[t] EXCEPT !.seq = @ \ {s}]
               cells == [m.cells EXCEPT ![t] = d]
               tail == [m.tail EXCEPT ![s] = -1]
               used == IF alone THEN m.used - 1 ELSE m.used
    <2>1. ~(t < 0) /\ s \in m.cells[t].seq /\ m.cells[t].src = t
      BY <1>1, <1>4, Sizes
    <2>2. y = [m EXCEPT !.cells = cells, !.tail = tail, !.used = used]
      <3>1. y = [m EXCEPT !.cells[t] = d, !.tail[s] = -1, !.used = used]
        BY <2>1 DEF Leave
      <3> HIDE DEF y, d, used
      <3> QED BY <1>1, <3>1 DEF Memories
    <2>3. /\ d \in Cells
          /\ alone => d = Empty
          /\ ~alone => d.pos = m.cells[t].pos /\ d.src = t /\ d.seq = m.cells[t].seq \ {s} /\ d.seq # {}
      <3>1. CASE alone
        BY <3>1, EmptyFine
      <3>2. CASE ~alone
        <4>1. m.cells[t] \in Cells /\ d = [m.cells[t] EXCEPT !.seq = @ \ {s}]
          BY <1>2, <1>4, <3>2
        <4> HIDE DEF d
        <4>2. d \in Cells /\ d.pos = m.cells[t].pos /\ d.src = m.cells[t].src /\ d.seq = m.cells[t].seq \ {s}
          BY <4>1 DEF Cells
        <4> QED BY <2>1, <3>2, <4>2
      <3> QED BY <3>1, <3>2
    <2> HIDE DEF d
    <2>4. /\ cells \in [Idx -> Cells] /\ cells[t] = d /\ \A i \in Idx \ {t} : cells[i] = m.cells[i]
          /\ tail \in [SeqId -> -1 .. NSeq - 1] /\ tail[s] = -1 /\ \A u \in SeqId \ {s} : tail[u] = m.tail[u]
      <3>1. /\ cells \in [Idx -> Cells] /\ cells[t] = d /\ \A i \in Idx \ {t} : cells[i] = m.cells[i]
        BY <1>2, <1>4, <2>3
      <3>2. -1 \in -1 .. NSeq - 1
        BY Sizes
      <3>3. /\ tail \in [SeqId -> -1 .. NSeq - 1] /\ tail[s] = -1
            /\ \A u \in SeqId \ {s} : tail[u] = m.tail[u]
        BY <1>2, <3>2
      <3> QED BY <3>1, <3>3
    <2> HIDE DEF cells, tail
    <2>5. used = Cardinality(Used(cells))
      <3>1. CASE alone
        <4>1. Used(cells) = Used(m.cells) \ {t} /\ t \in Used(m.cells)
          <5>1. \A i \in Idx : cells[i].seq # {} <=> i # t /\ m.cells[i].seq # {}
            BY <1>4, <2>3, <2>4, <3>1, EmptyFine
          <5> QED BY <1>4, <2>1, <5>1 DEF Used
        <4>2. Cardinality(Used(cells)) = Cardinality(Used(m.cells)) - 1
          BY <4>1, UsedFinite, FS_RemoveElement
        <4> QED BY <1>1, <3>1, <4>2
      <3>2. CASE ~alone
        <4>1. \A i \in Idx : cells[i].seq # {} <=> m.cells[i].seq # {}
          BY <1>4, <2>1, <2>3, <2>4, <3>2
        <4>2. Used(cells) = Used(m.cells)
          BY <4>1 DEF Used
        <4> QED BY <1>1, <3>2, <4>2
      <3> QED BY <3>1, <3>2
    <2>6. used \in Int
      BY <1>2
    <2> HIDE DEF used
    <2>7. y = [cells |-> cells, tail |-> tail, head |-> m.head, used |-> used, rs |-> m.rs]
      BY <1>1, <2>2 DEF Memories
    <2> HIDE DEF y
    <2>8. /\ y.cells = cells /\ y.tail = tail /\ y.used = used /\ y.rs = m.rs /\ y.head = m.head
          /\ y \in Memories(nrs)
      <3>1. m.head \in Idx /\ m.rs \in [SeqId -> 0 .. nrs]
        BY <1>1, MemoryParts
      <3> QED BY <2>4, <2>6, <2>7, <3>1 DEF Memories
    <2>9. Linked(y)
      <3> SUFFICES ASSUME NEW u \in SeqId, NEW i \in Idx PROVE u \in cells[i].seq <=> tail[u] = i
        BY <2>8 DEF Linked
      <3>1. u \in m.cells[i].seq <=> m.tail[u] = i
        BY <1>1
      <3>2. CASE i # t
        BY <2>4, <3>1, <3>2, Sizes
      <3>3. CASE i = t
        <4>1. cells[i].seq = m.cells[t].seq \ {s}
          BY <2>3, <2>4, <3>3, EmptyFine
        <4> QED BY <2>4, <3>1, <3>3, <4>1, Sizes
      <3> QED BY <3>2, <3>3
    <2>10. Sourced(y)
      <3> SUFFICES ASSUME NEW i \in Idx
                   PROVE  cells[i].src \in {-1, i} /\ (cells[i].seq # {} => cells[i].src = i)
        BY <2>8 DEF Sourced
      <3>1. CASE i # t
        BY <1>1, <2>4, <3>1
      <3>2. CASE i = t
        BY <2>3, <2>4, <3>2, EmptyFine
      <3> QED BY <3>1, <3>2
    <2>11. Sound(y)
      BY <2>5, <2>8, <2>9, <2>10 DEF Sound
    <2>12. \A i \in Idx : IF i # m.tail[s] THEN y.cells[i] = m.cells[i]
                          ELSE IF m.cells[i].seq = {s} THEN y.cells[i] = Empty
                          ELSE /\ y.cells[i].pos = m.cells[i].pos /\ y.cells[i].src = m.cells[i].src
                               /\ y.cells[i].seq = m.cells[i].seq \ {s} /\ y.cells[i].seq # {}
      BY <2>1, <2>3, <2>4, <2>8
    <2> QED BY <2>4, <2>8, <2>11, <2>12 DEF Left, y
<1> QED BY <1>2, <1>3, <1>4

\* Only positions, the choice of the plane and the head change otherwise.
Renewed(m, y) ==
    /\ y \in Memories(nrs) /\ y.tail = m.tail /\ y.used = m.used
    /\ \A i \in Idx : y.cells[i].seq = m.cells[i].seq /\ y.cells[i].src = m.cells[i].src

LEMMA RenewedSound == ASSUME NEW m, Sound(m), NEW y, Renewed(m, y) PROVE Sound(y)
<1>1. Used(y.cells) = Used(m.cells)
    BY DEF Used, Renewed
<1>2. Linked(y) /\ Sourced(y)
    BY DEF Sound, Renewed, Linked, Sourced
<1> QED BY <1>1, <1>2 DEF Sound, Renewed

LEMMA LowerInRange ==
    ASSUME NEW h \in Idx, NEW old, NEW new
    PROVE  Lower(h, old, new) \in Idx
<1> DEFINE freed == Used(old) \ Used(new)
<1>1. freed \in SUBSET Nat /\ \A i \in freed : i \in Idx
    BY Sizes DEF Used
<1>2. freed # {} => Min(freed) \in freed
    <2> HIDE DEF freed
    <2> QED BY <1>1, MinExists
<1> QED BY <1>1, <1>2 DEF Lower

LEMMA RemoveAllLeft ==
    ASSUME nrs \in Nat, NEW m, Sound(m), NEW s \in SeqId
    PROVE  Left(m, RemoveAll(m, s), s) /\ RemoveAll(m, s).rs = [m.rs EXCEPT ![s] = 0]
<1> DEFINE l == Leave(m, s)
           y == RemoveAll(m, s)
           h == Lower(l.head, m.cells, l.cells)
           rs == [m.rs EXCEPT ![s] = 0]
<1>1. Left(m, l, s) /\ l.rs = m.rs /\ l.head = m.head
    BY LeaveLeft
<1>2. Sound(l) /\ l \in Memories(nrs) /\ m \in Memories(nrs)
    BY <1>1 DEF Left, Sound
<1>3. l.cells \in [Idx -> Cells] /\ l.tail \in [SeqId -> -1 .. NSeq - 1] /\ l.used \in Int /\ l.head \in Idx
    BY <1>2, MemoryParts
<1>5. rs \in [SeqId -> 0 .. nrs]
    <2>1. m.rs \in [SeqId -> 0 .. nrs] /\ m.rs[s] \in 0 .. nrs
      BY <1>2, MemoryParts
    <2> QED BY <2>1
<1>6. h \in Idx
    BY <1>3, LowerInRange
<1>7. y = [l EXCEPT !.rs = rs, !.head = h]
    BY <1>1, <1>2 DEF RemoveAll, Memories
<1> HIDE DEF l, y, h, rs
<1>8. y = [cells |-> l.cells, tail |-> l.tail, head |-> h, used |-> l.used, rs |-> rs]
    BY <1>2, <1>7 DEF Memories
<1>9. Renewed(l, y) /\ y.rs = rs /\ y.cells = l.cells
    BY <1>3, <1>5, <1>6, <1>8 DEF Renewed, Memories
<1>10. Sound(y)
    BY <1>2, <1>9, RenewedSound
<1> QED BY <1>1, <1>9, <1>10 DEF Left, Renewed, y, rs

\* What a copy makes of the cells: t is where s is.
Copied(m, y, s, t) ==
    /\ Sound(y) /\ y.rs = m.rs
    /\ y.tail[t] = m.tail[s] /\ \A u \in SeqId \ {t} : y.tail[u] = m.tail[u]
    /\ \A i \in Idx : /\ y.cells[i].pos = m.cells[i].pos \/ (y.cells[i].pos = -1 /\ y.cells[i].seq = {})
                      /\ y.cells[i].seq = {} => y.cells[i] = m.cells[i] \/ y.cells[i] = Empty

CopyOf(m, s, t) ==
    LET l == Leave(m, t)
        at == l.tail[s]
    IN  IF at < 0 THEN l ELSE [l EXCEPT !.cells[at].seq = @ \cup {t}, !.tail[t] = at]

LEMMA CopySound ==
    ASSUME NEW m, Sound(m), NEW s \in SeqId, NEW t \in SeqId, s # t
    PROVE  Copied(m, CopyOf(m, s, t), s, t)
<1> DEFINE l == Leave(m, t)
           at == l.tail[s]
           y == CopyOf(m, s, t)
<1>0. y = IF at < 0 THEN l ELSE [l EXCEPT !.cells[at].seq = @ \cup {t}, !.tail[t] = at]
    BY DEF CopyOf
<1>1. Left(m, l, t) /\ l.rs = m.rs
    BY LeaveLeft
<1> HIDE DEF l, y
<1>2. /\ l \in Memories(nrs) /\ l.used = Cardinality(Used(l.cells)) /\ m \in Memories(nrs)
      /\ \A u \in SeqId, i \in Idx : u \in l.cells[i].seq <=> l.tail[u] = i
      /\ \A i \in Idx : l.cells[i].src \in {-1, i} /\ (l.cells[i].seq # {} => l.cells[i].src = i)
    BY <1>1 DEF Left, Sound, Linked, Sourced
<1>3. /\ l.cells \in [Idx -> Cells] /\ l.tail \in [SeqId -> -1 .. NSeq - 1]
      /\ \A i \in Idx : l.cells[i] \in Cells
      /\ at \in Idx \/ at = -1
    BY <1>2, MemoryParts
<1>4. /\ at = m.tail[s] /\ l.tail[t] = -1 /\ \A u \in SeqId \ {t} : l.tail[u] = m.tail[u]
    BY <1>1 DEF Left
<1>5. \A i \in Idx : /\ l.cells[i].pos = m.cells[i].pos \/ (l.cells[i].pos = -1 /\ l.cells[i].seq = {})
                     /\ l.cells[i].seq = {} => l.cells[i] = m.cells[i] \/ l.cells[i] = Empty
    BY <1>1, EmptyFine DEF Left
<1>6. CASE at = -1
    <2>1. y = l
      BY <1>0, <1>6
    <2> QED BY <1>1, <1>4, <1>5, <1>6, <2>1 DEF Copied, Left, y
<1>7. CASE at \in Idx
    <2> DEFINE d == [l.cells[at] EXCEPT !.seq = @ \cup {t}]
               cells == [l.cells EXCEPT ![at] = d]
               tail == [l.tail EXCEPT ![t] = at]
    <2>1. ~(at < 0) /\ s \in l.cells[at].seq /\ l.cells[at].src = at
      BY <1>2, <1>7, Sizes
    <2>2. y = [l EXCEPT !.cells = cells, !.tail = tail]
      BY <1>0, <1>2, <2>1 DEF Memories
    <2>3. d \in Cells /\ d.pos = l.cells[at].pos /\ d.src = at /\ d.seq = l.cells[at].seq \cup {t}
      BY <1>3, <1>7, <2>1 DEF Cells
    <2> HIDE DEF d
    <2>4. /\ cells \in [Idx -> Cells] /\ cells[at] = d /\ \A i \in Idx \ {at} : cells[i] = l.cells[i]
          /\ tail \in [SeqId -> -1 .. NSeq - 1] /\ tail[t] = at /\ \A u \in SeqId \ {t} : tail[u] = l.tail[u]
      BY <1>3, <1>7, <2>3, Sizes
    <2> HIDE DEF cells, tail
    <2>5. y = [cells |-> cells, tail |-> tail, head |-> l.head, used |-> l.used, rs |-> l.rs]
      BY <1>2, <2>2 DEF Memories
    <2>6. /\ y.cells = cells /\ y.tail = tail /\ y.used = l.used /\ y.rs = m.rs
          /\ y \in Memories(nrs)
      <3>1. l.head \in Idx /\ l.rs \in [SeqId -> 0 .. nrs] /\ l.used \in Int
        BY <1>2, MemoryParts
      <3>2. y.cells = cells /\ y.tail = tail /\ y.used = l.used /\ y.rs = l.rs
        BY <2>5
      <3>3. y \in Memories(nrs)
        BY <2>4, <2>5, <3>1 DEF Memories
      <3> QED BY <1>1, <3>2, <3>3
    <2>7. Linked(y)
      <3> SUFFICES ASSUME NEW u \in SeqId, NEW i \in Idx PROVE u \in cells[i].seq <=> tail[u] = i
        BY <2>6 DEF Linked
      <3>1. u \in l.cells[i].seq <=> l.tail[u] = i
        BY <1>2
      <3>2. CASE i # at
        BY <1>4, <2>4, <3>1, <3>2, Sizes
      <3>3. CASE i = at
        BY <2>3, <2>4, <3>1, <3>3
      <3> QED BY <3>2, <3>3
    <2>8. Sourced(y)
      <3> SUFFICES ASSUME NEW i \in Idx
                   PROVE  cells[i].src \in {-1, i} /\ (cells[i].seq # {} => cells[i].src = i)
        BY <2>6 DEF Sourced
      <3> QED BY <1>2, <2>3, <2>4
    <2>9. y.used = Cardinality(Used(y.cells))
      <3>1. \A i \in Idx : cells[i].seq # {} <=> l.cells[i].seq # {}
        BY <2>1, <2>3, <2>4
      <3>2. Used(cells) = Used(l.cells)
        BY <3>1 DEF Used
      <3> QED BY <1>2, <2>6, <3>2
    <2>10. Sound(y)
      BY <2>6, <2>7, <2>8, <2>9 DEF Sound
    <2>11. \A i \in Idx : /\ y.cells[i].pos = m.cells[i].pos \/ (y.cells[i].pos = -1 /\ y.cells[i].seq = {})
                          /\ y.cells[i].seq = {} => y.cells[i] = m.cells[i] \/ y.cells[i] = Empty
      <3> SUFFICES ASSUME NEW i \in Idx
                   PROVE  /\ cells[i].pos = m.cells[i].pos \/ (cells[i].pos = -1 /\ cells[i].seq = {})
                          /\ cells[i].seq = {} => cells[i] = m.cells[i] \/ cells[i] = Empty
        BY <2>6
      <3>1. CASE i # at
        BY <1>5, <2>4, <3>1
      <3>2. CASE i = at
        BY <1>5, <2>1, <2>3, <2>4, <3>2
      <3> QED BY <3>1, <3>2
    <2> QED BY <1>4, <2>4, <2>6, <2>10, <2>11 DEF Copied, y
<1> QED BY <1>3, <1>6, <1>7

\* What keeping s alone makes of the cells.
Kept(m, y, s) ==
    /\ Sound(y) /\ y.rs = m.rs
    /\ y.tail[s] = m.tail[s] /\ \A u \in SeqId \ {s} : y.tail[u] = -1
    /\ \A i \in Idx : IF i = m.tail[s] THEN y.cells[i].pos = m.cells[i].pos /\ y.cells[i].seq = {s}
                      ELSE y.cells[i] = Empty

CellsOf(m, s) == [i \in Idx |-> IF s \in m.cells[i].seq THEN [m.cells[i] EXCEPT !.seq = {s}]
                                                          ELSE Empty]
KeepOf(m, s, c) ==
    [m EXCEPT !.cells = c,
              !.tail = [t \in SeqId |-> IF t = s THEN @[t] ELSE -1],
              !.used = @ - Cardinality(Used(m.cells) \ Used(c)),
              !.head = LET free == Idx \ Used(c)
                       IN  IF free # {} /\ Min(free) < @ THEN Min(free) ELSE @]

LEMMA KeepSound ==
    ASSUME NEW m, Sound(m), NEW s \in SeqId
    PROVE  Kept(m, KeepOf(m, s, CellsOf(m, s)), s)
<1> DEFINE c == CellsOf(m, s)
           y == KeepOf(m, s, c)
<1>0. c = [i \in Idx |-> IF s \in m.cells[i].seq THEN [m.cells[i] EXCEPT !.seq = {s}] ELSE Empty]
    BY DEF CellsOf
<1> HIDE DEF c
<1>1. /\ m \in Memories(nrs) /\ m.used = Cardinality(Used(m.cells))
      /\ \A u \in SeqId, i \in Idx : u \in m.cells[i].seq <=> m.tail[u] = i
      /\ \A i \in Idx : m.cells[i].src \in {-1, i} /\ (m.cells[i].seq # {} => m.cells[i].src = i)
    BY DEF Sound, Linked, Sourced
<1>2. /\ m.cells \in [Idx -> Cells] /\ m.tail \in [SeqId -> -1 .. NSeq - 1] /\ m.head \in Idx
      /\ \A i \in Idx : m.cells[i] \in Cells
      /\ m.rs \in [SeqId -> 0 .. nrs]
    BY <1>1, MemoryParts
<1>3. ASSUME NEW i \in Idx
      PROVE  /\ c[i] \in Cells
             /\ IF i = m.tail[s] THEN c[i].pos = m.cells[i].pos /\ c[i].seq = {s} /\ c[i].src = i
                ELSE c[i] = Empty
    <2>1. CASE i = m.tail[s]
      <3>1. c[i] = [m.cells[i] EXCEPT !.seq = {s}] /\ m.cells[i] \in Cells /\ m.cells[i].src = i
        BY <1>0, <1>1, <1>2, <2>1
      <3> QED BY <2>1, <3>1 DEF Cells
    <2>2. CASE i # m.tail[s]
      <3>1. c[i] = Empty
        BY <1>0, <1>1, <2>2
      <3> QED BY <2>2, <3>1, EmptyFine
    <2> QED BY <2>1, <2>2
<1> DEFINE tail == [t \in SeqId |-> IF t = s THEN m.tail[t] ELSE -1]
           used == m.used - Cardinality(Used(m.cells) \ Used(c))
           free == Idx \ Used(c)
           head == IF free # {} /\ Min(free) < m.head THEN Min(free) ELSE m.head
<1>4. c \in [Idx -> Cells]
    BY <1>0, <1>3
<1>5. tail \in [SeqId -> -1 .. NSeq - 1] /\ tail[s] = m.tail[s] /\ \A u \in SeqId \ {s} : tail[u] = -1
    BY <1>2, Sizes
<1>6. used = Cardinality(Used(c)) /\ used \in Int
    <2>1. \A i \in Idx : c[i].seq # {} => m.cells[i].seq # {}
      BY <1>1, <1>3, EmptyFine
    <2>2. Used(m.cells) \cap Used(c) = Used(c)
      BY <2>1 DEF Used
    <2>3. Cardinality(Used(m.cells) \ Used(c)) = Cardinality(Used(m.cells)) - Cardinality(Used(c))
      <3> DEFINE A == Used(m.cells)
                 B == Used(c)
      <3>1. IsFiniteSet(A)
        BY UsedFinite
      <3>2. A \cap B = B
        BY <2>2
      <3> HIDE DEF A, B
      <3>3. Cardinality(A \ B) = Cardinality(A) - Cardinality(A \cap B)
        BY <3>1, FS_Difference
      <3>4. Cardinality(A \ B) = Cardinality(A) - Cardinality(B)
        BY <3>2, <3>3
      <3> QED BY <3>4 DEF A, B
    <2>4. Cardinality(Used(m.cells)) \in Int /\ Cardinality(Used(c)) \in Int
      BY UsedFinite
    <2> QED BY <1>1, <2>3, <2>4
<1>7. head \in Idx
    <2>1. free \in SUBSET Nat /\ \A i \in free : i \in Idx
      BY Sizes
    <2>2. free # {} => Min(free) \in free
      <3> HIDE DEF free
      <3> QED BY <2>1, MinExists
    <2> QED BY <1>2, <2>1, <2>2
<1>8. y = [m EXCEPT !.cells = c, !.tail = tail, !.used = used, !.head = head]
    BY DEF KeepOf
<1> HIDE DEF tail, used, head, y
<1>9. y = [cells |-> c, tail |-> tail, head |-> head, used |-> used, rs |-> m.rs]
    BY <1>1, <1>8 DEF Memories
<1>10. /\ y.cells = c /\ y.tail = tail /\ y.used = used /\ y.rs = m.rs
       /\ y \in Memories(nrs)
    <2>1. y.cells = c /\ y.tail = tail /\ y.used = used /\ y.rs = m.rs
      BY <1>9
    <2>2. used \in Int
      BY <1>6
    <2>3. y \in Memories(nrs)
      BY <1>2, <1>4, <1>5, <1>7, <1>9, <2>2 DEF Memories
    <2> QED BY <2>1, <2>3
<1>11. Linked(y)
    <2> SUFFICES ASSUME NEW u \in SeqId, NEW i \in Idx PROVE u \in c[i].seq <=> tail[u] = i
      BY <1>10 DEF Linked
    <2>1. CASE i = m.tail[s]
      <3>1. c[i].seq = {s}
        BY <1>3, <2>1
      <3>2. CASE u = s
        BY <1>5, <2>1, <3>1, <3>2
      <3>3. CASE u # s
        BY <1>5, <3>1, <3>3, Sizes
      <3> QED BY <3>2, <3>3
    <2>2. CASE i # m.tail[s]
      <3>1. c[i].seq = {}
        BY <1>3, <2>2, EmptyFine
      <3>2. tail[u] # i
        BY <1>5, <2>2, Sizes
      <3> QED BY <3>1, <3>2
    <2> QED BY <2>1, <2>2
<1>12. Sourced(y)
    <2> SUFFICES ASSUME NEW i \in Idx PROVE c[i].src \in {-1, i} /\ (c[i].seq # {} => c[i].src = i)
      BY <1>10 DEF Sourced
    <2> QED BY <1>3, EmptyFine
<1>13. Sound(y)
    BY <1>6, <1>10, <1>11, <1>12 DEF Sound
<1>14. \A i \in Idx : IF i = m.tail[s] THEN y.cells[i].pos = m.cells[i].pos /\ y.cells[i].seq = {s}
                      ELSE y.cells[i] = Empty
    BY <1>3, <1>10
<1> QED BY <1>5, <1>10, <1>13, <1>14 DEF Kept, y, c

-----------------------------------------------------------------------------
(* Positions, and tokens that are taken back.                              *)

InBounds(m) == \A i \in Idx : m.cells[i].pos \in -1 .. MaxLen[nrs] - 1

LEMMA Bound == ASSUME nrs \in NRs PROVE nrs \in Nat /\ MaxLen[nrs] \in Nat /\ MaxNew[nrs] \in Nat
BY SizeAssumption, BoundAssumption

LEMMA LeftBounds ==
    ASSUME nrs \in NRs, NEW m, InBounds(m), NEW y, NEW s, Left(m, y, s)
    PROVE  InBounds(y)
<1>1. -1 \in -1 .. MaxLen[nrs] - 1
    BY Bound
<1> SUFFICES ASSUME NEW i \in Idx PROVE y.cells[i].pos \in -1 .. MaxLen[nrs] - 1
    BY DEF InBounds
<1>2. m.cells[i].pos \in -1 .. MaxLen[nrs] - 1
    BY DEF InBounds
<1>3. \/ y.cells[i] = m.cells[i] \/ y.cells[i] = Empty \/ y.cells[i].pos = m.cells[i].pos
    BY DEF Left
<1> QED BY <1>1, <1>2, <1>3, EmptyFine

\* A plane was selected and the position set back, or nothing was done.
Took(m, y, s, p0) ==
    /\ Sound(y) /\ y.tail = m.tail
    /\ LET t == m.tail[s]
           n == m.cells[t].pos - (p0 - 1)
       IN  IF n <= nrs
           THEN /\ y.rs = [m.rs EXCEPT ![s] = n] /\ y.cells[t].pos = p0 - 1
                /\ \A i \in Idx : /\ y.cells[i].seq = m.cells[i].seq /\ y.cells[i].src = m.cells[i].src
                                  /\ i # t => y.cells[i].pos = m.cells[i].pos
           ELSE y = m

LEMMA TakenTook ==
    ASSUME nrs \in NRs, NEW m, Sound(m), NEW s \in SeqId, NEW p0 \in Nat,
           m.tail[s] \in Idx, p0 <= m.cells[m.tail[s]].pos
    PROVE  Took(m, Taken(m, s, p0), s, p0)
<1> DEFINE t == m.tail[s]
           n == m.cells[t].pos - (p0 - 1)
           y == Taken(m, s, p0)
<1>1. m \in Memories(nrs) /\ nrs \in Nat
    BY Bound DEF Sound
<1>2. /\ m.cells \in [Idx -> Cells] /\ m.rs \in [SeqId -> 0 .. nrs] /\ m.cells[t] \in Cells
      /\ m.tail \in [SeqId -> -1 .. NSeq - 1] /\ m.head \in Idx /\ m.used \in Int
    BY <1>1, MemoryParts
<1>3. n \in Int /\ n > 0
    BY <1>2 DEF Cells
<1>4. CASE ~(n <= nrs)
    <2>1. y = m
      BY <1>4 DEF Taken
    <2> QED BY <1>4, <2>1 DEF Took
<1>5. CASE n <= nrs
    <2> DEFINE d == [m.cells[t] EXCEPT !.pos = p0 - 1]
               cells == [m.cells EXCEPT ![t] = d]
               rs == [m.rs EXCEPT ![s] = n]
    <2>1. y = [m EXCEPT !.rs[s] = n, !.cells[t].pos = p0 - 1]
      BY <1>5 DEF Taken
    <2>2. y = [m EXCEPT !.rs = rs, !.cells = cells]
      <3> HIDE DEF n, y
      <3> QED BY <1>1, <2>1 DEF Memories
    <2>3. d \in Cells /\ d.pos = p0 - 1 /\ d.src = m.cells[t].src /\ d.seq = m.cells[t].seq
      BY <1>2 DEF Cells
    <2> HIDE DEF d
    <2>4. cells \in [Idx -> Cells] /\ cells[t] = d /\ \A i \in Idx \ {t} : cells[i] = m.cells[i]
      BY <1>2, <2>3
    <2>5. rs \in [SeqId -> 0 .. nrs]
      <3>1. n \in 0 .. nrs
        BY <1>1, <1>3, <1>5
      <3> HIDE DEF n
      <3> QED BY <1>2, <3>1
    <2> HIDE DEF cells, rs, y
    <2>6. y = [cells |-> cells, tail |-> m.tail, head |-> m.head, used |-> m.used, rs |-> rs]
      BY <1>1, <2>2 DEF Memories
    <2>7. y.cells = cells /\ y.tail = m.tail /\ y.used = m.used /\ y.rs = rs
      BY <2>6
    <2>8. y \in Memories(nrs)
      BY <1>2, <2>4, <2>5, <2>6 DEF Memories
    <2>9. \A i \in Idx : /\ y.cells[i].seq = m.cells[i].seq /\ y.cells[i].src = m.cells[i].src
                         /\ i # t => y.cells[i].pos = m.cells[i].pos
      BY <2>3, <2>4, <2>7
    <2>10. Sound(y)
      BY <2>7, <2>8, <2>9, RenewedSound DEF Renewed
    <2>11. y.cells[t].pos = p0 - 1
      BY <2>3, <2>4, <2>7
    <2> QED BY <1>5, <2>7, <2>9, <2>10, <2>11 DEF Took, rs, y
<1> QED BY <1>4, <1>5

LEMMA TookBounds ==
    ASSUME nrs \in NRs, NEW m, InBounds(m), NEW y, NEW s, NEW p0 \in Nat, Took(m, y, s, p0),
           m.tail[s] \in Idx, p0 <= m.cells[m.tail[s]].pos
    PROVE  InBounds(y)
<1>1. m.cells[m.tail[s]].pos \in -1 .. MaxLen[nrs] - 1 /\ MaxLen[nrs] \in Nat
    BY Bound DEF InBounds
<1>2. p0 - 1 \in -1 .. MaxLen[nrs] - 1
    BY <1>1
<1> SUFFICES ASSUME NEW i \in Idx PROVE y.cells[i].pos \in -1 .. MaxLen[nrs] - 1
    BY DEF InBounds
<1>3. y.cells[i].pos = m.cells[i].pos \/ y.cells[i].pos = p0 - 1
    BY DEF Took
<1> QED BY <1>2, <1>3 DEF InBounds

\* Those of S from k + 1 on are where they were in m.
Waiting(m, y, S, k) ==
    /\ Sound(y) /\ InBounds(y)
    /\ \A j \in k + 1 .. Len(S) : /\ y.tail[S[j]] = m.tail[S[j]]
                                  /\ y.cells[m.tail[S[j]]].pos = m.cells[m.tail[S[j]]].pos

BackStep(y, s) == IF hist[s] = <<>> THEN RemoveAll(y, s) ELSE Taken(y, s, Len(hist[s]))

\* The sequences have cells of their own, with positions behind their tokens.
Behind(m, S) ==
    /\ \A k \in 1 .. Len(S) : m.tail[S[k]] \in Idx /\ Len(hist[S[k]]) <= m.cells[m.tail[S[k]]].pos
    /\ \A j, k \in 1 .. Len(S) : j # k => m.tail[S[j]] # m.tail[S[k]]

LEMMA BackAhead ==
    ASSUME nrs \in NRs, hist \in [SeqId -> Seq(SeqId)], NEW m, NEW S \in Lists, Behind(m, S),
           NEW k \in 1 .. Len(S), NEW y, Waiting(m, y, S, k - 1)
    PROVE  Waiting(m, BackStep(y, S[k]), S, k)
<1> DEFINE s == S[k]
           z == BackStep(y, s)
<1>1. /\ Len(S) \in Nat /\ s \in SeqId /\ \A j \in 1 .. Len(S) : S[j] \in SeqId
      /\ \A i, j \in 1 .. Len(S) : i # j => S[i] # S[j]
    BY ListParts
<1>2. nrs \in Nat /\ Len(hist[s]) \in Nat
    BY <1>1, Bound
<1>3. Sound(y) /\ InBounds(y) /\ k \in k - 1 + 1 .. Len(S)
    BY DEF Waiting
<1>4. y.tail[s] = m.tail[s] /\ y.tail[s] \in Idx /\ Len(hist[s]) <= y.cells[y.tail[s]].pos
    BY <1>3 DEF Waiting, Behind
<1>5. \A j \in k + 1 .. Len(S) : /\ S[j] \in SeqId \ {s} /\ m.tail[S[j]] # m.tail[s] /\ m.tail[S[j]] \in Idx
                                 /\ y.tail[S[j]] = m.tail[S[j]]
                                 /\ y.cells[m.tail[S[j]]].pos = m.cells[m.tail[S[j]]].pos
    <2>1. \A j \in k + 1 .. Len(S) : j \in 1 .. Len(S) /\ j # k /\ j \in k - 1 + 1 .. Len(S)
      BY <1>1
    <2> QED BY <1>1, <2>1 DEF Waiting, Behind
<1>6. CASE hist[s] = <<>>
    <2>1. Left(y, z, s)
      BY <1>1, <1>2, <1>3, <1>6, RemoveAllLeft DEF BackStep
    <2> HIDE DEF z
    <2>2. Sound(z) /\ InBounds(z)
      <3>1. Sound(z)
        BY <2>1 DEF Left
      <3>2. InBounds(z)
        BY <1>3, <2>1, LeftBounds
      <3> QED BY <3>1, <3>2
    <2>3. \A j \in k + 1 .. Len(S) : /\ z.tail[S[j]] = m.tail[S[j]]
                                     /\ z.cells[m.tail[S[j]]].pos = m.cells[m.tail[S[j]]].pos
      BY <1>4, <1>5, <2>1 DEF Left
    <2> QED BY <2>2, <2>3 DEF Waiting, z
<1>7. CASE hist[s] # <<>>
    <2>1. Took(y, z, s, Len(hist[s]))
      BY <1>1, <1>2, <1>3, <1>4, <1>7, TakenTook DEF BackStep
    <2> HIDE DEF z
    <2>2. Sound(z) /\ InBounds(z)
      <3>1. Sound(z)
        BY <2>1 DEF Took
      <3>2. InBounds(z)
        BY <1>2, <1>3, <1>4, <2>1, TookBounds
      <3> QED BY <3>1, <3>2
    <2>3. \A j \in k + 1 .. Len(S) : /\ z.tail[S[j]] = m.tail[S[j]]
                                     /\ z.cells[m.tail[S[j]]].pos = m.cells[m.tail[S[j]]].pos
      BY <1>4, <1>5, <2>1 DEF Took
    <2> QED BY <2>2, <2>3 DEF Waiting, z
<1> QED BY <1>6, <1>7

LEMMA BackSound ==
    ASSUME nrs \in NRs, hist \in [SeqId -> Seq(SeqId)], NEW m, Sound(m), InBounds(m),
           NEW S \in Lists, Behind(m, S)
    PROVE  Sound(TakenBack(m, S)) /\ InBounds(TakenBack(m, S))
<1> DEFINE n == Len(S)
           X == Memories(nrs)
           P == {ky \in (0 .. n) \X X : Waiting(m, ky[2], S, ky[1])}
           st == [k \in 1 .. n |-> [y \in X |-> BackStep(y, S[k])]]
           G(g) == g = [k \in 0 .. Len(S) |-> IF k = 0 THEN m
                                              ELSE IF hist[S[k]] = <<>> THEN RemoveAll(g[k - 1], S[k])
                                              ELSE Taken(g[k - 1], S[k], Len(hist[S[k]]))]
           c == CHOOSE g : G(g)
<1>1. n \in Nat /\ n > 0 /\ \A k \in 1 .. n : S[k] \in SeqId
    BY ListParts
<1>2. TakenBack(m, S) = c[n]
    BY DEF TakenBack
<1>3. \A ky : ky \in P <=> ky \in (0 .. n) \X X /\ Waiting(m, ky[2], S, ky[1])
    OBVIOUS
<1>4. \A k, y : <<k, y>> \in P <=> k \in 0 .. n /\ y \in X /\ Waiting(m, y, S, k)
    BY <1>3
<1>5. <<0, m>> \in P
    <2>1. Waiting(m, m, S, 0) /\ m \in X
      BY DEF Waiting, Sound
    <2> HIDE DEF P, X
    <2> QED BY <1>1, <1>4, <2>1
<1>6. ASSUME NEW k \in 1 .. n, NEW y, <<k - 1, y>> \in P
      PROVE  <<k, st[k][y]>> \in P /\ <<k, BackStep(y, S[k])>> \in P /\ y \in X
    <2> DEFINE z == BackStep(y, S[k])
    <2>1. y \in X /\ Waiting(m, y, S, k - 1)
      BY <1>4, <1>6
    <2>2. z = BackStep(y, S[k])
      OBVIOUS
    <2>3. st[k][y] = z
      BY <2>1
    <2> HIDE DEF z, P, st, X
    <2>4. Waiting(m, z, S, k)
      BY <2>1, <2>2, BackAhead
    <2>5. z \in X
      BY <2>4 DEF Waiting, Sound, X
    <2> QED BY <1>1, <1>4, <2>1, <2>2, <2>3, <2>4, <2>5
<1>7. \E f : Runs(f, n, m, st) /\ \A k \in 0 .. n : <<k, f[k]>> \in P
    <2>1. \A k \in 1 .. n : \A x : <<k - 1, x>> \in P => <<k, st[k][x]>> \in P
      BY <1>6
    <2> HIDE DEF P, st, n
    <2> QED BY <1>1, <1>5, <2>1, RunsExist
<1>8. PICK f : Runs(f, n, m, st) /\ \A k \in 0 .. n : <<k, f[k]>> \in P
    BY <1>7
<1>9. G(f)
    <2>1. f = [k \in 0 .. n |-> IF k = 0 THEN m ELSE st[k][f[k - 1]]]
      BY <1>8 DEF Runs
    <2>2. ASSUME NEW k \in 0 .. n, k # 0
          PROVE  st[k][f[k - 1]] = IF hist[S[k]] = <<>> THEN RemoveAll(f[k - 1], S[k])
                                   ELSE Taken(f[k - 1], S[k], Len(hist[S[k]]))
      <3>1. k - 1 \in 0 .. n /\ k \in 1 .. n
        BY <1>1, <2>2
      <3>2. f[k - 1] \in X
        BY <1>4, <1>8, <3>1
      <3>3. st[k][f[k - 1]] = BackStep(f[k - 1], S[k])
        <4> HIDE DEF X, P
        <4> QED BY <3>1, <3>2
      <3> HIDE DEF X, P, st
      <3> QED BY <3>3 DEF BackStep
    <2> HIDE DEF st
    <2> QED BY <2>1, <2>2
<1>10. G(c)
    <2> HIDE DEF G
    <2> QED BY <1>9
<1>11. \A k \in 0 .. n : <<k, c[k]>> \in P
    <2> DEFINE B == {k \in 0 .. n : <<k, c[k]>> \in P}
    <2>1. c[0] = m /\ \A k \in 1 .. n : c[k] = BackStep(c[k - 1], S[k])
      <3>1. c = [k \in 0 .. n |-> IF k = 0 THEN m ELSE BackStep(c[k - 1], S[k])]
        BY <1>10 DEF BackStep
      <3> HIDE DEF c
      <3> QED BY <1>1, <3>1
    <2> HIDE DEF c, P
    <2>2. 0 \in B
      <3>1. 0 \in 0 .. n /\ <<0, c[0]>> \in P
        BY <1>1, <1>5, <2>1
      <3> QED BY <3>1
    <2>3. ASSUME NEW k \in 1 .. n, k - 1 \in B PROVE k \in B
      <3>1. <<k - 1, c[k - 1]>> \in P /\ c[k] = BackStep(c[k - 1], S[k]) /\ k \in 0 .. n
        BY <1>1, <2>1, <2>3
      <3> QED BY <1>6, <3>1
    <2>4. \A k \in 0 .. n : k \in B
      <3> HIDE DEF B
      <3> QED BY <1>1, <2>2, <2>3, Steps
    <2> QED BY <2>4
<1>12. <<n, c[n]>> \in P
    <2>1. n \in 0 .. n
      BY <1>1
    <2> HIDE DEF c, P, n
    <2> QED BY <1>11, <2>1
<1> HIDE DEF c, P, X
<1> QED BY <1>2, <1>4, <1>12 DEF Waiting

-----------------------------------------------------------------------------
(* The types.                                                              *)

States == Seq(SeqId \cup {-1})
RowsOf(n) == [0 .. n -> [Idx -> States]]

TypeInv ==
    /\ nrs \in NRs /\ Sound(mem) /\ InBounds(mem)
    /\ rows \in RowsOf(nrs)
    /\ saved \in [pos : -1 .. MaxLen[nrs] - 1, row : States, hist : Seq(SeqId)]
    /\ hist \in [SeqId -> Seq(SeqId)] /\ fresh \in [SeqId -> 0 .. nrs] /\ intact \in BOOLEAN

LEMMA StateTypes == Zero \in States /\ Junk \in States /\ Seq(SeqId) \subseteq States /\ <<>> \in Seq(SeqId)
<1>1. Zero \in States /\ <<>> \in Seq(SeqId)
    BY DEF Zero, States
<1>2. Junk \in States
    BY DEF Junk, States
<1>3. Seq(SeqId) \subseteq States
    <2> SUFFICES ASSUME NEW q \in Seq(SeqId) PROVE q \in States
      OBVIOUS
    <2>1. Len(q) \in Nat /\ q = [i \in 1 .. Len(q) |-> q[i]] /\ \A i \in 1 .. Len(q) : q[i] \in SeqId
      OBVIOUS
    <2> QED BY <2>1 DEF States
<1> QED BY <1>1, <1>2, <1>3

\* A memory of the next state.
LEMMA MemoryNext ==
    ASSUME nrs' = nrs, NEW y, mem' = y, Sound(y), InBounds(y)
    PROVE  Sound(mem)' /\ InBounds(mem)'
BY DEF Sound, InBounds, Memories, Linked, Sourced, Used

LEMMA NewSound == ASSUME nrs \in NRs PROVE Sound(NewMemory) /\ InBounds(NewMemory)
<1>1. nrs \in Nat /\ MaxLen[nrs] \in Nat
    BY Bound
<1>2. \A i \in Idx : NewMemory.cells[i] = Empty
    BY DEF NewMemory
<1>3. /\ NewMemory.tail = [s \in SeqId |-> -1] /\ NewMemory.used = 0
      /\ NewMemory.cells = [i \in Idx |-> Empty]
    BY DEF NewMemory
<1>4. NewMemory \in Memories(nrs)
    <2>1. [i \in Idx |-> Empty] \in [Idx -> Cells]
      BY EmptyFine
    <2>2. [s \in SeqId |-> -1] \in [SeqId -> -1 .. NSeq - 1]
      BY Sizes
    <2>3. [s \in SeqId |-> 0] \in [SeqId -> 0 .. nrs]
      BY <1>1
    <2> QED BY <2>1, <2>2, <2>3, Sizes DEF Memories, NewMemory
<1>5. Used(NewMemory.cells) = {}
    BY <1>2, EmptyFine DEF Used
<1>6. Cardinality({}) = 0
    BY FS_EmptySet
<1>7. Linked(NewMemory) /\ Sourced(NewMemory)
    BY <1>2, <1>3, EmptyFine, Sizes DEF Linked, Sourced
<1>8. InBounds(NewMemory)
    BY <1>1, <1>2, EmptyFine DEF InBounds
<1> QED BY <1>3, <1>4, <1>5, <1>6, <1>7, <1>8 DEF Sound

LEMMA ClearedType == ASSUME nrs \in NRs PROVE Cleared(nrs) \in RowsOf(nrs)
BY StateTypes DEF Cleared, RowsOf

LEMMA NoSnapType == ASSUME nrs \in NRs
                    PROVE  NoSnap \in [pos : -1 .. MaxLen[nrs] - 1, row : States, hist : Seq(SeqId)]
<1>1. -1 \in -1 .. MaxLen[nrs] - 1
    BY Bound
<1> QED BY <1>1, StateTypes DEF NoSnap

LEMMA InitType == Init => TypeInv
<1> SUFFICES ASSUME Init PROVE TypeInv
    OBVIOUS
<1>1. nrs \in NRs /\ mem = NewMemory /\ rows = Cleared(nrs) /\ saved = NoSnap
    BY DEF Init
<1>2. hist \in [SeqId -> Seq(SeqId)] /\ intact \in BOOLEAN
    BY StateTypes DEF Init
<1>3. fresh \in [SeqId -> 0 .. nrs]
    BY <1>1, Bound DEF Init
<1> QED BY <1>1, <1>2, <1>3, NewSound, ClearedType, NoSnapType DEF TypeInv

LEMMA ClearType == ASSUME TypeInv, NEW data \in BOOLEAN, Clear(data) PROVE TypeInv'
<1>1. nrs \in NRs /\ nrs' = nrs /\ nrs \in Nat
    BY Bound DEF TypeInv, Clear
<1>2. Sound(mem)' /\ InBounds(mem)'
    <2>1. mem' = NewMemory
      BY DEF Clear
    <2> QED BY <1>1, <2>1, NewSound, MemoryNext
<1>3. (rows \in RowsOf(nrs))'
    <2>1. rows' \in RowsOf(nrs)
      BY <1>1, ClearedType DEF Clear, TypeInv
    <2> QED BY <1>1, <2>1 DEF RowsOf
<1>4. (hist \in [SeqId -> Seq(SeqId)])' /\ (fresh \in [SeqId -> 0 .. nrs])' /\ (intact \in BOOLEAN)'
    BY <1>1, StateTypes DEF Clear
<1>5. (saved \in [pos : -1 .. MaxLen[nrs] - 1, row : States, hist : Seq(SeqId)])'
    BY <1>1 DEF Clear, TypeInv
<1> QED BY <1>1, <1>2, <1>3, <1>4, <1>5 DEF TypeInv

\* The parts of the next state.
LEMMA TypeNext ==
    ASSUME nrs \in NRs, nrs' = nrs, NEW y, mem' = y, Sound(y), InBounds(y), rows' \in RowsOf(nrs),
           saved' \in [pos : -1 .. MaxLen[nrs] - 1, row : States, hist : Seq(SeqId)],
           hist' \in [SeqId -> Seq(SeqId)], fresh' \in [SeqId -> 0 .. nrs], intact' \in BOOLEAN
    PROVE  TypeInv'
<1>1. Sound(mem)' /\ InBounds(mem)'
    BY MemoryNext
<1>2. (rows \in RowsOf(nrs))'
    BY DEF RowsOf
<1>3. (nrs \in NRs)' /\ (fresh \in [SeqId -> 0 .. nrs])'
    OBVIOUS
<1>4. (saved \in [pos : -1 .. MaxLen[nrs] - 1, row : States, hist : Seq(SeqId)])'
    OBVIOUS
<1> QED BY <1>1, <1>2, <1>3, <1>4 DEF TypeInv

LEMMA TypeParts ==
    ASSUME TypeInv
    PROVE  /\ nrs \in NRs /\ nrs \in Nat /\ MaxLen[nrs] \in Nat /\ MaxNew[nrs] \in Nat
           /\ Sound(mem) /\ mem \in Memories(nrs) /\ InBounds(mem) /\ rows \in RowsOf(nrs)
           /\ saved \in [pos : -1 .. MaxLen[nrs] - 1, row : States, hist : Seq(SeqId)]
           /\ hist \in [SeqId -> Seq(SeqId)] /\ fresh \in [SeqId -> 0 .. nrs] /\ intact \in BOOLEAN
           /\ Users[nrs] \subseteq SeqId /\ Savers[nrs] \subseteq SeqId
<1>1. /\ nrs \in NRs /\ Sound(mem) /\ InBounds(mem) /\ rows \in RowsOf(nrs)
      /\ saved \in [pos : -1 .. MaxLen[nrs] - 1, row : States, hist : Seq(SeqId)]
      /\ hist \in [SeqId -> Seq(SeqId)] /\ fresh \in [SeqId -> 0 .. nrs] /\ intact \in BOOLEAN
    BY DEF TypeInv
<1>2. mem \in Memories(nrs)
    BY <1>1 DEF Sound
<1>3. Users[nrs] \subseteq SeqId /\ Savers[nrs] \subseteq SeqId
    BY <1>1, BoundAssumption DEF SeqId
<1> QED BY <1>1, <1>2, <1>3, Bound

LEMMA RmAllType == ASSUME TypeInv, NEW s \in SeqId, SeqRmAll(s) PROVE TypeInv'
<1> DEFINE y == RemoveAll(mem, s)
<1>1. mem' = y /\ nrs' = nrs /\ rows' = rows /\ saved' = saved /\ intact' = intact
    BY DEF SeqRmAll
<1>2. Left(mem, y, s)
    BY TypeParts, RemoveAllLeft
<1> HIDE DEF y
<1>3. Sound(y) /\ InBounds(y)
    <2>1. InBounds(y)
      BY <1>2, TypeParts, LeftBounds
    <2> QED BY <1>2, <2>1 DEF Left
<1>4. hist' \in [SeqId -> Seq(SeqId)]
    BY TypeParts, StateTypes DEF SeqRmAll
<1>5. fresh' \in [SeqId -> 0 .. nrs]
    <2>1. fresh' = [fresh EXCEPT ![s] = 0]
      BY DEF SeqRmAll
    <2>2. fresh \in [SeqId -> 0 .. nrs] /\ 0 \in 0 .. nrs
      BY TypeParts
    <2> QED BY <2>1, <2>2
<1> QED BY <1>1, <1>3, <1>4, <1>5, TypeParts, TypeNext

LEMMA UptoType ==
    ASSUME NEW h \in Seq(SeqId), NEW p0 \in Nat
    PROVE  Upto(h, p0) \in Seq(SeqId)
<1>1. CASE p0 < Len(h)
    <2>1. SubSeq(h, 1, p0) \in Seq(SeqId)
      BY <1>1
    <2> QED BY <1>1, <2>1 DEF Upto
<1>2. CASE ~(p0 < Len(h))
    BY <1>2 DEF Upto
<1> QED BY <1>1, <1>2

LEMMA RmLastType == ASSUME TypeInv, NEW s \in SeqId, NEW p0 \in Nat, SeqRmLast(s, p0) PROVE TypeInv'
<1> DEFINE y == Taken(mem, s, p0)
<1>1. mem' = y /\ nrs' = nrs /\ rows' = rows /\ saved' = saved /\ intact' = intact
    BY DEF SeqRmLast
<1>2. mem.tail[s] \in Idx /\ p0 <= mem.cells[mem.tail[s]].pos
    <2>1. mem.tail[s] >= 0 /\ p0 <= mem.cells[mem.tail[s]].pos
      BY DEF SeqRmLast, Holds
    <2> QED BY <2>1, TypeParts, MemoryParts
<1>3. Took(mem, y, s, p0)
    BY <1>2, TypeParts, TakenTook
<1> HIDE DEF y
<1>4. Sound(y) /\ InBounds(y)
    <2>1. InBounds(y)
      BY <1>2, <1>3, TypeParts, TookBounds
    <2> QED BY <1>3, <2>1 DEF Took
<1>5. hist' \in [SeqId -> Seq(SeqId)]
    <2>1. hist' = hist \/ hist' = [hist EXCEPT ![s] = Upto(@, p0)]
      BY DEF SeqRmLast
    <2>2. Upto(hist[s], p0) \in Seq(SeqId)
      BY TypeParts, UptoType
    <2> QED BY <2>1, <2>2, TypeParts
<1>6. fresh' \in [SeqId -> 0 .. nrs]
    <2>1. fresh' = fresh \/ fresh' = [fresh EXCEPT ![s] = 0]
      BY DEF SeqRmLast
    <2>2. fresh \in [SeqId -> 0 .. nrs] /\ 0 \in 0 .. nrs
      BY TypeParts
    <2> QED BY <2>1, <2>2
<1> QED BY <1>1, <1>4, <1>5, <1>6, TypeParts, TypeNext

LEMMA CpType == ASSUME TypeInv, NEW s \in SeqId, NEW t \in SeqId, SeqCp(s, t) PROVE TypeInv'
<1> DEFINE y == CopyOf(mem, s, t)
<1>1. mem' = y /\ nrs' = nrs /\ rows' = rows /\ saved' = saved /\ intact' = intact /\ s # t
    BY DEF SeqCp, CopyOf
<1>2. Copied(mem, y, s, t)
    BY <1>1, TypeParts, CopySound
<1> HIDE DEF y
<1>3. Sound(y) /\ InBounds(y)
    <2>1. \A i \in Idx : y.cells[i].pos = mem.cells[i].pos \/ y.cells[i].pos = -1
      BY <1>2 DEF Copied
    <2>2. -1 \in -1 .. MaxLen[nrs] - 1
      BY TypeParts
    <2>3. InBounds(y)
      BY <2>1, <2>2, TypeParts DEF InBounds
    <2> QED BY <1>2, <2>3 DEF Copied
<1>4. hist' \in [SeqId -> Seq(SeqId)]
    BY TypeParts DEF SeqCp
<1>5. fresh' \in [SeqId -> 0 .. nrs]
    <2>1. fresh' = [fresh EXCEPT ![s] = 0, ![t] = 0]
      BY DEF SeqCp
    <2>2. fresh \in [SeqId -> 0 .. nrs] /\ 0 \in 0 .. nrs
      BY TypeParts
    <2> QED BY <2>1, <2>2
<1> QED BY <1>1, <1>3, <1>4, <1>5, TypeParts, TypeNext

LEMMA KeepType == ASSUME TypeInv, NEW s \in SeqId, SeqKeep(s) PROVE TypeInv'
<1> DEFINE y == KeepOf(mem, s, CellsOf(mem, s))
<1>1. mem' = y /\ nrs' = nrs /\ rows' = rows /\ saved' = saved /\ intact' = intact
    BY DEF SeqKeep, KeepOf, CellsOf
<1>2. Kept(mem, y, s)
    BY TypeParts, KeepSound
<1> HIDE DEF y
<1>3. Sound(y) /\ InBounds(y)
    <2>1. -1 \in -1 .. MaxLen[nrs] - 1
      BY TypeParts
    <2>2. \A i \in Idx : y.cells[i].pos = mem.cells[i].pos \/ y.cells[i].pos = -1
      BY <1>2, EmptyFine DEF Kept
    <2>3. InBounds(y)
      BY <2>1, <2>2, TypeParts DEF InBounds
    <2> QED BY <1>2, <2>3 DEF Kept
<1>4. hist' \in [SeqId -> Seq(SeqId)]
    BY TypeParts, StateTypes DEF SeqKeep
<1>5. fresh' \in [SeqId -> 0 .. nrs]
    <2>1. fresh' = [t \in SeqId |-> IF t = s THEN fresh[t] ELSE 0]
      BY DEF SeqKeep
    <2>2. fresh \in [SeqId -> 0 .. nrs] /\ 0 \in 0 .. nrs
      BY TypeParts
    <2> QED BY <2>1, <2>2
<1> QED BY <1>1, <1>3, <1>4, <1>5, TypeParts, TypeNext

\* The sequences of a ubatch are different ones, and with snapshots there is one of them.
LEMMA UbatchList ==
    ASSUME TypeInv, NEW S \in Ubatches[nrs]
    PROVE  S \in Lists /\ (nrs > 0 => Len(S) = 1) /\ Range(S) \subseteq SeqId
<1>1. /\ S \in UNION {[1 .. k -> Users[nrs]] : k \in 1 .. NSeq}
      /\ \A i, j \in 1 .. Len(S) : i < j => S[i] < S[j]
      /\ nrs > 0 => Len(S) = 1
    BY TypeParts DEF Ubatches
<1>2. PICK k \in 1 .. NSeq : S \in [1 .. k -> Users[nrs]]
    BY <1>1
<1>3. k \in Nat /\ k > 0
    BY Sizes
<1>4. S \in [1 .. k -> SeqId]
    BY <1>2, TypeParts
<1>5. S \in Seq(SeqId) /\ Len(S) = k
    BY <1>3, <1>4
<1>6. \A i, j \in 1 .. Len(S) : i # j => S[i] # S[j]
    <2> SUFFICES ASSUME NEW i \in 1 .. Len(S), NEW j \in 1 .. Len(S), i # j PROVE S[i] # S[j]
      OBVIOUS
    <2>1. i < j \/ j < i
      OBVIOUS
    <2>2. S[i] \in Nat /\ S[j] \in Nat
      BY <1>4, <1>5, Sizes
    <2> QED BY <1>1, <2>1, <2>2
<1>7. S \in Lists
    BY <1>3, <1>5, <1>6 DEF Lists
<1> QED BY <1>1, <1>7, ListParts

LEMMA Offset ==
    ASSUME NEW a \in Nat, NEW n \in Nat, NEW i \in a .. a + n - 1
    PROVE  i - a + 1 \in 1 .. n /\ a + (i - a + 1) - 1 = i
OBVIOUS

\* The cells that find_slot() changes have the positions it was given, or those of other cells.
LEMMA FoundBounds ==
    ASSUME nrs \in NRs, NEW m, InBounds(m), NEW S \in Lists, NEW last, NEW f, Found(m, S, last, f),
           \A k \in 1 .. Len(S) : last[S[k]] \in -1 .. MaxLen[nrs] - 1
    PROVE  InBounds(f.m)
<1> SUFFICES ASSUME NEW i \in Idx PROVE f.m.cells[i].pos \in -1 .. MaxLen[nrs] - 1
    BY DEF InBounds
<1>1. f.lo \in Nat /\ i \in Nat /\ Len(S) \in Nat
    BY ListParts, Sizes DEF Found
<1>2. CASE i \in f.lo .. f.lo + Len(S) - 1
    <2> DEFINE k == i - f.lo + 1
    <2>1. k \in 1 .. Len(S) /\ f.lo + k - 1 = i
      BY <1>1, <1>2, Offset
    <2>2. f.m.cells[f.lo + k - 1].pos = last[S[k]]
      BY <2>1 DEF Found, FirstFound
    <2> QED BY <2>1, <2>2
<1>3. CASE i \notin f.lo .. f.lo + Len(S) - 1
    <2>1. \E e \in Idx : f.m.cells[i].pos = m.cells[e].pos
      BY <1>3 DEF Found, EmptyFound
    <2> QED BY <2>1 DEF InBounds
<1> QED BY <1>2, <1>3

Spent(m, R) == [m EXCEPT !.rs = UsedUp(m, R)]

LEMMA SpentSound ==
    ASSUME nrs \in NRs, NEW m, Sound(m), InBounds(m), NEW R
    PROVE  /\ Sound(Spent(m, R)) /\ InBounds(Spent(m, R)) /\ Spent(m, R).cells = m.cells
           /\ Spent(m, R).tail = m.tail /\ Spent(m, R).rs = UsedUp(m, R)
<1> DEFINE y == Spent(m, R)
<1>1. m \in Memories(nrs)
    BY DEF Sound
<1>2. y = [cells |-> m.cells, tail |-> m.tail, head |-> m.head, used |-> m.used, rs |-> UsedUp(m, R)]
    BY <1>1 DEF Spent, Memories
<1>3. UsedUp(m, R) \in [SeqId -> 0 .. nrs]
    <2>1. m.rs \in [SeqId -> 0 .. nrs] /\ 0 \in 0 .. nrs
      BY <1>1, Bound, MemoryParts
    <2> QED BY <2>1 DEF UsedUp
<1> HIDE DEF y
<1>4. y.cells = m.cells /\ y.tail = m.tail /\ y.head = m.head /\ y.used = m.used /\ y.rs = UsedUp(m, R)
    BY <1>2
<1>5. y \in Memories(nrs)
    <2>1. m.cells \in [Idx -> Cells] /\ m.tail \in [SeqId -> -1 .. NSeq - 1] /\ m.head \in Idx /\ m.used \in Int
      BY <1>1, MemoryParts
    <2> QED BY <1>2, <1>3, <2>1 DEF Memories
<1>6. Renewed(m, y)
    BY <1>4, <1>5 DEF Renewed
<1>7. Sound(y)
    BY <1>6, RenewedSound
<1>8. InBounds(y)
    BY <1>4 DEF InBounds
<1> QED BY <1>4, <1>7, <1>8 DEF y

\* What the graph reads and writes.
LEMMA PlaneType ==
    ASSUME nrs \in NRs, NEW m \in Memories(nrs), NEW i \in Idx
    PROVE  Plane(m, i) \in 0 .. nrs
<1>1. m.rs \in [SeqId -> 0 .. nrs] /\ m.cells[i].seq \in SUBSET SeqId /\ 0 \in 0 .. nrs /\ SeqId \subseteq Nat
    BY Bound, MemoryParts, Sizes
<1>2. m.cells[i].seq # {} => Min(m.cells[i].seq) \in SeqId
    BY <1>1, MinExists
<1> QED BY <1>1, <1>2 DEF Plane

LEMMA FromType ==
    ASSUME nrs \in NRs, rows \in RowsOf(nrs), NEW m, NEW S, NEW last, NEW f, Found(m, S, last, f),
           NEW i \in f.lo .. f.hi
    PROVE  i \in Idx /\ From(f, i) \in States
<1>1. f.m \in Memories(nrs) /\ f.src0 \in [f.lo .. f.hi -> Idx] /\ f.lo \in Idx /\ f.hi \in Idx
    BY DEF Found, Sound
<1>2. i \in Idx
    BY <1>1, Sizes
<1>3. Plane(f.m, i) \in 0 .. nrs /\ f.src0[i] \in Idx
    BY <1>1, <1>2, PlaneType
<1>4. rows[Plane(f.m, i)][f.src0[i]] \in States
    BY <1>3 DEF RowsOf
<1> QED BY <1>2, <1>4, StateTypes DEF From

LEMMA AddedType ==
    ASSUME NEW q \in States, NEW n \in Nat, NEW s \in SeqId
    PROVE  q \o [j \in 1 .. n |-> s] \in States
<1>1. [j \in 1 .. n |-> s] \in States
    BY DEF States
<1> QED BY <1>1 DEF States

LEMMA HistAddedType ==
    ASSUME NEW q \in Seq(SeqId), NEW n \in Nat, NEW s \in SeqId
    PROVE  q \o [j \in 1 .. n |-> s] \in Seq(SeqId)
<1>1. [j \in 1 .. n |-> s] \in Seq(SeqId)
    OBVIOUS
<1> QED BY <1>1

LEMMA ComputedType ==
    ASSUME nrs \in NRs, rows \in RowsOf(nrs), NEW m, NEW S \in Lists, NEW last, NEW f,
           Found(m, S, last, f), NEW k \in Nat
    PROVE  Computed(f, S, k) \in RowsOf(nrs)
<1> DEFINE v(p, i) ==
      IF i \in f.lo .. f.lo + Len(S) - 1
      THEN IF p >= k THEN Junk
           ELSE From(f, i) \o [j \in 1 .. k - p |-> S[i - f.lo + 1]]
      ELSE IF p = 0 /\ i \in f.lo .. f.hi THEN From(f, i)
      ELSE IF p = 0 /\ i = f.z THEN Zero ELSE rows[p][i]
<1>1. Computed(f, S, k) = [p \in 0 .. nrs |-> [i \in Idx |-> v(p, i)]]
    BY DEF Computed
<1>2. ASSUME NEW p \in 0 .. nrs, NEW i \in Idx PROVE v(p, i) \in States
    <2>1. p \in Nat /\ i \in Nat /\ f.lo \in Nat /\ f.hi \in Nat /\ Len(S) \in Nat /\ f.lo + Len(S) - 1 <= f.hi
      BY Bound, ListParts, Sizes DEF Found
    <2>2. CASE i \in f.lo .. f.lo + Len(S) - 1
      <3>0. i \in f.lo .. f.hi
        BY <2>1, <2>2
      <3>1. i \in f.lo .. f.hi /\ i - f.lo + 1 \in 1 .. Len(S)
        BY <2>1, <2>2, <3>0, Offset
      <3>2. From(f, i) \in States /\ S[i - f.lo + 1] \in SeqId
        BY <3>1, FromType, ListParts
      <3>3. p < k => k - p \in Nat
        BY <2>1
      <3>4. p < k => From(f, i) \o [j \in 1 .. k - p |-> S[i - f.lo + 1]] \in States
        BY <3>2, <3>3, AddedType
      <3>5. ~(p < k) => p >= k
        BY <2>1
      <3>6. p >= k => ~(p < k)
        BY <2>1
      <3>7. CASE p >= k
        BY <2>2, <3>7, StateTypes
      <3>8. CASE ~(p >= k)
        BY <2>2, <3>4, <3>5, <3>8
      <3> QED BY <3>7, <3>8
    <2>3. CASE i \notin f.lo .. f.lo + Len(S) - 1
      <3>1. rows[p][i] \in States
        BY DEF RowsOf
      <3>2. i \in f.lo .. f.hi => From(f, i) \in States
        BY FromType
      <3> QED BY <2>3, <3>1, <3>2, StateTypes
    <2> QED BY <2>2, <2>3
<1> HIDE DEF v
<1> QED BY <1>1, <1>2 DEF RowsOf

\* find_slot() for a ubatch that fits.
LEMMA BatchFound ==
    ASSUME TypeInv, NEW S \in Ubatches[nrs], NEW k \in 1 .. MaxNew[nrs], Fits(S, k),
           NEW f, f = FindSlot(mem, S, Positions(S, k))
    PROVE  /\ S \in Lists /\ k \in Nat /\ k > 0 /\ Found(mem, S, Positions(S, k), f) /\ InBounds(f.m)
           /\ \A j \in 1 .. Len(S) : Positions(S, k)[S[j]] = Len(hist[S[j]]) + k - 1
<1> DEFINE L == Positions(S, k)
<1>1. k \in Nat /\ k > 0 /\ S \in Lists
    BY TypeParts, UbatchList
<1>2. ASSUME NEW j \in 1 .. Len(S)
      PROVE  L[S[j]] = Len(hist[S[j]]) + k - 1 /\ L[S[j]] \in -1 .. MaxLen[nrs] - 1
    <2>1. S[j] \in Range(S) /\ S[j] \in SeqId
      BY <1>1, ListParts
    <2>2. Len(hist[S[j]]) \in Nat /\ MaxLen[nrs] \in Nat
      BY <2>1, TypeParts, LenProperties
    <2>3. Len(hist[S[j]]) + k <= MaxLen[nrs]
      BY <2>1 DEF Fits
    <2>4. L[S[j]] = Len(hist[S[j]]) + k - 1
      BY <2>1 DEF Positions
    <2> HIDE DEF L
    <2>5. Len(hist[S[j]]) + k - 1 \in -1 .. MaxLen[nrs] - 1
      BY <1>1, <2>2, <2>3
    <2> QED BY <2>4, <2>5
<1> HIDE DEF L
<1>3. \A j \in 1 .. Len(S) : L[S[j]] \in Int
    BY <1>2, TypeParts
<1>4. Found(mem, S, L, FindSlot(mem, S, L))
    BY <1>1, <1>3, TypeParts, FindSlotFinds
<1>5. Found(mem, S, L, f)
    BY <1>4 DEF L
<1>6. InBounds(f.m)
    BY <1>1, <1>2, <1>5, TypeParts, FoundBounds
<1> QED BY <1>1, <1>2, <1>5, <1>6 DEF L

\* A minimum of naturals is one of the two.
LEMMA MinOfTwo ==
    ASSUME NEW a \in Nat, NEW b \in Nat
    PROVE  /\ Min({a, b}) \in Nat /\ Min({a, b}) <= a /\ Min({a, b}) <= b
           /\ Min({a, b}) = a \/ Min({a, b}) = b
<1>1. {a, b} \in SUBSET Nat /\ {a, b} # {} /\ a \in {a, b} /\ b \in {a, b}
    OBVIOUS
<1> DEFINE T == {a, b}
<1>2. \A x \in T : x = a \/ x = b
    OBVIOUS
<1>3. T \in SUBSET Nat /\ T # {} /\ a \in T /\ b \in T
    BY <1>1
<1> HIDE DEF T
<1>4. Min(T) \in T /\ \A x \in T : Min(T) <= x
    BY <1>3, MinExists
<1>5. /\ Min(T) \in Nat /\ Min(T) <= a /\ Min(T) <= b
      /\ Min(T) = a \/ Min(T) = b
    BY <1>2, <1>3, <1>4
<1> QED BY <1>5 DEF T

LEMMA DecodeType ==
    ASSUME TypeInv, NEW S \in Ubatches[nrs], NEW k \in 1 .. MaxNew[nrs], Decode(S, k)
    PROVE  TypeInv'
<1> DEFINE f == FindSlot(mem, S, Positions(S, k))
           y == Spent(f.m, f.lo .. f.hi)
<1>1. /\ mem' = y /\ rows' = Computed(f, S, k) /\ nrs' = nrs /\ saved' = saved /\ intact' = intact
      /\ Fits(S, k)
    BY DEF Decode, Spent
<1>2. f = FindSlot(mem, S, Positions(S, k))
    OBVIOUS
<1> HIDE DEF f
<1>3. S \in Lists /\ k \in Nat /\ k > 0 /\ Found(mem, S, Positions(S, k), f) /\ InBounds(f.m)
    BY <1>1, <1>2, BatchFound
<1>4. Sound(f.m)
    BY <1>3 DEF Found
<1>5. Sound(y) /\ InBounds(y)
    BY <1>3, <1>4, TypeParts, SpentSound
<1>6. rows' \in RowsOf(nrs)
    BY <1>1, <1>3, TypeParts, ComputedType
<1>7. hist' \in [SeqId -> Seq(SeqId)]
    <2>1. \A s \in SeqId : hist[s] \in Seq(SeqId) /\ hist[s] \o [j \in 1 .. k |-> s] \in Seq(SeqId)
      BY <1>3, TypeParts, HistAddedType
    <2> QED BY <2>1 DEF Decode
<1>8. fresh' \in [SeqId -> 0 .. nrs]
    <2>1. k - 1 \in Nat /\ nrs \in Nat
      BY <1>3, TypeParts
    <2>2. Min({k - 1, nrs}) \in 0 .. nrs
      <3>1. Min({k - 1, nrs}) \in Nat /\ Min({k - 1, nrs}) <= nrs
        BY <2>1, MinOfTwo
      <3> QED BY <2>1, <3>1
    <2>3. fresh' = [s \in SeqId |-> IF s \in Range(S) THEN Min({k - 1, nrs}) ELSE fresh[s]]
      BY DEF Decode
    <2>4. fresh \in [SeqId -> 0 .. nrs]
      BY TypeParts
    <2> DEFINE v == Min({k - 1, nrs})
    <2>5. v \in 0 .. nrs /\ fresh' = [s \in SeqId |-> IF s \in Range(S) THEN v ELSE fresh[s]]
      BY <2>2, <2>3
    <2> HIDE DEF v
    <2> QED BY <2>4, <2>5
<1> HIDE DEF y
<1> QED BY <1>1, <1>5, <1>6, <1>7, <1>8, TypeParts, TypeNext

LEMMA DecodeFailsType ==
    ASSUME TypeInv, NEW S \in Ubatches[nrs], NEW k \in 1 .. MaxNew[nrs], NEW begun \in BOOLEAN,
           DecodeFails(S, k, begun)
    PROVE  TypeInv'
<1> DEFINE f == FindSlot(mem, S, Positions(S, k))
           m == IF begun THEN Spent(f.m, f.lo .. f.hi) ELSE f.m
           y == TakenBack(m, S)
<1>1. mem' = y /\ nrs' = nrs /\ saved' = saved /\ hist' = hist /\ intact' = FALSE /\ Fits(S, k)
    BY DEF DecodeFails, Spent
<1>2. f = FindSlot(mem, S, Positions(S, k))
    OBVIOUS
<1>3. rows' = rows \/ rows' = [p \in 0 .. nrs |-> [i \in Idx |-> IF i \in f.lo .. f.hi THEN Junk ELSE rows[p][i]]]
    BY DEF DecodeFails
<1> HIDE DEF f
<1>4. /\ S \in Lists /\ k \in Nat /\ k > 0 /\ Found(mem, S, Positions(S, k), f) /\ InBounds(f.m)
      /\ \A j \in 1 .. Len(S) : Positions(S, k)[S[j]] = Len(hist[S[j]]) + k - 1
    BY <1>1, <1>2, BatchFound
<1>5. Sound(f.m) /\ f.lo \in Nat
    BY <1>4, Sizes DEF Found
<1>6. Sound(m) /\ InBounds(m) /\ m.cells = f.m.cells /\ m.tail = f.m.tail
    BY <1>4, <1>5, TypeParts, SpentSound
<1> HIDE DEF m
<1>7. Behind(m, S)
    <2>1. ASSUME NEW j \in 1 .. Len(S)
          PROVE  /\ m.tail[S[j]] = f.lo + j - 1 /\ f.lo + j - 1 \in Idx
                 /\ Len(hist[S[j]]) <= m.cells[m.tail[S[j]]].pos
      <3>1. f.m.tail[S[j]] = f.lo + j - 1 /\ f.m.cells[f.lo + j - 1].pos = Len(hist[S[j]]) + k - 1
        BY <1>4 DEF Found, FirstFound
      <3>2. S[j] \in SeqId /\ f.m \in Memories(nrs)
        BY <1>4, <1>5, ListParts DEF Sound
      <3>3. f.m.tail[S[j]] \in Idx \/ f.m.tail[S[j]] = -1
        BY <3>2, MemoryParts
      <3>4. f.lo + j - 1 # -1
        BY <1>5
      <3>5. Len(hist[S[j]]) \in Nat
        BY <3>2, TypeParts, LenProperties
      <3>6. Len(hist[S[j]]) <= Len(hist[S[j]]) + k - 1
        BY <1>4, <3>5
      <3> QED BY <1>6, <3>1, <3>3, <3>4, <3>6
    <2>2. \A i, j \in 1 .. Len(S) : i # j => f.lo + i - 1 # f.lo + j - 1
      BY <1>5
    <2> QED BY <2>1, <2>2 DEF Behind
<1>8. Sound(y) /\ InBounds(y)
    BY <1>4, <1>6, <1>7, TypeParts, BackSound
<1>9. rows' \in RowsOf(nrs)
    <2>1. rows \in RowsOf(nrs) /\ Junk \in States
      BY TypeParts, StateTypes
    <2> QED BY <1>3, <2>1 DEF RowsOf
<1>10. fresh' \in [SeqId -> 0 .. nrs]
    <2>1. fresh' = [s \in SeqId |-> IF s \in Range(S) THEN 0 ELSE fresh[s]]
      BY DEF DecodeFails
    <2>2. fresh \in [SeqId -> 0 .. nrs] /\ 0 \in 0 .. nrs
      BY TypeParts
    <2> QED BY <2>1, <2>2
<1>11. intact' \in BOOLEAN /\ hist' \in [SeqId -> Seq(SeqId)]
    BY <1>1, TypeParts
<1> HIDE DEF y
<1> QED BY <1>1, <1>8, <1>9, <1>10, <1>11, TypeParts, TypeNext

\* The row of a sequence is that of its cell.
LEMMA RowOfTail ==
    ASSUME TypeInv, NEW s \in SeqId, mem.tail[s] \in Idx
    PROVE  Row(s) = rows[mem.rs[s]][mem.tail[s]] /\ Row(s) \in States
<1> DEFINE t == mem.tail[s]
<1>1. s \in mem.cells[t].seq
    BY TypeParts DEF Sound, Linked
<1>2. mem.cells[t].src = t
    BY <1>1, TypeParts DEF Sound, Sourced
<1>3. t >= 0
    BY Sizes
<1>4. Row(s) = rows[mem.rs[s]][t]
    BY <1>2, <1>3 DEF Row
<1>5. mem.rs[s] \in 0 .. nrs
    BY TypeParts, MemoryParts
<1>6. rows[mem.rs[s]][t] \in States
    BY <1>5, TypeParts DEF RowsOf
<1> QED BY <1>4, <1>6

LEMMA WriteType == ASSUME TypeInv, NEW s \in SeqId, StateWrite(s) PROVE TypeInv'
<1>1. /\ mem' = mem /\ nrs' = nrs /\ rows' = rows /\ hist' = hist /\ fresh' = fresh /\ intact' = intact
      /\ saved' = IF mem.tail[s] < 0 THEN NoSnap
                  ELSE [pos |-> mem.cells[mem.tail[s]].pos, row |-> Row(s), hist |-> hist[s]]
    BY DEF StateWrite
<1>2. saved' \in [pos : -1 .. MaxLen[nrs] - 1, row : States, hist : Seq(SeqId)]
    <2>1. CASE mem.tail[s] < 0
      BY <1>1, <2>1, TypeParts, NoSnapType
    <2>2. CASE ~(mem.tail[s] < 0)
      <3>1. mem.tail[s] \in Idx
        <4>1. mem.tail[s] \in Idx \/ mem.tail[s] = -1
          BY TypeParts, MemoryParts
        <4> QED BY <2>2, <4>1
      <3>2. Row(s) \in States
        BY <3>1, RowOfTail
      <3>3. mem.cells[mem.tail[s]].pos \in -1 .. MaxLen[nrs] - 1
        BY <3>1, TypeParts DEF InBounds
      <3>4. hist[s] \in Seq(SeqId)
        BY TypeParts
      <3> QED BY <1>1, <2>2, <3>2, <3>3, <3>4
    <2> QED BY <2>1, <2>2
<1> QED BY <1>1, <1>2, TypeParts, TypeNext

\* The cell that a restored sequence gets.
LEMMA RestoreFound ==
    ASSUME TypeInv, NEW s \in SeqId, NEW m, m = RemoveAll(mem, s), NEW last, last = [u \in {s} |-> saved.pos],
           NEW f, f = FindSlot(m, <<s>>, last)
    PROVE  /\ <<s>> \in Lists /\ Len(<<s>>) = 1 /\ <<s>>[1] = s /\ Range(<<s>>) = {s} /\ last[s] = saved.pos
           /\ Left(mem, m, s) /\ m.rs = [mem.rs EXCEPT ![s] = 0] /\ InBounds(m)
           /\ Found(m, <<s>>, last, f) /\ InBounds(f.m)
<1>1. <<s>> \in Seq(SeqId) /\ Len(<<s>>) = 1 /\ <<s>>[1] = s
    OBVIOUS
<1> DEFINE S == <<s>>
<1>2. S \in Seq(SeqId) /\ Len(S) = 1 /\ S[1] = s
    BY <1>1
<1> HIDE DEF S
<1>3. S \in Lists
    <2>1. \A i, j \in 1 .. Len(S) : i # j => S[i] # S[j]
      BY <1>2
    <2>2. Len(S) > 0
      BY <1>2
    <2> QED BY <1>2, <2>1, <2>2 DEF Lists
<1>4. Range(S) = {s}
    BY <1>2, <1>3, ListParts
<1>5. Left(mem, m, s) /\ m.rs = [mem.rs EXCEPT ![s] = 0]
    BY TypeParts, RemoveAllLeft
<1>6. InBounds(m)
    BY <1>5, TypeParts, LeftBounds
<1>7. Sound(m)
    BY <1>5 DEF Left
<1>8. last[s] = saved.pos /\ saved.pos \in -1 .. MaxLen[nrs] - 1 /\ saved.pos \in Int
    BY TypeParts
<1>9. \A k \in 1 .. Len(S) : last[S[k]] \in Int /\ last[S[k]] \in -1 .. MaxLen[nrs] - 1
    BY <1>2, <1>8
<1>10. Found(m, S, last, FindSlot(m, S, last))
    BY <1>3, <1>7, <1>9, FindSlotFinds
<1>11. Found(m, S, last, f)
    BY <1>10 DEF S
<1>12. InBounds(f.m)
    BY <1>3, <1>6, <1>9, <1>11, TypeParts, FoundBounds
<1> QED BY <1>2, <1>3, <1>4, <1>5, <1>6, <1>8, <1>11, <1>12 DEF S

LEMMA ReadType == ASSUME TypeInv, NEW s \in SeqId, StateRead(s) PROVE TypeInv'
<1> DEFINE m == RemoveAll(mem, s)
           last == [u \in {s} |-> saved.pos]
           f == FindSlot(m, <<s>>, last)
           y == IF saved.pos < 0 THEN m ELSE f.m
<1>1. /\ nrs' = nrs /\ saved' = saved /\ intact' = intact /\ mem' = y
      /\ rows' = IF saved.pos < 0 THEN rows ELSE [rows EXCEPT ![0][f.lo] = saved.row]
      /\ hist' = [hist EXCEPT ![s] = saved.hist] /\ fresh' = [fresh EXCEPT ![s] = 0]
    BY DEF StateRead
<1>2. Left(mem, m, s) /\ InBounds(m) /\ Found(m, <<s>>, last, f) /\ InBounds(f.m)
    BY RestoreFound
<1> HIDE DEF f, m, last
<1>3. Sound(y) /\ InBounds(y)
    <2>1. Sound(m) /\ Sound(f.m)
      BY <1>2 DEF Left, Found
    <2> QED BY <1>2, <2>1
<1>4. rows' \in RowsOf(nrs)
    <2>1. rows \in [0 .. nrs -> [Idx -> States]] /\ saved.row \in States /\ 0 \in 0 .. nrs /\ f.lo \in Idx
      BY <1>2, TypeParts DEF RowsOf, Found
    <2>2. [rows[0] EXCEPT ![f.lo] = saved.row] \in [Idx -> States]
      BY <2>1
    <2>3. [rows EXCEPT ![0][f.lo] = saved.row] \in [0 .. nrs -> [Idx -> States]]
      BY <2>1, <2>2
    <2> QED BY <1>1, <2>1, <2>3 DEF RowsOf
<1>5. hist' \in [SeqId -> Seq(SeqId)]
    <2>1. saved.hist \in Seq(SeqId) /\ hist \in [SeqId -> Seq(SeqId)]
      BY TypeParts
    <2> QED BY <1>1, <2>1
<1>6. fresh' \in [SeqId -> 0 .. nrs]
    <2>1. fresh \in [SeqId -> 0 .. nrs] /\ 0 \in 0 .. nrs
      BY TypeParts
    <2> QED BY <1>1, <2>1
<1> HIDE DEF y
<1> QED BY <1>1, <1>3, <1>4, <1>5, <1>6, TypeParts, TypeNext

LEMMA StutterType == ASSUME TypeInv, UNCHANGED vars PROVE TypeInv'
<1>1. /\ mem' = mem /\ nrs' = nrs /\ rows' = rows /\ hist' = hist /\ fresh' = fresh /\ intact' = intact
      /\ saved' = saved
    BY DEF vars
<1> QED BY <1>1, TypeParts, TypeNext

LEMMA StepType == ASSUME TypeInv, [Next]_vars PROVE TypeInv'
<1>1. ASSUME NEW data \in BOOLEAN, Clear(data) PROVE TypeInv'
    BY <1>1, ClearType
<1>2. ASSUME NEW s \in Users[nrs], SeqRmAll(s) PROVE TypeInv'
    BY <1>2, TypeParts, RmAllType
<1>3. ASSUME NEW s \in Users[nrs], SeqKeep(s) PROVE TypeInv'
    BY <1>3, TypeParts, KeepType
<1>4. ASSUME NEW s \in Users[nrs], NEW p0 \in 1 .. MaxLen[nrs], SeqRmLast(s, p0) PROVE TypeInv'
    <2>1. p0 \in Nat
      BY TypeParts
    <2> QED BY <1>4, <2>1, TypeParts, RmLastType
<1>5. ASSUME NEW s \in Users[nrs], NEW t \in Users[nrs], SeqCp(s, t) PROVE TypeInv'
    BY <1>5, TypeParts, CpType
<1>6. ASSUME NEW s \in Savers[nrs], StateWrite(s) PROVE TypeInv'
    BY <1>6, TypeParts, WriteType
<1>7. ASSUME NEW s \in Savers[nrs], StateRead(s) PROVE TypeInv'
    BY <1>7, TypeParts, ReadType
<1>8. ASSUME NEW S \in Ubatches[nrs], NEW k \in 1 .. MaxNew[nrs], Decode(S, k) PROVE TypeInv'
    BY <1>8, DecodeType
<1>9. ASSUME NEW S \in Ubatches[nrs], NEW k \in 1 .. MaxNew[nrs], NEW begun \in BOOLEAN,
             DecodeFails(S, k, begun)
      PROVE  TypeInv'
    BY <1>9, DecodeFailsType
<1>10. CASE UNCHANGED vars
    BY <1>10, StutterType
<1> QED BY <1>1, <1>2, <1>3, <1>4, <1>5, <1>6, <1>7, <1>8, <1>9, <1>10 DEF Next

LEMMA TypeAlways == Spec => []TypeInv
<1>1. Init => TypeInv
    BY InitType
<1>2. TypeInv /\ [Next]_vars => TypeInv'
    BY StepType
<1> QED BY <1>1, <1>2, PTL DEF Spec

(* Positions, tails, planes and rows stay within what the memory has, whatever callers do *)
(* and also after computations that failed.                                                *)
THEOREM TypeCorrect == Spec => []TypeOK
<1>1. TypeInv => TypeOK
    <2> SUFFICES ASSUME TypeInv PROVE TypeOK
      OBVIOUS
    <2>1. nrs \in NRs /\ mem.head \in Idx /\ mem.rs \in [SeqId -> 0 .. nrs] /\ mem.tail \in [SeqId -> -1 .. NSeq - 1]
      BY TypeParts, MemoryParts
    <2>2. mem.cells \in [Idx -> [pos : -1 .. MaxLen[nrs] - 1, src : -1 .. NSeq - 1, seq : SUBSET SeqId]]
      <3>1. mem.cells \in [Idx -> Cells]
        BY TypeParts, MemoryParts
      <3>2. \A i \in Idx : /\ mem.cells[i] = [pos |-> mem.cells[i].pos, src |-> mem.cells[i].src, seq |-> mem.cells[i].seq]
                           /\ mem.cells[i].src \in -1 .. NSeq - 1 /\ mem.cells[i].seq \in SUBSET SeqId
        BY <3>1 DEF Cells
      <3>3. \A i \in Idx : mem.cells[i].pos \in -1 .. MaxLen[nrs] - 1
        BY TypeParts DEF InBounds
      <3>4. ASSUME NEW i \in Idx
            PROVE  mem.cells[i] \in [pos : -1 .. MaxLen[nrs] - 1, src : -1 .. NSeq - 1, seq : SUBSET SeqId]
        <4>1. [pos |-> mem.cells[i].pos, src |-> mem.cells[i].src, seq |-> mem.cells[i].seq]
                \in [pos : -1 .. MaxLen[nrs] - 1, src : -1 .. NSeq - 1, seq : SUBSET SeqId]
          BY <3>2, <3>3
        <4>2. mem.cells[i] = [pos |-> mem.cells[i].pos, src |-> mem.cells[i].src, seq |-> mem.cells[i].seq]
          BY <3>2
        <4> QED BY <4>1, <4>2
      <3>5. mem.cells = [i \in Idx |-> mem.cells[i]]
        BY <3>1
      <3> QED BY <3>4, <3>5
    <2>3. mem.used \in 0 .. NSeq
      BY TypeParts, UsedFinite DEF Sound
    <2>4. ASSUME NEW p \in 0 .. nrs, NEW i \in Idx PROVE rows[p][i] \in Seq(SeqId \cup {-1})
      <3>1. rows \in [0 .. nrs -> [Idx -> States]]
        BY TypeParts DEF RowsOf
      <3>2. rows[p] \in [Idx -> States]
        BY <3>1
      <3>3. rows[p][i] \in States
        BY <3>2
      <3> QED BY <3>3 DEF States
    <2>5. fresh \in [SeqId -> 0 .. nrs] /\ intact \in BOOLEAN
      BY TypeParts
    <2> QED BY <2>1, <2>2, <2>3, <2>4, <2>5 DEF TypeOK
<1> QED BY <1>1, TypeAlways, PTL

(* Tails and cells name each other, the count of cells in use is right, and find_slot()    *)
(* finds every ubatch its cells and a row to clear for those that begin.                   *)
THEOREM CellsAlwaysAgree == Spec => []CellsAgree
<1>1. TypeInv => CellsAgree
    <2> SUFFICES ASSUME TypeInv PROVE CellsAgree
      OBVIOUS
    <2>1. \A s \in SeqId, i \in Idx : s \in mem.cells[i].seq <=> mem.tail[s] = i
      BY TypeParts DEF Sound, Linked
    <2>2. mem.used = Cardinality(Used(mem.cells))
      BY TypeParts DEF Sound
    <2>3. ASSUME NEW S \in Ubatches[nrs], NEW last, last = [s \in Range(S) |-> 0],
                 NEW f, f = FindSlot(mem, S, last)
          PROVE  f.ok /\ \A i \in f.lo .. f.hi : f.src0[i] >= 0
      <3>1. S \in Lists
        BY UbatchList
      <3>2. \A k \in 1 .. Len(S) : S[k] \in Range(S)
        BY <3>1, ListParts
      <3>3. \A k \in 1 .. Len(S) : last[S[k]] \in Int
        BY <2>3, <3>2
      <3>4. Found(mem, S, last, FindSlot(mem, S, last))
        BY <3>1, <3>3, TypeParts, FindSlotFinds
      <3>5. Found(mem, S, last, f)
        BY <2>3, <3>4
      <3>6. f.ok /\ f.src0 \in [f.lo .. f.hi -> Idx]
        BY <3>5 DEF Found
      <3>7. \A i \in f.lo .. f.hi : f.src0[i] >= 0
        BY <3>6, Sizes
      <3> QED BY <3>6, <3>7
    <2> QED BY <2>1, <2>2, <2>3 DEF CellsAgree
<1> QED BY <1>1, TypeAlways, PTL

-----------------------------------------------------------------------------
(* The states of the sequences.                                            *)

\* A cell that nobody has has no state to give.
ZeroRows(m, r) == \A i \in Idx : m.cells[i].seq = {} /\ m.cells[i].src = i => r[0][i] = Zero

\* Those who share a cell read it from plane 0, and take nothing back.
SharedPlain(m, fr) ==
    \A s, t \in SeqId : s # t /\ m.tail[s] = m.tail[t] /\ m.tail[s] \in Idx => m.rs[s] = 0 /\ fr[s] = 0

\* The row of s has the state of its tokens, and the planes those from before its last ones.
HasState(m, r, h, fr, s) ==
    LET t == m.tail[s]
    IN  /\ m.cells[t].pos = Len(h[s]) - 1 /\ r[m.rs[s]][t] = h[s]
        /\ fr[s] > 0 => m.rs[s] = 0
        /\ fr[s] < Len(h[s])
        /\ \A p \in 1 .. fr[s] : r[p][t] = SubSeq(h[s], 1, Len(h[s]) - p)
NoState(m, h, fr, s) == h[s] = <<>> /\ m.rs[s] = 0 /\ fr[s] = 0
StateOf(m, r, h, fr, s) == IF m.tail[s] \in Idx THEN HasState(m, r, h, fr, s) ELSE NoState(m, h, fr, s)

Stated(m, r, h, fr) ==
    /\ ZeroRows(m, r) /\ SharedPlain(m, fr)
    /\ \A s \in SeqId : StateOf(m, r, h, fr, s)

SavedStated(x) == x.pos = Len(x.hist) - 1 /\ (x.pos >= 0 => x.row = x.hist)

StateInv == SavedStated(saved) /\ (intact => Stated(mem, rows, hist, fresh))

AllDuties == {"rollback", "copy", "keep", "failure"} \subseteq Duties

LEMMA InitState == Init => StateInv
<1> SUFFICES ASSUME Init PROVE StateInv
    OBVIOUS
<1>1. SavedStated(saved)
    BY DEF Init, NoSnap, SavedStated
<1>2. nrs \in Nat
    BY Bound DEF Init
<1>3. \A i \in Idx : mem.cells[i].seq = {} /\ rows[0][i] = Zero
    BY <1>2, EmptyFine DEF Init, NewMemory, Cleared
<1>4. \A s \in SeqId : mem.tail[s] \notin Idx /\ hist[s] = <<>> /\ mem.rs[s] = 0 /\ fresh[s] = 0
    BY Sizes DEF Init, NewMemory
<1>5. ZeroRows(mem, rows) /\ SharedPlain(mem, fresh)
    BY <1>3, <1>4 DEF ZeroRows, SharedPlain
<1>6. \A s \in SeqId : StateOf(mem, rows, hist, fresh, s)
    BY <1>4 DEF StateOf, NoState
<1> QED BY <1>1, <1>5, <1>6 DEF StateInv, Stated

LEMMA StateNext ==
    ASSUME SavedStated(saved'), intact' => Stated(mem', rows', hist', fresh')
    PROVE  StateInv'
BY DEF StateInv

\* The sequences of clear() have nothing.  The rows keep what they had when the data stays,
\* and then no cell has one of them as its source.
LEMMA ClearState == ASSUME TypeInv, StateInv, NEW data \in BOOLEAN, Clear(data) PROVE StateInv'
<1>1. saved' = saved /\ mem' = NewMemory
    BY DEF Clear
<1>2. \A i \in Idx : mem'.cells[i].src # i
    BY <1>1, EmptyFine, Sizes DEF NewMemory
<1>3. \A s \in SeqId : mem'.tail[s] \notin Idx /\ hist'[s] = <<>> /\ mem'.rs[s] = 0 /\ fresh'[s] = 0
    BY <1>1, Sizes DEF Clear, NewMemory
<1>4. ZeroRows(mem', rows') /\ SharedPlain(mem', fresh')
    BY <1>2, <1>3 DEF ZeroRows, SharedPlain
<1>5. \A s \in SeqId : StateOf(mem', rows', hist', fresh', s)
    BY <1>3 DEF StateOf, NoState
<1> QED BY <1>1, <1>4, <1>5, StateNext DEF StateInv, Stated

\* Others stay what they are when a sequence is removed.
LEMMA RemoveState ==
    ASSUME TypeInv, Stated(mem, rows, hist, fresh), NEW s \in SeqId,
           NEW y, Left(mem, y, s), y.rs = [mem.rs EXCEPT ![s] = 0],
           NEW h, h = [hist EXCEPT ![s] = <<>>], NEW fr, fr = [fresh EXCEPT ![s] = 0]
    PROVE  Stated(y, rows, h, fr)
<1>1. /\ \A u \in SeqId \ {s} : y.rs[u] = mem.rs[u] /\ h[u] = hist[u] /\ fr[u] = fresh[u]
      /\ y.rs[s] = 0 /\ h[s] = <<>> /\ fr[s] = 0
    <2>1. mem.rs \in [SeqId -> 0 .. nrs] /\ hist \in [SeqId -> Seq(SeqId)] /\ fresh \in [SeqId -> 0 .. nrs]
      BY TypeParts, MemoryParts
    <2> QED BY <2>1
<1>2. y.tail[s] \notin Idx /\ \A u \in SeqId \ {s} : y.tail[u] = mem.tail[u]
    BY Sizes DEF Left
<1>3. ZeroRows(y, rows)
    <2> SUFFICES ASSUME NEW i \in Idx, y.cells[i].seq = {}, y.cells[i].src = i PROVE rows[0][i] = Zero
      BY DEF ZeroRows
    <2>1. y.cells[i] = mem.cells[i]
      <3>1. \/ y.cells[i] = mem.cells[i]
            \/ y.cells[i] = Empty
            \/ y.cells[i].seq # {}
        BY DEF Left
      <3>2. i # -1
        BY Sizes
      <3> QED BY <3>1, <3>2, EmptyFine
    <2> QED BY <2>1 DEF Stated, ZeroRows
<1>4. SharedPlain(y, fr)
    BY <1>1, <1>2 DEF Stated, SharedPlain
<1>5. ASSUME NEW u \in SeqId PROVE StateOf(y, rows, h, fr, u)
    <2>1. CASE u = s
      BY <1>1, <1>2, <2>1 DEF StateOf, NoState
    <2>2. CASE u # s /\ mem.tail[u] \in Idx
      <3>1. HasState(mem, rows, hist, fresh, u)
        BY <2>2 DEF Stated, StateOf
      <3>2. u \in mem.cells[mem.tail[u]].seq
        BY <2>2, TypeParts DEF Sound, Linked
      <3>3. y.cells[mem.tail[u]].pos = mem.cells[mem.tail[u]].pos
        BY <2>2, <3>2 DEF Left
      <3>4. HasState(y, rows, h, fr, u)
        BY <1>1, <1>2, <2>2, <3>1, <3>3 DEF HasState
      <3> QED BY <1>2, <2>2, <3>4 DEF StateOf
    <2>3. CASE u # s /\ mem.tail[u] \notin Idx
      <3>1. NoState(mem, hist, fresh, u)
        BY <2>3 DEF Stated, StateOf
      <3>2. NoState(y, h, fr, u)
        BY <1>1, <2>3, <3>1 DEF NoState
      <3> QED BY <1>2, <2>3, <3>2 DEF StateOf
    <2> QED BY <2>1, <2>2, <2>3
<1> QED BY <1>3, <1>4, <1>5 DEF Stated

LEMMA ReadyState == ASSUME AllDuties, StateInv, Ready PROVE intact /\ Stated(mem, rows, hist, fresh)
BY DEF AllDuties, StateInv, Ready

LEMMA RmAllState ==
    ASSUME AllDuties, TypeInv, StateInv, NEW s \in SeqId, SeqRmAll(s)
    PROVE  StateInv'
<1> DEFINE y == RemoveAll(mem, s)
<1>1. /\ mem' = y /\ rows' = rows /\ saved' = saved /\ hist' = [hist EXCEPT ![s] = <<>>]
      /\ fresh' = [fresh EXCEPT ![s] = 0] /\ Ready
    BY DEF SeqRmAll
<1>2. Left(mem, y, s) /\ y.rs = [mem.rs EXCEPT ![s] = 0]
    BY TypeParts, RemoveAllLeft
<1> HIDE DEF y
<1>3. Stated(mem, rows, hist, fresh)
    BY <1>1, ReadyState
<1>4. Stated(y, rows, hist', fresh')
    BY <1>1, <1>2, <1>3, RemoveState
<1>5. SavedStated(saved')
    BY <1>1 DEF StateInv
<1> QED BY <1>1, <1>4, <1>5, StateNext

LEMMA WriteState ==
    ASSUME AllDuties, TypeInv, StateInv, NEW s \in SeqId, StateWrite(s)
    PROVE  StateInv'
<1>1. /\ mem' = mem /\ rows' = rows /\ hist' = hist /\ fresh' = fresh /\ Ready
      /\ saved' = IF mem.tail[s] < 0 THEN NoSnap
                  ELSE [pos |-> mem.cells[mem.tail[s]].pos, row |-> Row(s), hist |-> hist[s]]
    BY DEF StateWrite
<1>2. Stated(mem, rows, hist, fresh)
    BY <1>1, ReadyState
<1>3. SavedStated(saved')
    <2>1. CASE mem.tail[s] < 0
      <3>1. saved' = NoSnap
        BY <1>1, <2>1
      <3>2. NoSnap.pos = -1 /\ NoSnap.hist = <<>> /\ Len(<<>>) = 0
        BY DEF NoSnap
      <3> QED BY <3>1, <3>2 DEF SavedStated
    <2>2. CASE ~(mem.tail[s] < 0)
      <3>1. mem.tail[s] \in Idx
        <4>1. mem.tail[s] \in Idx \/ mem.tail[s] = -1
          BY TypeParts, MemoryParts
        <4> QED BY <2>2, <4>1
      <3>2. HasState(mem, rows, hist, fresh, s)
        BY <1>2, <3>1 DEF Stated, StateOf
      <3>3. Row(s) = hist[s] /\ mem.cells[mem.tail[s]].pos = Len(hist[s]) - 1
        BY <3>1, <3>2, RowOfTail DEF HasState
      <3>4. saved'.pos = Len(hist[s]) - 1 /\ saved'.row = hist[s] /\ saved'.hist = hist[s]
        BY <1>1, <2>2, <3>3
      <3> QED BY <3>4 DEF SavedStated
    <2> QED BY <2>1, <2>2
<1> QED BY <1>1, <1>2, <1>3, StateNext

\* The last tokens are taken back by the choice of the plane that has the state before them.
LEMMA RmLastState ==
    ASSUME AllDuties, TypeInv, StateInv, NEW s \in SeqId, NEW p0 \in Nat, SeqRmLast(s, p0)
    PROVE  StateInv'
<1> DEFINE y == Taken(mem, s, p0)
           t == mem.tail[s]
           n == Len(hist[s]) - p0
<1>1. /\ mem' = y /\ rows' = rows /\ saved' = saved /\ Ready /\ (n <= fresh[s] \/ n > nrs)
      /\ hist' = (IF n <= nrs THEN [hist EXCEPT ![s] = Upto(@, p0)] ELSE hist)
      /\ fresh' = (IF n <= nrs THEN [fresh EXCEPT ![s] = 0] ELSE fresh)
      /\ t >= 0 /\ 0 < p0 /\ p0 <= mem.cells[t].pos
    BY DEF SeqRmLast, AllDuties, Holds
<1>2. t \in Idx
    BY <1>1, TypeParts, MemoryParts
<1>3. Took(mem, y, s, p0)
    BY <1>1, <1>2, TypeParts, TakenTook
<1>4. Stated(mem, rows, hist, fresh) /\ SavedStated(saved)
    BY <1>1, ReadyState DEF StateInv
<1>5. HasState(mem, rows, hist, fresh, s)
    BY <1>2, <1>4 DEF Stated, StateOf
<1>6. Len(hist[s]) \in Nat /\ mem.cells[t].pos = Len(hist[s]) - 1 /\ n = mem.cells[t].pos - (p0 - 1)
    <2>1. Len(hist[s]) \in Nat
      BY TypeParts, LenProperties
    <2>2. mem.cells[t].pos = Len(hist[s]) - 1
      BY <1>5 DEF HasState
    <2> QED BY <2>1, <2>2
<1>7. n \in Nat /\ n > 0 /\ nrs \in Nat /\ p0 < Len(hist[s]) /\ Len(hist[s]) - n = p0
    <2>1. p0 <= Len(hist[s]) - 1
      BY <1>1, <1>6
    <2>2. nrs \in Nat
      BY TypeParts
    <2>3. Len(hist[s]) \in Nat
      BY <1>6
    <2> QED BY <2>1, <2>2, <2>3
<1> HIDE DEF y, t
<1>8. CASE ~(n <= nrs)
    <2>1. mem' = mem /\ hist' = hist /\ fresh' = fresh
      BY <1>1, <1>3, <1>6, <1>8 DEF Took, t
    <2> QED BY <1>1, <1>4, <2>1, StateNext
<1>9. CASE n <= nrs
    <2>1. n <= fresh[s] /\ fresh[s] \in Nat /\ fresh[s] > 0 /\ n \in 1 .. fresh[s]
      <3>1. fresh[s] \in 0 .. nrs
        BY TypeParts
      <3> QED BY <1>1, <1>7, <1>9, <3>1
    <2>2. rows[n][t] = SubSeq(hist[s], 1, p0)
      BY <1>5, <1>7, <2>1 DEF HasState, t
    <2>3. /\ y.tail = mem.tail /\ y.rs = [mem.rs EXCEPT ![s] = n] /\ y.cells[t].pos = p0 - 1
          /\ \A i \in Idx : /\ y.cells[i].seq = mem.cells[i].seq /\ y.cells[i].src = mem.cells[i].src
                            /\ i # t => y.cells[i].pos = mem.cells[i].pos
      BY <1>3, <1>6, <1>9 DEF Took, t
    <2>4. Upto(hist[s], p0) = SubSeq(hist[s], 1, p0) /\ Len(SubSeq(hist[s], 1, p0)) = p0
      <3>1. Upto(hist[s], p0) = SubSeq(hist[s], 1, p0)
        BY <1>7 DEF Upto
      <3>2. hist[s] \in Seq(SeqId)
        BY TypeParts
      <3>3. Len(SubSeq(hist[s], 1, p0)) = p0
        BY <1>7, <3>2
      <3> QED BY <3>1, <3>3
    <2>5. /\ y.rs[s] = n /\ hist'[s] = SubSeq(hist[s], 1, p0) /\ fresh'[s] = 0
          /\ \A u \in SeqId \ {s} : y.rs[u] = mem.rs[u] /\ hist'[u] = hist[u] /\ fresh'[u] = fresh[u]
      <3>1. mem.rs \in [SeqId -> 0 .. nrs] /\ hist \in [SeqId -> Seq(SeqId)] /\ fresh \in [SeqId -> 0 .. nrs]
        BY TypeParts, MemoryParts
      <3>2. hist' = [hist EXCEPT ![s] = SubSeq(hist[s], 1, p0)] /\ fresh' = [fresh EXCEPT ![s] = 0]
        BY <1>1, <1>9, <2>4
      <3> QED BY <2>3, <3>1, <3>2
    <2>6. \A u \in SeqId \ {s} : mem.tail[u] # t
      BY <1>2, <1>4, <2>1 DEF Stated, SharedPlain, t
    <2>7. ZeroRows(y, rows)
      BY <1>4, <2>3 DEF Stated, ZeroRows
    <2>8. SharedPlain(y, fresh')
      <3>1. SharedPlain(mem, fresh)
        BY <1>4 DEF Stated
      <3> QED BY <2>3, <2>5, <2>6, <3>1 DEF SharedPlain, t
    <2>9. ASSUME NEW u \in SeqId PROVE StateOf(y, rows, hist', fresh', u)
      <3>1. CASE u = s
        <4>1. y.tail[u] = t /\ t \in Idx
          BY <1>2, <2>3, <3>1 DEF t
        <4>2. y.cells[t].pos = Len(hist'[s]) - 1 /\ rows[y.rs[s]][t] = hist'[s]
          BY <2>2, <2>3, <2>4, <2>5
        <4>3. fresh'[s] = 0 /\ 0 < Len(hist'[s])
          BY <1>1, <2>4, <2>5
        <4>4. ~(fresh'[s] > 0) /\ \A p \in 1 .. fresh'[s] : FALSE
          BY <4>3
        <4>5. HasState(y, rows, hist', fresh', s)
          BY <3>1, <4>1, <4>2, <4>3, <4>4 DEF HasState
        <4> QED BY <3>1, <4>1, <4>5 DEF StateOf
      <3>2. CASE u # s /\ mem.tail[u] \in Idx
        <4>1. HasState(mem, rows, hist, fresh, u)
          BY <1>4, <3>2 DEF Stated, StateOf
        <4>2. y.cells[mem.tail[u]].pos = mem.cells[mem.tail[u]].pos /\ y.tail[u] = mem.tail[u]
          BY <2>3, <2>6, <3>2
        <4>3. HasState(y, rows, hist', fresh', u)
          BY <2>5, <3>2, <4>1, <4>2 DEF HasState
        <4> QED BY <3>2, <4>2, <4>3 DEF StateOf
      <3>3. CASE u # s /\ mem.tail[u] \notin Idx
        <4>1. NoState(mem, hist, fresh, u)
          BY <1>4, <3>3 DEF Stated, StateOf
        <4>2. NoState(y, hist', fresh', u) /\ y.tail[u] = mem.tail[u]
          BY <2>3, <2>5, <3>3, <4>1 DEF NoState
        <4> QED BY <3>3, <4>2 DEF StateOf
      <3> QED BY <3>1, <3>2, <3>3
    <2> QED BY <1>1, <1>4, <2>7, <2>8, <2>9, StateNext DEF Stated
<1> QED BY <1>8, <1>9

\* A copy shares the row of its original.
LEMMA CpState ==
    ASSUME AllDuties, TypeInv, StateInv, NEW s \in SeqId, NEW t \in SeqId, SeqCp(s, t)
    PROVE  StateInv'
<1> DEFINE y == CopyOf(mem, s, t)
<1>1. /\ mem' = y /\ rows' = rows /\ saved' = saved /\ Ready /\ s # t
      /\ hist' = [hist EXCEPT ![t] = hist[s]] /\ fresh' = [fresh EXCEPT ![s] = 0, ![t] = 0]
      /\ mem.tail[t] < 0 /\ mem.rs[s] = 0
    BY DEF SeqCp, CopyOf, AllDuties
<1>2. Copied(mem, y, s, t)
    BY <1>1, TypeParts, CopySound
<1> HIDE DEF y
<1>3. Stated(mem, rows, hist, fresh) /\ SavedStated(saved)
    BY <1>1, ReadyState DEF StateInv
<1>4. mem.tail[t] \notin Idx
    BY <1>1, Sizes
<1>5. NoState(mem, hist, fresh, t)
    BY <1>3, <1>4 DEF Stated, StateOf
<1>6. /\ y.rs = mem.rs /\ mem.rs[t] = 0 /\ mem.rs[s] = 0 /\ fresh'[s] = 0 /\ fresh'[t] = 0
      /\ hist'[t] = hist[s]
      /\ \A u \in SeqId \ {t} : hist'[u] = hist[u] /\ (fresh'[u] = fresh[u] \/ fresh'[u] = 0)
      /\ y.tail[t] = mem.tail[s] /\ \A u \in SeqId \ {t} : y.tail[u] = mem.tail[u]
    <2>1. hist \in [SeqId -> Seq(SeqId)] /\ fresh \in [SeqId -> 0 .. nrs]
      BY TypeParts
    <2>2. mem.rs[t] = 0
      BY <1>5 DEF NoState
    <2> QED BY <1>1, <1>2, <2>1, <2>2 DEF Copied
<1>7. ZeroRows(y, rows)
    <2> SUFFICES ASSUME NEW i \in Idx, y.cells[i].seq = {}, y.cells[i].src = i PROVE rows[0][i] = Zero
      BY DEF ZeroRows
    <2>1. y.cells[i] = mem.cells[i] \/ y.cells[i] = Empty
      BY <1>2 DEF Copied
    <2>2. i # -1
      BY Sizes
    <2>3. y.cells[i] = mem.cells[i]
      BY <2>1, <2>2, EmptyFine
    <2> QED BY <1>3, <2>3 DEF Stated, ZeroRows
<1>8. SharedPlain(y, fresh')
    <2> SUFFICES ASSUME NEW u \in SeqId, NEW v \in SeqId, u # v, y.tail[u] = y.tail[v], y.tail[u] \in Idx
                 PROVE  y.rs[u] = 0 /\ fresh'[u] = 0
      BY DEF SharedPlain
    <2>1. CASE u = s \/ u = t
      BY <1>6, <2>1
    <2>2. CASE u # s /\ u # t
      <3>1. \E w \in SeqId : u # w /\ mem.tail[u] = mem.tail[w] /\ mem.tail[u] \in Idx
        <4>1. v = t => mem.tail[u] = mem.tail[s] /\ mem.tail[u] \in Idx
          BY <1>6, <2>2
        <4>2. v # t => mem.tail[u] = mem.tail[v] /\ mem.tail[u] \in Idx
          BY <1>6, <2>2
        <4> QED BY <2>2, <4>1, <4>2
      <3>2. mem.rs[u] = 0 /\ fresh[u] = 0
        BY <1>3, <3>1 DEF Stated, SharedPlain
      <3> QED BY <1>6, <2>2, <3>2
    <2> QED BY <2>1, <2>2
<1>9. ASSUME NEW w \in SeqId, mem.tail[w] \in Idx
      PROVE  /\ HasState(mem, rows, hist, fresh, w) /\ y.cells[mem.tail[w]].pos = mem.cells[mem.tail[w]].pos
             /\ fresh[w] \in Nat /\ 0 < Len(hist[w])
    <2>1. HasState(mem, rows, hist, fresh, w)
      BY <1>3, <1>9 DEF Stated, StateOf
    <2>2. w # t /\ y.tail[w] = mem.tail[w]
      BY <1>4, <1>6, <1>9
    <2>3. w \in y.cells[mem.tail[w]].seq
      BY <1>2, <1>9, <2>2 DEF Copied, Sound, Linked
    <2>4. y.cells[mem.tail[w]].pos = mem.cells[mem.tail[w]].pos
      BY <1>2, <1>9, <2>3 DEF Copied
    <2>5. fresh[w] \in Nat /\ Len(hist[w]) \in Nat
      BY TypeParts, LenProperties
    <2>6. fresh[w] < Len(hist[w])
      BY <2>1 DEF HasState
    <2> QED BY <2>1, <2>4, <2>5, <2>6
<1>10. ASSUME NEW u \in SeqId PROVE StateOf(y, rows, hist', fresh', u)
    <2>1. CASE u = t /\ mem.tail[s] \in Idx
      <3>1. /\ HasState(mem, rows, hist, fresh, s) /\ y.cells[mem.tail[s]].pos = mem.cells[mem.tail[s]].pos
            /\ 0 < Len(hist[s])
        BY <1>9, <2>1
      <3>2. \A p \in 1 .. fresh'[t] : FALSE
        BY <1>6
      <3>3. HasState(y, rows, hist', fresh', t)
        BY <1>6, <3>1, <3>2 DEF HasState
      <3> QED BY <1>6, <2>1, <3>3 DEF StateOf
    <2>2. CASE u = t /\ mem.tail[s] \notin Idx
      <3>1. NoState(mem, hist, fresh, s)
        BY <1>3, <2>2 DEF Stated, StateOf
      <3>2. NoState(y, hist', fresh', t)
        BY <1>6, <3>1 DEF NoState
      <3> QED BY <1>6, <2>2, <3>2 DEF StateOf
    <2>3. CASE u # t /\ mem.tail[u] \in Idx
      <3>1. /\ HasState(mem, rows, hist, fresh, u) /\ y.cells[mem.tail[u]].pos = mem.cells[mem.tail[u]].pos
            /\ 0 < Len(hist[u])
        BY <1>9, <2>3
      <3>2. y.tail[u] = mem.tail[u] /\ hist'[u] = hist[u]
        BY <1>6, <2>3
      <3>3. CASE fresh'[u] = fresh[u]
        <4>1. HasState(y, rows, hist', fresh', u)
          BY <1>6, <3>1, <3>2, <3>3 DEF HasState
        <4> QED BY <2>3, <3>2, <4>1 DEF StateOf
      <3>4. CASE fresh'[u] = 0
        <4>1. (\A p \in 1 .. fresh'[u] : FALSE) /\ ~(fresh'[u] > 0) /\ fresh'[u] < Len(hist[u])
          BY <3>1, <3>4
        <4>2. HasState(y, rows, hist', fresh', u)
          BY <1>6, <3>1, <3>2, <4>1 DEF HasState
        <4> QED BY <2>3, <3>2, <4>2 DEF StateOf
      <3> QED BY <1>6, <2>3, <3>3, <3>4
    <2>4. CASE u # t /\ mem.tail[u] \notin Idx
      <3>1. NoState(mem, hist, fresh, u)
        BY <1>3, <2>4 DEF Stated, StateOf
      <3>2. NoState(y, hist', fresh', u) /\ y.tail[u] = mem.tail[u]
        BY <1>6, <2>4, <3>1 DEF NoState
      <3> QED BY <2>4, <3>2 DEF StateOf
    <2> QED BY <2>1, <2>2, <2>3, <2>4
<1> QED BY <1>1, <1>3, <1>7, <1>8, <1>10, StateNext DEF Stated

\* The others have nothing when one sequence is kept.
LEMMA KeepState ==
    ASSUME AllDuties, TypeInv, StateInv, NEW s \in SeqId, SeqKeep(s)
    PROVE  StateInv'
<1> DEFINE y == KeepOf(mem, s, CellsOf(mem, s))
<1>1. /\ mem' = y /\ rows' = rows /\ saved' = saved /\ Ready
      /\ hist' = [t \in SeqId |-> IF t = s THEN hist[t] ELSE <<>>]
      /\ fresh' = [t \in SeqId |-> IF t = s THEN fresh[t] ELSE 0]
      /\ \A t \in SeqId \ {s} : mem.rs[t] = 0
    BY DEF SeqKeep, KeepOf, CellsOf, AllDuties
<1>2. Kept(mem, y, s)
    BY TypeParts, KeepSound
<1> HIDE DEF y
<1>3. Stated(mem, rows, hist, fresh) /\ SavedStated(saved)
    BY <1>1, ReadyState DEF StateInv
<1>4. /\ y.rs = mem.rs /\ y.tail[s] = mem.tail[s] /\ hist'[s] = hist[s] /\ fresh'[s] = fresh[s]
      /\ \A u \in SeqId \ {s} : y.tail[u] \notin Idx /\ hist'[u] = <<>> /\ fresh'[u] = 0 /\ mem.rs[u] = 0
    BY <1>1, <1>2, Sizes DEF Kept
<1>5. ZeroRows(y, rows)
    <2> SUFFICES ASSUME NEW i \in Idx, y.cells[i].seq = {}, y.cells[i].src = i PROVE FALSE
      BY DEF ZeroRows
    <2>1. y.cells[i].seq = {s} \/ y.cells[i] = Empty
      BY <1>2 DEF Kept
    <2>2. i # -1
      BY Sizes
    <2> QED BY <2>1, <2>2, EmptyFine
<1>6. SharedPlain(y, fresh')
    BY <1>4 DEF SharedPlain
<1>7. ASSUME NEW u \in SeqId PROVE StateOf(y, rows, hist', fresh', u)
    <2>1. CASE u # s
      BY <1>4, <2>1 DEF StateOf, NoState
    <2>2. CASE u = s /\ mem.tail[s] \in Idx
      <3>1. HasState(mem, rows, hist, fresh, s)
        BY <1>3, <2>2 DEF Stated, StateOf
      <3>2. y.cells[mem.tail[s]].pos = mem.cells[mem.tail[s]].pos
        BY <1>2, <2>2 DEF Kept
      <3>3. HasState(y, rows, hist', fresh', s)
        BY <1>4, <3>1, <3>2 DEF HasState
      <3> QED BY <1>4, <2>2, <3>3 DEF StateOf
    <2>3. CASE u = s /\ mem.tail[s] \notin Idx
      <3>1. NoState(mem, hist, fresh, s)
        BY <1>3, <2>3 DEF Stated, StateOf
      <3>2. NoState(y, hist', fresh', s)
        BY <1>4, <3>1 DEF NoState
      <3> QED BY <1>4, <2>3, <3>2 DEF StateOf
    <2> QED BY <2>1, <2>2, <2>3
<1> QED BY <1>1, <1>3, <1>5, <1>6, <1>7, StateNext DEF Stated

\* n tokens of s.
Tokens(s, n) == [j \in 1 .. n |-> s]

\* h with k tokens of s, and what it was p tokens before the last.
Added(h, s, k, p) == /\ Len(h \o Tokens(s, k)) = Len(h) + k
                     /\ SubSeq(h \o Tokens(s, k), 1, Len(h) + k - p) = h \o Tokens(s, k - p)

LEMMA SeqAdded ==
    ASSUME NEW T, NEW h \in Seq(T), NEW s \in T, NEW k \in Nat, NEW p \in 0 .. k
    PROVE  Added(h, s, k, p)
<1> DEFINE a == [j \in 1 .. k |-> s]
           b == [j \in 1 .. k - p |-> s]
           x == SubSeq(h \o a, 1, Len(h) + k - p)
           y == h \o b
           l == Len(h) + k - p
<1>1. k - p \in Nat /\ Len(h) \in Nat /\ l \in Nat /\ l <= Len(h) + k /\ l - Len(h) = k - p
    BY LenProperties
<1>2. a \in Seq(T) /\ Len(a) = k /\ b \in Seq(T) /\ Len(b) = k - p
    BY <1>1
<1>3. \A j \in 1 .. k : a[j] = s
    OBVIOUS
<1>4. \A j \in 1 .. k - p : b[j] = s
    OBVIOUS
<1> HIDE DEF a, b
<1>5. /\ h \o a \in Seq(T) /\ Len(h \o a) = Len(h) + k
      /\ \A i \in 1 .. Len(h) + k : (h \o a)[i] = IF i <= Len(h) THEN h[i] ELSE a[i - Len(h)]
    BY <1>1, <1>2, ConcatProperties
<1>6. /\ y \in Seq(T) /\ Len(y) = l
      /\ \A i \in 1 .. l : y[i] = IF i <= Len(h) THEN h[i] ELSE b[i - Len(h)]
    <2>1. Len(h) + Len(b) = l
      BY <1>1, <1>2
    <2>2. /\ h \o b \in Seq(T) /\ Len(h \o b) = Len(h) + Len(b)
          /\ \A i \in 1 .. Len(h) + Len(b) : (h \o b)[i] = IF i <= Len(h) THEN h[i] ELSE b[i - Len(h)]
      BY <1>2, ConcatProperties
    <2> QED BY <2>1, <2>2
<1>7. /\ x \in Seq(T) /\ Len(x) = l
      /\ \A i \in 1 .. l : x[i] = (h \o a)[i]
    BY <1>1, <1>5
<1> HIDE DEF x, y
<1>8. ASSUME NEW i \in 1 .. l PROVE x[i] = y[i]
    <2>1. i \in 1 .. Len(h) + k
      BY <1>1
    <2>2. CASE i <= Len(h)
      BY <1>5, <1>6, <1>7, <2>1, <2>2
    <2>3. CASE ~(i <= Len(h))
      <3>1. i - Len(h) \in 1 .. k /\ i - Len(h) \in 1 .. k - p
        BY <1>1, <2>3
      <3> QED BY <1>3, <1>4, <1>5, <1>6, <1>7, <2>1, <2>3, <3>1
    <2> QED BY <2>2, <2>3
<1>9. x = y
    BY <1>6, <1>7, <1>8, SeqEqual
<1> QED BY <1>5, <1>9 DEF x, y, a, b, Tokens, Added

LEMMA MinOfOne == ASSUME NEW s \in Nat PROVE Min({s}) = s
<1> DEFINE T == {s}
<1>1. T \in SUBSET Nat /\ T # {} /\ \A x \in T : x = s
    OBVIOUS
<1> HIDE DEF T
<1>2. Min(T) \in T
    BY <1>1, MinExists
<1>3. Min(T) = s
    BY <1>1, <1>2
<1> QED BY <1>3 DEF T

\* The cells of S in the range.
LEMMA PlaceInRange ==
    ASSUME NEW m, NEW S \in Lists, NEW last, NEW f, Found(m, S, last, f), NEW j \in 1 .. Len(S)
    PROVE  /\ f.lo + j - 1 \in f.lo .. f.hi /\ f.lo + j - 1 \in f.lo .. f.lo + Len(S) - 1
           /\ f.lo + j - 1 \in Idx
           /\ f.m.tail[S[j]] = f.lo + j - 1 /\ f.m.cells[f.lo + j - 1].seq = {S[j]}
           /\ f.m.cells[f.lo + j - 1].pos = last[S[j]]
<1>1. /\ f.lo \in Nat /\ f.hi \in Nat /\ Len(S) \in Nat /\ f.lo + Len(S) - 1 <= f.hi
      /\ f.lo \in 0 .. NSeq - 1 /\ f.hi \in 0 .. NSeq - 1 /\ NSeq \in Nat
    BY ListParts, Sizes DEF Found
<1>2. /\ f.lo + j - 1 \in f.lo .. f.hi /\ f.lo + j - 1 \in f.lo .. f.lo + Len(S) - 1
      /\ f.lo + j - 1 \in 0 .. NSeq - 1
    BY <1>1
<1>3. /\ f.m.tail[S[j]] = f.lo + j - 1 /\ f.m.cells[f.lo + j - 1].seq = {S[j]}
      /\ f.m.cells[f.lo + j - 1].pos = last[S[j]]
    BY DEF Found, FirstFound
<1> QED BY <1>2, <1>3, Sizes

\* A row that a cell without a source is given has no state.
LEMMA BlankZero ==
    ASSUME NEW m, NEW f, NEW i, ZeroRows(m, rows), Blank(m, f, i), Plane(f.m, i) = 0
    PROVE  From(f, i) = Zero
<1>1. CASE f.src0[i] = f.z
    BY <1>1 DEF From
<1>2. CASE f.src0[i] # f.z
    <2>1. PICK e : Spare(m, e) /\ m.cells[e].src = e /\ f.src0[i] = e
      BY <1>2 DEF Blank
    <2>2. rows[0][e] = Zero
      BY <2>1 DEF Spare, ZeroRows
    <2> QED BY <2>1, <2>2 DEF From
<1> QED BY <1>1, <1>2

\* The model goes on from the state of each sequence of S.
LEMMA FromNew ==
    ASSUME NEW m, NEW h, NEW fr, Stated(m, rows, h, fr), NEW S \in Lists, NEW last, NEW f,
           Found(m, S, last, f), NEW j \in 1 .. Len(S)
    PROVE  From(f, f.lo + j - 1) = h[S[j]]
<1> DEFINE i == f.lo + j - 1
           s == S[j]
<1>1. f.m.cells[i].seq = {s} /\ s \in SeqId /\ s \in Nat /\ f.m.rs = m.rs
    <2>1. f.m.cells[i].seq = {s}
      BY DEF Found, FirstFound
    <2>2. s \in SeqId /\ s \in Nat
      BY ListParts, Sizes
    <2> QED BY <2>1, <2>2 DEF Found
<1>2. Plane(f.m, i) = m.rs[s]
    <2>1. Min({s}) = s
      BY <1>1, MinOfOne
    <2>2. {s} # {}
      OBVIOUS
    <2> QED BY <1>1, <2>1, <2>2 DEF Plane
<1>3. StateOf(m, rows, h, fr, s) /\ ZeroRows(m, rows)
    BY <1>1 DEF Stated
<1>4. IF m.tail[s] \in Idx THEN f.src0[i] = m.tail[s] /\ f.src0[i] # f.z ELSE Blank(m, f, i)
    BY DEF Found, FirstFound
<1> HIDE DEF i, s
<1>5. CASE m.tail[s] \in Idx
    <2>1. f.src0[i] = m.tail[s] /\ f.src0[i] # f.z
      BY <1>4, <1>5
    <2>2. rows[m.rs[s]][m.tail[s]] = h[s]
      BY <1>3, <1>5 DEF StateOf, HasState
    <2>3. From(f, i) = h[s]
      BY <1>2, <2>1, <2>2 DEF From
    <2> QED BY <2>3 DEF i, s
<1>6. CASE m.tail[s] \notin Idx
    <2>1. Blank(m, f, i)
      BY <1>4, <1>6
    <2>2. h[s] = <<>> /\ m.rs[s] = 0
      BY <1>3, <1>6 DEF StateOf, NoState
    <2>3. From(f, i) = Zero
      BY <1>2, <1>3, <2>1, <2>2, BlankZero
    <2>4. From(f, i) = h[s]
      BY <2>2, <2>3 DEF Zero
    <2> QED BY <2>4 DEF i, s
<1> QED BY <1>5, <1>6

\* Only with one plane are there other cells in the range.
LEMMA OnePlane ==
    ASSUME nrs \in Nat, NEW m, NEW S \in Lists, nrs > 0 => Len(S) = 1, NEW last, NEW f,
           Found(m, S, last, f), NEW i \in f.lo .. f.hi, i \notin f.lo .. f.lo + Len(S) - 1
    PROVE  nrs = 0 /\ Plane(f.m, i) = 0 /\ i \in Idx
<1>1. /\ f.lo \in Nat /\ f.hi \in Nat /\ Len(S) \in Nat /\ (Len(S) = 1 => f.lo = f.hi)
      /\ f.lo \in 0 .. NSeq - 1 /\ f.hi \in 0 .. NSeq - 1 /\ NSeq \in Nat /\ f.m \in Memories(nrs)
    BY ListParts, Sizes DEF Found, Sound
<1>2. i \in 0 .. NSeq - 1
    BY <1>1
<1>3. i \in Idx
    BY <1>2, Sizes
<1>4. Len(S) # 1
    <2> SUFFICES ASSUME Len(S) = 1 PROVE FALSE
      OBVIOUS
    <2>1. f.hi = f.lo
      BY <1>1
    <2>2. i = f.lo
      BY <1>1, <2>1
    <2>3. i \in f.lo .. f.lo + 1 - 1
      BY <1>1, <2>2
    <2> QED BY <2>3
<1>5. nrs = 0
    BY <1>4
<1>6. f.m.rs \in [SeqId -> 0 .. nrs] /\ f.m.cells[i].seq \in SUBSET SeqId
    BY <1>1, <1>3, MemoryParts
<1>7. \A s \in SeqId : f.m.rs[s] = 0
    BY <1>5, <1>6
<1>8. f.m.cells[i].seq # {} => Min(f.m.cells[i].seq) \in SeqId
    <2>1. f.m.cells[i].seq \in SUBSET Nat
      BY <1>6, Sizes
    <2> QED BY <1>6, <2>1, MinExists
<1> QED BY <1>3, <1>5, <1>7, <1>8 DEF Plane

\* Another sequence whose cell is in the range finds its state there.
LEMMA FromOther ==
    ASSUME nrs \in Nat, NEW m, m.rs \in [SeqId -> 0 .. nrs], NEW h, NEW fr, Stated(m, rows, h, fr),
           NEW S \in Lists, nrs > 0 => Len(S) = 1, NEW last, NEW f, Found(m, S, last, f),
           NEW u \in SeqId \ Range(S), m.tail[u] \in Idx, f.m.tail[u] \in f.lo .. f.hi
    PROVE  From(f, f.m.tail[u]) = h[u] /\ nrs = 0
<1> DEFINE i == f.m.tail[u]
<1>1. i \notin f.lo .. f.lo + Len(S) - 1 /\ f.src0[i] = m.tail[u] /\ f.src0[i] # f.z
    BY DEF Found, OthersFound
<1>2. nrs = 0 /\ Plane(f.m, i) = 0
    BY <1>1, OnePlane
<1>3. m.rs[u] = 0
    BY <1>2
<1>4. rows[0][m.tail[u]] = h[u]
    BY <1>3 DEF Stated, StateOf, HasState
<1> HIDE DEF i
<1>5. From(f, i) = h[u]
    BY <1>1, <1>2, <1>4 DEF From
<1> QED BY <1>2, <1>5 DEF i

LEMMA FromEmpty ==
    ASSUME nrs \in Nat, NEW m, ZeroRows(m, rows), NEW S \in Lists, nrs > 0 => Len(S) = 1,
           NEW last, NEW f, Found(m, S, last, f),
           NEW i \in f.lo .. f.hi, i \notin f.lo .. f.lo + Len(S) - 1, f.m.cells[i].seq = {}
    PROVE  From(f, i) = Zero
<1>1. i \in Idx /\ Plane(f.m, i) = 0
    BY OnePlane
<1>2. Blank(m, f, i)
    BY <1>1 DEF Found, EmptyFound
<1> QED BY <1>1, <1>2, BlankZero

\* The planes of the cells that the graph writes.
RowExtended(f, S, k, j, p) ==
    Computed(f, S, k)[p][f.lo + j - 1] = From(f, f.lo + j - 1) \o Tokens(S[j], k - p)

LEMMA ComputedNew ==
    ASSUME nrs \in Nat, NEW m, NEW S \in Lists, NEW last, NEW f, Found(m, S, last, f), NEW k \in Nat,
           NEW j \in 1 .. Len(S), NEW p \in 0 .. nrs, p < k
    PROVE  RowExtended(f, S, k, j, p)
<1> DEFINE i == f.lo + j - 1
<1>1. i \in f.lo .. f.lo + Len(S) - 1 /\ i \in Idx /\ i - f.lo + 1 = j
    <2>1. i \in f.lo .. f.lo + Len(S) - 1 /\ i \in Idx
      BY PlaceInRange
    <2>2. f.lo \in Nat /\ j \in Nat
      BY ListParts, Sizes DEF Found
    <2>3. i - f.lo + 1 = j
      BY <2>2
    <2> QED BY <2>1, <2>3
<1>2. ~(p >= k)
    OBVIOUS
<1> HIDE DEF i
<1>3. Computed(f, S, k)[p][i] = From(f, i) \o Tokens(S[i - f.lo + 1], k - p)
    BY <1>1, <1>2 DEF Computed, Tokens
<1>4. Computed(f, S, k)[p][i] = From(f, i) \o Tokens(S[j], k - p)
    BY <1>1, <1>3
<1> QED BY <1>4 DEF i, RowExtended

LEMMA ComputedMoved ==
    ASSUME nrs \in Nat, NEW S, NEW f, NEW k, NEW i \in Idx, i \in f.lo .. f.hi,
           i \notin f.lo .. f.lo + Len(S) - 1
    PROVE  Computed(f, S, k)[0][i] = From(f, i)
<1>1. 0 \in 0 .. nrs
    OBVIOUS
<1> QED BY <1>1 DEF Computed

LEMMA ComputedOut ==
    ASSUME nrs \in Nat, NEW m, NEW S \in Lists, NEW last, NEW f, Found(m, S, last, f), NEW k,
           NEW p \in 0 .. nrs, NEW i \in Idx, i \notin f.lo .. f.hi
    PROVE  Computed(f, S, k)[p][i] = rows[p][i]
<1>1. i # f.z
    <2>1. f.z \in {-1} \cup f.lo .. f.hi
      BY DEF Found
    <2> QED BY <2>1, Sizes
<1>2. i \notin f.lo .. f.lo + Len(S) - 1
    <2>1. f.lo \in Nat /\ f.hi \in Nat /\ Len(S) \in Nat /\ f.lo + Len(S) - 1 <= f.hi /\ i \in Nat
      BY ListParts, Sizes DEF Found
    <2> QED BY <2>1
<1> QED BY <1>1, <1>2 DEF Computed

\* The planes that stay selected: those of sequences whose cells are outside the range.
Selected(m, S, f, rs) ==
    /\ \A j \in 1 .. Len(S) : rs[S[j]] = 0
    /\ \A u \in SeqId : rs[u] = 0 \/ rs[u] = m.rs[u]
    /\ \A u \in SeqId : f.m.tail[u] \notin f.lo .. f.hi => rs[u] = m.rs[u]

LEMMA UsedUpRs ==
    ASSUME NEW m, NEW S \in Lists, NEW last, NEW f, Found(m, S, last, f),
           m.rs \in [SeqId -> 0 .. nrs]
    PROVE  Selected(m, S, f, UsedUp(f.m, f.lo .. f.hi))
<1> DEFINE R == f.lo .. f.hi
<1>1. f.m.rs = m.rs /\ Sound(f.m) /\ f.m \in Memories(nrs) /\ R \subseteq Idx
    <2>1. f.lo \in 0 .. NSeq - 1 /\ f.hi \in 0 .. NSeq - 1 /\ NSeq \in Nat
      BY Sizes DEF Found
    <2>2. R \subseteq 0 .. NSeq - 1
      BY <2>1
    <2> QED BY <2>2, Sizes DEF Found, Sound
<1>2. ASSUME NEW j \in 1 .. Len(S) PROVE UsedUp(f.m, R)[S[j]] = 0
    <2>1. f.m.cells[f.lo + j - 1].seq = {S[j]}
      BY DEF Found, FirstFound
    <2>2. f.lo + j - 1 \in R
      BY PlaceInRange
    <2>3. S[j] \in SeqId /\ S[j] \in Nat
      BY ListParts, Sizes
    <2>4. Min({S[j]}) = S[j] /\ {S[j]} # {}
      BY <2>3, MinOfOne
    <2>5. \E i \in R : f.m.cells[i].seq # {} /\ Min(f.m.cells[i].seq) = S[j]
      BY <2>1, <2>2, <2>4
    <2> QED BY <2>3, <2>5 DEF UsedUp
<1>3. ASSUME NEW u \in SeqId PROVE UsedUp(f.m, R)[u] = 0 \/ UsedUp(f.m, R)[u] = m.rs[u]
    BY <1>1 DEF UsedUp
<1>4. ASSUME NEW u \in SeqId, f.m.tail[u] \notin R PROVE UsedUp(f.m, R)[u] = m.rs[u]
    <2>1. ASSUME NEW i \in R, f.m.cells[i].seq # {}, Min(f.m.cells[i].seq) = u PROVE FALSE
      <3>1. i \in Idx /\ f.m.cells[i].seq \in SUBSET SeqId
        BY <1>1, MemoryParts
      <3>2. f.m.cells[i].seq \in SUBSET Nat
        BY <3>1, Sizes
      <3>3. Min(f.m.cells[i].seq) \in f.m.cells[i].seq
        BY <2>1, <3>2, MinExists
      <3>4. f.m.tail[u] = i
        BY <1>1, <2>1, <3>1, <3>3 DEF Sound, Linked
      <3> QED BY <1>4, <3>4
    <2> QED BY <1>1, <2>1 DEF UsedUp
<1> QED BY <1>2, <1>3, <1>4 DEF Selected

LEMMA NotListed ==
    ASSUME NEW S \in Lists, NEW u \in SeqId
    PROVE  u \in Range(S) => \E j \in 1 .. Len(S) : u = S[j]
BY ListParts

\* Sequences that share a cell after find_slot() are others that shared one before.
LEMMA FoundShared ==
    ASSUME NEW m, m \in Memories(nrs), NEW S, NEW last, NEW f, Found(m, S, last, f), NEW fr, SharedPlain(m, fr),
           NEW u \in SeqId, NEW v \in SeqId, u # v, f.m.tail[u] = f.m.tail[v], f.m.tail[u] \in Idx
    PROVE  u \notin Range(S) /\ m.rs[u] = 0 /\ fr[u] = 0
<1>1. u \notin Range(S) /\ m.tail[u] = m.tail[v]
    BY DEF Found, TogetherFound
<1>2. m.tail[u] \in Idx
    <2> SUFFICES ASSUME m.tail[u] \notin Idx PROVE FALSE
      OBVIOUS
    <2>1. f.m.tail[u] = -1
      BY <1>1 DEF Found, OthersFound
    <2> QED BY <2>1, Sizes
<1> QED BY <1>1, <1>2 DEF SharedPlain

\* A ubatch adds its tokens to the states of its sequences and moves those of others with their cells.
LEMMA DecodeState ==
    ASSUME AllDuties, TypeInv, StateInv, NEW S \in Ubatches[nrs], NEW k \in 1 .. MaxNew[nrs], Decode(S, k)
    PROVE  StateInv'
<1> DEFINE f == FindSlot(mem, S, Positions(S, k))
           last == Positions(S, k)
           R == f.lo .. f.hi
           y == Spent(f.m, R)
           r == Computed(f, S, k)
           v == Min({k - 1, nrs})
<1>1. /\ mem' = y /\ rows' = r /\ saved' = saved /\ Ready /\ Fits(S, k)
      /\ hist' = [s \in SeqId |-> IF s \in Range(S) THEN hist[s] \o Tokens(s, k) ELSE hist[s]]
      /\ fresh' = [s \in SeqId |-> IF s \in Range(S) THEN v ELSE fresh[s]]
    BY DEF Decode, Spent, Tokens
<1>2. f = FindSlot(mem, S, Positions(S, k))
    OBVIOUS
<1> HIDE DEF f
<1>3. /\ S \in Lists /\ k \in Nat /\ k > 0 /\ Found(mem, S, last, f) /\ InBounds(f.m)
      /\ \A j \in 1 .. Len(S) : last[S[j]] = Len(hist[S[j]]) + k - 1
    BY <1>1, <1>2, BatchFound
<1> HIDE DEF last, v
<1>4. Stated(mem, rows, hist, fresh) /\ SavedStated(saved)
    BY <1>1, ReadyState DEF StateInv
<1>5. ZeroRows(mem, rows) /\ SharedPlain(mem, fresh)
    BY <1>4 DEF Stated
<1>6. nrs \in Nat /\ mem.rs \in [SeqId -> 0 .. nrs] /\ (nrs > 0 => Len(S) = 1) /\ Range(S) \subseteq SeqId
    BY TypeParts, MemoryParts, UbatchList
<1>7. Sound(f.m) /\ f.m.rs = mem.rs /\ f.lo \in Nat
    BY <1>3, Sizes DEF Found
<1>8. y.cells = f.m.cells /\ y.tail = f.m.tail /\ y.rs = UsedUp(f.m, R)
    BY <1>3, <1>7, TypeParts, SpentSound
<1>9. /\ \A j \in 1 .. Len(S) : y.rs[S[j]] = 0
      /\ \A u \in SeqId : y.rs[u] = 0 \/ y.rs[u] = mem.rs[u]
      /\ \A u \in SeqId : f.m.tail[u] \notin R => y.rs[u] = mem.rs[u]
    <2>1. Selected(mem, S, f, UsedUp(f.m, R))
      BY <1>3, <1>6, UsedUpRs
    <2> QED BY <1>8, <2>1 DEF Selected
<1> HIDE DEF y
<1>10. \A u \in SeqId \ Range(S) : hist'[u] = hist[u] /\ fresh'[u] = fresh[u]
    BY <1>1
<1>11. v \in Nat /\ v <= k - 1 /\ v <= nrs
    <2>1. k - 1 \in Nat
      BY <1>3
    <2> QED BY <1>6, <2>1, MinOfTwo DEF v
<1>12. ZeroRows(y, r)
    <2> SUFFICES ASSUME NEW i \in Idx, f.m.cells[i].seq = {}, f.m.cells[i].src = i PROVE r[0][i] = Zero
      BY <1>8 DEF ZeroRows
    <2>1. i \notin f.lo .. f.lo + Len(S) - 1
      <3> SUFFICES ASSUME i \in f.lo .. f.lo + Len(S) - 1 PROVE FALSE
        OBVIOUS
      <3> DEFINE j == i - f.lo + 1
      <3>1. j \in 1 .. Len(S) /\ f.lo + j - 1 = i
        BY <1>3, <1>7, ListParts, Offset
      <3> HIDE DEF j
      <3>2. f.m.cells[f.lo + j - 1].seq = {S[j]}
        BY <1>3, <3>1 DEF Found, FirstFound
      <3> QED BY <3>1, <3>2
    <2>2. CASE i \in R
      <3>1. From(f, i) = Zero
        BY <1>3, <1>5, <1>6, <2>1, <2>2, FromEmpty
      <3>2. r[0][i] = From(f, i)
        BY <1>6, <2>1, <2>2, ComputedMoved
      <3> QED BY <3>1, <3>2
    <2>3. CASE i \notin R
      <3>1. Spare(mem, i) /\ mem.cells[i].src = i
        BY <1>3, <2>1, <2>3 DEF Found, EmptyFound
      <3>2. rows[0][i] = Zero
        BY <1>5, <3>1 DEF Spare, ZeroRows
      <3>3. 0 \in 0 .. nrs
        BY <1>6
      <3>4. r[0][i] = rows[0][i]
        BY <1>3, <1>6, <2>3, <3>3, ComputedOut
      <3> QED BY <3>2, <3>4
    <2> QED BY <2>2, <2>3
<1>13. SharedPlain(y, fresh')
    <2> SUFFICES ASSUME NEW s \in SeqId, NEW t \in SeqId, s # t, f.m.tail[s] = f.m.tail[t], f.m.tail[s] \in Idx
                 PROVE  y.rs[s] = 0 /\ fresh'[s] = 0
      BY <1>8 DEF SharedPlain
    <2>1. s \notin Range(S) /\ mem.rs[s] = 0 /\ fresh[s] = 0
      <3>1. mem \in Memories(nrs) /\ Found(mem, S, last, f) /\ SharedPlain(mem, fresh)
        BY <1>3, <1>5, TypeParts
      <3> QED BY <3>1, FoundShared
    <2> QED BY <1>9, <1>10, <2>1
<1>14. ASSUME NEW j \in 1 .. Len(S) PROVE StateOf(y, r, hist', fresh', S[j])
    <2> DEFINE s == S[j]
               i == f.lo + j - 1
    <2>1. s \in Range(S) /\ s \in SeqId /\ hist[s] \in Seq(SeqId) /\ Len(hist[s]) \in Nat
      BY <1>3, TypeParts, ListParts, LenProperties
    <2>2. hist'[s] = hist[s] \o Tokens(s, k) /\ fresh'[s] = v
      BY <1>1, <2>1
    <2>3. y.tail[s] = i /\ i \in Idx /\ y.cells[i].pos = last[s] /\ y.rs[s] = 0
      <3>1. f.m.tail[S[j]] = f.lo + j - 1 /\ f.m.cells[f.lo + j - 1].pos = last[S[j]]
        BY <1>3 DEF Found, FirstFound
      <3>2. f.lo + j - 1 \in Idx
        BY <1>3, PlaceInRange
      <3> QED BY <1>8, <1>9, <3>1, <3>2
    <2>4. From(f, i) = hist[s]
      BY <1>3, <1>4, FromNew
    <2>5. ASSUME NEW p \in 0 .. nrs, p < k
          PROVE  /\ r[p][i] = hist[s] \o Tokens(s, k - p)
                 /\ r[p][i] = SubSeq(hist'[s], 1, Len(hist'[s]) - p) /\ Len(hist'[s]) = Len(hist[s]) + k
      <3>1. r[p][i] = From(f, i) \o Tokens(s, k - p)
        <4>1. S \in Lists /\ k \in Nat /\ nrs \in Nat /\ Found(mem, S, last, f)
          BY <1>3, <1>6
        <4>2. RowExtended(f, S, k, j, p)
          BY <2>5, <4>1, ComputedNew
        <4> QED BY <4>2 DEF RowExtended
      <3>2. p \in 0 .. k
        BY <1>3, <1>6, <2>5
      <3>3. /\ Len(hist'[s]) = Len(hist[s]) + k
            /\ SubSeq(hist'[s], 1, Len(hist[s]) + k - p) = hist[s] \o Tokens(s, k - p)
        <4>1. hist[s] \in Seq(SeqId) /\ s \in SeqId /\ k \in Nat /\ p \in 0 .. k
          BY <1>3, <2>1, <3>2
        <4> HIDE DEF s
        <4>2. Added(hist[s], s, k, p)
          BY <4>1, SeqAdded
        <4> QED BY <2>2, <4>2 DEF Added
      <3> HIDE DEF s, i, r
      <3>4. Len(hist'[s]) - p = Len(hist[s]) + k - p
        BY <3>3
      <3>5. SubSeq(hist'[s], 1, Len(hist'[s]) - p) = hist[s] \o Tokens(s, k - p)
        BY <3>3, <3>4
      <3>6. r[p][i] = hist[s] \o Tokens(s, k - p)
        BY <2>4, <3>1
      <3> QED BY <3>3, <3>5, <3>6
    <2> HIDE DEF s, i, r
    <2>6. r[0][i] = hist'[s] /\ Len(hist'[s]) = Len(hist[s]) + k
      <3>1. 0 \in 0 .. nrs /\ 0 < k /\ k - 0 = k
        BY <1>3, <1>6
      <3> QED BY <2>2, <2>5, <3>1
    <2>7. ASSUME NEW p \in 1 .. fresh'[s]
          PROVE  r[p][i] = SubSeq(hist'[s], 1, Len(hist'[s]) - p)
      <3>1. p \in 0 .. nrs /\ p < k
        BY <1>3, <1>6, <1>11, <2>2
      <3> QED BY <2>5, <3>1
    <2>8. y.cells[i].pos = Len(hist'[s]) - 1 /\ fresh'[s] < Len(hist'[s])
      <3>1. last[s] = Len(hist[s]) + k - 1
        BY <1>3 DEF s
      <3> QED BY <1>3, <1>11, <2>1, <2>2, <2>3, <2>6, <3>1
    <2>9. HasState(y, r, hist', fresh', s)
      BY <2>3, <2>6, <2>7, <2>8 DEF HasState
    <2> QED BY <2>3, <2>9 DEF StateOf, s
<1>15. ASSUME NEW u \in SeqId \ Range(S), mem.tail[u] \in Idx PROVE StateOf(y, r, hist', fresh', u)
    <2> DEFINE i == f.m.tail[u]
    <2>1. HasState(mem, rows, hist, fresh, u)
      BY <1>4, <1>15 DEF Stated, StateOf
    <2>2. /\ i \in Idx /\ f.m.cells[i].pos = mem.cells[mem.tail[u]].pos
          /\ i \notin f.lo .. f.lo + Len(S) - 1
          /\ i \notin R => i = mem.tail[u]
      BY <1>3, <1>15 DEF Found, OthersFound
    <2>3. hist'[u] = hist[u] /\ fresh'[u] = fresh[u] /\ fresh[u] \in 0 .. nrs /\ y.tail[u] = i
      BY <1>8, <1>10, TypeParts
    <2>4. CASE i \in R
      <3>1. From(f, i) = hist[u] /\ nrs = 0
        BY <1>3, <1>4, <1>6, <1>15, <2>4, FromOther
      <3>2. r[0][i] = From(f, i)
        BY <1>6, <2>2, <2>4, ComputedMoved
      <3>3. y.rs[u] = 0 /\ fresh[u] = 0
        BY <1>6, <1>9, <2>3, <3>1
      <3>4. \A p \in 1 .. fresh'[u] : FALSE
        BY <2>3, <3>3
      <3> HIDE DEF i, r
      <3>5. HasState(y, r, hist', fresh', u)
        BY <1>8, <2>1, <2>2, <2>3, <3>1, <3>2, <3>3, <3>4 DEF HasState
      <3> QED BY <2>2, <2>3, <3>5 DEF StateOf
    <2>5. CASE i \notin R
      <3>1. i = mem.tail[u]
        BY <2>2, <2>5
      <3>2. \A p \in 0 .. nrs : r[p][i] = rows[p][i]
        <4>1. S \in Lists /\ nrs \in Nat /\ Found(mem, S, last, f) /\ i \in Idx /\ i \notin f.lo .. f.hi
          BY <1>3, <1>6, <2>2, <2>5
        <4> HIDE DEF i
        <4> QED BY <4>1, ComputedOut
      <3>3. y.rs[u] = mem.rs[u] /\ mem.rs[u] \in 0 .. nrs
        BY <1>6, <1>9, <2>5
      <3>4. \A p \in 1 .. fresh[u] : p \in 0 .. nrs
        BY <1>6, <2>3
      <3> HIDE DEF i, r
      <3>5. y.cells[i].pos = Len(hist[u]) - 1
        BY <1>8, <2>1, <2>2 DEF HasState
      <3>6. r[mem.rs[u]][i] = hist[u]
        BY <2>1, <3>1, <3>2, <3>3 DEF HasState
      <3>7. \A p \in 1 .. fresh[u] : r[p][i] = SubSeq(hist[u], 1, Len(hist[u]) - p)
        BY <2>1, <3>1, <3>2, <3>4 DEF HasState
      <3>8. (fresh[u] > 0 => mem.rs[u] = 0) /\ fresh[u] < Len(hist[u])
        BY <2>1 DEF HasState
      <3>9. HasState(y, r, hist', fresh', u)
        BY <2>3, <3>3, <3>5, <3>6, <3>7, <3>8 DEF HasState
      <3> QED BY <2>2, <2>3, <3>9 DEF StateOf
    <2> QED BY <2>4, <2>5
<1>16. ASSUME NEW u \in SeqId \ Range(S), mem.tail[u] \notin Idx PROVE StateOf(y, r, hist', fresh', u)
    <2>1. NoState(mem, hist, fresh, u)
      BY <1>4, <1>16 DEF Stated, StateOf
    <2>2. y.tail[u] \notin Idx
      <3>1. f.m.tail[u] = -1
        BY <1>3, <1>16 DEF Found, OthersFound
      <3> QED BY <1>8, <3>1, Sizes
    <2>3. y.rs[u] = 0
      BY <1>9, <2>1 DEF NoState
    <2>4. NoState(y, hist', fresh', u)
      BY <1>10, <2>1, <2>3 DEF NoState
    <2> QED BY <2>2, <2>4 DEF StateOf
<1> HIDE DEF r
<1>17. ASSUME NEW u \in SeqId PROVE StateOf(y, r, hist', fresh', u)
    <2>1. CASE u \in Range(S)
      <3>1. PICK j \in 1 .. Len(S) : u = S[j]
        BY <1>3, <2>1, NotListed
      <3> QED BY <1>14, <3>1
    <2>2. CASE u \notin Range(S)
      BY <1>15, <1>16, <2>2
    <2> QED BY <2>1, <2>2
<1> QED BY <1>1, <1>4, <1>12, <1>13, <1>17, StateNext DEF Stated

LEMMA DecodeFailsState ==
    ASSUME StateInv, NEW S, NEW k, NEW begun \in BOOLEAN, DecodeFails(S, k, begun)
    PROVE  StateInv'
<1>1. saved' = saved /\ intact' = FALSE
    BY DEF DecodeFails
<1> QED BY <1>1 DEF StateInv

\* A restored sequence has the row that was saved; the cells of the others stay where they are.
LEMMA ReadState ==
    ASSUME AllDuties, TypeInv, StateInv, NEW s \in SeqId, StateRead(s)
    PROVE  StateInv'
<1> DEFINE m == RemoveAll(mem, s)
           last == [u \in {s} |-> saved.pos]
           f == FindSlot(m, <<s>>, last)
           h == [hist EXCEPT ![s] = <<>>]
           r == [rows EXCEPT ![0][f.lo] = saved.row]
           S == <<s>>
           fr == [fresh EXCEPT ![s] = 0]
<1>1. /\ saved' = saved /\ Ready /\ mem' = (IF saved.pos < 0 THEN m ELSE f.m)
      /\ rows' = (IF saved.pos < 0 THEN rows ELSE r)
      /\ hist' = [hist EXCEPT ![s] = saved.hist] /\ fresh' = fr
    BY DEF StateRead
<1>2. /\ S \in Lists /\ Len(S) = 1 /\ S[1] = s /\ Range(S) = {s} /\ last[s] = saved.pos
      /\ Left(mem, m, s) /\ m.rs = [mem.rs EXCEPT ![s] = 0] /\ Found(m, S, last, f)
    BY RestoreFound
<1> HIDE DEF m, f, last, S
<1>3. Stated(mem, rows, hist, fresh) /\ SavedStated(saved)
    BY <1>1, ReadyState DEF StateInv
<1>4. Stated(m, rows, h, fr)
    BY <1>1, <1>2, <1>3, RemoveState
<1>5. /\ hist \in [SeqId -> Seq(SeqId)] /\ fresh \in [SeqId -> 0 .. nrs] /\ mem.rs \in [SeqId -> 0 .. nrs]
      /\ saved.pos \in -1 .. MaxLen[nrs] - 1 /\ saved.hist \in Seq(SeqId) /\ saved.row \in States
      /\ nrs \in Nat /\ rows \in [0 .. nrs -> [Idx -> States]] /\ MaxLen[nrs] \in Nat
    BY TypeParts, MemoryParts DEF RowsOf
<1>6. Len(saved.hist) \in Nat /\ saved.pos = Len(saved.hist) - 1 /\ (saved.pos >= 0 => saved.row = saved.hist)
    BY <1>3, <1>5, LenProperties DEF SavedStated
<1>7. CASE saved.pos < 0
    <2>1. Len(saved.hist) = 0
      BY <1>5, <1>6, <1>7
    <2>2. saved.hist = <<>>
      BY <1>5, <2>1, EmptySeq
    <2>3. mem' = m /\ rows' = rows /\ hist' = h
      BY <1>1, <1>7, <2>2
    <2> QED BY <1>1, <1>3, <1>4, <2>3, StateNext
<1>8. CASE ~(saved.pos < 0)
    <2>1. saved.pos >= 0 /\ saved.row = saved.hist
      BY <1>5, <1>6, <1>8
    <2>2. mem' = f.m /\ rows' = r
      BY <1>1, <1>8
    <2>3. f.lo \in Idx /\ f.hi = f.lo /\ f.m.rs = m.rs /\ Sound(m) /\ m \in Memories(nrs)
      BY <1>2 DEF Found, Left, Sound
    <2>4. f.lo \in Nat /\ \A i : i \in f.lo .. f.lo <=> i = f.lo
      BY <2>3, Sizes
    <2>5. f.lo + Len(S) - 1 = f.lo
      BY <1>2, <2>4
    <2>6. f.m.tail[s] = f.lo /\ f.m.cells[f.lo].pos = saved.pos /\ f.m.cells[f.lo].seq = {s}
      <3>1. 1 \in 1 .. Len(S) /\ f.lo + 1 - 1 = f.lo
        BY <1>2, <2>4
      <3>2. /\ f.m.tail[S[1]] = f.lo + 1 - 1 /\ f.m.cells[f.lo + 1 - 1].pos = last[S[1]]
            /\ f.m.cells[f.lo + 1 - 1].seq = {S[1]}
        BY <1>2, <3>1 DEF Found, FirstFound
      <3> QED BY <1>2, <3>1, <3>2
    <2>7. /\ r[0][f.lo] = saved.row
          /\ \A p \in 0 .. nrs, i \in Idx : i # f.lo => r[p][i] = rows[p][i]
      <3>1. 0 \in 0 .. nrs
        BY <1>5
      <3>2. r = [rows EXCEPT ![0] = [rows[0] EXCEPT ![f.lo] = saved.row]]
        OBVIOUS
      <3>3. rows[0] \in [Idx -> States]
        BY <1>5, <3>1
      <3>4. r[0] = [rows[0] EXCEPT ![f.lo] = saved.row]
        BY <1>5, <3>1, <3>2
      <3>5. \A p \in 0 .. nrs : p # 0 => r[p] = rows[p]
        BY <1>5, <3>2
      <3> HIDE DEF r
      <3> QED BY <2>3, <3>3, <3>4, <3>5
    <2>8. /\ m.rs[s] = 0 /\ hist'[s] = saved.hist /\ fr[s] = 0
          /\ \A u \in SeqId \ {s} : hist'[u] = h[u]
      BY <1>1, <1>2, <1>5
    <2>8a. fr \in [SeqId -> 0 .. nrs]
      <3>1. 0 \in 0 .. nrs
        BY <1>5
      <3> QED BY <1>5, <3>1
    <2> HIDE DEF r, h, fr
    <2>9. ZeroRows(f.m, r)
      <3> SUFFICES ASSUME NEW i \in Idx, f.m.cells[i].seq = {}, f.m.cells[i].src = i PROVE r[0][i] = Zero
        BY DEF ZeroRows
      <3>1. i # f.lo
        BY <2>6
      <3>2. i \notin f.lo .. f.lo + Len(S) - 1 /\ i \notin f.lo .. f.hi
        BY <2>3, <2>4, <2>5, <3>1
      <3>3. Spare(m, i) /\ m.cells[i].src = i
        BY <1>2, <3>2 DEF Found, EmptyFound
      <3>4. rows[0][i] = Zero
        BY <1>4, <3>3 DEF Stated, ZeroRows, Spare
      <3>5. 0 \in 0 .. nrs
        BY <1>5
      <3> QED BY <2>7, <3>1, <3>4, <3>5
    <2>10. SharedPlain(f.m, fr)
      <3>1. SharedPlain(m, fr)
        BY <1>4 DEF Stated
      <3> SUFFICES ASSUME NEW u \in SeqId, NEW v \in SeqId, u # v, f.m.tail[u] = f.m.tail[v], f.m.tail[u] \in Idx
                   PROVE  f.m.rs[u] = 0 /\ fr[u] = 0
        BY DEF SharedPlain
      <3>2. m.rs[u] = 0 /\ fr[u] = 0
        <4>1. m \in Memories(nrs) /\ Found(m, S, last, f)
          BY <1>2, <2>3
        <4> QED BY <3>1, <4>1, FoundShared
      <3> QED BY <2>3, <3>2
    <2>11. ASSUME NEW u \in SeqId PROVE StateOf(f.m, r, hist', fr, u)
      <3>1. CASE u = s
        <4>1. f.m.rs[s] = 0 /\ 0 < Len(saved.hist) /\ ~(fr[s] > 0) /\ \A p \in 1 .. fr[s] : FALSE
          BY <1>6, <2>1, <2>3, <2>8
        <4>2. HasState(f.m, r, hist', fr, s)
          BY <1>6, <2>1, <2>6, <2>7, <2>8, <4>1 DEF HasState
        <4> QED BY <2>3, <2>6, <3>1, <4>2 DEF StateOf
      <3>2. CASE u # s /\ m.tail[u] \in Idx
        <4>1. HasState(m, rows, h, fr, u)
          BY <1>4, <3>2 DEF Stated, StateOf
        <4>2. u \in SeqId \ Range(S)
          BY <1>2, <3>2
        <4>3. /\ f.m.tail[u] \in Idx /\ f.m.tail[u] \notin f.lo .. f.lo + Len(S) - 1
              /\ f.m.cells[f.m.tail[u]].pos = m.cells[m.tail[u]].pos
              /\ f.m.tail[u] \notin f.lo .. f.hi => f.m.tail[u] = m.tail[u]
          BY <1>2, <3>2, <4>2 DEF Found, OthersFound
        <4>4. f.m.tail[u] # f.lo /\ f.m.tail[u] = m.tail[u]
          BY <2>3, <2>4, <2>5, <4>3
        <4>5. m.rs[u] \in 0 .. nrs /\ fr[u] \in 0 .. nrs
          BY <2>3, <2>8a, MemoryParts
        <4>6. \A p \in 1 .. fr[u] : p \in 0 .. nrs
          BY <1>5, <4>5
        <4>7. \A p \in 0 .. nrs : r[p][m.tail[u]] = rows[p][m.tail[u]]
          BY <2>7, <3>2, <4>4
        <4>8. HasState(f.m, r, hist', fr, u)
          <5>1. f.m.rs[u] = m.rs[u] /\ hist'[u] = h[u]
            BY <2>3, <2>8, <3>2
          <5>2. r[m.rs[u]][m.tail[u]] = h[u]
            BY <4>1, <4>5, <4>7 DEF HasState
          <5>3. \A p \in 1 .. fr[u] : r[p][m.tail[u]] = SubSeq(h[u], 1, Len(h[u]) - p)
            BY <4>1, <4>6, <4>7 DEF HasState
          <5> QED BY <4>1, <4>3, <4>4, <5>1, <5>2, <5>3 DEF HasState
        <4> QED BY <4>3, <4>8 DEF StateOf
      <3>3. CASE u # s /\ m.tail[u] \notin Idx
        <4>1. NoState(m, h, fr, u)
          BY <1>4, <3>3 DEF Stated, StateOf
        <4>2. f.m.tail[u] = -1
          BY <1>2, <3>3 DEF Found, OthersFound
        <4>3. NoState(f.m, hist', fr, u)
          BY <2>3, <2>8, <3>3, <4>1 DEF NoState
        <4> QED BY <4>2, <4>3, Sizes DEF StateOf
      <3> QED BY <3>1, <3>2, <3>3
    <2> QED BY <1>1, <1>3, <2>2, <2>9, <2>10, <2>11, StateNext DEF Stated
<1> QED BY <1>7, <1>8

LEMMA StepState == ASSUME AllDuties, TypeInv, StateInv, [Next]_vars PROVE StateInv'
<1>1. ASSUME NEW data \in BOOLEAN, Clear(data) PROVE StateInv'
    BY <1>1, ClearState
<1>2. ASSUME NEW s \in Users[nrs], SeqRmAll(s) PROVE StateInv'
    BY <1>2, TypeParts, RmAllState
<1>3. ASSUME NEW s \in Users[nrs], SeqKeep(s) PROVE StateInv'
    BY <1>3, TypeParts, KeepState
<1>4. ASSUME NEW s \in Users[nrs], NEW p0 \in 1 .. MaxLen[nrs], SeqRmLast(s, p0) PROVE StateInv'
    <2>1. p0 \in Nat
      BY TypeParts
    <2> QED BY <1>4, <2>1, TypeParts, RmLastState
<1>5. ASSUME NEW s \in Users[nrs], NEW t \in Users[nrs], SeqCp(s, t) PROVE StateInv'
    BY <1>5, TypeParts, CpState
<1>6. ASSUME NEW s \in Savers[nrs], StateWrite(s) PROVE StateInv'
    BY <1>6, TypeParts, WriteState
<1>7. ASSUME NEW s \in Savers[nrs], StateRead(s) PROVE StateInv'
    BY <1>7, TypeParts, ReadState
<1>8. ASSUME NEW S \in Ubatches[nrs], NEW k \in 1 .. MaxNew[nrs], Decode(S, k) PROVE StateInv'
    BY <1>8, DecodeState
<1>9. ASSUME NEW S \in Ubatches[nrs], NEW k \in 1 .. MaxNew[nrs], NEW begun \in BOOLEAN,
             DecodeFails(S, k, begun)
      PROVE  StateInv'
    BY <1>9, DecodeFailsState
<1>10. CASE UNCHANGED vars
    <2>1. saved' = saved /\ intact' = intact /\ mem' = mem /\ rows' = rows /\ hist' = hist /\ fresh' = fresh
      BY <1>10 DEF vars
    <2> QED BY <2>1, StateNext DEF StateInv
<1> QED BY <1>1, <1>2, <1>3, <1>4, <1>5, <1>6, <1>7, <1>8, <1>9, <1>10 DEF Next

(* When callers heed all four duties, the state of each sequence is that of its own tokens, *)
(* until a computation fails: ubatches move cells and rows, use up planes and give freed    *)
(* rows to others, and no sequence goes on from a state that is not its own.                *)
THEOREM StatesAreHistory == AllDuties => (Spec => []StateIsHistory)
<1> SUFFICES ASSUME AllDuties PROVE Spec => []StateIsHistory
    OBVIOUS
<1>1. Init => TypeInv /\ StateInv
    BY InitType, InitState
<1>2. TypeInv /\ StateInv /\ [Next]_vars => TypeInv' /\ StateInv'
    BY StepType, StepState
<1>3. TypeInv /\ StateInv => StateIsHistory
    <2> SUFFICES ASSUME TypeInv, StateInv, intact PROVE RightStates
      BY DEF StateIsHistory
    <2> SUFFICES ASSUME NEW s \in SeqId
                 PROVE  IF mem.tail[s] < 0 THEN hist[s] = <<>>
                        ELSE mem.cells[mem.tail[s]].pos = Len(hist[s]) - 1 /\ Row(s) = hist[s]
      BY DEF RightStates
    <2>1. StateOf(mem, rows, hist, fresh, s)
      BY DEF StateInv, Stated
    <2>2. CASE mem.tail[s] \in Idx
      <3>1. HasState(mem, rows, hist, fresh, s) /\ ~(mem.tail[s] < 0)
        BY <2>1, <2>2, Sizes DEF StateOf
      <3>2. Row(s) = rows[mem.rs[s]][mem.tail[s]]
        BY <2>2, RowOfTail
      <3> QED BY <3>1, <3>2 DEF HasState
    <2>3. CASE mem.tail[s] \notin Idx
      <3>1. mem.tail[s] = -1
        BY <2>3, TypeParts, MemoryParts
      <3>2. hist[s] = <<>>
        BY <2>1, <2>3 DEF StateOf, NoState
      <3> QED BY <3>1, <3>2
    <2> QED BY <2>2, <2>3
<1> QED BY <1>1, <1>2, <1>3, PTL DEF Spec

=============================================================================
