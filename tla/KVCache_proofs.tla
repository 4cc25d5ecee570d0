--------------------------- MODULE KVCache_proofs ---------------------------
(***************************************************************************)
(* What the cells of a context hold and where the keys stand, for any      *)
(* number of streams, cells and sequences, any window and any batches, as  *)
(* long as callers are Careful.                                            *)
(*                                                                         *)
(* Between two batches every cell is Fine: the key that the pending copies *)
(* will bring is rotated for the position less the pending shift.  While   *)
(* prepare() places ubatches the cells say nothing of the data any more,   *)
(* so the invariant speaks of the cells as they were Before each placed    *)
(* ubatch: what the stack kept of those taken since then, and of the rest  *)
(* what the cells are now.  With all of them taken back this is Fine again *)
(* and the computation fills the cells one ubatch after the other, or      *)
(* leaves none of the failed one behind.  The bound on positions runs      *)
(* along: after k ubatches no position is more than k above those the      *)
(* batch began with.                                                       *)
(*                                                                         *)
(* The second half is that the cells implement SequenceMemory.             *)
(***************************************************************************)
EXTENDS KVCache, SequenceTheorems, FiniteSetTheorems, TLAPS

-----------------------------------------------------------------------------
(* Naturals: least and greatest elements, steps from 0 to n, recursion.    *)

\* A set of naturals that is not empty has a least element.
LEMMA MinExists ==
    ASSUME NEW S \in SUBSET Nat, S # {}
    PROVE  Min(S) \in S /\ \A x \in S : Min(S) <= x
<1> DEFINE R == {ss \in Nat \X Nat : ss[1] < ss[2]}
<1>1. IsWellFoundedOn(R, Nat)
    BY NatLessThanWellFounded DEF OpToRel
<1>2. PICK x \in S : \A y \in S : ~(<<y, x>> \in R)
    <2> HIDE DEF R
    <2> QED BY <1>1, WFMin
<1>3. ASSUME NEW y \in S PROVE x <= y
    <2>1. <<y, x>> \in Nat \X Nat /\ ~(<<y, x>> \in R)
      BY <1>2
    <2>2. ~(y < x)
      BY <2>1
    <2> QED BY <2>2
<1> QED BY <1>3 DEF Min

\* A set with 0 and with the successor of each of its elements below n has all of 0 .. n.
LEMMA Steps ==
    ASSUME NEW n \in Nat, NEW B, 0 \in B,
           \A k \in 1 .. n : k - 1 \in B => k \in B
    PROVE  \A k \in 0 .. n : k \in B
<1> DEFINE C == (0 .. n) \ B
<1> SUFFICES ASSUME C # {} PROVE FALSE
    OBVIOUS
<1>1. Min(C) \in C /\ \A x \in C : Min(C) <= x
    BY MinExists
<1> DEFINE k == Min(C)
<1>2. k \in 1 .. n /\ k - 1 \in 0 .. n /\ ~(k <= k - 1)
    BY <1>1
<1>3. k - 1 \in B
    BY <1>1, <1>2
<1> QED BY <1>1, <1>2, <1>3

\* f starts at a and goes on by the steps st.
Runs(f, X, n, a, st) ==
    f \in [0 .. n -> X] /\ f[0] = a /\ \A k \in 1 .. n : f[k] = st[k][f[k - 1]]

\* A function is defined on 0 .. n by its first value and its steps.
LEMMA RecursionExists ==
    ASSUME NEW X, NEW n \in Nat, NEW a \in X, NEW st,
           \A k \in 1 .. n, x \in X : st[k][x] \in X
    PROVE  \E f : Runs(f, X, n, a, st)
<1> DEFINE B == {m \in 0 .. n : \E f : Runs(f, X, m, a, st)}
<1>1. 0 \in B
    <2> DEFINE f == [k \in 0 .. 0 |-> a]
    <2>1. Runs(f, X, 0, a, st)
      BY DEF Runs
    <2> HIDE DEF f
    <2> QED BY <2>1
<1>2. ASSUME NEW m \in 1 .. n, m - 1 \in B PROVE m \in B
    <2>1. PICK f : Runs(f, X, m - 1, a, st)
      BY <1>2
    <2> DEFINE v == st[m][f[m - 1]]
               g == [k \in 0 .. m |-> IF k = m THEN v ELSE f[k]]
    <2>2. v \in X
      BY <2>1 DEF Runs
    <2>3. g \in [0 .. m -> X]
      BY <2>1, <2>2 DEF Runs
    <2>4. ASSUME NEW k \in 1 .. m PROVE g[k] = st[k][g[k - 1]]
      <3>1. CASE k = m
        BY <3>1, <2>1 DEF Runs
      <3>2. CASE k # m
        <4>1. k \in 1 .. m - 1 /\ k - 1 \in 0 .. m - 1 /\ k - 1 # m
          BY <3>2
        <4>2. g[k] = f[k] /\ g[k - 1] = f[k - 1]
          BY <4>1, <3>2
        <4>3. f[k] = st[k][f[k - 1]]
          BY <2>1, <4>1 DEF Runs
        <4> QED BY <4>2, <4>3
      <3> QED BY <3>1, <3>2
    <2>5. g[0] = a
      BY <2>1 DEF Runs
    <2>6. Runs(g, X, m, a, st)
      <3> HIDE DEF g
      <3> QED BY <2>3, <2>4, <2>5 DEF Runs
    <2> HIDE DEF g
    <2> QED BY <2>6
<1>3. \A m \in 1 .. n : m - 1 \in B => m \in B
    BY <1>2
<1>4. \A m \in 0 .. n : m \in B
    <2> HIDE DEF B
    <2> QED BY <1>1, <1>3, Steps
<1> QED BY <1>4

\* A set of naturals with a bound that is not empty has a greatest element.
LEMMA MaxExists ==
    ASSUME NEW b \in Nat, NEW S \in SUBSET (0 .. b), S # {}
    PROVE  Max(S) \in S /\ \A x \in S : Max(S) >= x
<1> DEFINE R == {x \in 0 .. b : b - x \in S}
<1>1. R \in SUBSET Nat /\ R # {}
    <2>1. PICK x \in S : TRUE
      OBVIOUS
    <2>2. b - x \in 0 .. b /\ b - (b - x) = x
      OBVIOUS
    <2> QED BY <2>1, <2>2
<1>2. PICK m \in R : \A x \in R : m <= x
    <2> HIDE DEF R
    <2> QED BY <1>1, MinExists
<1>3. b - m \in S
    BY <1>2
<1>4. ASSUME NEW x \in S PROVE b - m >= x
    <2>1. x \in 0 .. b /\ b - x \in 0 .. b /\ b - (b - x) = x
      OBVIOUS
    <2>2. b - x \in R
      BY <2>1
    <2>3. m <= b - x
      BY <1>2, <2>2
    <2> QED BY <1>2, <2>1, <2>3
<1> QED BY <1>3, <1>4 DEF Max

\* A function on 1 .. n is a sequence of length n.
LEMMA FunctionSeq ==
    ASSUME NEW S, NEW n \in Nat, NEW f \in [1 .. n -> S]
    PROVE  f \in Seq(S) /\ Len(f) = n
OBVIOUS

\* q has each element of I once.
Lists(q, I) == /\ q \in Seq(I)
               /\ \A i \in I : \E j \in 1 .. Len(q) : q[j] = i
               /\ \A j, l \in 1 .. Len(q) : q[j] = q[l] => j = l

\* One more element at the end.
LEMMA ListsAppend ==
    ASSUME NEW q, NEW I, Lists(q, I), NEW x, x \notin I
    PROVE  Lists(Append(q, x), I \cup {x})
<1> DEFINE g == Append(q, x)
           n == Len(q)
<1>1. q \in Seq(I \cup {x}) /\ q \in Seq(I) /\ n \in Nat
    BY DEF Lists
<1>2. g \in Seq(I \cup {x}) /\ Len(g) = n + 1 /\ g[n + 1] = x /\ \A j \in 1 .. n : g[j] = q[j] /\ q[j] \in I
    BY <1>1, AppendProperties
<1> HIDE DEF g
<1>3. ASSUME NEW i \in I \cup {x} PROVE \E j \in 1 .. Len(g) : g[j] = i
    <2>1. CASE i = x
      BY <1>1, <1>2, <2>1
    <2>2. CASE i \in I
      <3>1. PICK j \in 1 .. n : q[j] = i
        BY <2>2 DEF Lists
      <3>2. j \in 1 .. Len(g) /\ g[j] = i
        BY <1>1, <1>2, <3>1
      <3> QED BY <3>2
    <2> QED BY <2>1, <2>2
<1>4. ASSUME NEW j \in 1 .. Len(g), NEW l \in 1 .. Len(g), g[j] = g[l] PROVE j = l
    <2>1. \A k \in 1 .. Len(g) : k = n + 1 \/ k \in 1 .. n
      BY <1>1, <1>2
    <2>2. CASE j \in 1 .. n /\ l \in 1 .. n
      BY <1>2, <1>4, <2>2 DEF Lists
    <2>3. CASE j = n + 1 \/ l = n + 1
      BY <1>2, <1>4, <2>1, <2>3
    <2> QED BY <2>1, <2>2, <2>3
<1> QED BY <1>2, <1>3, <1>4 DEF Lists, g

\* Two lists, one after the other.
LEMMA ListsConcat ==
    ASSUME NEW p, NEW q, NEW I, NEW J, Lists(p, I), Lists(q, J), I \cap J = {}
    PROVE  Lists(p \o q, I \cup J)
<1> DEFINE g == p \o q
           m == Len(p)
           n == Len(q)
<1>1. p \in Seq(I \cup J) /\ q \in Seq(I \cup J) /\ p \in Seq(I) /\ q \in Seq(J) /\ m \in Nat /\ n \in Nat
    BY DEF Lists
<1>2. /\ g \in Seq(I \cup J) /\ Len(g) = m + n
      /\ \A k \in 1 .. m + n : g[k] = IF k <= m THEN p[k] ELSE q[k - m]
    BY <1>1, ConcatProperties
<1>3. \A k \in 1 .. m + n : /\ k <= m => k \in 1 .. m /\ g[k] = p[k] /\ p[k] \in I
                            /\ ~(k <= m) => k - m \in 1 .. n /\ g[k] = q[k - m] /\ q[k - m] \in J
    BY <1>1, <1>2
<1>4. \A k \in 1 .. m : k \in 1 .. m + n /\ g[k] = p[k]
    BY <1>1, <1>2
<1>5. \A k \in 1 .. n : m + k \in 1 .. m + n /\ g[m + k] = q[k]
    BY <1>1, <1>2
<1> HIDE DEF g
<1>6. ASSUME NEW i \in I \cup J PROVE \E j \in 1 .. Len(g) : g[j] = i
    <2>1. CASE i \in I
      <3>1. PICK j \in 1 .. m : p[j] = i
        BY <2>1 DEF Lists
      <3> QED BY <1>2, <1>4, <3>1
    <2>2. CASE i \in J
      <3>1. PICK j \in 1 .. n : q[j] = i
        BY <2>2 DEF Lists
      <3> QED BY <1>2, <1>5, <3>1
    <2> QED BY <2>1, <2>2
<1>7. ASSUME NEW j \in 1 .. m + n, NEW l \in 1 .. m + n, g[j] = g[l] PROVE j = l
    <2>1. CASE j <= m /\ l <= m
      BY <1>3, <1>7, <2>1 DEF Lists
    <2>2. CASE ~(j <= m) /\ ~(l <= m)
      <3>1. j - m \in 1 .. n /\ l - m \in 1 .. n /\ q[j - m] = q[l - m]
        BY <1>3, <1>7, <2>2
      <3>2. j - m = l - m
        BY <3>1 DEF Lists
      <3> QED BY <1>1, <3>2
    <2>3. CASE (j <= m) # (l <= m)
      BY <1>3, <1>7, <2>3
    <2> QED BY <2>1, <2>2, <2>3
<1> QED BY <1>2, <1>6, <1>7 DEF Lists, g

\* InOrder() has each of the cells once.
LEMMA OrderOfCells ==
    ASSUME NEW I \in SUBSET Idx
    PROVE  /\ InOrder(I) \in Seq(I) /\ Len(InOrder(I)) = Cardinality(I)
           /\ IsFiniteSet(I) /\ Lists(InOrder(I), I)
<1> DEFINE next(k, x) == IF k - 1 \in I THEN Append(x, k - 1) ELSE x
           Built(g) == g = [k \in 0 .. Size |-> IF k = 0 THEN <<>>
                                               ELSE IF k - 1 \in I THEN Append(g[k - 1], k - 1)
                                               ELSE g[k - 1]]
           first == CHOOSE g : Built(g)
           st == [k \in 1 .. Size |-> [x \in Seq(I) |-> next(k, x)]]
<1>1. Size \in Nat /\ <<>> \in Seq(I) /\ \A i \in I : i \in 0 .. Size - 1
    BY SizeAssumption DEF Idx
<1>2. InOrder(I) = first[Size]
    BY DEF InOrder
<1>3. \A k \in 1 .. Size, x \in Seq(I) : st[k][x] = next(k, x) /\ st[k][x] \in Seq(I)
    <2> SUFFICES ASSUME NEW k \in 1 .. Size, NEW x \in Seq(I) PROVE st[k][x] = next(k, x) /\ next(k, x) \in Seq(I)
      OBVIOUS
    <2>1. k - 1 \in I => Append(x, k - 1) \in Seq(I)
      BY AppendProperties
    <2> QED BY <2>1
<1> HIDE DEF st
<1>4. PICK f : Runs(f, Seq(I), Size, <<>>, st)
    <2>1. \A k \in 1 .. Size, x \in Seq(I) : st[k][x] \in Seq(I)
      BY <1>3
    <2> QED BY <1>1, <2>1, RecursionExists
<1>5. f \in [0 .. Size -> Seq(I)] /\ f[0] = <<>> /\ \A k \in 1 .. Size : f[k] = next(k, f[k - 1])
    <2>1. f \in [0 .. Size -> Seq(I)] /\ f[0] = <<>> /\ \A k \in 1 .. Size : f[k] = st[k][f[k - 1]]
      BY <1>4 DEF Runs
    <2>2. \A k \in 1 .. Size : k - 1 \in 0 .. Size
      BY <1>1
    <2> HIDE DEF next
    <2> QED BY <1>3, <2>1, <2>2
<1>6. Built(f)
    <2>1. \A k \in 0 .. Size : k # 0 => k \in 1 .. Size
      BY <1>1
    <2> QED BY <1>5, <2>1
<1>7. Built(first)
    <2> HIDE DEF Built
    <2> QED BY <1>6
<1> HIDE DEF first
<1>8. first[0] = <<>> /\ \A k \in 1 .. Size : first[k] = next(k, first[k - 1])
    <2>1. 0 \in 0 .. Size /\ \A k \in 1 .. Size : k \in 0 .. Size /\ k # 0
      BY <1>1
    <2> QED BY <1>7, <2>1
<1> DEFINE below(k) == {i \in I : i < k}
           B == {k \in 0 .. Size : /\ first[k] \in Seq(I) /\ IsFiniteSet(below(k))
                                   /\ Len(first[k]) = Cardinality(below(k)) /\ Lists(first[k], below(k))}
<1>9. 0 \in B
    <2>1. below(0) = {}
      BY <1>1
    <2>2. IsFiniteSet({}) /\ Cardinality({}) = 0
      BY FS_EmptySet
    <2>3. first[0] \in Seq(I) /\ Len(first[0]) = 0 /\ 0 \in 0 .. Size
      BY <1>1, <1>8
    <2>4. Lists(first[0], {})
      BY <1>8 DEF Lists
    <2> HIDE DEF below
    <2> QED BY <2>1, <2>2, <2>3, <2>4
<1>10. ASSUME NEW k \in 1 .. Size, k - 1 \in B PROVE k \in B
    <2>1. /\ first[k - 1] \in Seq(I) /\ IsFiniteSet(below(k - 1))
          /\ Len(first[k - 1]) = Cardinality(below(k - 1)) /\ k \in 0 .. Size
          /\ Lists(first[k - 1], below(k - 1))
      BY <1>1, <1>10
    <2>2. first[k] = next(k, first[k - 1])
      BY <1>8
    <2>3. CASE k - 1 \in I
      <3>1. below(k) = below(k - 1) \cup {k - 1} /\ k - 1 \notin below(k - 1)
        BY <1>1, <2>3
      <3>2. first[k] = Append(first[k - 1], k - 1)
        BY <2>2, <2>3
      <3> HIDE DEF below
      <3>3. IsFiniteSet(below(k)) /\ Cardinality(below(k)) = Cardinality(below(k - 1)) + 1
        BY <2>1, <3>1, FS_AddElement
      <3>4. first[k] \in Seq(I) /\ Len(first[k]) = Len(first[k - 1]) + 1
        BY <2>1, <2>3, <3>2, AppendProperties
      <3>5. Lists(first[k], below(k))
        BY <2>1, <3>1, <3>2, ListsAppend
      <3> QED BY <2>1, <3>3, <3>4, <3>5
    <2>4. CASE k - 1 \notin I
      <3>1. below(k) = below(k - 1)
        BY <1>1, <2>4
      <3>2. first[k] = first[k - 1]
        BY <2>2, <2>4
      <3> HIDE DEF below
      <3> QED BY <2>1, <3>1, <3>2
    <2> QED BY <2>3, <2>4
<1>11. \A k \in 0 .. Size : k \in B
    <2> HIDE DEF B
    <2> QED BY <1>1, <1>9, <1>10, Steps
<1>12. below(Size) = I /\ Size \in 0 .. Size
    <2>1. \A i \in I : i < Size
      BY <1>1
    <2> QED BY <1>1, <2>1
<1> HIDE DEF below
<1> QED BY <1>2, <1>11, <1>12

\* The search finds each usable cell once, wherever it starts.
LEMMA SearchFinds ==
    ASSUME NEW c, NEW st, NEW h \in 0 .. Size, NEW n
    PROVE  /\ Search(c, st, h, n) \in Seq(Idx)
           /\ Len(Search(c, st, h, n)) = Cardinality({i \in Idx : CanUse(c, st, i)})
           /\ Lists(Search(c, st, h, n), {i \in Idx : CanUse(c, st, i)})
<1> DEFINE from == IF h > Cardinality(Used(c, st)) + 2*n THEN 0 ELSE h
           up   == {i \in from .. Size - 1 : CanUse(c, st, i)}
           down == {i \in 0 .. from - 1 : CanUse(c, st, i)}
           all  == {i \in Idx : CanUse(c, st, i)}
<1>1. Search(c, st, h, n) = InOrder(up) \o InOrder(down)
    BY DEF Search
<1>2. from \in 0 .. Size /\ Size \in Nat
    BY SizeAssumption
<1> HIDE DEF from
<1>3. up \in SUBSET Idx /\ down \in SUBSET Idx /\ up \cup down = all /\ up \cap down = {}
    BY <1>2 DEF Idx
<1> HIDE DEF up, down, all
<1>4. /\ InOrder(up) \in Seq(up) /\ Len(InOrder(up)) = Cardinality(up) /\ IsFiniteSet(up)
      /\ InOrder(down) \in Seq(down) /\ Len(InOrder(down)) = Cardinality(down) /\ IsFiniteSet(down)
      /\ Lists(InOrder(up), up) /\ Lists(InOrder(down), down)
    BY <1>3, OrderOfCells
<1>5. Cardinality(all) = Cardinality(up) + Cardinality(down)
    <2> HIDE DEF from
    <2>1. Cardinality(up \cup down) = Cardinality(up) + Cardinality(down) - Cardinality(up \cap down)
      BY <1>4, FS_Union
    <2>2. Cardinality(up) \in Nat /\ Cardinality(down) \in Nat /\ Cardinality({}) = 0
      BY <1>4, FS_CardinalityType, FS_EmptySet
    <2>3. Cardinality(all) = Cardinality(up) + Cardinality(down) - 0
      BY <1>3, <2>1, <2>2
    <2> QED BY <2>2, <2>3
<1>6. InOrder(up) \in Seq(Idx) /\ InOrder(down) \in Seq(Idx)
    <2>1. \A S, T, q : S \subseteq T /\ q \in Seq(S) => q \in Seq(T)
      OBVIOUS
    <2> QED BY <1>3, <1>4, <2>1
<1>7. /\ InOrder(up) \o InOrder(down) \in Seq(Idx)
      /\ Len(InOrder(up) \o InOrder(down)) = Len(InOrder(up)) + Len(InOrder(down))
    BY <1>6, ConcatProperties
<1>8. Lists(InOrder(up) \o InOrder(down), all)
    BY <1>3, <1>4, ListsConcat
<1> QED BY <1>1, <1>4, <1>5, <1>7, <1>8 DEF all

-----------------------------------------------------------------------------
(* Cells.                                                                  *)

\* A cell of stream st, and one whose key is rotated for its position when d is its data.
Sound(c, st)   == c \in Cells /\ \A s \in c.seq : StreamOf(s) = st
Fine(c, st, d) == Sound(c, st) /\ (c.pos # Free => d.rot + c.shift = c.pos)

\* A cell has a position when it has a sequence, and is clean when it has none.
LEMMA CellShape ==
    ASSUME NEW c \in Cells
    PROVE  /\ c.pos \in -1 .. MaxPos /\ c.pos \in Int /\ c.seq \in SUBSET SeqId /\ c.shift \in Int
           /\ c.pos = Free => c = Empty /\ c.seq = {} /\ c.shift = 0
           /\ c.pos # Free => /\ c.pos \in 0 .. MaxPos /\ c.seq # {}
                              /\ c.shift \in -MaxPos .. MaxPos
                              /\ c = [pos |-> c.pos, seq |-> c.seq, shift |-> c.shift]
<1>1. CASE c = Empty
    BY <1>1, BoundAssumption DEF Empty, Free
<1>2. CASE c \in [pos : 0 .. MaxPos, seq : (SUBSET SeqId) \ {{}}, shift : -MaxPos .. MaxPos]
    BY <1>2, BoundAssumption DEF Free
<1> QED BY <1>1, <1>2 DEF Cells

\* A free cell is one, of any stream.
LEMMA EmptyFine ==
    /\ Empty \in Cells /\ Empty.pos = Free /\ Empty.seq = {} /\ Empty.shift = 0
    /\ \A st, d : Sound(Empty, st) /\ Fine(Empty, st, d)
BY DEF Empty, Cells, Sound, Fine, Free

\* A cell with a position, its sequences and a shift.
LEMMA NewCell ==
    ASSUME NEW p \in 0 .. MaxPos, NEW S \in SUBSET SeqId, S # {},
           NEW h \in -MaxPos .. MaxPos, NEW st, \A s \in S : StreamOf(s) = st
    PROVE  Sound([pos |-> p, seq |-> S, shift |-> h], st)
BY DEF Sound, Cells

\* Where sequences leave a cell, it becomes free or keeps its position and shift.
LEMMA LeaveKeeps ==
    ASSUME NEW c \in Cells, NEW ss
    PROVE  /\ Leave(c, ss) \in Cells
           /\ \/ Leave(c, ss) = Empty
              \/ /\ Leave(c, ss).pos = c.pos /\ Leave(c, ss).shift = c.shift
                 /\ Leave(c, ss).seq \subseteq c.seq /\ Leave(c, ss).seq \cap ss = {}
                 /\ c.pos # Free
<1>1. CASE c.seq \cap ss = {}
    <2>1. Leave(c, ss) = c
      BY <1>1 DEF Leave
    <2>2. c = Empty \/ c.pos # Free
      BY CellShape
    <2> QED BY <1>1, <2>1, <2>2
<1>2. CASE c.seq \cap ss # {} /\ c.seq \subseteq ss
    BY <1>2, EmptyFine DEF Leave
<1>3. CASE c.seq \cap ss # {} /\ ~(c.seq \subseteq ss)
    <2>1. c.pos # Free
      BY <1>3, CellShape
    <2>2. Leave(c, ss) = [pos |-> c.pos, seq |-> c.seq \ ss, shift |-> c.shift]
      <3>1. Leave(c, ss) = [c EXCEPT !.seq = @ \ ss]
        BY <1>3 DEF Leave
      <3>2. c = [pos |-> c.pos, seq |-> c.seq, shift |-> c.shift]
        BY <2>1, CellShape
      <3> QED BY <3>1, <3>2
    <2>3. c.seq \ ss \in SUBSET SeqId /\ c.seq \ ss # {}
      BY <1>3, CellShape
    <2>4. Leave(c, ss) \in Cells
      BY <2>1, <2>2, <2>3, CellShape DEF Cells
    <2> QED BY <2>1, <2>2, <2>4
<1> QED BY <1>1, <1>2, <1>3

\* A cell of the stream, with its key in place, stays so.
LEMMA LeaveFine ==
    ASSUME NEW c, NEW ss, NEW st, Sound(c, st)
    PROVE  /\ Sound(Leave(c, ss), st)
           /\ \A d : Fine(c, st, d) => Fine(Leave(c, ss), st, d)
<1> DEFINE l == Leave(c, ss)
<1>1. c \in Cells
    BY DEF Sound
<1>2. /\ l \in Cells
      /\ \/ l = Empty
         \/ l.pos = c.pos /\ l.shift = c.shift /\ l.seq \subseteq c.seq
    BY <1>1, LeaveKeeps
<1> HIDE DEF l
<1>3. l = Empty => Sound(l, st) /\ \A d : Fine(l, st, d)
    BY EmptyFine
<1>4. ASSUME l.pos = c.pos, l.shift = c.shift, l.seq \subseteq c.seq
      PROVE  Sound(l, st) /\ \A d : Fine(c, st, d) => Fine(l, st, d)
    BY <1>2, <1>4 DEF Sound, Fine
<1> QED BY <1>2, <1>3, <1>4 DEF l

\* The shift of a cell whose key is in place is in range.
LEMMA ShiftInRange ==
    ASSUME NEW p \in 0 .. MaxPos, NEW d \in Data, NEW h \in Int, d.rot + h = p
    PROVE  h \in -MaxPos .. MaxPos
<1>1. d.rot \in 0 .. MaxPos /\ MaxPos \in Nat
    BY BoundAssumption DEF Data
<1> QED BY <1>1

\* A freed cell may become the head, which stays in range.
LEMMA LowerInRange ==
    ASSUME NEW h \in 0 .. Size, NEW old, NEW new
    PROVE  Lower(h, old, new) \in 0 .. Size
<1> DEFINE freed == {i \in Idx : old[i].pos # Free /\ new[i].pos = Free}
<1>1. Size \in Nat /\ freed \in SUBSET Nat /\ \A i \in freed : i \in 0 .. Size
    BY SizeAssumption DEF Idx
<1>2. freed # {} => Min(freed) \in freed
    <2> HIDE DEF freed
    <2> QED BY <1>1, MinExists
<1> QED BY <1>1, <1>2 DEF Lower

\* The positions of a sequence and the greatest of them.
LEMMA GreatestPos ==
    ASSUME NEW c, NEW s \in SeqId, StreamOf(s) \in Stream, \A i \in Idx : c[StreamOf(s)][i] \in Cells
    PROVE  /\ SeqPosMax(c, s) \in -1 .. MaxPos
           /\ \A i \in Idx : s \in c[StreamOf(s)][i].seq => c[StreamOf(s)][i].pos <= SeqPosMax(c, s)
           /\ \A b \in Int : (\A i \in Idx : s \in c[StreamOf(s)][i].seq => c[StreamOf(s)][i].pos <= b)
                              => SeqPosMax(c, s) = -1 \/ SeqPosMax(c, s) <= b
<1> DEFINE P == PosOf(c, s)
           row == c[StreamOf(s)]
<1>1. P = {row[i].pos : i \in {j \in Idx : s \in row[j].seq}}
    BY DEF PosOf, CellsOf
<1>2. \A i \in Idx : s \in row[i].seq => row[i].pos \in 0 .. MaxPos
    <2> SUFFICES ASSUME NEW i \in Idx, s \in row[i].seq PROVE row[i].pos \in 0 .. MaxPos
      OBVIOUS
    <2>1. row[i] \in Cells
      OBVIOUS
    <2> HIDE DEF row
    <2> QED BY <2>1, CellShape
<1> HIDE DEF row, P
<1>3. P \in SUBSET (0 .. MaxPos) /\ MaxPos \in Nat
    BY <1>1, <1>2, BoundAssumption
<1>4. CASE P = {}
    <2>1. SeqPosMax(c, s) = -1
      BY <1>4 DEF SeqPosMax, P
    <2>2. \A i \in Idx : s \notin row[i].seq
      BY <1>1, <1>4
    <2> QED BY <1>3, <2>1, <2>2 DEF row
<1>5. CASE P # {}
    <2>1. SeqPosMax(c, s) = Max(P)
      BY <1>5 DEF SeqPosMax, P
    <2>2. Max(P) \in P /\ \A x \in P : Max(P) >= x
      BY <1>3, <1>5, MaxExists
    <2>3. PICK i \in Idx : s \in row[i].seq /\ row[i].pos = Max(P)
      BY <1>1, <2>2
    <2>4. \A j \in Idx : s \in row[j].seq => row[j].pos <= Max(P)
      BY <1>1, <1>2, <1>3, <2>2
    <2>5. Max(P) \in 0 .. MaxPos
      BY <1>3, <2>2
    <2> QED BY <1>3, <2>1, <2>3, <2>4, <2>5 DEF row
<1> QED BY <1>4, <1>5

-----------------------------------------------------------------------------
(* The inductive invariant.                                                *)

Entries(S) == [at : [S -> Idx], old : [S -> Cells], head : [Stream -> 0 .. Size]]

\* A stream has too few usable cells for its part of the ubatch that is refused.
RefusedFor(r, c) ==
    r.phase = "rollback" /\ ~r.ok /\ Len(r.stack) = r.k - 1 =>
      \E st \in Streams(r.S) :
        Cardinality({i \in Idx : CanUse(c, st, i)}) < Cardinality(InStream(r.S, st))

\* The fields of a batch.
IsBatch(r) == r = [phase |-> r.phase, S |-> r.S, tok |-> r.tok, n |-> r.n, k |-> r.k, ok |-> r.ok,
                   sinfo |-> r.sinfo, stack |-> r.stack]

\* The fields of batch r, how far it is placed, and that no copy is pending while it is
\* in progress; c has the cells, o the streams that data comes from.
RunFor(r, c, o) ==
    /\ IsBatch(r)
    /\ r.phase \in {"idle", "prepare", "rollback", "run"}
    /\ r.S \in SUBSET SeqId /\ r.n \in Nat /\ r.k \in Nat /\ r.ok \in BOOLEAN
    /\ r.sinfo \in Seq([r.S -> Idx]) /\ r.stack \in Seq(Entries(r.S))
    /\ r.phase = "idle" => r = Idle
    /\ r.phase # "idle" => /\ o = [st \in Stream |-> st]
                           /\ r.tok \in [r.S -> Tok] /\ r.n \in 1 .. MaxPos + 1
                           /\ Len(r.stack) <= r.k - 1
    /\ r.phase = "prepare" => /\ r.k \in 1 .. r.n + 1
                              /\ Len(r.stack) = r.k - 1 /\ Len(r.sinfo) = r.k - 1
    /\ r.phase = "rollback" => /\ r.k \in 1 .. r.n + 1 /\ Len(r.sinfo) = r.k - 1
                               /\ r.ok => r.k = r.n + 1
    /\ r.phase = "run" => r.k \in 1 .. r.n /\ Len(r.sinfo) = r.n /\ r.stack = <<>>
    /\ RefusedFor(r, c)
RunOK == RunFor(run, kv, origin)

\* The ubatches of the stack q, after the first k, that are placed in cell i of stream st,
\* and the cell as it was before them; c has the cells as they are.
Hits(at, st, i)        == Placed(at, st, i) # {}
Later(q, k, st, i)     == {j \in k + 1 .. Len(q) : Hits(q[j].at, st, i)}
Undone(e, st, i)       == e.old[Min(Placed(e.at, st, i))]
Before(q, c, k, st, i) == IF Later(q, k, st, i) = {} THEN c[st][i]
                          ELSE Undone(q[Min(Later(q, k, st, i))], st, i)

\* Whether one of the first k is placed in it, which then has no data so far.
Tried(q, k, st, i) == \E j \in 1 .. k : Hits(q[j].at, st, i)

\* What is true of cell c of stream st, with data d, when k ubatches of batch r are placed.
Ahead(r, k) == IF r.phase = "run" THEN r.k - 1 ELSE k
CellOK(c, st, i, d, r, k) ==
    /\ Sound(c, st)
    /\ ~Tried(r.stack, k, st, i) => Fine(c, st, d)
    /\ r.phase # "idle" => /\ c.shift = 0
                           /\ \A s \in c.seq \cap r.S : c.pos <= (MaxPos - r.n) + Ahead(r, k)
CellsFor(r, c, d, o) == \A k \in 0 .. Len(r.stack), st \in Stream, i \in Idx :
                          CellOK(Before(r.stack, c, k, st, i), st, i, d[o[st]][i], r, k)
CellsOK == CellsFor(run, kv, data, origin)

\* The states that callers hold have their keys in place.
SavedCell == [pos : 0 .. MaxPos, seq : (SUBSET SeqId) \ {{}}, tok : Tok \cup {"none"}, rot : 0 .. MaxPos]
Rotation(q) == \A j \in 1 .. Len(q) : q[j].rot = q[j].pos
SavedOK ==
    /\ snap \in Seq(SavedCell) /\ Rotation(snap)
    /\ whole \in [Stream -> Seq(SavedCell)]
    /\ \A st \in Stream : /\ Rotation(whole[st])
                          /\ \A j \in 1 .. Len(whole[st]) : \A s \in whole[st][j].seq : StreamOf(s) = st

MemOK ==
    /\ unified \in Layouts
    /\ kv \in [Stream -> [Idx -> Cells]] /\ head \in [Stream -> 0 .. Size]
    /\ data \in [Stream -> [Idx -> Data]] /\ origin \in [Stream -> Stream]

Inv == MemOK /\ RunOK /\ CellsOK /\ SavedOK

-----------------------------------------------------------------------------
(* Between two batches.                                                    *)

\* No sequence changes its stream.
LEMMA StateAfter ==
    ASSUME UNCHANGED unified
    PROVE  /\ CellsOK' <=> CellsFor(run', kv', data', origin')
           /\ RunOK' <=> RunFor(run', kv', origin')
<1>1. CellsOK' <=> CellsFor(run', kv', data', origin')
    BY DEF CellsOK, CellsFor, CellOK, Before, Undone, Later, Tried, Hits, Placed, Sound, Fine, Ahead, StreamOf
<1>2. RunOK' <=> RunFor(run', kv', origin')
    BY DEF RunOK, RunFor, RefusedFor, Streams, InStream, CanUse, SeqPosMax, PosOf, CellsOf, StreamOf
<1> QED BY <1>1, <1>2

\* Between two batches nothing is on trial.
LEMMA IdleCells ==
    ASSUME NEW c, NEW d, NEW o
    PROVE  CellsFor(Idle, c, d, o) <=> \A st \in Stream, i \in Idx : Fine(c[st][i], st, d[o[st]][i])
<1>1. Idle.phase = "idle" /\ Len(Idle.stack) = 0 /\ 0 .. Len(Idle.stack) = {0}
    BY DEF Idle
<1>2. \A st, i : Before(Idle.stack, c, 0, st, i) = c[st][i] /\ ~Tried(Idle.stack, 0, st, i)
    BY <1>1 DEF Before, Later, Tried
<1>3. \A st \in Stream, i \in Idx :
        CellOK(c[st][i], st, i, d[o[st]][i], Idle, 0) <=> Fine(c[st][i], st, d[o[st]][i])
    BY <1>1, <1>2 DEF CellOK, Fine
<1>4. CellsFor(Idle, c, d, o) <=>
        \A st \in Stream, i \in Idx : CellOK(c[st][i], st, i, d[o[st]][i], Idle, 0)
    BY <1>1, <1>2 DEF CellsFor
<1> QED BY <1>3, <1>4

\* The batch that is not there.
LEMMA IdleRun ==
    ASSUME NEW c, NEW o
    PROVE  RunFor(Idle, c, o)
<1>1. <<>> \in Seq([{} -> Idx]) /\ \A X : <<>> \in Seq(X)
    OBVIOUS
<1>2. Idle = [phase |-> "idle", S |-> {}, tok |-> <<>>, n |-> 0, k |-> 1, ok |-> TRUE,
              sinfo |-> <<>>, stack |-> <<>>]
    BY DEF Idle
<1> QED BY <1>1, <1>2 DEF RunFor, RefusedFor, IsBatch

\* What a call between two batches has to keep.
LEMMA IdleStep ==
    ASSUME Inv, run = Idle, UNCHANGED <<unified, run>>, SavedOK',
           NEW c, kv' = c, c \in [Stream -> [Idx -> Cells]],
           head' \in [Stream -> 0 .. Size], data' \in [Stream -> [Idx -> Data]],
           origin' \in [Stream -> Stream],
           \A st \in Stream, i \in Idx : Fine(c[st][i], st, data'[origin'[st]][i])
    PROVE  Inv'
<1>1. MemOK'
    BY DEF Inv, MemOK
<1>2. run' = Idle /\ RunFor(run', kv', origin')
    BY IdleRun
<1>3. CellsFor(run', kv', data', origin')
    BY <1>2, IdleCells
<1> QED BY <1>1, <1>2, <1>3, StateAfter DEF Inv

\* Saved states do not change when cells do.
LEMMA SavedKept ==
    ASSUME SavedOK, UNCHANGED <<unified, snap, whole>>
    PROVE  SavedOK'
BY DEF SavedOK, StreamOf

\* The parts of the invariant that calls between two batches need.
LEMMA IdleParts ==
    ASSUME Inv, run = Idle
    PROVE  /\ kv \in [Stream -> [Idx -> Cells]] /\ head \in [Stream -> 0 .. Size]
           /\ data \in [Stream -> [Idx -> Data]] /\ origin \in [Stream -> Stream]
           /\ \A st \in Stream, i \in Idx : Fine(kv[st][i], st, data[origin[st]][i])
           /\ SavedOK /\ Size \in Nat /\ Stream = SeqId
BY IdleCells, SizeAssumption DEF Inv, MemOK, CellsOK, Stream

\* The stream of a sequence.
LEMMA StreamType ==
    /\ \A s \in SeqId : StreamOf(s) \in Stream
    /\ ~unified => \A s : StreamOf(s) = s
    /\ Stream = SeqId
BY SizeAssumption DEF StreamOf, Stream, SeqId

\* The cells of one stream change, the data does not.
LEMMA RowStep ==
    ASSUME Inv, run = Idle, NEW st \in Stream, NEW row \in [Idx -> Cells],
           \A i \in Idx : Fine(row[i], st, data[origin[st]][i]),
           kv' = [kv EXCEPT ![st] = row], head' \in [Stream -> 0 .. Size],
           UNCHANGED <<unified, data, origin, run, snap, whole>>
    PROVE  Inv'
<1>1. /\ kv \in [Stream -> [Idx -> Cells]] /\ data \in [Stream -> [Idx -> Data]]
      /\ origin \in [Stream -> Stream]
      /\ \A t \in Stream, i \in Idx : Fine(kv[t][i], t, data[origin[t]][i])
      /\ SavedOK /\ SavedOK'
    BY IdleParts, SavedKept
<1> DEFINE c == [kv EXCEPT ![st] = row]
<1>2. c \in [Stream -> [Idx -> Cells]] /\ kv' = c
    BY <1>1
<1>3. \A t \in Stream, i \in Idx : Fine(c[t][i], t, data'[origin'[t]][i])
    BY <1>1
<1> HIDE DEF c
<1> QED BY <1>1, <1>2, <1>3, IdleStep

\* ... and the head follows.
LEMMA ChangeStep ==
    ASSUME Inv, run = Idle, NEW st \in Stream, NEW row \in [Idx -> Cells],
           \A i \in Idx : Fine(row[i], st, data[origin[st]][i]),
           Change(st, row), UNCHANGED <<unified, data, origin, run, snap, whole>>
    PROVE  Inv'
<1>1. head \in [Stream -> 0 .. Size]
    BY IdleParts
<1>2. Lower(head[st], kv[st], row) \in 0 .. Size
    BY <1>1, LowerInRange
<1>3. head' \in [Stream -> 0 .. Size] /\ kv' = [kv EXCEPT ![st] = row]
    BY <1>1, <1>2 DEF Change
<1> QED BY <1>3, RowStep

\* clear()
LEMMA ClearStep ==
    ASSUME Inv, Clear
    PROVE  Inv'
<1>1. run = Idle /\ UNCHANGED <<unified, run>> /\ SavedOK' /\ origin' \in [Stream -> Stream]
    BY IdleParts, SavedKept DEF Clear
<1>2. Blank \in Data /\ 0 \in 0 .. Size
    BY SizeAssumption, BoundAssumption DEF Blank, Data
<1> DEFINE c == [st \in Stream |-> [i \in Idx |-> Empty]]
<1>3. kv' = c /\ c \in [Stream -> [Idx -> Cells]] /\ head' \in [Stream -> 0 .. Size]
      /\ data' \in [Stream -> [Idx -> Data]]
    BY <1>2, EmptyFine DEF Clear
<1>4. \A st \in Stream, i \in Idx : Fine(c[st][i], st, data'[origin'[st]][i])
    BY EmptyFine
<1> HIDE DEF c
<1> QED BY <1>1, <1>3, <1>4, IdleStep

\* A row from which a sequence is removed.
LEMMA RowWithout ==
    ASSUME NEW row \in [Idx -> Cells], NEW s, NEW p0, NEW p1
    PROVE  /\ SeqRmCells(row, s, p0, p1) \in [Idx -> Cells]
           /\ \A st, d : \A i \in Idx : Fine(row[i], st, d) => Fine(SeqRmCells(row, s, p0, p1)[i], st, d)
<1> DEFINE r == SeqRmCells(row, s, p0, p1)
<1>1. r = [i \in Idx |-> IF PosIn(row[i], p0, p1) THEN Leave(row[i], {s}) ELSE row[i]]
    BY DEF SeqRmCells
<1>2. \A i \in Idx : Leave(row[i], {s}) \in Cells
    BY LeaveKeeps
<1>3. \A st, d : \A i \in Idx : Fine(row[i], st, d) => Fine(Leave(row[i], {s}), st, d)
    BY LeaveFine DEF Fine
<1> HIDE DEF r
<1> QED BY <1>1, <1>2, <1>3 DEF r

\* seq_rm() of one sequence.
LEMMA SeqRmStep ==
    ASSUME Inv, NEW s \in SeqId, NEW p0, NEW p1, SeqRm(s, p0, p1)
    PROVE  Inv'
<1> DEFINE st == StreamOf(s)
           row == SeqRmCells(kv[st], s, p0, p1)
<1>1. /\ run = Idle /\ Change(st, row)
      /\ UNCHANGED <<unified, data, origin, run, snap, whole>>
    BY DEF SeqRm
<1>2. st \in Stream
    BY StreamType
<1> HIDE DEF st
<1>3. kv[st] \in [Idx -> Cells] /\ \A i \in Idx : Fine(kv[st][i], st, data[origin[st]][i])
    BY <1>1, <1>2, IdleParts
<1>4. row \in [Idx -> Cells] /\ \A i \in Idx : Fine(row[i], st, data[origin[st]][i])
    BY <1>3, RowWithout
<1> HIDE DEF row
<1> QED BY <1>1, <1>2, <1>4, ChangeStep

\* seq_rm() of all sequences.
LEMMA SeqRmAnyStep ==
    ASSUME Inv, NEW p0, NEW p1, SeqRmAny(p0, p1)
    PROVE  Inv'
<1> DEFINE row(st) == [i \in Idx |-> IF PosIn(kv[st][i], p0, p1) THEN Empty ELSE kv[st][i]]
           c == [st \in Stream |-> row(st)]
<1>1. /\ run = Idle /\ kv' = c /\ UNCHANGED <<unified, data, origin, run, snap, whole>>
      /\ head' = [st \in Stream |-> Lower(head[st], kv[st], row(st))]
    BY DEF SeqRmAny
<1>2. /\ kv \in [Stream -> [Idx -> Cells]] /\ head \in [Stream -> 0 .. Size]
      /\ data \in [Stream -> [Idx -> Data]] /\ origin \in [Stream -> Stream]
      /\ \A st \in Stream, i \in Idx : Fine(kv[st][i], st, data[origin[st]][i])
      /\ SavedOK'
    BY <1>1, IdleParts, SavedKept
<1>3. \A st \in Stream, i \in Idx : row(st)[i] = Empty \/ row(st)[i] = kv[st][i]
    OBVIOUS
<1>4. c \in [Stream -> [Idx -> Cells]]
    BY <1>2, EmptyFine
<1>5. \A st \in Stream, i \in Idx : Fine(c[st][i], st, data'[origin'[st]][i])
    BY <1>1, <1>2, <1>3, EmptyFine
<1> HIDE DEF row
<1>6. head' \in [Stream -> 0 .. Size]
    BY <1>1, <1>2, LowerInRange
<1> HIDE DEF c
<1> QED BY <1>1, <1>2, <1>4, <1>5, <1>6, IdleStep

\* seq_cp() within a stream: another sequence holds the same cells.
LEMMA SeqCpSharedStep ==
    ASSUME Inv, NEW s \in SeqId, NEW t \in SeqId, NEW p0, NEW p1, SeqCpShared(s, t, p0, p1)
    PROVE  Inv'
<1> DEFINE st == StreamOf(s)
           old == kv[st]
           hit(i) == s \in old[i].seq /\ PosIn(old[i], p0, p1)
           new(i) == [old[i] EXCEPT !.seq = @ \cup {t}]
           row == [i \in Idx |-> IF hit(i) THEN new(i) ELSE old[i]]
<1>1. /\ run = Idle /\ UNCHANGED <<unified, head, data, origin, run, snap, whole>>
      /\ StreamOf(t) = st
    BY DEF SeqCpShared
<1>2. st \in Stream
    BY StreamType
<1>3. /\ kv \in [Stream -> [Idx -> Cells]] /\ head' \in [Stream -> 0 .. Size]
      /\ old \in [Idx -> Cells] /\ \A i \in Idx : Fine(old[i], st, data[origin[st]][i])
    BY <1>1, <1>2, IdleParts
<1>4. kv' = [kv EXCEPT ![st] = row]
    BY DEF SeqCpShared
<1> HIDE DEF st, old
<1>5. ASSUME NEW i \in Idx, hit(i) PROVE new(i) \in Cells /\ Fine(new(i), st, data[origin[st]][i])
    <2> DEFINE c == old[i]
               S == c.seq \cup {t}
    <2>1. c \in Cells /\ s \in c.seq /\ Fine(c, st, data[origin[st]][i])
      BY <1>3, <1>5
    <2>2. /\ c.pos # Free /\ c.pos \in 0 .. MaxPos /\ c.seq \in SUBSET SeqId
          /\ c.shift \in -MaxPos .. MaxPos
          /\ c = [pos |-> c.pos, seq |-> c.seq, shift |-> c.shift]
      <3> HIDE DEF c
      <3> QED BY <2>1, CellShape
    <2>3. new(i) = [pos |-> c.pos, seq |-> S, shift |-> c.shift]
      <3>1. new(i) = [c EXCEPT !.seq = @ \cup {t}]
        OBVIOUS
      <3> HIDE DEF c, new
      <3> QED BY <2>2, <3>1
    <2>4. S \in SUBSET SeqId /\ S # {} /\ \A q \in S : StreamOf(q) = st
      BY <1>1, <2>1, <2>2 DEF Fine, Sound
    <2> HIDE DEF c, S, new
    <2>5. Sound(new(i), st)
      BY <2>2, <2>3, <2>4, NewCell
    <2>6. new(i).pos = c.pos /\ new(i).shift = c.shift
      BY <2>3
    <2> QED BY <2>1, <2>5, <2>6 DEF Fine, Sound
<1>6. \A i \in Idx : row[i] \in Cells /\ Fine(row[i], st, data[origin[st]][i])
    <2> HIDE DEF hit, new
    <2> QED BY <1>3, <1>5
<1>7. row \in [Idx -> Cells]
    <2> HIDE DEF hit, new
    <2>1. row = [i \in Idx |-> row[i]]
      OBVIOUS
    <2> HIDE DEF row
    <2> QED BY <1>6, <2>1
<1> HIDE DEF row
<1> QED BY <1>1, <1>2, <1>3, <1>4, <1>6, <1>7, RowStep

\* seq_cp() to another stream: its cells now, its data later.
LEMMA SeqCpStreamStep ==
    ASSUME Inv, NEW s \in SeqId, NEW t \in SeqId, SeqCpStream(s, t)
    PROVE  Inv'
<1> DEFINE new(i) == [kv[s][i] EXCEPT !.seq = {t}]
           row == [i \in Idx |-> IF s \in kv[s][i].seq THEN new(i) ELSE Empty]
           c == [kv EXCEPT ![t] = row]
<1>1. /\ run = Idle /\ UNCHANGED <<unified, data, run, snap, whole>>
      /\ ~unified /\ head' = [head EXCEPT ![t] = head[s]] /\ origin' = [origin EXCEPT ![t] = origin[s]]
    BY DEF SeqCpStream, StreamOf
<1>2. /\ kv \in [Stream -> [Idx -> Cells]] /\ head \in [Stream -> 0 .. Size]
      /\ data \in [Stream -> [Idx -> Data]] /\ origin \in [Stream -> Stream]
      /\ \A u \in Stream, i \in Idx : Fine(kv[u][i], u, data[origin[u]][i])
      /\ SavedOK' /\ s \in Stream /\ t \in Stream /\ StreamOf(t) = t
    BY <1>1, IdleParts, SavedKept, StreamType
<1>3. kv' = c
    BY <1>2 DEF SeqCpStream
<1>4. ASSUME NEW i \in Idx, s \in kv[s][i].seq
      PROVE  new(i) \in Cells /\ Fine(new(i), t, data[origin[s]][i])
    <2> DEFINE b == kv[s][i]
    <2>1. b \in Cells /\ s \in b.seq /\ Fine(b, s, data[origin[s]][i])
      BY <1>2, <1>4
    <2>2. /\ b.pos # Free /\ b.pos \in 0 .. MaxPos /\ b.shift \in -MaxPos .. MaxPos
          /\ b = [pos |-> b.pos, seq |-> b.seq, shift |-> b.shift]
      <3> HIDE DEF b
      <3> QED BY <2>1, CellShape
    <2>3. new(i) = [pos |-> b.pos, seq |-> {t}, shift |-> b.shift]
      <3>1. new(i) = [b EXCEPT !.seq = {t}]
        OBVIOUS
      <3> HIDE DEF b, new
      <3> QED BY <2>2, <3>1
    <2>4. {t} \in SUBSET SeqId /\ {t} # {} /\ \A q \in {t} : StreamOf(q) = t
      BY <1>2
    <2> HIDE DEF b, new
    <2>5. Sound(new(i), t)
      BY <2>2, <2>3, <2>4, NewCell
    <2>6. new(i).pos = b.pos /\ new(i).shift = b.shift
      BY <2>3
    <2> QED BY <2>1, <2>5, <2>6 DEF Fine, Sound
<1>5. \A i \in Idx : row[i] \in Cells /\ Fine(row[i], t, data[origin[s]][i])
    <2> HIDE DEF new
    <2> QED BY <1>4, EmptyFine
<1>6. c \in [Stream -> [Idx -> Cells]] /\ head' \in [Stream -> 0 .. Size] /\ origin' \in [Stream -> Stream]
    <2>1. row = [i \in Idx |-> row[i]]
      OBVIOUS
    <2> HIDE DEF row
    <2> QED BY <1>1, <1>2, <1>5, <2>1
<1>7. \A u \in Stream, i \in Idx : Fine(c[u][i], u, data'[origin'[u]][i])
    <2> HIDE DEF row
    <2> QED BY <1>1, <1>2, <1>5
<1> HIDE DEF c
<1> QED BY <1>1, <1>2, <1>3, <1>6, <1>7, IdleStep

\* seq_keep()
LEMMA SeqKeepStep ==
    ASSUME Inv, NEW s \in SeqId, SeqKeep(s)
    PROVE  Inv'
<1> DEFINE st == StreamOf(s)
           old == kv[st]
           new(i) == [old[i] EXCEPT !.seq = {s}]
           row == [i \in Idx |-> IF s \in old[i].seq THEN new(i) ELSE Empty]
<1>1. /\ run = Idle /\ UNCHANGED <<unified, data, origin, run, snap, whole>>
      /\ Change(st, row)
    BY DEF SeqKeep
<1>2. st \in Stream
    BY StreamType
<1>3. old \in [Idx -> Cells] /\ \A i \in Idx : Fine(old[i], st, data[origin[st]][i])
    BY <1>1, <1>2, IdleParts
<1>4. \A q \in {s} : StreamOf(q) = st
    OBVIOUS
<1> HIDE DEF st, old
<1>5. ASSUME NEW i \in Idx, s \in old[i].seq PROVE new(i) \in Cells /\ Fine(new(i), st, data[origin[st]][i])
    <2> DEFINE b == old[i]
    <2>1. b \in Cells /\ s \in b.seq /\ Fine(b, st, data[origin[st]][i])
      BY <1>3, <1>5
    <2>2. /\ b.pos # Free /\ b.pos \in 0 .. MaxPos /\ b.shift \in -MaxPos .. MaxPos
          /\ b = [pos |-> b.pos, seq |-> b.seq, shift |-> b.shift]
      <3> HIDE DEF b
      <3> QED BY <2>1, CellShape
    <2>3. new(i) = [pos |-> b.pos, seq |-> {s}, shift |-> b.shift]
      <3>1. new(i) = [b EXCEPT !.seq = {s}]
        OBVIOUS
      <3> HIDE DEF b, new
      <3> QED BY <2>2, <3>1
    <2>4. {s} \in SUBSET SeqId /\ {s} # {}
      OBVIOUS
    <2> HIDE DEF b, new
    <2>5. Sound(new(i), st)
      BY <1>4, <2>2, <2>3, <2>4, NewCell
    <2>6. new(i).pos = b.pos /\ new(i).shift = b.shift
      BY <2>3
    <2> QED BY <2>1, <2>5, <2>6 DEF Fine, Sound
<1>6. \A i \in Idx : row[i] \in Cells /\ Fine(row[i], st, data[origin[st]][i])
    <2> HIDE DEF new
    <2> QED BY <1>5, EmptyFine
<1>7. row \in [Idx -> Cells]
    <2>1. row = [i \in Idx |-> row[i]]
      OBVIOUS
    <2> HIDE DEF row
    <2> QED BY <1>6, <2>1
<1> HIDE DEF row
<1> QED BY <1>1, <1>2, <1>6, <1>7, ChangeStep

\* seq_add(): positions and pending shifts move together, and a cell that would fall
\* below position 0 is free.
LEMMA SeqAddStep ==
    ASSUME Inv, NEW s \in SeqId, NEW p0, NEW p1, NEW d \in Int, SeqAdd(s, p0, p1, d)
    PROVE  Inv'
<1> DEFINE st == StreamOf(s)
           old == kv[st]
           hit == {i \in CellsOf(kv, s) : PosIn(old[i], p0, p1)}
           new(i) == [old[i] EXCEPT !.pos = @ + d, !.shift = @ + d]
           row == [i \in Idx |-> IF i \notin hit THEN old[i]
                                 ELSE IF old[i].pos + d < 0 THEN Empty
                                 ELSE new(i)]
           freed == {i \in hit : row[i] = Empty}
<1>1. /\ run = Idle /\ UNCHANGED <<unified, data, origin, run, snap, whole>>
      /\ kv' = [kv EXCEPT ![st] = row]
      /\ head' = [head EXCEPT ![st] = IF freed = {} THEN 0 ELSE Min(freed)]
      /\ \A i \in hit : old[i].pos + d <= MaxPos
    BY DEF SeqAdd
<1>2. st \in Stream /\ \A i \in hit : i \in Idx /\ s \in old[i].seq
    BY StreamType DEF CellsOf
<1>3. /\ kv \in [Stream -> [Idx -> Cells]] /\ head \in [Stream -> 0 .. Size]
      /\ data \in [Stream -> [Idx -> Data]] /\ origin \in [Stream -> Stream] /\ Size \in Nat
      /\ old \in [Idx -> Cells] /\ \A i \in Idx : Fine(old[i], st, data[origin[st]][i])
    BY <1>1, <1>2, IdleParts
<1>4. head' \in [Stream -> 0 .. Size]
    <2>1. freed \in SUBSET Idx
      BY <1>2
    <2> HIDE DEF freed, hit, row, st
    <2>2. freed \in SUBSET Nat /\ \A i \in freed : i \in 0 .. Size
      BY <1>3, <2>1 DEF Idx
    <2>3. freed # {} => Min(freed) \in freed
      BY <2>2, MinExists
    <2> DEFINE h == IF freed = {} THEN 0 ELSE Min(freed)
    <2>4. h \in 0 .. Size
      <3>1. CASE freed = {}
        BY <1>3, <3>1
      <3>2. CASE freed # {}
        <4>1. Min(freed) \in 0 .. Size
          BY <2>2, <2>3, <3>2
        <4> QED BY <3>2, <4>1
      <3> QED BY <3>1, <3>2
    <2>5. head' = [head EXCEPT ![st] = h]
      BY <1>1
    <2> HIDE DEF h
    <2> QED BY <1>3, <2>4, <2>5
<1> HIDE DEF st, old, hit, freed
<1>5. ASSUME NEW i \in hit, ~(old[i].pos + d < 0)
      PROVE  new(i) \in Cells /\ Fine(new(i), st, data[origin[st]][i])
    <2> DEFINE b == old[i]
               e == data[origin[st]][i]
    <2>1. b \in Cells /\ s \in b.seq /\ Fine(b, st, e) /\ i \in Idx /\ e \in Data
      BY <1>2, <1>3
    <2>2. /\ b.pos # Free /\ b.pos \in 0 .. MaxPos /\ b.seq \in SUBSET SeqId /\ b.seq # {}
          /\ b.shift \in Int
          /\ b = [pos |-> b.pos, seq |-> b.seq, shift |-> b.shift]
      <3> HIDE DEF b
      <3> QED BY <2>1, CellShape
    <2>3. new(i) = [pos |-> b.pos + d, seq |-> b.seq, shift |-> b.shift + d]
      <3>1. new(i) = [b EXCEPT !.pos = @ + d, !.shift = @ + d]
        OBVIOUS
      <3> HIDE DEF b, new
      <3> QED BY <2>2, <3>1
    <2>4. b.pos + d \in 0 .. MaxPos /\ b.shift + d \in Int /\ e.rot \in Int
      <3>1. b.pos + d <= MaxPos /\ ~(b.pos + d < 0)
        BY <1>1, <1>5
      <3>2. e.rot \in Int
        BY <2>1, BoundAssumption DEF Data
      <3>3. b.pos \in Int /\ MaxPos \in Int
        BY <2>2, BoundAssumption
      <3> HIDE DEF b
      <3> QED BY <2>2, <3>1, <3>2, <3>3
    <2>5. e.rot + (b.shift + d) = b.pos + d
      BY <2>1, <2>2, <2>4 DEF Fine
    <2> HIDE DEF b, e, new
    <2>6. b.shift + d \in -MaxPos .. MaxPos
      BY <2>1, <2>4, <2>5, ShiftInRange
    <2>7. Sound(new(i), st)
      BY <2>1, <2>2, <2>3, <2>4, <2>6, NewCell DEF Fine, Sound
    <2>8. new(i).pos = b.pos + d /\ new(i).shift = b.shift + d
      BY <2>3
    <2> QED BY <2>5, <2>7, <2>8 DEF Fine, Sound, e
<1>6. \A i \in Idx : row[i] \in Cells /\ Fine(row[i], st, data[origin[st]][i])
    <2> HIDE DEF new
    <2> QED BY <1>3, <1>5, EmptyFine
<1>7. row \in [Idx -> Cells]
    <2>1. row = [i \in Idx |-> row[i]]
      OBVIOUS
    <2> HIDE DEF row
    <2> QED BY <1>6, <2>1
<1> HIDE DEF row
<1> QED BY <1>1, <1>2, <1>4, <1>6, <1>7, RowStep

-----------------------------------------------------------------------------
(* Saving and restoring.                                                   *)

\* What is written of cells in use, when no work is pending.
LEMMA WrittenCells ==
    ASSUME Inv, run = Idle, Settled, NEW st \in Stream, NEW I \in SUBSET Used(kv, st)
    PROVE  /\ Written(st, I) \in Seq(SavedCell) /\ Rotation(Written(st, I))
           /\ \A j \in 1 .. Len(Written(st, I)) : \A s \in Written(st, I)[j].seq : StreamOf(s) = st
<1> DEFINE order == InOrder(I)
           cell(i) == [pos |-> kv[st][i].pos, seq |-> kv[st][i].seq,
                       tok |-> data[st][i].tok, rot |-> data[st][i].rot]
           w == Written(st, I)
<1>1. I \in SUBSET Idx /\ \A i \in I : kv[st][i].pos # Free
    BY DEF Used
<1>2. order \in Seq(I) /\ Len(order) \in Nat /\ \A k \in 1 .. Len(order) : order[k] \in I
    <2>1. order \in Seq(I)
      BY <1>1, OrderOfCells
    <2> HIDE DEF order
    <2> QED BY <2>1
<1>3. w = [k \in 1 .. Len(order) |-> cell(order[k])]
    BY DEF Written
<1> HIDE DEF order, w
<1>4. ASSUME NEW i \in I
      PROVE  cell(i) \in SavedCell /\ cell(i).rot = cell(i).pos /\ \A s \in cell(i).seq : StreamOf(s) = st
    <2> DEFINE c == kv[st][i]
               d == data[st][i]
    <2>1. /\ c \in Cells /\ d \in Data /\ Fine(c, st, data[origin[st]][i]) /\ origin[st] = st
          /\ c.shift = 0 /\ c.pos # Free
      BY <1>1, IdleParts DEF Settled, Unchanged
    <2>2. Fine(c, st, d)
      BY <2>1
    <2> HIDE DEF c
    <2>3. c.pos \in 0 .. MaxPos /\ c.seq \in (SUBSET SeqId) \ {{}}
      BY <2>1, CellShape
    <2>4. d.tok \in Tok \cup {"none"} /\ d.rot \in 0 .. MaxPos
      BY <2>1 DEF Data
    <2>5. d.rot = c.pos /\ \A s \in c.seq : StreamOf(s) = st
      BY <2>1, <2>2, <2>3, <2>4, BoundAssumption DEF Fine, Sound
    <2>6. cell(i) = [pos |-> c.pos, seq |-> c.seq, tok |-> d.tok, rot |-> d.rot]
      BY DEF c
    <2> HIDE DEF d, cell
    <2> QED BY <2>3, <2>4, <2>5, <2>6 DEF SavedCell
<1>5. w \in [1 .. Len(order) -> SavedCell]
    <2> HIDE DEF cell
    <2> QED BY <1>2, <1>3, <1>4
<1>6. w \in Seq(SavedCell) /\ Len(w) = Len(order)
    BY <1>2, <1>5, FunctionSeq
<1> HIDE DEF cell
<1>7. \A k \in 1 .. Len(w) : w[k] = cell(order[k]) /\ order[k] \in I
    BY <1>2, <1>3, <1>6
<1> QED BY <1>4, <1>6, <1>7 DEF w, Rotation

\* No state is held.
LEMMA NothingSavedOK ==
    /\ NothingSaved \in [Stream -> Seq(SavedCell)]
    /\ \A st \in Stream : NothingSaved[st] = <<>> /\ Len(NothingSaved[st]) = 0
    /\ <<>> \in Seq(SavedCell) /\ Rotation(<<>>)
BY DEF NothingSaved, Rotation

\* Only the saved states change.
LEMMA SaveStep ==
    ASSUME Inv, run = Idle, SavedOK', UNCHANGED <<unified, kv, head, data, origin, run>>
    PROVE  Inv'
BY IdleParts, IdleStep

\* state_write() of a sequence.
LEMMA StateWriteStep ==
    ASSUME Inv, Careful, NEW s \in SeqId, StateWrite(s)
    PROVE  Inv'
<1> DEFINE st == StreamOf(s)
           I == {i \in CellsOf(kv, s) : ~MaskedSwa(kv[st][i].pos, SeqPosMax(kv, s))}
<1>1. /\ run = Idle /\ Settled /\ snap' = Written(st, I) /\ whole' = NothingSaved
      /\ UNCHANGED <<unified, kv, head, data, origin, run>>
    BY DEF StateWrite
<1>2. st \in Stream
    BY StreamType
<1>3. I \in SUBSET Used(kv, st)
    <2>1. kv[st] \in [Idx -> Cells]
      BY <1>1, <1>2, IdleParts
    <2>2. \A i \in Idx : s \in kv[st][i].seq => kv[st][i].pos # Free
      <3> SUFFICES ASSUME NEW i \in Idx, s \in kv[st][i].seq PROVE kv[st][i].pos # Free
        OBVIOUS
      <3>1. kv[st][i] \in Cells
        BY <2>1
      <3> HIDE DEF st
      <3> QED BY <3>1, CellShape
    <2> QED BY <2>2 DEF CellsOf, Used
<1> HIDE DEF I, st
<1>4. Written(st, I) \in Seq(SavedCell) /\ Rotation(Written(st, I))
    BY <1>1, <1>2, <1>3, WrittenCells
<1>5. SavedOK'
    BY <1>1, <1>4, NothingSavedOK DEF SavedOK, Rotation
<1> QED BY <1>1, <1>5, SaveStep

\* state_write() of all.
LEMMA StateWriteAllStep ==
    ASSUME Inv, Careful, StateWriteAll
    PROVE  Inv'
<1>1. /\ run = Idle /\ Settled /\ snap' = <<>>
      /\ whole' = [st \in Stream |-> Written(st, Used(kv, st))]
      /\ UNCHANGED <<unified, kv, head, data, origin, run>>
    BY DEF StateWriteAll
<1>2. \A st \in Stream :
        /\ Written(st, Used(kv, st)) \in Seq(SavedCell) /\ Rotation(Written(st, Used(kv, st)))
        /\ \A j \in 1 .. Len(Written(st, Used(kv, st))) :
             \A s \in Written(st, Used(kv, st))[j].seq : StreamOf(s) = st
    BY <1>1, WrittenCells
<1>3. SavedOK'
    <2>1. whole' \in [Stream -> Seq(SavedCell)] /\ \A st \in Stream : whole'[st] = Written(st, Used(kv, st))
      BY <1>1, <1>2
    <2>2. \A s : StreamOf(s)' = StreamOf(s)
      BY <1>1 DEF StreamOf
    <2> QED BY <1>1, <1>2, <2>1, <2>2, NothingSavedOK DEF SavedOK
<1> QED BY <1>1, <1>3, SaveStep

\* The cells c, overwritten with what put has for some of them.
With(c, put) == [st \in Stream |-> [i \in Idx |-> IF i \in DOMAIN put[st] THEN put[st][i] ELSE c[st][i]]]

\* apply_ubatch(): what is put into a cell, or its old content, but for sequences that leave.
LEMMA ApplyCells ==
    ASSUME NEW c, NEW put, \A st \in Stream, i \in Idx : Sound(With(c, put)[st][i], st)
    PROVE  /\ Apply(c, put) \in [Stream -> [Idx -> Cells]]
           /\ \A st \in Stream, i \in Idx : \E ss : Apply(c, put)[st][i] = Leave(With(c, put)[st][i], ss)
<1> DEFINE past(x) == {q \in x.seq : \E p \in Overwritten(c, put, q) : x.pos <= p}
           new(st, i) == IF i \in DOMAIN put[st] THEN put[st][i] ELSE c[st][i]
           a == Apply(c, put)
           b == With(c, put)
<1>1. a = [st \in Stream |-> [i \in Idx |-> Leave(new(st, i), past(new(st, i)))]]
    BY DEF Apply
<1>2. \A st \in Stream, i \in Idx : new(st, i) = b[st][i]
    BY DEF With
<1> HIDE DEF new, past, a, b
<1>3. \A st \in Stream, i \in Idx : a[st][i] = Leave(b[st][i], past(b[st][i]))
    BY <1>1, <1>2
<1>4. \A st \in Stream, i \in Idx : a[st][i] \in Cells
    BY <1>3, LeaveKeeps DEF Sound, b
<1>5. a \in [Stream -> [Idx -> Cells]]
    <2> DEFINE l(st, i) == Leave(new(st, i), past(new(st, i)))
    <2>1. \A st \in Stream, i \in Idx : l(st, i) \in Cells
      BY <1>1, <1>4
    <2> HIDE DEF l
    <2>2. a = [st \in Stream |-> [i \in Idx |-> l(st, i)]]
      BY <1>1 DEF l
    <2> QED BY <2>1, <2>2
<1> QED BY <1>3, <1>5 DEF a, b

\* The place of a cell among the first n of those found.
LEMMA FirstPlace ==
    ASSUME NEW at \in Seq(Idx), NEW n \in 0 .. Len(at), NEW i \in {at[k] : k \in 1 .. n}
    PROVE  IndexFirst(at, i) \in 1 .. n /\ at[IndexFirst(at, i)] = i /\ i \in Idx
<1> DEFINE K == {k \in DOMAIN at : at[k] = i}
<1>1. PICK k \in 1 .. n : at[k] = i
    OBVIOUS
<1>2. k \in K /\ K \in SUBSET Nat /\ Len(at) \in Nat
    BY <1>1
<1>3. Min(K) \in K /\ \A x \in K : Min(K) <= x
    <2> HIDE DEF K
    <2> QED BY <1>2, MinExists
<1>4. Min(K) \in 1 .. Len(at) /\ Min(K) <= k
    BY <1>2, <1>3
<1>5. i \in Idx
    BY <1>1, <1>2
<1> QED BY <1>1, <1>2, <1>3, <1>4, <1>5 DEF IndexFirst

\* state_read() of a sequence: nothing, the sequence is removed, or the state is in its
\* cells.
LEMMA StateReadStep ==
    ASSUME Inv, Careful, NEW s \in SeqId, StateRead(s)
    PROVE  Inv'
<1> DEFINE st   == StreamOf(s)
           n    == Len(snap)
           gone == SeqRmCells(kv[st], s, -1, -1)
           rest == [kv EXCEPT ![st] = gone]
           low  == Lower(head[st], kv[st], rest[st])
           at   == Search(rest, st, low, n)
           cell(i) == [pos |-> snap[IndexFirst(at, i)].pos, seq |-> {s}, shift |-> 0]
           put  == [u \in Stream |-> IF u # st THEN <<>> ELSE [i \in {at[k] : k \in 1 .. n} |-> cell(i)]]
<1>1. st \in Stream /\ st = StreamOf(s)
    BY StreamType
<1>2. run = Idle /\ Settled /\ UNCHANGED <<unified, origin, run, snap, whole>>
    BY DEF StateRead
<1>3. /\ kv \in [Stream -> [Idx -> Cells]] /\ head \in [Stream -> 0 .. Size]
      /\ data \in [Stream -> [Idx -> Data]] /\ origin \in [Stream -> Stream]
      /\ \A u \in Stream, i \in Idx : Fine(kv[u][i], u, data[origin[u]][i])
      /\ SavedOK /\ SavedOK' /\ \A u \in Stream : origin[u] = u
    BY <1>2, IdleParts, SavedKept DEF Settled, Unchanged
<1>4. CASE n = 0
    <2>1. UNCHANGED <<kv, head, data>>
      BY <1>4 DEF StateRead
    <2> QED BY <1>2, <1>3, <2>1, IdleStep
<1>5. \/ n = 0
      \/ n > Len(at) /\ Change(st, rest[st]) /\ UNCHANGED data
      \/ /\ ~(n > Len(at)) /\ kv' = Apply(rest, put) /\ head' = [head EXCEPT ![st] = at[n] + 1]
         /\ data' = [data EXCEPT ![st] = [i \in Idx |->
                       IF i \notin DOMAIN put[st] THEN data[st][i]
                       ELSE [tok |-> snap[IndexFirst(at, i)].tok, rot |-> snap[IndexFirst(at, i)].rot]]]
    BY DEF StateRead
<1> HIDE DEF st
<1>6. gone \in [Idx -> Cells] /\ \A i \in Idx : Fine(gone[i], st, data[origin[st]][i])
    BY <1>1, <1>3, RowWithout
<1> HIDE DEF gone
<1>7. /\ rest \in [Stream -> [Idx -> Cells]] /\ rest[st] = gone
      /\ \A u \in Stream, i \in Idx : Fine(rest[u][i], u, data[u][i])
    BY <1>1, <1>3, <1>6
<1> HIDE DEF rest
<1>8. low \in 0 .. Size
    BY <1>1, <1>3, LowerInRange
<1> HIDE DEF low
<1>9. at \in Seq(Idx) /\ n \in Nat /\ \A j \in 1 .. n : snap[j] \in SavedCell /\ snap[j].rot = snap[j].pos
    <2>1. at \in Seq(Idx)
      BY <1>8, SearchFinds
    <2>2. snap \in Seq(SavedCell) /\ Rotation(snap)
      BY <1>3 DEF SavedOK
    <2> HIDE DEF at
    <2> QED BY <2>1, <2>2 DEF Rotation
<1> HIDE DEF at
<1>10. CASE n > Len(at) /\ Change(st, rest[st]) /\ UNCHANGED data
    BY <1>1, <1>2, <1>6, <1>7, <1>10, ChangeStep
<1>11. CASE /\ ~(n > Len(at)) /\ n # 0
            /\ kv' = Apply(rest, put) /\ head' = [head EXCEPT ![st] = at[n] + 1]
            /\ data' = [data EXCEPT ![st] = [i \in Idx |->
                          IF i \notin DOMAIN put[st] THEN data[st][i]
                          ELSE [tok |-> snap[IndexFirst(at, i)].tok, rot |-> snap[IndexFirst(at, i)].rot]]]
    <2> DEFINE I == {at[k] : k \in 1 .. n}
               read(i) == [tok |-> snap[IndexFirst(at, i)].tok, rot |-> snap[IndexFirst(at, i)].rot]
               row == [i \in Idx |-> IF i \notin I THEN data[st][i] ELSE read(i)]
               b == With(rest, put)
    <2>1. n \in 0 .. Len(at) /\ n \in 1 .. Len(at) /\ Len(at) \in Nat
      BY <1>9, <1>11
    <2>2. DOMAIN put[st] = I /\ (\A i \in I : put[st][i] = cell(i))
          /\ \A u \in Stream : u # st => DOMAIN put[u] = {}
      BY <1>1
    <2>3. ASSUME NEW i \in I
          PROVE  /\ i \in Idx /\ Sound(cell(i), st) /\ read(i) \in Data
                 /\ read(i).rot + cell(i).shift = cell(i).pos
      <3> DEFINE j == IndexFirst(at, i)
      <3>1. j \in 1 .. n /\ i \in Idx
        BY <1>9, <2>1, FirstPlace
      <3> HIDE DEF j
      <3>2. /\ snap[j].pos \in 0 .. MaxPos /\ snap[j].tok \in Tok \cup {"none"}
            /\ snap[j].rot \in 0 .. MaxPos /\ snap[j].rot = snap[j].pos
        BY <1>9, <3>1 DEF SavedCell
      <3>3. {s} \in SUBSET SeqId /\ {s} # {} /\ (\A q \in {s} : StreamOf(q) = st) /\ 0 \in -MaxPos .. MaxPos
        BY <1>1, BoundAssumption
      <3>4. Sound(cell(i), st)
        BY <3>2, <3>3, NewCell DEF j
      <3>5. read(i) \in Data
        BY <3>2 DEF Data, j
      <3>6. snap[j].rot + 0 = snap[j].pos
        BY <3>2, BoundAssumption
      <3> QED BY <3>1, <3>4, <3>5, <3>6 DEF j
    <2> HIDE DEF cell, put
    <2>4. data' = [data EXCEPT ![st] = row]
      BY <1>11, <2>2
    <2>5. row \in [Idx -> Data]
      <3> HIDE DEF read, I
      <3> QED BY <1>1, <1>3, <2>3
    <2>6. data' \in [Stream -> [Idx -> Data]]
      <3> HIDE DEF row
      <3> QED BY <1>3, <2>4, <2>5
    <2>7. \A u \in Stream, i \in Idx : Fine(b[u][i], u, data'[u][i])
      <3> SUFFICES ASSUME NEW u \in Stream, NEW i \in Idx PROVE Fine(b[u][i], u, data'[u][i])
        OBVIOUS
      <3>1. CASE u # st
        <4>1. b[u][i] = rest[u][i] /\ data'[u][i] = data[u][i]
          BY <2>2, <2>4, <3>1, <1>3 DEF With
        <4> QED BY <1>7, <4>1
      <3>2. CASE u = st /\ i \notin I
        <4>1. b[u][i] = rest[u][i] /\ data'[u][i] = data[u][i]
          BY <2>2, <2>4, <3>2, <1>3 DEF With
        <4> QED BY <1>7, <4>1
      <3>3. CASE u = st /\ i \in I
        <4>1. b[u][i] = cell(i) /\ data'[u][i] = read(i)
          <5>1. b[u][i] = cell(i)
            BY <2>2, <3>3 DEF With
          <5>2. data'[st][i] = row[i]
            <6> HIDE DEF row
            <6> QED BY <1>1, <1>3, <2>4
          <5> QED BY <3>3, <5>1, <5>2
        <4> HIDE DEF read, b
        <4> QED BY <2>3, <3>3, <4>1 DEF Fine
      <3> QED BY <3>1, <3>2, <3>3
    <2> HIDE DEF b, row
    <2>8. /\ Apply(rest, put) \in [Stream -> [Idx -> Cells]]
          /\ \A u \in Stream, i \in Idx : \E ss : Apply(rest, put)[u][i] = Leave(b[u][i], ss)
      <3>1. \A u \in Stream, i \in Idx : Sound(b[u][i], u)
        BY <2>7 DEF Fine
      <3> QED BY <3>1, ApplyCells DEF b
    <2> DEFINE c == Apply(rest, put)
    <2>9. \A u \in Stream, i \in Idx : Fine(c[u][i], u, data'[origin'[u]][i])
      <3> SUFFICES ASSUME NEW u \in Stream, NEW i \in Idx PROVE Fine(c[u][i], u, data'[origin'[u]][i])
        OBVIOUS
      <3>1. PICK ss : c[u][i] = Leave(b[u][i], ss)
        BY <2>8
      <3>2. Fine(b[u][i], u, data'[u][i]) /\ origin'[u] = u
        BY <1>2, <1>3, <2>7
      <3> HIDE DEF c
      <3> QED BY <3>1, <3>2, LeaveFine DEF Fine
    <2>10. head' \in [Stream -> 0 .. Size]
      <3>1. at[n] \in Idx
        BY <1>9, <2>1
      <3>2. at[n] + 1 \in 0 .. Size
        BY <3>1, SizeAssumption DEF Idx
      <3> QED BY <1>3, <1>11, <3>2
    <2>11. kv' = c
      BY <1>11
    <2> HIDE DEF c
    <2> QED BY <1>2, <1>3, <2>6, <2>8, <2>9, <2>10, <2>11, IdleStep DEF c
<1> QED BY <1>4, <1>5, <1>10, <1>11

\* state_read() of all.
LEMMA StateReadAllStep ==
    ASSUME Inv, Careful, StateReadAll
    PROVE  Inv'
<1> DEFINE some == {st \in Stream : whole[st] # <<>>}
           last == Max(some)
           n    == Len(whole[last])
           mine(st, i) == st = last /\ i < n
           cell(st, i) == [Empty EXCEPT !.pos = whole[st][i+1].pos, !.seq = whole[st][i+1].seq]
           read(st, i) == [tok |-> whole[st][i+1].tok, rot |-> whole[st][i+1].rot]
           c == [st \in Stream |-> [i \in Idx |-> IF mine(st, i) THEN cell(st, i) ELSE Empty]]
           d == [st \in Stream |-> [i \in Idx |-> IF mine(st, i) THEN read(st, i) ELSE Blank]]
<1>1. /\ run = Idle /\ Settled /\ some # {} /\ UNCHANGED <<unified, origin, run, snap, whole>>
      /\ kv' = c /\ data' = d /\ head' = [st \in Stream |-> 0]
    BY DEF StateReadAll
<1>2. /\ origin \in [Stream -> Stream] /\ SavedOK /\ SavedOK' /\ \A u \in Stream : origin[u] = u
    BY <1>1, IdleParts, SavedKept DEF Settled, Unchanged
<1>3. last \in Stream
    <2>1. some \in SUBSET (0 .. NSeq - 1) /\ NSeq - 1 \in Nat
      BY SizeAssumption DEF Stream, SeqId
    <2> HIDE DEF some
    <2>2. last \in some
      BY <1>1, <2>1, MaxExists
    <2> QED BY <2>2 DEF some
<1> HIDE DEF last
<1>4. whole[last] \in Seq(SavedCell) /\ n \in Nat
    BY <1>2, <1>3 DEF SavedOK
<1>5. ASSUME NEW st \in Stream, NEW i \in Idx, mine(st, i)
      PROVE  Fine(cell(st, i), st, read(st, i)) /\ cell(st, i) \in Cells /\ read(st, i) \in Data
    <2> DEFINE w == whole[st][i + 1]
    <2>1. i + 1 \in 1 .. Len(whole[st])
      BY <1>4, <1>5, SizeAssumption DEF Idx
    <2>2. w \in SavedCell /\ w.rot = w.pos /\ \A s \in w.seq : StreamOf(s) = st
      BY <1>2, <2>1 DEF SavedOK, Rotation
    <2> HIDE DEF w
    <2>3. /\ w.pos \in 0 .. MaxPos /\ w.seq \in SUBSET SeqId /\ w.seq # {} /\ w.rot \in 0 .. MaxPos
          /\ w.tok \in Tok \cup {"none"} /\ 0 \in -MaxPos .. MaxPos /\ w.rot + 0 = w.pos
      BY <2>2, BoundAssumption DEF SavedCell
    <2>4. cell(st, i) = [pos |-> w.pos, seq |-> w.seq, shift |-> 0]
      <3>1. cell(st, i) = [Empty EXCEPT !.pos = w.pos, !.seq = w.seq]
        BY DEF w
      <3> HIDE DEF cell
      <3> QED BY <3>1 DEF Empty
    <2>5. read(st, i) = [tok |-> w.tok, rot |-> w.rot]
      BY DEF w
    <2>6. Sound(cell(st, i), st)
      <3> HIDE DEF cell
      <3> QED BY <2>2, <2>3, <2>4, NewCell
    <2> HIDE DEF cell, read
    <2> QED BY <2>3, <2>4, <2>5, <2>6 DEF Fine, Sound, Data
<1> HIDE DEF cell, read, mine
<1>6. Blank \in Data /\ 0 \in 0 .. Size
    BY SizeAssumption, BoundAssumption DEF Blank, Data
<1>7. c \in [Stream -> [Idx -> Cells]] /\ data' \in [Stream -> [Idx -> Data]] /\ head' \in [Stream -> 0 .. Size]
    BY <1>1, <1>5, <1>6, EmptyFine
<1>8. \A st \in Stream, i \in Idx : Fine(c[st][i], st, data'[origin'[st]][i])
    BY <1>1, <1>2, <1>5, EmptyFine
<1> HIDE DEF c
<1> QED BY <1>1, <1>2, <1>7, <1>8, IdleStep

-----------------------------------------------------------------------------
(* A batch.                                                                *)

\* What a step of a batch has to keep.
LEMMA BatchStep ==
    ASSUME Inv, UNCHANGED <<unified, snap, whole>>,
           NEW c \in [Stream -> [Idx -> Cells]], kv' = c, NEW r, run' = r,
           head' \in [Stream -> 0 .. Size], data' \in [Stream -> [Idx -> Data]],
           origin' \in [Stream -> Stream],
           RunFor(r, c, origin'), CellsFor(r, c, data', origin')
    PROVE  Inv'
<1>1. MemOK' /\ SavedOK'
    BY SavedKept DEF Inv, MemOK
<1> QED BY <1>1, StateAfter DEF Inv

\* decode() and update(): the pending copies and shifts are worked off.
LEMMA DecodeStep ==
    ASSUME Inv, NEW S \in SUBSET SeqId, NEW tok \in [S -> Tok], NEW n \in Nat, Decode(S, tok, n)
    PROVE  Inv'
<1> DEFINE d == [st \in Stream |-> [i \in Idx |-> Rotated(st, i)]]
           c == [st \in Stream |-> [i \in Idx |-> [kv[st][i] EXCEPT !.shift = 0]]]
           o == [st \in Stream |-> st]
           r == [Idle EXCEPT !.phase = "prepare", !.S = S, !.tok = tok, !.n = n]
<1>1. /\ run = Idle /\ S # {} /\ n \in 1 .. MaxUb
      /\ \A s \in S : SeqPosMax(kv, s) + n <= MaxPos
      /\ data' = d /\ kv' = c /\ origin' = o /\ run' = r
      /\ UNCHANGED <<unified, head, snap, whole>>
    BY DEF Decode
<1>2. /\ kv \in [Stream -> [Idx -> Cells]] /\ head \in [Stream -> 0 .. Size]
      /\ data \in [Stream -> [Idx -> Data]] /\ origin \in [Stream -> Stream]
      /\ \A st \in Stream, i \in Idx : Fine(kv[st][i], st, data[origin[st]][i])
      /\ Stream = SeqId /\ MaxPos \in Nat
    BY <1>1, IdleParts, BoundAssumption
<1>3. ASSUME NEW st \in Stream, NEW i \in Idx
      PROVE  /\ c[st][i] \in Cells /\ d[st][i] \in Data /\ Fine(c[st][i], st, d[st][i])
             /\ c[st][i].shift = 0 /\ c[st][i].seq = kv[st][i].seq /\ c[st][i].pos = kv[st][i].pos
    <2> DEFINE a == kv[st][i]
               e == data[origin[st]][i]
    <2>1. a \in Cells /\ e \in Data /\ Fine(a, st, e)
      BY <1>2
    <2>2. c[st][i] = [a EXCEPT !.shift = 0] /\ d[st][i] = [e EXCEPT !.rot = @ + a.shift]
      BY DEF Rotated
    <2> HIDE DEF a, e, c, d
    <2>3. e = [tok |-> e.tok, rot |-> e.rot] /\ e.tok \in Tok \cup {"none"} /\ e.rot \in 0 .. MaxPos
      BY <2>1 DEF Data
    <2>4. d[st][i] = [tok |-> e.tok, rot |-> e.rot + a.shift]
      BY <2>2, <2>3
    <2>5. CASE a.pos = Free
      <3>1. a = Empty /\ a.shift = 0
        BY <2>1, <2>5, CellShape
      <3>2. c[st][i] = Empty
        BY <2>2, <3>1 DEF Empty
      <3>3. e.rot + 0 = e.rot
        BY <1>2, <2>3
      <3>4. d[st][i] \in Data
        BY <2>3, <2>4, <3>1, <3>3 DEF Data
      <3> QED BY <3>1, <3>2, <3>4, EmptyFine DEF a
    <2>6. CASE a.pos # Free
      <3>1. /\ a.pos \in 0 .. MaxPos /\ a.seq \in SUBSET SeqId /\ a.seq # {}
            /\ a = [pos |-> a.pos, seq |-> a.seq, shift |-> a.shift]
        BY <2>1, <2>6, CellShape
      <3>2. c[st][i] = [pos |-> a.pos, seq |-> a.seq, shift |-> 0]
        <4>1. [[pos |-> a.pos, seq |-> a.seq, shift |-> a.shift] EXCEPT !.shift = 0]
                = [pos |-> a.pos, seq |-> a.seq, shift |-> 0]
          OBVIOUS
        <4> QED BY <2>2, <3>1, <4>1
      <3>3. 0 \in -MaxPos .. MaxPos /\ \A s \in a.seq : StreamOf(s) = st
        BY <1>2, <2>1 DEF Fine, Sound
      <3>4. Sound(c[st][i], st)
        BY <3>1, <3>2, <3>3, NewCell
      <3>5. e.rot + a.shift = a.pos /\ a.pos + 0 = a.pos
        BY <1>2, <2>1, <2>6, <3>1 DEF Fine
      <3>6. d[st][i] \in Data /\ d[st][i].rot = a.pos
        BY <2>3, <2>4, <3>1, <3>5 DEF Data
      <3>7. Fine(c[st][i], st, d[st][i])
        BY <3>2, <3>4, <3>5, <3>6 DEF Fine
      <3> QED BY <3>2, <3>4, <3>6, <3>7 DEF Sound, a
    <2> QED BY <2>5, <2>6
<1>4. c \in [Stream -> [Idx -> Cells]] /\ d \in [Stream -> [Idx -> Data]]
    <2>1. c = [st \in Stream |-> [i \in Idx |-> c[st][i]]] /\ d = [st \in Stream |-> [i \in Idx |-> d[st][i]]]
      OBVIOUS
    <2> HIDE DEF c, d
    <2> QED BY <1>3, <2>1
<1> HIDE DEF c, d
<1>5. \A s \in S : SeqPosMax(kv, s) \in -1 .. MaxPos /\ \A i \in Idx :
        s \in kv[StreamOf(s)][i].seq => kv[StreamOf(s)][i].pos <= SeqPosMax(kv, s)
    BY <1>2, GreatestPos, StreamType
<1>6. n \in 1 .. MaxPos + 1
    <2>1. PICK s \in S : TRUE
      BY <1>1
    <2>2. SeqPosMax(kv, s) \in -1 .. MaxPos /\ SeqPosMax(kv, s) + n <= MaxPos
      BY <1>1, <1>5
    <2> QED BY <1>1, <1>2, <2>2
<1>7. IsBatch(Idle)
    BY DEF IsBatch, Idle
<1>8. /\ IsBatch(r) /\ r.phase = "prepare" /\ r.S = S /\ r.tok = tok /\ r.n = n
      /\ r.k = 1 /\ r.ok = TRUE /\ r.sinfo = <<>> /\ r.stack = <<>>
    <2>1. Idle.k = 1 /\ Idle.ok = TRUE /\ Idle.sinfo = <<>> /\ Idle.stack = <<>>
      BY DEF Idle
    <2>2. r = [Idle EXCEPT !.phase = "prepare", !.S = S, !.tok = tok, !.n = n]
      OBVIOUS
    <2> HIDE DEF r
    <2>3. /\ IsBatch(r) /\ r.phase = "prepare" /\ r.S = S /\ r.tok = tok /\ r.n = n
          /\ r.k = Idle.k /\ r.ok = Idle.ok /\ r.sinfo = Idle.sinfo /\ r.stack = Idle.stack
      <3>1. PICK b : b = Idle
        OBVIOUS
      <3>2. r = [b EXCEPT !.phase = "prepare", !.S = S, !.tok = tok, !.n = n]
        BY <2>2, <3>1, Zenon
      <3>3. /\ IsBatch(r) /\ r.phase = "prepare" /\ r.S = S /\ r.tok = tok /\ r.n = n
            /\ r.k = b.k /\ r.ok = b.ok /\ r.sinfo = b.sinfo /\ r.stack = b.stack
        <4>1. IsBatch(b)
          BY <1>7, <3>1
        <4>2. IsBatch(r)
          BY <3>2, <4>1 DEF IsBatch
        <4> QED BY <3>2, <4>1, <4>2 DEF IsBatch
      <3> QED BY <3>1, <3>3
    <2> QED BY <2>1, <2>3
<1> HIDE DEF r
<1>9. RunFor(r, c, o)
    <2>1. \A X : <<>> \in Seq(X) /\ Len(<<>>) = 0
      OBVIOUS
    <2>2. 1 \in 1 .. n + 1 /\ 0 <= 1 - 1 /\ 0 = 1 - 1
      BY <1>6
    <2>3. r.sinfo \in Seq([r.S -> Idx]) /\ r.stack \in Seq(Entries(r.S)) /\ Len(r.sinfo) = 0 /\ Len(r.stack) = 0
      BY <1>8, <2>1
    <2>4. RefusedFor(r, c)
      BY <1>8 DEF RefusedFor
    <2>5. r.tok \in [r.S -> Tok] /\ r.S \in SUBSET SeqId /\ r.n \in Nat /\ r.k \in Nat /\ r.n \in 1 .. MaxPos + 1
          /\ r.k \in 1 .. r.n + 1 /\ Len(r.stack) <= r.k - 1 /\ Len(r.stack) = r.k - 1 /\ Len(r.sinfo) = r.k - 1
      BY <1>6, <1>8, <2>2, <2>3
    <2>6. r.ok \in BOOLEAN
      BY <1>8
    <2>7. r.phase = "prepare" /\ o = [st \in Stream |-> st]
      BY <1>8
    <2> HIDE DEF o
    <2> QED BY <1>8, <2>3, <2>4, <2>5, <2>6, <2>7 DEF RunFor
<1>10. CellsFor(r, c, d, o)
    <2> SUFFICES ASSUME NEW k \in 0 .. Len(r.stack), NEW st \in Stream, NEW i \in Idx
                 PROVE  CellOK(Before(r.stack, c, k, st, i), st, i, d[o[st]][i], r, k)
      BY DEF CellsFor
    <2>1. k = 0 /\ Before(r.stack, c, k, st, i) = c[st][i] /\ o[st] = st
      BY <1>8 DEF Before, Later
    <2>2. ASSUME NEW s \in c[st][i].seq \cap S PROVE c[st][i].pos <= (MaxPos - n) + 0
      <3>1. StreamOf(s) = st /\ s \in kv[st][i].seq /\ c[st][i].pos = kv[st][i].pos
        BY <1>3, <2>2 DEF Fine, Sound
      <3>2. kv[st][i].pos <= SeqPosMax(kv, s) /\ SeqPosMax(kv, s) \in -1 .. MaxPos
        BY <1>5, <3>1
      <3>3. kv[st][i].pos \in Int
        BY <1>2, CellShape
      <3>4. SeqPosMax(kv, s) + n <= MaxPos
        BY <1>1, <2>2
      <3> DEFINE a == SeqPosMax(kv, s)
                 b == kv[st][i].pos
      <3>5. b <= (MaxPos - n) + 0
        <4> HIDE DEF a, b
        <4> QED BY <1>2, <1>6, <3>2, <3>3, <3>4 DEF a, b
      <3> QED BY <3>1, <3>5
    <2> QED BY <1>3, <1>8, <2>1, <2>2 DEF CellOK, Fine, Ahead
<1>11. o \in [Stream -> Stream]
    OBVIOUS
<1> HIDE DEF o
<1> QED BY <1>1, <1>2, <1>4, <1>9, <1>10, <1>11, BatchStep

\* Sequences are numbered from 0.
LEMMA SeqIds == SeqId = 0 .. NSeq - 1 /\ SeqId \in SUBSET Nat /\ NSeq - 1 \in Nat
BY SizeAssumption DEF SeqId

\* The sequences of a ubatch that are placed in a cell.
LEMMA PlacedShape ==
    ASSUME NEW S \in SUBSET SeqId, NEW at \in [S -> Idx], NEW st, NEW i
    PROVE  /\ Placed(at, st, i) \in SUBSET S
           /\ Placed(at, st, i) # {} =>
                /\ Min(Placed(at, st, i)) \in Placed(at, st, i)
                /\ Min(Placed(at, st, i)) \in S /\ StreamOf(Min(Placed(at, st, i))) = st
                /\ at[Min(Placed(at, st, i))] = i
<1> DEFINE P == Placed(at, st, i)
<1>1. P = {s \in S : StreamOf(s) = st /\ at[s] = i}
    BY DEF Placed
<1>2. P \in SUBSET Nat
    BY <1>1, SeqIds
<1> HIDE DEF P
<1>3. P # {} => Min(P) \in P
    BY <1>2, MinExists
<1> QED BY <1>1, <1>3 DEF P

\* The cells that a sequence of the ubatch gets.
NewAt(s) == [pos |-> SeqPosMax(kv, s) + 1, seq |-> {s}, shift |-> 0]
FilledAt(at, st, i) == IF Hits(at, st, i) THEN NewAt(Min(Placed(at, st, i))) ELSE kv[st][i]

\* apply_ubatch(): the tokens of the ubatch are in their cells, unless they leave again.
LEMMA TakenCells ==
    ASSUME NEW S \in SUBSET SeqId, NEW at \in [S -> Idx],
           \A st \in Stream, i \in Idx : Sound(kv[st][i], st),
           \A s \in S : SeqPosMax(kv, s) + 1 \in 0 .. MaxPos
    PROVE  /\ Taken(at) \in [Stream -> [Idx -> Cells]]
           /\ \A st \in Stream, i \in Idx :
                /\ Sound(FilledAt(at, st, i), st)
                /\ \E ss : Taken(at)[st][i] = Leave(FilledAt(at, st, i), ss)
<1> DEFINE put == PutAt(at)
<1>1. ASSUME NEW st \in Stream, NEW i \in Idx
      PROVE  With(kv, put)[st][i] = FilledAt(at, st, i) /\ Sound(FilledAt(at, st, i), st)
    <2>1. DOMAIN put[st] = {at[s] : s \in InStream(S, st)}
      BY DEF PutAt
    <2>2. i \in DOMAIN put[st] <=> Hits(at, st, i)
      BY <2>1 DEF Hits, Placed, InStream
    <2>3. i \in DOMAIN put[st] => put[st][i] = NewAt(Min(Placed(at, st, i)))
      BY <2>1 DEF PutAt, NewAt
    <2> HIDE DEF put
    <2>4. With(kv, put)[st][i] = FilledAt(at, st, i)
      BY <2>2, <2>3 DEF With, FilledAt
    <2>5. ASSUME Hits(at, st, i) PROVE Sound(NewAt(Min(Placed(at, st, i))), st)
      <3> DEFINE s == Min(Placed(at, st, i))
      <3>1. s \in S /\ StreamOf(s) = st
        BY <2>5, PlacedShape DEF Hits
      <3> HIDE DEF s
      <3>2. {s} \in SUBSET SeqId /\ {s} # {} /\ (\A q \in {s} : StreamOf(q) = st) /\ 0 \in -MaxPos .. MaxPos
        BY <3>1, BoundAssumption
      <3>3. SeqPosMax(kv, s) + 1 \in 0 .. MaxPos
        BY <3>1
      <3> QED BY <3>2, <3>3, NewCell DEF NewAt, s
    <2> QED BY <2>4, <2>5 DEF FilledAt
<1>2. Taken(at) = Apply(kv, put)
    BY DEF Taken
<1> HIDE DEF put
<1>3. \A st \in Stream, i \in Idx : Sound(With(kv, put)[st][i], st)
    BY <1>1
<1> QED BY <1>1, <1>2, <1>3, ApplyCells

\* The heads follow the ubatch.
LEMMA HeadsInRange ==
    ASSUME NEW S \in SUBSET SeqId, NEW at \in [S -> Idx], head \in [Stream -> 0 .. Size]
    PROVE  HeadsAfter(at) \in [Stream -> 0 .. Size]
<1> SUFFICES ASSUME NEW st \in Stream
             PROVE  (IF InStream(S, st) = {} THEN head[st] ELSE at[Max(InStream(S, st))] + 1) \in 0 .. Size
    BY DEF HeadsAfter
<1>1. InStream(S, st) \in SUBSET (0 .. NSeq - 1) /\ NSeq - 1 \in Nat
    <2>1. InStream(S, st) \in SUBSET SeqId
      BY DEF InStream
    <2> QED BY <2>1, SeqIds
<1>2. InStream(S, st) # {} => Max(InStream(S, st)) \in InStream(S, st)
    BY <1>1, MaxExists
<1>3. InStream(S, st) # {} => at[Max(InStream(S, st))] \in Idx
    BY <1>2 DEF InStream
<1>4. \A i \in Idx : i + 1 \in 0 .. Size
    BY SizeAssumption DEF Idx
<1> QED BY <1>3, <1>4

\* find_slot(): there is a cell for each sequence when the stream has enough of them.
LEMMA SlotShape ==
    ASSUME NEW S \in SUBSET SeqId, head \in [Stream -> 0 .. Size]
    PROVE  /\ Fits(S) => Slot(S) \in [S -> Idx]
           /\ ~Fits(S) => \E st \in Streams(S) :
                            Cardinality({i \in Idx : CanUse(kv, st, i)}) < Cardinality(InStream(S, st))
<1>1. ASSUME NEW st \in Stream
      PROVE  /\ Found(S, st) \in Seq(Idx)
             /\ Len(Found(S, st)) = Cardinality({i \in Idx : CanUse(kv, st, i)})
             /\ Len(Found(S, st)) \in Nat
    <2>1. head[st] \in 0 .. Size
      OBVIOUS
    <2>2. Found(S, st) \in Seq(Idx) /\ Len(Found(S, st)) = Cardinality({i \in Idx : CanUse(kv, st, i)})
      BY <2>1, SearchFinds DEF Found
    <2> QED BY <2>2
<1>2. Streams(S) \in SUBSET Stream /\ \A s \in S : StreamOf(s) \in Streams(S)
    BY StreamType DEF Streams
<1>3. IsFiniteSet(S)
    <2>1. IsFiniteSet(SeqId)
      BY SizeAssumption, FS_Interval DEF SeqId
    <2> QED BY <2>1, FS_Subset
<1>4. \A st : IsFiniteSet(InStream(S, st)) /\ Cardinality(InStream(S, st)) \in Nat
    <2>1. \A st : InStream(S, st) \in SUBSET S
      BY DEF InStream
    <2> QED BY <1>3, <2>1, FS_Subset, FS_CardinalityType
<1>5. ASSUME Fits(S), NEW s \in S PROVE Found(S, StreamOf(s))[Rank(S, s)] \in Idx
    <2> DEFINE st == StreamOf(s)
               R == {t \in InStream(S, st) : t <= s}
    <2>1. Cardinality(InStream(S, st)) <= Len(Found(S, st)) /\ st \in Stream
      BY <1>2, <1>5 DEF Fits
    <2>2. R \in SUBSET InStream(S, st) /\ s \in R
      BY SizeAssumption DEF InStream, SeqId
    <2>3. Rank(S, s) = Cardinality(R)
      BY DEF Rank
    <2> HIDE DEF st, R
    <2>4. IsFiniteSet(R) /\ Cardinality(R) <= Cardinality(InStream(S, st)) /\ Cardinality(R) \in Nat
      BY <1>4, <2>2, FS_Subset, FS_CardinalityType
    <2>5. Cardinality(R) # 0
      BY <2>2, <2>4, FS_EmptySet
    <2>6. Cardinality(R) \in 1 .. Len(Found(S, st))
      BY <1>1, <1>4, <2>1, <2>4, <2>5
    <2>7. Found(S, st)[Cardinality(R)] \in Idx
      <3>1. Found(S, st) \in Seq(Idx)
        BY <1>1, <2>1
      <3> QED BY <2>6, <3>1
    <2> QED BY <2>3, <2>7 DEF st
<1>6. ASSUME ~Fits(S) PROVE \E st \in Streams(S) :
        Cardinality({i \in Idx : CanUse(kv, st, i)}) < Cardinality(InStream(S, st))
    <2>1. PICK st \in Streams(S) : ~(Cardinality(InStream(S, st)) <= Len(Found(S, st)))
      BY <1>6 DEF Fits
    <2>2. Cardinality({i \in Idx : CanUse(kv, st, i)}) < Cardinality(InStream(S, st))
      BY <1>1, <1>2, <1>4, <2>1
    <2> QED BY <2>2
<1> QED BY <1>5, <1>6 DEF Slot

\* The ubatch of an entry has a token in the cell.
Held(e, st, i) == Hits(e.at, st, i)

\* Stack g is stack q and one more entry.
Extends(g, q, e) == /\ Len(q) \in Nat /\ Len(g) = Len(q) + 1 /\ g[Len(q) + 1] = e
                    /\ \A j \in 1 .. Len(q) : g[j] = q[j]

\* The ubatches of a stack that grows: the cells as they were before each of them.
LEMMA BeforeGrows ==
    ASSUME NEW g, NEW q, NEW e, Extends(g, q, e), NEW k \in 0 .. Len(q), NEW c, NEW st, NEW i
    PROVE  /\ Tried(g, k, st, i) <=> Tried(q, k, st, i)
           /\ Later(q, k, st, i) # {} => \A b : Before(g, c, k, st, i) = Before(q, b, k, st, i)
           /\ Later(q, k, st, i) = {} /\ Held(e, st, i) => Before(g, c, k, st, i) = Undone(e, st, i)
           /\ Later(q, k, st, i) = {} /\ ~Held(e, st, i) => Before(g, c, k, st, i) = c[st][i]
<1> DEFINE N == Len(q)
           L == Later(q, k, st, i)
           M == Later(g, k, st, i)
<1>1. /\ N \in Nat /\ Len(g) = N + 1 /\ g[N + 1] = e /\ \A j \in 1 .. N : g[j] = q[j]
    BY DEF Extends
<1>2. L = {j \in k + 1 .. N : Hits(q[j].at, st, i)} /\ M = {j \in k + 1 .. N + 1 : Hits(g[j].at, st, i)}
    BY <1>1 DEF Later
<1>3. Tried(g, k, st, i) <=> Tried(q, k, st, i)
    <2>1. \A j \in 1 .. k : j \in 1 .. N
      BY <1>1
    <2> HIDE DEF N
    <2> QED BY <1>1, <2>1 DEF Tried
<1>4. Before(g, c, k, st, i) = IF M = {} THEN c[st][i] ELSE Undone(g[Min(M)], st, i)
    BY DEF Before
<1>5. \A b : Before(q, b, k, st, i) = IF L = {} THEN b[st][i] ELSE Undone(q[Min(L)], st, i)
    BY DEF Before
<1> HIDE DEF N, L, M
<1>6. M = IF Hits(e.at, st, i) THEN L \cup {N + 1} ELSE L
    <2>1. k + 1 .. N + 1 = (k + 1 .. N) \cup {N + 1}
      BY <1>1 DEF N
    <2>2. \A j \in k + 1 .. N : j \in 1 .. N
      BY <1>1 DEF N
    <2>3. \A j \in k + 1 .. N : g[j] = q[j]
      BY <1>1, <2>2
    <2> QED BY <1>1, <1>2, <2>1, <2>3
<1>7. L \in SUBSET Nat /\ N + 1 \in Nat /\ \A j \in L : j \in 1 .. N /\ j < N + 1
    BY <1>1, <1>2 DEF N
<1>8. CASE L # {}
    <2>1. Min(L) \in L /\ \A x \in L : Min(L) <= x
      BY <1>7, <1>8, MinExists
    <2>2. M \in SUBSET Nat /\ M # {} /\ L \in SUBSET M
      BY <1>6, <1>7, <1>8
    <2>3. Min(M) \in M /\ \A x \in M : Min(M) <= x
      BY <2>2, MinExists
    <2>4. Min(M) = Min(L)
      <3> DEFINE m == Min(M)
                 l == Min(L)
      <3>1. l \in L /\ l \in M /\ m \in M /\ l < N + 1 /\ m <= l /\ (m \in L => l <= m) /\ l \in Nat /\ m \in Nat
        BY <1>7, <2>1, <2>2, <2>3
      <3>2. m \in L \/ m = N + 1
        BY <1>6, <3>1
      <3> HIDE DEF m, l
      <3>3. m = l
        BY <1>1, <3>1, <3>2
      <3> QED BY <3>3 DEF m, l
    <2>5. g[Min(L)] = q[Min(L)]
      BY <1>1, <1>7, <2>1
    <2> QED BY <1>3, <1>4, <1>5, <1>8, <2>2, <2>4, <2>5 DEF L, Held
<1>9. CASE L = {} /\ Hits(e.at, st, i)
    <2>1. M = {N + 1}
      BY <1>6, <1>9
    <2>2. Min(M) \in M
      BY <1>7, <2>1, MinExists
    <2>3. Min(M) = N + 1 /\ M # {}
      BY <2>1, <2>2
    <2>4. Before(g, c, k, st, i) = Undone(e, st, i)
      BY <1>1, <1>4, <2>3
    <2> QED BY <1>3, <1>9, <2>4 DEF L, Held
<1>10. CASE L = {} /\ ~Hits(e.at, st, i)
    BY <1>3, <1>4, <1>6, <1>10 DEF L, Held
<1> QED BY <1>8, <1>9, <1>10

\* After the last ubatch the cells are what they are.
LEMMA BeforeLast ==
    ASSUME NEW X, NEW q \in Seq(X), NEW c, NEW st, NEW i
    PROVE  Before(q, c, Len(q), st, i) = c[st][i]
<1>1. Len(q) \in Nat
    OBVIOUS
<1>2. Len(q) + 1 .. Len(q) = {}
    BY <1>1
<1> QED BY <1>2 DEF Before, Later

\* A cell that sequences leave.
LEMMA CellLeft ==
    ASSUME NEW c, NEW ss, NEW st, NEW i, NEW d, NEW r, NEW k, CellOK(c, st, i, d, r, k)
    PROVE  CellOK(Leave(c, ss), st, i, d, r, k)
<1> DEFINE l == Leave(c, ss)
<1>1. Sound(c, st) /\ c \in Cells
    BY DEF CellOK, Sound
<1>2. Sound(l, st) /\ (Fine(c, st, d) => Fine(l, st, d))
    BY <1>1, LeaveFine
<1>3. l = Empty \/ (l.pos = c.pos /\ l.shift = c.shift /\ l.seq \subseteq c.seq)
    BY <1>1, LeaveKeeps
<1> HIDE DEF l
<1>4. ASSUME l = Empty PROVE CellOK(l, st, i, d, r, k)
    BY <1>2, <1>4, EmptyFine DEF CellOK
<1>5. ASSUME l.pos = c.pos, l.shift = c.shift, l.seq \subseteq c.seq PROVE CellOK(l, st, i, d, r, k)
    BY <1>2, <1>5 DEF CellOK
<1> QED BY <1>3, <1>4, <1>5 DEF l

\* The parts of the invariant that the steps of a batch need.
LEMMA BatchParts ==
    ASSUME Inv, run.phase # "idle"
    PROVE  /\ kv \in [Stream -> [Idx -> Cells]] /\ head \in [Stream -> 0 .. Size]
           /\ data \in [Stream -> [Idx -> Data]] /\ origin \in [Stream -> Stream]
           /\ origin = [st \in Stream |-> st] /\ Stream = SeqId /\ MaxPos \in Nat
           /\ RunFor(run, kv, origin) /\ CellsFor(run, kv, data, origin)
           /\ run.S \in SUBSET SeqId /\ run.n \in 1 .. MaxPos + 1 /\ run.k \in Nat
           /\ run.stack \in Seq(Entries(run.S)) /\ run.sinfo \in Seq([run.S -> Idx])
           /\ IsBatch(run)
           /\ \A st \in Stream, i \in Idx :
                CellOK(kv[st][i], st, i, data[st][i], run, Len(run.stack))
<1>1. MemOK /\ RunFor(run, kv, origin) /\ CellsFor(run, kv, data, origin)
    BY DEF Inv, RunOK, CellsOK
<1>2. Stream = SeqId /\ MaxPos \in Nat
    BY StreamType, BoundAssumption
<1>3. origin = [st \in Stream |-> st] /\ run.stack \in Seq(Entries(run.S))
    BY <1>1 DEF RunFor
<1>4. ASSUME NEW st \in Stream, NEW i \in Idx
      PROVE  CellOK(kv[st][i], st, i, data[st][i], run, Len(run.stack))
    <2>1. Len(run.stack) \in 0 .. Len(run.stack)
      BY <1>3
    <2>2. CellOK(Before(run.stack, kv, Len(run.stack), st, i), st, i, data[origin[st]][i], run, Len(run.stack))
      BY <1>1, <2>1 DEF CellsFor
    <2>3. Before(run.stack, kv, Len(run.stack), st, i) = kv[st][i] /\ origin[st] = st
      BY <1>3, BeforeLast
    <2> QED BY <2>2, <2>3
<1> QED BY <1>1, <1>2, <1>3, <1>4 DEF MemOK, RunFor

\* prepare() has placed the batch, or finds no cells for the rest of it.
LEMMA PrepareEndsStep ==
    ASSUME Inv, Prepare, run.k > run.n \/ ~Fits(run.S)
    PROVE  Inv'
<1>1. /\ run.phase = "prepare" /\ kv' = kv /\ head' = head
      /\ UNCHANGED <<unified, data, origin, snap, whole>>
    BY DEF Prepare
<1>2. PICK ok \in BOOLEAN : /\ ok <=> run.k > run.n
                            /\ run' = [run EXCEPT !.phase = "rollback", !.ok = ok]
    <2>1. run' = [run EXCEPT !.phase = "rollback", !.ok = run.k > run.n]
      BY DEF Prepare
    <2>2. CASE run.k > run.n
      <3>1. (run.k > run.n) = TRUE
        BY <2>2
      <3>2. run' = [run EXCEPT !.phase = "rollback", !.ok = TRUE]
        BY <2>1, <3>1, Zenon
      <3> QED BY <2>2, <3>2, Zenon
    <2>3. CASE ~(run.k > run.n)
      <3>1. (run.k > run.n) = FALSE
        BY <2>3
      <3>2. run' = [run EXCEPT !.phase = "rollback", !.ok = FALSE]
        BY <2>1, <3>1, Zenon
      <3> QED BY <2>3, <3>2, Zenon
    <2> QED BY <2>2, <2>3
<1>3. /\ kv \in [Stream -> [Idx -> Cells]] /\ head \in [Stream -> 0 .. Size]
      /\ data \in [Stream -> [Idx -> Data]] /\ origin \in [Stream -> Stream]
      /\ RunFor(run, kv, origin) /\ CellsFor(run, kv, data, origin) /\ IsBatch(run)
      /\ run.S \in SUBSET SeqId
    BY <1>1, BatchParts
<1>4. PICK r : r = run'
    OBVIOUS
<1>5. /\ IsBatch(r) /\ r.phase = "rollback" /\ r.S = run.S /\ r.tok = run.tok /\ r.n = run.n
      /\ r.k = run.k /\ r.ok = ok /\ r.sinfo = run.sinfo /\ r.stack = run.stack
    <2>1. r = [run EXCEPT !.phase = "rollback", !.ok = ok]
      BY <1>2, <1>4
    <2>2. IsBatch(r)
      BY <1>3, <2>1 DEF IsBatch
    <2> QED BY <1>3, <2>1, <2>2 DEF IsBatch
<1>6. RefusedFor(r, kv)
    <2>1. ASSUME ~ok PROVE \E st \in Streams(run.S) :
            Cardinality({i \in Idx : CanUse(kv, st, i)}) < Cardinality(InStream(run.S, st))
      <3>1. ~Fits(run.S)
        BY <1>2, <2>1
      <3> QED BY <1>3, <3>1, SlotShape
    <2> QED BY <1>5, <2>1 DEF RefusedFor
<1>7. RunFor(r, kv, origin)
    <2>1. /\ run.k \in 1 .. run.n + 1 /\ Len(run.sinfo) = run.k - 1 /\ Len(run.stack) <= run.k - 1
          /\ run.n \in 1 .. MaxPos + 1 /\ run.n \in Nat /\ run.k \in Nat /\ origin = [st \in Stream |-> st]
          /\ run.tok \in [run.S -> Tok] /\ run.sinfo \in Seq([run.S -> Idx])
          /\ run.stack \in Seq(Entries(run.S))
      BY <1>1, <1>3 DEF RunFor
    <2>2. ok => run.k = run.n + 1
      BY <1>2, <2>1
    <2> QED BY <1>3, <1>5, <1>6, <2>1, <2>2 DEF RunFor
<1>8. CellsFor(r, kv, data, origin)
    <2>1. \A k : Ahead(r, k) = k /\ Ahead(run, k) = k
      BY <1>1, <1>5 DEF Ahead
    <2>2. \A c, st, i, d, k : CellOK(c, st, i, d, run, k) => CellOK(c, st, i, d, r, k)
      BY <1>1, <1>5, <2>1 DEF CellOK
    <2> QED BY <1>3, <1>5, <2>2 DEF CellsFor
<1> QED BY <1>1, <1>3, <1>4, <1>7, <1>8, BatchStep

\* The next position of a sequence of the batch is in range.
LEMMA NextPos ==
    ASSUME Inv, run.phase # "idle", NEW a \in Nat, a = Ahead(run, Len(run.stack)), a < run.n, NEW s \in run.S
    PROVE  SeqPosMax(kv, s) + 1 \in 0 .. MaxPos /\ SeqPosMax(kv, s) + 1 <= (MaxPos - run.n) + (a + 1)
<1>1. /\ kv \in [Stream -> [Idx -> Cells]] /\ run.S \in SUBSET SeqId /\ run.n \in 1 .. MaxPos + 1
      /\ MaxPos \in Nat
      /\ \A st \in Stream, i \in Idx :
           CellOK(kv[st][i], st, i, data[st][i], run, Len(run.stack))
    BY BatchParts
<1>2. s \in SeqId /\ StreamOf(s) \in Stream /\ \A i \in Idx : kv[StreamOf(s)][i] \in Cells
    BY <1>1, StreamType
<1> DEFINE b == (MaxPos - run.n) + a
           p == SeqPosMax(kv, s)
<1>3. \A i \in Idx : s \in kv[StreamOf(s)][i].seq => kv[StreamOf(s)][i].pos <= b
    BY <1>1, <1>2 DEF CellOK
<1>4. b \in Int
    BY <1>1
<1>5. p \in -1 .. MaxPos /\ (p = -1 \/ p <= b)
    <2> HIDE DEF b
    <2> QED BY <1>2, <1>3, <1>4, GreatestPos
<1> HIDE DEF p
<1>6. p + 1 \in 0 .. MaxPos /\ p + 1 <= (MaxPos - run.n) + (a + 1)
    BY <1>1, <1>5
<1> QED BY <1>6 DEF p

\* prepare() places an ubatch, and keeps what its cells held.
LEMMA PreparePlacesStep ==
    ASSUME Inv, Prepare, ~(run.k > run.n), Fits(run.S)
    PROVE  Inv'
<1> DEFINE at == Slot(run.S)
           e  == [at |-> at, old |-> [s \in run.S |-> kv[StreamOf(s)][at[s]]], head |-> head]
           c  == Taken(at)
           q  == run.stack
           N  == Len(run.stack)
<1>1. /\ run.phase = "prepare" /\ kv' = c /\ head' = HeadsAfter(at)
      /\ run' = [run EXCEPT !.k = @ + 1, !.sinfo = Append(@, at), !.stack = Append(@, e)]
      /\ UNCHANGED <<unified, data, origin, snap, whole>>
    BY DEF Prepare
<1>2. /\ kv \in [Stream -> [Idx -> Cells]] /\ head \in [Stream -> 0 .. Size]
      /\ data \in [Stream -> [Idx -> Data]] /\ origin \in [Stream -> Stream]
      /\ origin = [st \in Stream |-> st] /\ MaxPos \in Nat
      /\ RunFor(run, kv, origin) /\ CellsFor(run, kv, data, origin) /\ IsBatch(run)
      /\ run.S \in SUBSET SeqId /\ run.n \in 1 .. MaxPos + 1
      /\ \A st \in Stream, i \in Idx :
           CellOK(kv[st][i], st, i, data[st][i], run, N)
    BY <1>1, BatchParts
<1>3. /\ run.k \in 1 .. run.n /\ N = run.k - 1 /\ Len(run.sinfo) = run.k - 1 /\ N \in Nat /\ N < run.n
      /\ q \in Seq(Entries(run.S)) /\ run.sinfo \in Seq([run.S -> Idx]) /\ run.tok \in [run.S -> Tok]
      /\ run.ok \in BOOLEAN
    BY <1>1, <1>2 DEF RunFor
<1>4. at \in [run.S -> Idx]
    BY <1>2, SlotShape
<1>5. e \in Entries(run.S)
    <2>1. \A s \in run.S : kv[StreamOf(s)][at[s]] \in Cells
      BY <1>2, <1>4, StreamType
    <2> HIDE DEF at
    <2> QED BY <1>2, <1>4, <2>1 DEF Entries
<1>6. ASSUME NEW s \in run.S
      PROVE  SeqPosMax(kv, s) + 1 \in 0 .. MaxPos /\ SeqPosMax(kv, s) + 1 <= (MaxPos - run.n) + (N + 1)
    <2>1. N = Ahead(run, N) /\ run.phase # "idle"
      BY <1>1 DEF Ahead
    <2> HIDE DEF N
    <2> QED BY <1>3, <2>1, NextPos DEF N
<1> HIDE DEF at
<1>7. /\ c \in [Stream -> [Idx -> Cells]]
      /\ \A st \in Stream, i \in Idx :
           /\ Sound(FilledAt(at, st, i), st)
           /\ \E ss : c[st][i] = Leave(FilledAt(at, st, i), ss)
    <2>1. \A st \in Stream, i \in Idx : Sound(kv[st][i], st)
      BY <1>2 DEF CellOK
    <2> QED BY <1>2, <1>4, <1>6, <2>1, TakenCells
<1>8. HeadsAfter(at) \in [Stream -> 0 .. Size]
    BY <1>2, <1>4, HeadsInRange
<1>9. PICK r : r = run'
    OBVIOUS
<1>10. /\ IsBatch(r) /\ r.phase = "prepare" /\ r.S = run.S /\ r.tok = run.tok /\ r.n = run.n
       /\ r.k = run.k + 1 /\ r.ok = run.ok /\ r.sinfo = Append(run.sinfo, at) /\ r.stack = Append(q, e)
    <2>1. r = [run EXCEPT !.k = @ + 1, !.sinfo = Append(@, at), !.stack = Append(@, e)]
      BY <1>1, <1>9
    <2> HIDE DEF e
    <2>2. IsBatch(r)
      BY <1>2, <2>1 DEF IsBatch
    <2> QED BY <1>1, <1>2, <2>1, <2>2 DEF IsBatch
<1>11. /\ r.stack \in Seq(Entries(run.S)) /\ Len(r.stack) = N + 1
       /\ r.sinfo \in Seq([run.S -> Idx]) /\ Len(r.sinfo) = run.k
    <2> HIDE DEF e, N, q
    <2>1. Append(q, e) \in Seq(Entries(run.S)) /\ Len(Append(q, e)) = Len(q) + 1
      BY <1>3, <1>5, AppendProperties
    <2>2. Append(run.sinfo, at) \in Seq([run.S -> Idx]) /\ Len(Append(run.sinfo, at)) = Len(run.sinfo) + 1
      BY <1>3, <1>4, AppendProperties
    <2> QED BY <1>3, <1>10, <2>1, <2>2 DEF N, q
<1>12. RunFor(r, c, origin)
    <2>1. /\ r.k \in 1 .. r.n + 1 /\ Len(r.stack) = r.k - 1 /\ Len(r.sinfo) = r.k - 1 /\ r.n \in Nat /\ r.k \in Nat
          /\ Len(r.stack) <= r.k - 1 /\ r.n \in 1 .. MaxPos + 1
      <3>1. r.n = run.n /\ r.k = run.k + 1
        BY <1>10
      <3>2. run.k \in 1 .. run.n /\ N = run.k - 1 /\ run.n \in 1 .. MaxPos + 1 /\ MaxPos \in Nat
        BY <1>2, <1>3
      <3> HIDE DEF N
      <3> QED BY <1>11, <3>1, <3>2
    <2>2. RefusedFor(r, c)
      BY <1>10 DEF RefusedFor
    <2> HIDE DEF c
    <2> QED BY <1>2, <1>3, <1>10, <1>11, <2>1, <2>2 DEF RunFor
<1>13. ASSUME NEW st \in Stream, NEW i \in Idx, NEW k \in 0 .. N + 1
       PROVE  CellOK(Before(r.stack, c, k, st, i), st, i, data[st][i], r, k)
    <2>1. \A j, x : CellOK(x, st, i, data[st][i], run, j) /\ (Tried(run.stack, j, st, i) <=> Tried(r.stack, j, st, i))
                    => CellOK(x, st, i, data[st][i], r, j)
      BY <1>1, <1>10 DEF CellOK, Ahead
    <2>2. PICK ss : c[st][i] = Leave(FilledAt(at, st, i), ss)
      BY <1>7
    <2>3. e.at = at
      OBVIOUS
    <2>4. CASE k = N + 1
      <3>1. Before(r.stack, c, k, st, i) = Leave(FilledAt(at, st, i), ss)
        BY <1>11, <2>2, <2>4, BeforeLast
      <3>2. CellOK(FilledAt(at, st, i), st, i, data[st][i], r, k)
        <4>1. r.stack[N + 1] = e /\ \A j \in 1 .. N : r.stack[j] = q[j]
          <5>1. q \in Seq(Entries(run.S)) /\ e \in Entries(run.S) /\ N = Len(q) /\ r.stack = Append(q, e)
            BY <1>3, <1>5, <1>10
          <5> HIDE DEF e, N, q
          <5> QED BY <5>1, AppendProperties
        <4>2. CASE Hits(at, st, i)
          <5> DEFINE s == Min(Placed(at, st, i))
          <5>1. FilledAt(at, st, i) = NewAt(s) /\ s \in run.S
            <6>1. s \in run.S
              BY <1>2, <1>4, <4>2, PlacedShape DEF Hits
            <6> QED BY <4>2, <6>1 DEF FilledAt
          <5> HIDE DEF s
          <5>2. Tried(r.stack, k, st, i)
            <6>1. N + 1 \in 1 .. k /\ Hits(r.stack[N + 1].at, st, i)
              BY <1>3, <2>3, <2>4, <4>1, <4>2
            <6> QED BY <6>1 DEF Tried
          <5>3. SeqPosMax(kv, s) + 1 <= (MaxPos - run.n) + k
            BY <1>6, <2>4, <5>1
          <5>4. NewAt(s).shift = 0 /\ NewAt(s).seq = {s} /\ NewAt(s).pos = SeqPosMax(kv, s) + 1
            BY DEF NewAt
          <5>5. Sound(NewAt(s), st) /\ Ahead(r, k) = k
            BY <1>7, <1>10, <5>1 DEF Ahead
          <5>6. CellOK(NewAt(s), st, i, data[st][i], r, k)
            BY <1>10, <5>2, <5>3, <5>4, <5>5 DEF CellOK
          <5> QED BY <5>1, <5>6
        <4>3. CASE ~Hits(at, st, i)
          <5>1. FilledAt(at, st, i) = kv[st][i] /\ CellOK(kv[st][i], st, i, data[st][i], run, N)
            BY <1>2, <4>3 DEF FilledAt
          <5>2. Tried(run.stack, N, st, i) => Tried(r.stack, k, st, i)
            <6>1. \A j \in 1 .. N : j \in 1 .. k
              BY <1>3, <2>4
            <6> HIDE DEF N
            <6> QED BY <4>1, <6>1 DEF Tried
          <5>3. Ahead(run, N) = N /\ Ahead(r, k) = k /\ N <= k
            BY <1>1, <1>3, <1>10, <2>4 DEF Ahead
          <5> DEFINE x == kv[st][i]
          <5>4. x.pos \in Int
            BY <1>2, CellShape
          <5>5. ASSUME NEW s \in x.seq \cap r.S PROVE x.pos <= (MaxPos - r.n) + Ahead(r, k)
            <6>1. x.pos <= (MaxPos - run.n) + N
              BY <1>1, <1>10, <5>1, <5>3, <5>5 DEF CellOK
            <6> DEFINE b == MaxPos - run.n
                       y == x.pos
            <6>2. b \in Int /\ N \in Int /\ k \in Int /\ N <= k /\ y \in Int /\ y <= b + N
              BY <1>2, <1>3, <5>3, <5>4, <6>1
            <6>3. y <= b + k
              <7> HIDE DEF x, N, b, y
              <7> QED BY <6>2
            <6> QED BY <1>10, <5>3, <6>3
          <5>6. Sound(x, st) /\ x.shift = 0 /\ (~Tried(r.stack, k, st, i) => Fine(x, st, data[st][i]))
            BY <1>1, <5>1, <5>2 DEF CellOK
          <5> HIDE DEF x
          <5>7. CellOK(x, st, i, data[st][i], r, k)
            BY <5>5, <5>6 DEF CellOK
          <5> QED BY <5>1, <5>7 DEF x
        <4> QED BY <4>2, <4>3
      <3> QED BY <3>1, <3>2, CellLeft
    <2>5. CASE k \in 0 .. N
      <3>1. CellOK(Before(q, kv, k, st, i), st, i, data[st][i], run, k)
        BY <1>2, <2>5 DEF CellsFor
      <3>2. /\ Tried(r.stack, k, st, i) <=> Tried(q, k, st, i)
            /\ Later(q, k, st, i) # {} => Before(r.stack, c, k, st, i) = Before(q, kv, k, st, i)
            /\ Later(q, k, st, i) = {} =>
                 Before(r.stack, c, k, st, i) = IF Hits(at, st, i) THEN Undone(e, st, i) ELSE c[st][i]
        <4>1. /\ q \in Seq(Entries(run.S)) /\ e \in Entries(run.S) /\ N = Len(q) /\ r.stack = Append(q, e)
              /\ k \in 0 .. Len(q)
          BY <1>3, <1>5, <1>10, <2>5
        <4> HIDE DEF e, q, c, N
        <4>2. Extends(r.stack, q, e)
          <5>1. Append(q, e)[Len(q) + 1] = e /\ \A j \in 1 .. Len(q) : Append(q, e)[j] = q[j]
            BY <4>1, AppendProperties
          <5>2. Len(Append(q, e)) = Len(q) + 1 /\ Len(q) \in Nat
            BY <4>1, AppendProperties
          <5> QED BY <4>1, <5>1, <5>2 DEF Extends
        <4>3. Held(e, st, i) <=> Hits(at, st, i)
          BY <2>3 DEF Held
        <4> QED BY <4>1, <4>2, <4>3, BeforeGrows
      <3>3. Later(q, k, st, i) = {} => Before(q, kv, k, st, i) = kv[st][i]
        BY DEF Before
      <3>4. Hits(at, st, i) => Undone(e, st, i) = kv[st][i]
        <4>1. Undone(e, st, i) = e.old[Min(Placed(at, st, i))]
          BY DEF Undone
        <4> DEFINE s == Min(Placed(at, st, i))
        <4>2. Hits(at, st, i) => s \in run.S /\ StreamOf(s) = st /\ at[s] = i
          <5>1. run.S \in SUBSET SeqId
            BY <1>2
          <5> HIDE DEF e, q, c, N
          <5> QED BY <1>4, <5>1, PlacedShape DEF Hits
        <4> HIDE DEF s
        <4>3. Hits(at, st, i) => e.old[s] = kv[st][i]
          BY <4>2
        <4> QED BY <4>1, <4>3 DEF s
      <3>5. ~Hits(at, st, i) => FilledAt(at, st, i) = kv[st][i]
        BY DEF FilledAt
      <3>6. \/ Before(r.stack, c, k, st, i) = Before(q, kv, k, st, i)
            \/ Before(r.stack, c, k, st, i) = Leave(Before(q, kv, k, st, i), ss)
        <4> HIDE DEF e, q, c
        <4> QED BY <2>2, <3>2, <3>3, <3>4, <3>5
      <3> DEFINE x == Before(q, kv, k, st, i)
      <3>7. CellOK(x, st, i, data[st][i], r, k)
        <4> HIDE DEF x
        <4>1. CellOK(x, st, i, data[st][i], run, k)
          BY <3>1 DEF x
        <4> QED BY <2>1, <3>2, <4>1
      <3>8. CellOK(Leave(x, ss), st, i, data[st][i], r, k)
        <4> HIDE DEF x
        <4> QED BY <3>7, CellLeft
      <3> QED BY <3>6, <3>7, <3>8
    <2>6. k = N + 1 \/ k \in 0 .. N
      BY <1>3
    <2> QED BY <2>4, <2>5, <2>6
<1>14. CellsFor(r, c, data, origin)
    <2>1. \A st \in Stream : origin[st] = st
      BY <1>2
    <2> HIDE DEF c
    <2> QED BY <1>11, <1>13, <2>1 DEF CellsFor
<1> HIDE DEF c
<1> QED BY <1>1, <1>2, <1>7, <1>8, <1>9, <1>12, <1>14, BatchStep DEF c

\* The last entry of a stack and those before it.
LEMMA TakenBack ==
    ASSUME NEW X, NEW q \in Seq(X), q # <<>>
    PROVE  /\ Front(q) \in Seq(X) /\ Last(q) \in X
           /\ Extends(q, Front(q), Last(q))
<1> DEFINE N == Len(q)
           f == SubSeq(q, 1, N - 1)
<1>1. Front(q) = f /\ Last(q) = q[N]
    BY DEF Front, Last
<1>2. N \in Nat /\ N >= 1 /\ q \in [1 .. N -> X]
    BY EmptySeq
<1>3. f = [j \in 1 .. N - 1 |-> q[j]]
    <2>1. SubSeq(q, 1, N - 1) = [j \in 1 .. 1 + (N - 1) - 1 |-> q[j + 1 - 1]]
      BY <1>2
    <2>2. 1 + (N - 1) - 1 = N - 1 /\ \A j \in 1 .. N - 1 : j + 1 - 1 = j
      BY <1>2
    <2> QED BY <2>1, <2>2
<1>4. N - 1 \in Nat /\ [j \in 1 .. N - 1 |-> q[j]] \in [1 .. N - 1 -> X]
    BY <1>2
<1>5. f \in Seq(X) /\ Len(f) = N - 1
    <2> HIDE DEF f, N
    <2> QED BY <1>3, <1>4, FunctionSeq
<1>6. \A j \in 1 .. N - 1 : f[j] = q[j]
    <2> HIDE DEF f, N
    <2> QED BY <1>3
<1>7. N = Len(f) + 1 /\ q[N] \in X
    BY <1>2, <1>5
<1> HIDE DEF f
<1> QED BY <1>1, <1>2, <1>4, <1>5, <1>6, <1>7 DEF Extends

\* prepare() has taken everything back: the computation begins, or the batch is given up.
LEMMA RollbackEndsStep ==
    ASSUME Inv, Rollback, run.stack = <<>>
    PROVE  Inv'
<1>1. /\ run.phase = "rollback" /\ kv' = kv /\ head' = head
      /\ run' = IF run.ok THEN [run EXCEPT !.phase = "run", !.k = 1] ELSE Idle
      /\ UNCHANGED <<unified, data, origin, snap, whole>>
    BY DEF Rollback
<1>2. /\ kv \in [Stream -> [Idx -> Cells]] /\ head \in [Stream -> 0 .. Size]
      /\ data \in [Stream -> [Idx -> Data]] /\ origin \in [Stream -> Stream]
      /\ origin = [st \in Stream |-> st] /\ MaxPos \in Nat
      /\ RunFor(run, kv, origin) /\ IsBatch(run)
      /\ run.S \in SUBSET SeqId /\ run.n \in 1 .. MaxPos + 1
      /\ \A st \in Stream, i \in Idx :
           CellOK(kv[st][i], st, i, data[st][i], run, 0)
    <2>1. run.phase # "idle" /\ Len(run.stack) = 0
      BY <1>1
    <2> QED BY <2>1, BatchParts
<1>3. \A st \in Stream, i \in Idx : ~Tried(<<>>, 0, st, i) /\ Before(<<>>, kv, 0, st, i) = kv[st][i]
    BY DEF Tried, Before, Later
<1>4. CASE run.ok
    <2>1. PICK r : r = run'
      OBVIOUS
    <2>2. /\ IsBatch(r) /\ r.phase = "run" /\ r.S = run.S /\ r.tok = run.tok /\ r.n = run.n
          /\ r.k = 1 /\ r.ok = run.ok /\ r.sinfo = run.sinfo /\ r.stack = run.stack
      <3>1. r = [run EXCEPT !.phase = "run", !.k = 1]
        BY <1>1, <1>4, <2>1
      <3>2. IsBatch(r)
        BY <1>2, <3>1 DEF IsBatch
      <3> QED BY <1>2, <3>1, <3>2 DEF IsBatch
    <2>3. /\ run.k = run.n + 1 /\ Len(run.sinfo) = run.k - 1 /\ run.tok \in [run.S -> Tok]
          /\ run.sinfo \in Seq([run.S -> Idx]) /\ run.ok \in BOOLEAN
      BY <1>1, <1>2, <1>4 DEF RunFor
    <2>4. RunFor(r, kv, origin)
      <3>1. Len(run.sinfo) = run.n /\ 1 \in 1 .. run.n /\ run.n \in Nat
        BY <1>2, <2>3
      <3>2. RefusedFor(r, kv)
        BY <2>2 DEF RefusedFor
      <3>3. r.stack = <<>> /\ Len(r.stack) = 0 /\ r.stack \in Seq(Entries(r.S)) /\ 0 <= 1 - 1
        BY <2>2
      <3> QED BY <1>2, <2>2, <2>3, <3>1, <3>2, <3>3 DEF RunFor
    <2>5. CellsFor(r, kv, data, origin)
      <3> SUFFICES ASSUME NEW k \in 0 .. Len(r.stack), NEW st \in Stream, NEW i \in Idx
                   PROVE  CellOK(Before(r.stack, kv, k, st, i), st, i, data[origin[st]][i], r, k)
        BY DEF CellsFor
      <3>1. k = 0 /\ r.stack = <<>> /\ origin[st] = st
        BY <1>2, <2>2
      <3>2. Before(r.stack, kv, k, st, i) = kv[st][i]
        BY <1>3, <3>1
      <3>3. Ahead(r, 0) = 0 /\ Ahead(run, 0) = 0
        BY <1>1, <2>2 DEF Ahead
      <3>4. CellOK(kv[st][i], st, i, data[st][i], run, 0)
        BY <1>2
      <3>5. CellOK(kv[st][i], st, i, data[st][i], r, 0)
        BY <1>1, <2>2, <3>3, <3>4 DEF CellOK
      <3> QED BY <3>1, <3>2, <3>5
    <2> QED BY <1>1, <1>2, <2>1, <2>4, <2>5, BatchStep
<1>5. CASE ~run.ok
    <2>1. run' = Idle /\ RunFor(Idle, kv, origin)
      BY <1>1, <1>5, IdleRun
    <2>2. \A st \in Stream, i \in Idx : Fine(kv[st][i], st, data[origin[st]][i])
      BY <1>2, <1>3 DEF CellOK
    <2>3. CellsFor(Idle, kv, data, origin)
      BY <2>2, IdleCells
    <2> QED BY <1>1, <1>2, <2>1, <2>3, BatchStep
<1> QED BY <1>4, <1>5

\* The heads that come back are heads of some stream.
LEMMA HeadsReturn ==
    ASSUME head \in [Stream -> 0 .. Size], run.S \in SUBSET SeqId, NEW h \in [Stream -> 0 .. Size]
    PROVE  HeadsBack(h) \in [Stream -> 0 .. Size]
<1>1. ASSUME NEW st \in Stream PROVE Cardinality({u \in Streams(run.S) : u < st}) \in Stream
    <2> DEFINE B == {u \in Streams(run.S) : u < st}
    <2>1. st \in Nat /\ st <= NSeq - 1 /\ NSeq \in Nat
      BY SizeAssumption DEF Stream, SeqId
    <2>2. B \in SUBSET (0 .. st - 1)
      <3>1. Streams(run.S) \in SUBSET Stream
        BY StreamType DEF Streams
      <3> QED BY <2>1, <3>1 DEF Stream, SeqId
    <2> HIDE DEF B
    <2>3. IsFiniteSet(0 .. st - 1) /\ Cardinality(0 .. st - 1) = st
      <3> DEFINE m == st - 1
      <3>1. m \in Int /\ 0 \in Int
        BY <2>1
      <3> HIDE DEF m
      <3>2. IsFiniteSet(0 .. m) /\ Cardinality(0 .. m) = IF 0 > m THEN 0 ELSE m - 0 + 1
        BY <3>1, FS_Interval
      <3>3. IF 0 > m THEN st = 0 ELSE m - 0 + 1 = st
        BY <2>1 DEF m
      <3> QED BY <3>2, <3>3 DEF m
    <2>4. Cardinality(B) <= st /\ Cardinality(B) \in Nat
      BY <2>2, <2>3, FS_Subset, FS_CardinalityType
    <2>5. Cardinality(B) \in 0 .. NSeq - 1
      BY <2>1, <2>4
    <2> QED BY <2>5 DEF Stream, SeqId, B
<1>2. \A st \in Stream : h[Cardinality({u \in Streams(run.S) : u < st})] \in 0 .. Size
    BY <1>1
<1> QED BY <1>2 DEF HeadsBack

\* prepare() takes the last ubatch back: the cells are again as they were before it.
LEMMA RollbackTakesStep ==
    ASSUME Inv, Rollback, run.stack # <<>>
    PROVE  Inv'
<1> DEFINE q == run.stack
           e == Last(q)
           f == Front(q)
           c == [st \in Stream |-> [i \in Idx |->
                   IF Placed(e.at, st, i) = {} THEN kv[st][i] ELSE e.old[Min(Placed(e.at, st, i))]]]
<1>1. /\ run.phase = "rollback" /\ kv' = c /\ head' = HeadsBack(e.head)
      /\ run' = [run EXCEPT !.stack = Front(@)]
      /\ UNCHANGED <<unified, data, origin, snap, whole>>
    BY DEF Rollback
<1>2. /\ head \in [Stream -> 0 .. Size]
      /\ data \in [Stream -> [Idx -> Data]] /\ origin \in [Stream -> Stream]
      /\ origin = [st \in Stream |-> st] /\ MaxPos \in Nat
      /\ RunFor(run, kv, origin) /\ CellsFor(run, kv, data, origin) /\ IsBatch(run)
      /\ run.S \in SUBSET SeqId /\ run.n \in 1 .. MaxPos + 1 /\ run.k \in Nat
      /\ q \in Seq(Entries(run.S)) /\ run.sinfo \in Seq([run.S -> Idx])
    BY <1>1, BatchParts
<1>3. f \in Seq(Entries(run.S)) /\ e \in Entries(run.S) /\ Extends(q, f, e)
    BY <1>2, TakenBack
<1> HIDE DEF e, f
<1>4. \A st \in Stream, i \in Idx : c[st][i] = IF Held(e, st, i) THEN Undone(e, st, i) ELSE kv[st][i]
    BY DEF Held, Hits, Undone
<1> HIDE DEF c
<1>5. Len(f) \in Nat /\ Len(q) = Len(f) + 1
    BY <1>3 DEF Extends
<1>6. ASSUME NEW st \in Stream, NEW i \in Idx, NEW k \in 0 .. Len(f)
      PROVE  /\ Before(f, c, k, st, i) = Before(q, kv, k, st, i)
             /\ Tried(f, k, st, i) <=> Tried(q, k, st, i)
    <2>1. /\ Tried(q, k, st, i) <=> Tried(f, k, st, i)
          /\ Later(f, k, st, i) # {} => \A b : Before(q, kv, k, st, i) = Before(f, b, k, st, i)
          /\ Later(f, k, st, i) = {} /\ Held(e, st, i) => Before(q, kv, k, st, i) = Undone(e, st, i)
          /\ Later(f, k, st, i) = {} /\ ~Held(e, st, i) => Before(q, kv, k, st, i) = kv[st][i]
      <3> HIDE DEF q
      <3> QED BY <1>3, BeforeGrows
    <2>2. Later(f, k, st, i) = {} => Before(f, c, k, st, i) = c[st][i]
      BY DEF Before
    <2> HIDE DEF q
    <2> QED BY <1>4, <2>1, <2>2
<1>7. PICK r : r = run'
    OBVIOUS
<1>8. /\ IsBatch(r) /\ r.phase = "rollback" /\ r.S = run.S /\ r.tok = run.tok /\ r.n = run.n
      /\ r.k = run.k /\ r.ok = run.ok /\ r.sinfo = run.sinfo /\ r.stack = f
    <2>1. r = [run EXCEPT !.stack = f]
      BY <1>1, <1>7 DEF f
    <2>2. IsBatch(r)
      BY <1>2, <2>1 DEF IsBatch
    <2> QED BY <1>1, <1>2, <2>1, <2>2 DEF IsBatch
<1>9. RunFor(r, c, origin)
    <2>1. /\ run.k \in 1 .. run.n + 1 /\ Len(run.sinfo) = run.k - 1 /\ Len(q) <= run.k - 1
          /\ run.n \in Nat /\ run.tok \in [run.S -> Tok] /\ run.ok \in BOOLEAN
          /\ run.ok => run.k = run.n + 1
      BY <1>1, <1>2 DEF RunFor
    <2>2. Len(f) < run.k - 1
      <3> HIDE DEF q
      <3> QED BY <1>2, <1>5, <2>1
    <2>3. RefusedFor(r, c) /\ Len(r.stack) <= r.k - 1
      BY <1>2, <1>5, <1>8, <2>2 DEF RefusedFor
    <2> QED BY <1>2, <1>3, <1>8, <2>1, <2>3 DEF RunFor
<1>10. CellsFor(r, c, data, origin)
    <2> SUFFICES ASSUME NEW k \in 0 .. Len(f), NEW st \in Stream, NEW i \in Idx
                 PROVE  CellOK(Before(f, c, k, st, i), st, i, data[origin[st]][i], r, k)
      BY <1>8 DEF CellsFor
    <2>1. k \in 0 .. Len(q)
      BY <1>5
    <2>2. CellOK(Before(q, kv, k, st, i), st, i, data[origin[st]][i], run, k)
      BY <1>2, <2>1 DEF CellsFor
    <2> DEFINE x == Before(q, kv, k, st, i)
               d == data[origin[st]][i]
    <2>3. CellOK(x, st, i, d, r, k)
      <3>1. Tried(r.stack, k, st, i) <=> Tried(run.stack, k, st, i)
        BY <1>6, <1>8
      <3>2. Ahead(r, k) = k /\ Ahead(run, k) = k
        BY <1>1, <1>8 DEF Ahead
      <3>3. CellOK(x, st, i, d, run, k)
        BY <2>2
      <3> HIDE DEF x, d
      <3> QED BY <1>1, <1>8, <3>1, <3>2, <3>3 DEF CellOK
    <2>4. Before(f, c, k, st, i) = x
      BY <1>6
    <2> HIDE DEF x, q
    <2> QED BY <2>3, <2>4
<1>11. c \in [Stream -> [Idx -> Cells]]
    <2>1. \A st \in Stream, i \in Idx : c[st][i] \in Cells
      <3> SUFFICES ASSUME NEW st \in Stream, NEW i \in Idx PROVE c[st][i] \in Cells
        OBVIOUS
      <3>1. Len(f) \in 0 .. Len(f) /\ r.stack = f
        BY <1>5, <1>8
      <3>2. CellOK(Before(f, c, Len(f), st, i), st, i, data[origin[st]][i], r, Len(f))
        BY <1>10, <3>1 DEF CellsFor
      <3>3. Before(f, c, Len(f), st, i) = c[st][i]
        BY <1>3, BeforeLast
      <3> QED BY <3>2, <3>3 DEF CellOK, Sound
    <2>2. c = [st \in Stream |-> [i \in Idx |-> c[st][i]]]
      BY DEF c
    <2> QED BY <2>1, <2>2
<1>12. HeadsBack(e.head) \in [Stream -> 0 .. Size]
    <2>1. e.head \in [Stream -> 0 .. Size]
      BY <1>3 DEF Entries
    <2> QED BY <1>2, <2>1, HeadsReturn
<1> QED BY <1>1, <1>2, <1>7, <1>9, <1>10, <1>11, <1>12, BatchStep

\* An ubatch that is about to be computed: its cells, the next positions and the heads.
LEMMA UbatchTaken ==
    ASSUME Inv, run.phase = "run", NEW at, at = run.sinfo[run.k]
    PROVE  /\ kv \in [Stream -> [Idx -> Cells]] /\ head \in [Stream -> 0 .. Size]
           /\ data \in [Stream -> [Idx -> Data]] /\ origin \in [Stream -> Stream]
           /\ origin = [st \in Stream |-> st] /\ MaxPos \in Nat
           /\ RunFor(run, kv, origin) /\ IsBatch(run) /\ run.S \in SUBSET SeqId
           /\ run.n \in 1 .. MaxPos + 1 /\ run.k \in 1 .. run.n /\ run.stack = <<>>
           /\ run.tok \in [run.S -> Tok] /\ at \in [run.S -> Idx]
           /\ \A st \in Stream, i \in Idx :
                CellOK(kv[st][i], st, i, data[st][i], run, 0) /\ Fine(kv[st][i], st, data[st][i])
           /\ \A s \in run.S : SeqPosMax(kv, s) + 1 \in 0 .. MaxPos /\ SeqPosMax(kv, s) + 1 <= (MaxPos - run.n) + run.k
           /\ Taken(at) \in [Stream -> [Idx -> Cells]]
           /\ \A st \in Stream, i \in Idx :
                /\ Sound(FilledAt(at, st, i), st)
                /\ \E ss : Taken(at)[st][i] = Leave(FilledAt(at, st, i), ss)
           /\ HeadsAfter(at) \in [Stream -> 0 .. Size]
<1>1. /\ kv \in [Stream -> [Idx -> Cells]] /\ head \in [Stream -> 0 .. Size]
      /\ data \in [Stream -> [Idx -> Data]] /\ origin \in [Stream -> Stream]
      /\ origin = [st \in Stream |-> st] /\ MaxPos \in Nat
      /\ RunFor(run, kv, origin) /\ IsBatch(run)
      /\ run.S \in SUBSET SeqId /\ run.n \in 1 .. MaxPos + 1
      /\ \A st \in Stream, i \in Idx :
           CellOK(kv[st][i], st, i, data[st][i], run, Len(run.stack))
    BY BatchParts
<1>2. /\ run.k \in 1 .. run.n /\ Len(run.sinfo) = run.n /\ run.stack = <<>> /\ run.tok \in [run.S -> Tok]
      /\ run.sinfo \in Seq([run.S -> Idx])
    BY <1>1 DEF RunFor
<1>3. at \in [run.S -> Idx]
    BY <1>2
<1>4. Len(run.stack) = 0
    BY <1>2
<1>5. ASSUME NEW st \in Stream, NEW i \in Idx
      PROVE  CellOK(kv[st][i], st, i, data[st][i], run, 0) /\ Fine(kv[st][i], st, data[st][i])
    <2>1. CellOK(kv[st][i], st, i, data[st][i], run, 0)
      BY <1>1, <1>4
    <2>2. ~Tried(run.stack, 0, st, i)
      BY DEF Tried
    <2> QED BY <2>1, <2>2 DEF CellOK
<1>6. ASSUME NEW s \in run.S
      PROVE  SeqPosMax(kv, s) + 1 \in 0 .. MaxPos /\ SeqPosMax(kv, s) + 1 <= (MaxPos - run.n) + run.k
    <2> DEFINE a == run.k - 1
    <2>1. a \in Nat /\ a < run.n /\ a + 1 = run.k
      BY <1>1, <1>2
    <2>2. a = Ahead(run, Len(run.stack)) /\ run.phase # "idle"
      BY DEF Ahead
    <2> HIDE DEF a
    <2>3. SeqPosMax(kv, s) + 1 \in 0 .. MaxPos /\ SeqPosMax(kv, s) + 1 <= (MaxPos - run.n) + (a + 1)
      BY <2>1, <2>2, NextPos
    <2> QED BY <2>1, <2>3
<1>7. /\ Taken(at) \in [Stream -> [Idx -> Cells]]
      /\ \A st \in Stream, i \in Idx :
           /\ Sound(FilledAt(at, st, i), st)
           /\ \E ss : Taken(at)[st][i] = Leave(FilledAt(at, st, i), ss)
    <2>1. \A st \in Stream, i \in Idx : Sound(kv[st][i], st)
      BY <1>5 DEF Fine
    <2> QED BY <1>1, <1>3, <1>6, <2>1, TakenCells
<1>8. HeadsAfter(at) \in [Stream -> 0 .. Size]
    BY <1>1, <1>3, HeadsInRange
<1> QED BY <1>1, <1>2, <1>3, <1>5, <1>6, <1>7, <1>8

\* process_ubatch(): the data of the tokens is in their cells.
LEMMA ComputeStep ==
    ASSUME Inv, Compute
    PROVE  Inv'
<1> DEFINE key(s) == SeqPosMax(kv, s) + 1
<1>1. PICK at : at = run.sinfo[run.k]
    OBVIOUS
<1> DEFINE new(s) == [tok |-> run.tok[s], rot |-> key(s)]
           d == [st \in Stream |-> [i \in Idx |->
                   IF Placed(at, st, i) = {} THEN data[st][i] ELSE new(Min(Placed(at, st, i)))]]
<1>2. /\ run.phase = "run" /\ kv' = Taken(at) /\ head' = HeadsAfter(at) /\ data' = d
      /\ Finish /\ UNCHANGED <<unified, origin, snap, whole>>
    BY <1>1 DEF Compute
<1>3. /\ kv \in [Stream -> [Idx -> Cells]] /\ data \in [Stream -> [Idx -> Data]]
      /\ origin \in [Stream -> Stream] /\ origin = [st \in Stream |-> st] /\ MaxPos \in Nat
      /\ RunFor(run, kv, origin) /\ IsBatch(run) /\ run.S \in SUBSET SeqId
      /\ run.n \in 1 .. MaxPos + 1 /\ run.k \in 1 .. run.n /\ run.stack = <<>>
      /\ run.tok \in [run.S -> Tok] /\ at \in [run.S -> Idx]
    BY <1>1, <1>2, UbatchTaken
<1>4. \A st \in Stream, i \in Idx :
        CellOK(kv[st][i], st, i, data[st][i], run, 0) /\ Fine(kv[st][i], st, data[st][i])
    BY <1>1, <1>2, UbatchTaken
<1>5. \A s \in run.S : key(s) \in 0 .. MaxPos /\ key(s) <= (MaxPos - run.n) + run.k
    BY <1>1, <1>2, UbatchTaken
<1>6. /\ Taken(at) \in [Stream -> [Idx -> Cells]] /\ HeadsAfter(at) \in [Stream -> 0 .. Size]
      /\ \A st \in Stream, i \in Idx :
           /\ Sound(FilledAt(at, st, i), st)
           /\ \E ss : Taken(at)[st][i] = Leave(FilledAt(at, st, i), ss)
    BY <1>1, <1>2, UbatchTaken
<1> HIDE DEF key
<1>7. ASSUME NEW st \in Stream, NEW i \in Idx
      PROVE  /\ d[st][i] \in Data /\ Fine(FilledAt(at, st, i), st, d[st][i])
             /\ FilledAt(at, st, i).shift = 0
             /\ \A s \in FilledAt(at, st, i).seq \cap run.S :
                  FilledAt(at, st, i).pos <= (MaxPos - run.n) + run.k
    <2>1. CASE Hits(at, st, i)
      <3> DEFINE s == Min(Placed(at, st, i))
      <3>1. s \in run.S /\ FilledAt(at, st, i) = NewAt(s) /\ d[st][i] = new(s)
        <4>1. s \in run.S
          BY <1>3, <2>1, PlacedShape DEF Hits
        <4> HIDE DEF new
        <4> QED BY <2>1, <4>1 DEF FilledAt, Hits
      <3> HIDE DEF s, d
      <3>2. key(s) \in 0 .. MaxPos /\ key(s) <= (MaxPos - run.n) + run.k /\ run.tok[s] \in Tok
        BY <1>3, <1>5, <3>1
      <3>3. new(s) \in Data /\ new(s).rot = key(s)
        BY <3>2 DEF Data
      <3>4. NewAt(s).shift = 0 /\ NewAt(s).pos = key(s)
        BY DEF NewAt, key
      <3>5. Sound(NewAt(s), st) /\ new(s).rot + NewAt(s).shift = NewAt(s).pos
        BY <1>6, <3>1, <3>2, <3>3, <3>4
      <3> HIDE DEF new
      <3> QED BY <3>1, <3>2, <3>3, <3>4, <3>5 DEF Fine
    <2>2. CASE ~Hits(at, st, i)
      <3>1. FilledAt(at, st, i) = kv[st][i] /\ d[st][i] = data[st][i]
        BY <2>2 DEF FilledAt, Hits
      <3>2. CellOK(kv[st][i], st, i, data[st][i], run, 0) /\ Fine(kv[st][i], st, data[st][i])
        BY <1>4
      <3> DEFINE x == kv[st][i]
      <3>3. x.shift = 0 /\ \A s \in x.seq \cap run.S : x.pos <= (MaxPos - run.n) + (run.k - 1)
        BY <1>2, <3>2 DEF CellOK, Ahead
      <3>4. x.pos \in Int
        BY <1>3, CellShape
      <3>5. \A s \in x.seq \cap run.S : x.pos <= (MaxPos - run.n) + run.k
        <4> HIDE DEF x
        <4>1. run.n \in Int /\ run.k \in Int /\ MaxPos \in Int
          BY <1>3
        <4> QED BY <3>3, <3>4, <4>1
      <3>6. data[st][i] \in Data
        BY <1>3
      <3> HIDE DEF d
      <3> QED BY <3>1, <3>2, <3>3, <3>5, <3>6
    <2> QED BY <2>1, <2>2
<1>8. d \in [Stream -> [Idx -> Data]]
    <2>1. d = [st \in Stream |-> [i \in Idx |-> d[st][i]]]
      OBVIOUS
    <2> HIDE DEF d
    <2> QED BY <1>7, <2>1
<1> HIDE DEF d
<1>9. CASE run.k = run.n
    <2>1. run' = Idle
      BY <1>2, <1>9 DEF Finish
    <2>2. \A st \in Stream, i \in Idx : Fine(Taken(at)[st][i], st, d[origin[st]][i])
      <3> SUFFICES ASSUME NEW st \in Stream, NEW i \in Idx
                   PROVE  Fine(Taken(at)[st][i], st, d[st][i])
        BY <1>3
      <3>1. PICK ss : Taken(at)[st][i] = Leave(FilledAt(at, st, i), ss)
        BY <1>6
      <3>2. Fine(FilledAt(at, st, i), st, d[st][i]) /\ Sound(FilledAt(at, st, i), st)
        BY <1>6, <1>7
      <3> QED BY <3>1, <3>2, LeaveFine
    <2>3. CellsFor(Idle, Taken(at), d, origin) /\ RunFor(Idle, Taken(at), origin)
      BY <2>2, IdleCells, IdleRun
    <2> QED BY <1>2, <1>3, <1>6, <1>8, <2>1, <2>3, BatchStep
<1>10. CASE run.k # run.n
    <2>1. PICK r : r = run'
      OBVIOUS
    <2>2. /\ IsBatch(r) /\ r.phase = "run" /\ r.S = run.S /\ r.tok = run.tok /\ r.n = run.n
          /\ r.k = run.k + 1 /\ r.ok = run.ok /\ r.sinfo = run.sinfo /\ r.stack = run.stack
      <3>1. r = [run EXCEPT !.k = @ + 1]
        BY <1>2, <1>10, <2>1 DEF Finish
      <3>2. IsBatch(r)
        BY <1>3, <3>1 DEF IsBatch
      <3> QED BY <1>2, <1>3, <3>1, <3>2 DEF IsBatch
    <2>3. RunFor(r, Taken(at), origin)
      <3>1. /\ run.sinfo \in Seq([run.S -> Idx]) /\ run.ok \in BOOLEAN /\ Len(run.sinfo) = run.n /\ run.n \in Nat
        BY <1>2, <1>3 DEF RunFor
      <3>2. run.k + 1 \in 1 .. run.n /\ run.k + 1 \in Nat /\ 0 <= (run.k + 1) - 1
        BY <1>3, <1>10
      <3>3. r.stack \in Seq(Entries(r.S)) /\ Len(r.stack) = 0 /\ r.stack = <<>>
        BY <1>3, <2>2
      <3>4. RefusedFor(r, Taken(at))
        BY <2>2 DEF RefusedFor
      <3> QED BY <1>3, <2>2, <3>1, <3>2, <3>3, <3>4 DEF RunFor
    <2>4. CellsFor(r, Taken(at), d, origin)
      <3> SUFFICES ASSUME NEW j \in 0 .. Len(r.stack), NEW st \in Stream, NEW i \in Idx
                   PROVE  CellOK(Before(r.stack, Taken(at), j, st, i), st, i, d[origin[st]][i], r, j)
        BY DEF CellsFor
      <3>1. j = 0 /\ origin[st] = st
        BY <1>3, <2>2
      <3>2. Before(r.stack, Taken(at), 0, st, i) = Taken(at)[st][i]
        BY <1>3, <2>2 DEF Before, Later
      <3>3. PICK ss : Taken(at)[st][i] = Leave(FilledAt(at, st, i), ss)
        BY <1>6
      <3>4. Ahead(r, 0) = run.k
        BY <1>3, <2>2 DEF Ahead
      <3>5. CellOK(FilledAt(at, st, i), st, i, d[st][i], r, 0)
        BY <1>6, <1>7, <2>2, <3>4 DEF CellOK
      <3> QED BY <3>1, <3>2, <3>3, <3>5, CellLeft
    <2> QED BY <1>2, <1>3, <1>6, <1>8, <2>1, <2>3, <2>4, BatchStep
<1> QED BY <1>9, <1>10

\* The computation fails: the positions of the ubatch are removed again, so that no cell
\* is left without data.
LEMMA ComputeFailsStep ==
    ASSUME Inv, ComputeFails
    PROVE  Inv'
<1>1. PICK at : at = run.sinfo[run.k]
    OBVIOUS
<1> DEFINE a == Taken(at)
           late(x) == {s \in run.S : x.pos > SeqPosMax(kv, s)}
           row(st) == [i \in Idx |-> Leave(a[st][i], late(a[st][i]))]
           c == [st \in Stream |-> row(st)]
<1>2. /\ run.phase = "run" /\ kv' = c /\ run' = Idle
      /\ head' = [st \in Stream |-> Lower(HeadsAfter(at)[st], a[st], row(st))]
      /\ UNCHANGED <<unified, data, origin, snap, whole>>
    BY <1>1 DEF ComputeFails
<1>3. /\ kv \in [Stream -> [Idx -> Cells]] /\ data \in [Stream -> [Idx -> Data]]
      /\ origin \in [Stream -> Stream] /\ origin = [st \in Stream |-> st] /\ run.S \in SUBSET SeqId
      /\ at \in [run.S -> Idx]
      /\ \A st \in Stream, i \in Idx : Fine(kv[st][i], st, data[st][i])
    BY <1>1, <1>2, UbatchTaken
<1>4. \A s \in run.S : SeqPosMax(kv, s) + 1 \in 0 .. MaxPos
    BY <1>1, <1>2, UbatchTaken
<1>5. /\ a \in [Stream -> [Idx -> Cells]] /\ HeadsAfter(at) \in [Stream -> 0 .. Size]
      /\ \A st \in Stream, i \in Idx :
           /\ Sound(FilledAt(at, st, i), st)
           /\ \E ss : a[st][i] = Leave(FilledAt(at, st, i), ss)
    BY <1>1, <1>2, UbatchTaken
<1>6. head' \in [Stream -> 0 .. Size]
    <2>1. \A st \in Stream : Lower(HeadsAfter(at)[st], a[st], row(st)) \in 0 .. Size
      BY <1>5, LowerInRange
    <2> QED BY <1>2, <2>1
<1> HIDE DEF a
<1>7. ASSUME NEW st \in Stream, NEW i \in Idx PROVE Fine(c[st][i], st, data[st][i])
    <2> DEFINE x == a[st][i]
    <2>1. c[st][i] = Leave(x, late(x))
      OBVIOUS
    <2>2. PICK ss : x = Leave(FilledAt(at, st, i), ss)
      BY <1>5
    <2>3. Sound(FilledAt(at, st, i), st) /\ x \in Cells
      BY <1>5
    <2> HIDE DEF x, c
    <2>4. CASE Hits(at, st, i)
      <3> DEFINE s == Min(Placed(at, st, i))
      <3>1. s \in run.S /\ FilledAt(at, st, i) = NewAt(s)
        <4>1. s \in run.S
          BY <1>3, <2>4, PlacedShape DEF Hits
        <4> QED BY <2>4, <4>1 DEF FilledAt
      <3> HIDE DEF s
      <3>2. NewAt(s).seq = {s} /\ NewAt(s).pos = SeqPosMax(kv, s) + 1 /\ NewAt(s) \in Cells
        BY <2>3, <3>1 DEF NewAt, Sound
      <3>3. x = Empty \/ (x.pos = SeqPosMax(kv, s) + 1 /\ x.seq \subseteq {s})
        BY <2>2, <3>1, <3>2, LeaveKeeps
      <3>4. CASE x = Empty
        <4>1. Leave(x, late(x)) = Empty
          <5>1. x.seq = {}
            BY <3>4, EmptyFine
          <5> HIDE DEF late
          <5> QED BY <3>4, <5>1 DEF Leave
        <4> QED BY <2>1, <4>1, EmptyFine
      <3>5. CASE x # Empty
        <4>1. x.seq = {s}
          BY <2>3, <3>3, <3>5, CellShape
        <4>2. s \in late(x)
          <5>1. SeqPosMax(kv, s) + 1 \in 0 .. MaxPos /\ SeqPosMax(kv, s) \in Int
            <6>1. s \in SeqId /\ StreamOf(s) \in Stream
              BY <1>3, <3>1, StreamType
            <6>2. SeqPosMax(kv, s) \in -1 .. MaxPos
              BY <1>3, <6>1, GreatestPos
            <6> QED BY <1>4, <3>1, <6>2
          <5>2. x.pos > SeqPosMax(kv, s)
            BY <3>3, <3>5, <5>1
          <5> QED BY <3>1, <5>2
        <4> HIDE DEF late
        <4>3. Leave(x, late(x)) = Empty
          BY <4>1, <4>2 DEF Leave
        <4> QED BY <2>1, <4>3, EmptyFine
      <3> QED BY <3>4, <3>5
    <2>5. CASE ~Hits(at, st, i)
      <3>1. FilledAt(at, st, i) = kv[st][i]
        BY <2>5 DEF FilledAt
      <3>2. Fine(kv[st][i], st, data[st][i]) /\ Sound(kv[st][i], st)
        BY <1>3, <2>3, <3>1
      <3>3. Fine(x, st, data[st][i]) /\ Sound(x, st)
        BY <2>2, <3>1, <3>2, LeaveFine
      <3> HIDE DEF late
      <3> QED BY <2>1, <3>3, LeaveFine
    <2> QED BY <2>4, <2>5
<1>8. c \in [Stream -> [Idx -> Cells]]
    <2>1. c = [st \in Stream |-> [i \in Idx |-> c[st][i]]]
      OBVIOUS
    <2> HIDE DEF c
    <2> QED BY <1>7, <2>1 DEF Fine, Sound
<1>9. RunFor(Idle, c, origin) /\ CellsFor(Idle, c, data, origin)
    <2>1. \A st \in Stream, i \in Idx : Fine(c[st][i], st, data[origin[st]][i])
      BY <1>3, <1>7
    <2> HIDE DEF c
    <2> QED BY <2>1, IdleCells, IdleRun
<1> HIDE DEF c, row
<1> QED BY <1>2, <1>3, <1>6, <1>8, <1>9, BatchStep

-----------------------------------------------------------------------------
(* The theorems.                                                           *)

\* An empty cache.
LEMMA InitStep == Init => Inv
<1> SUFFICES ASSUME Init PROVE Inv
    OBVIOUS
<1>1. Blank \in Data /\ 0 \in 0 .. Size /\ Empty \in Cells
    BY SizeAssumption, BoundAssumption, EmptyFine DEF Blank, Data
<1>2. MemOK
    BY <1>1 DEF Init, MemOK
<1>3. RunOK
    BY IdleRun DEF Init, RunOK
<1>4. \A st \in Stream, i \in Idx : Fine(kv[st][i], st, data[origin[st]][i])
    BY EmptyFine DEF Init
<1>5. CellsOK
    BY <1>4, IdleCells DEF Init, CellsOK
<1>6. SavedOK
    <2>1. \A X : <<>> \in Seq(X) /\ Len(<<>>) = 0
      OBVIOUS
    <2> QED BY <2>1 DEF Init, SavedOK, Rotation, NothingSaved
<1> QED BY <1>2, <1>3, <1>5, <1>6 DEF Inv

\* Every step keeps the invariant.
LEMMA NextStep ==
    ASSUME Careful, Inv, [Next]_vars
    PROVE  Inv'
<1>1. CASE Clear
    BY <1>1, ClearStep
<1>2. ASSUME NEW r \in Ranges, SeqRmAny(r[1], r[2]) PROVE Inv'
    BY <1>2, SeqRmAnyStep
<1>3. ASSUME NEW r \in Ranges, NEW s \in SeqId, SeqRm(s, r[1], r[2]) PROVE Inv'
    BY <1>3, SeqRmStep
<1>4. ASSUME NEW s \in SeqId, NEW t \in SeqId, NEW p0, NEW p1, SeqCpShared(s, t, p0, p1) PROVE Inv'
    BY <1>4, SeqCpSharedStep
<1>5. ASSUME NEW r \in Ranges, NEW s \in SeqId, NEW d \in Deltas, SeqAdd(s, r[1], r[2], d) PROVE Inv'
    <2>1. d \in Int
      BY BoundAssumption
    <2> QED BY <1>5, <2>1, SeqAddStep
<1>6. ASSUME NEW s \in SeqId, SeqKeep(s) \/ StateRead(s) PROVE Inv'
    BY <1>6, SeqKeepStep, StateReadStep
<1>7. ASSUME NEW s \in SeqId, NEW t \in SeqId, SeqCpStream(s, t) PROVE Inv'
    BY <1>7, SeqCpStreamStep
<1>8. ASSUME NEW s \in Savers, StateWrite(s) PROVE Inv'
    <2>1. s \in SeqId
      BY SizeAssumption DEF SeqId
    <2> QED BY <1>8, <2>1, StateWriteStep
<1>9. ASSUME NEW S \in SUBSET SeqId, NEW tok \in [S -> Tok], NEW n \in 1 .. MaxUb, Decode(S, tok, n) PROVE Inv'
    <2>1. n \in Nat
      BY BoundAssumption
    <2> QED BY <1>9, <2>1, DecodeStep
<1>10. CASE Prepare
    BY <1>10, PrepareEndsStep, PreparePlacesStep
<1>11. CASE Rollback
    BY <1>11, RollbackEndsStep, RollbackTakesStep
<1>12. CASE Compute
    BY <1>12, ComputeStep
<1>13. CASE ComputeFails
    BY <1>13, ComputeFailsStep
<1>14. CASE StateWriteAll \/ StateReadAll
    BY <1>14, StateWriteAllStep, StateReadAllStep
<1>15. CASE UNCHANGED vars
    <2>1. /\ UNCHANGED <<unified, kv, head, data, origin, run, snap, whole>>
      BY <1>15 DEF vars
    <2>2. MemOK' /\ SavedOK'
      BY <2>1, SavedKept DEF Inv, MemOK
    <2>3. CellsFor(run', kv', data', origin') /\ RunFor(run', kv', origin')
      BY <2>1 DEF Inv, CellsOK, RunOK
    <2> QED BY <2>1, <2>2, <2>3, StateAfter DEF Inv
<1> QED BY <1>1, <1>2, <1>3, <1>4, <1>5, <1>6, <1>7, <1>8, <1>9, <1>10, <1>11, <1>12, <1>13, <1>14, <1>15 DEF Next

\* The inductive invariant.
THEOREM KeysAlways == ASSUME Careful PROVE Spec => []Inv
<1>1. Init => Inv
    BY InitStep
<1>2. Inv /\ [Next]_vars => Inv'
    BY NextStep
<1> QED BY <1>1, <1>2, PTL DEF Spec

\* What a cell is when the placed ubatches are counted.
LEMMA CellsNow ==
    ASSUME Inv, NEW st \in Stream, NEW i \in Idx
    PROVE  CellOK(kv[st][i], st, i, data[origin[st]][i], run, Len(run.stack))
<1>1. run.stack \in Seq(Entries(run.S)) /\ CellsFor(run, kv, data, origin)
    BY DEF Inv, RunOK, RunFor, CellsOK
<1>2. Len(run.stack) \in 0 .. Len(run.stack)
    BY <1>1
<1>3. Before(run.stack, kv, Len(run.stack), st, i) = kv[st][i]
    BY <1>1, BeforeLast
<1>4. CellOK(Before(run.stack, kv, Len(run.stack), st, i), st, i, data[origin[st]][i], run, Len(run.stack))
    BY <1>1, <1>2 DEF CellsFor
<1> QED BY <1>3, <1>4

\* Every cell is free and clean or has a position and sequences of its stream, and the
\* heads stay in range, through all calls and whatever prepare() places and takes back.
THEOREM TypeCorrect == ASSUME Careful PROVE Spec => []TypeOK
<1>1. ASSUME Inv PROVE TypeOK
    <2>1. \A st \in Stream, i \in Idx, s \in SeqId : s \in kv[st][i].seq => StreamOf(s) = st
      BY <1>1, CellsNow DEF CellOK, Sound
    <2>2. run.phase \in {"idle", "prepare", "rollback", "run"}
      BY <1>1 DEF Inv, RunOK, RunFor
    <2> QED BY <1>1, <2>1, <2>2 DEF TypeOK, Inv, MemOK
<1>2. Inv => TypeOK
    BY <1>1
<1> QED BY <1>2, KeysAlways, PTL

\* The key of every token is, or with the next update will be, rotated for the position
\* of the token: copies between streams, shifts, updates, batches that are placed, taken
\* back, computed or given up, and saved states neither lose a shift nor apply one twice.
THEOREM KeysInPlace == ASSUME Careful PROVE Spec => []KeysFollowPositions
<1>1. ASSUME Inv PROVE KeysFollowPositions
    <2> SUFFICES ASSUME NEW st \in Stream, NEW i \in Used(kv, st) \ OnTrial(st)
                 PROVE  data[origin[st]][i].rot + kv[st][i].shift = kv[st][i].pos
      BY DEF KeysFollowPositions
    <2>1. i \in Idx /\ kv[st][i].pos # Free
      BY DEF Used
    <2>2. CellOK(kv[st][i], st, i, data[origin[st]][i], run, Len(run.stack))
      BY <1>1, <2>1, CellsNow
    <2>3. run.stack \in Seq(Entries(run.S))
      BY <1>1 DEF Inv, RunOK, RunFor
    <2>4. ASSUME NEW j \in 1 .. Len(run.stack), Hits(run.stack[j].at, st, i) PROVE FALSE
      <3> DEFINE e == run.stack[j]
      <3>1. e \in Range(run.stack) /\ e \in Entries(run.S)
        BY <2>3 DEF Range
      <3>2. PICK s \in DOMAIN e.at : StreamOf(s) = st /\ e.at[s] = i
        BY <2>4 DEF Hits, Placed
      <3>3. DOMAIN e.at = run.S
        BY <3>1 DEF Entries
      <3>4. s \in InStream(run.S, st)
        BY <3>2, <3>3 DEF InStream
      <3> HIDE DEF e
      <3>5. i \in OnTrial(st)
        BY <3>1, <3>2, <3>4 DEF OnTrial
      <3> QED BY <3>5
    <2>5. ~Tried(run.stack, Len(run.stack), st, i)
      BY <2>4 DEF Tried
    <2> QED BY <2>1, <2>2, <2>5 DEF CellOK, Fine
<1>2. Inv => KeysFollowPositions
    BY <1>1
<1> QED BY <1>2, KeysAlways, PTL

\* A ubatch is refused only when its stream has too few usable cells, wherever the head
\* stands: the search goes around.
THEOREM RefusedRight == ASSUME Careful PROVE Spec => []RefusedOnlyWhenFull
<1>1. Inv => RefusedOnlyWhenFull
    BY DEF Inv, RunOK, RunFor, RefusedFor, RefusedOnlyWhenFull
<1> QED BY <1>1, KeysAlways, PTL

-----------------------------------------------------------------------------
(***************************************************************************)
(* The cells of a context without a sliding window are the memory that     *)
(* lhm.h promises, SequenceMemory, for any number of streams, cells and    *)
(* sequences and any batches, as long as callers are Careful.              *)
(*                                                                         *)
(* The tokens of a sequence are read off its cells, where the data of a    *)
(* cell is what the pending copies will bring, and cells that prepare()    *)
(* has taken on trial do not count.  A call between two batches changes    *)
(* them like the operation of the memory.  For a batch it matters that     *)
(* find_slot() gives each token an empty cell of its own: taking it purges *)
(* nothing, giving it back leaves it empty, and computing it adds one      *)
(* token.  That is PlacesOK, which the invariant above does not need and   *)
(* which fails with a window: there a used cell may be taken.              *)
(***************************************************************************)

-----------------------------------------------------------------------------
(* The content of a sequence.                                              *)

\* What a sequence holds when nothing is on trial; c has the cells, d the data and o the
\* streams that data comes from.
Tokens(c, d, o, s) ==
    {<<c[StreamOf(s)][i].pos, d[o[StreamOf(s)]][i].tok>> : i \in {j \in Idx : s \in c[StreamOf(s)][j].seq}}

LEMMA TokensEqual ==
    ASSUME NEW c, NEW d, NEW o, NEW q, NEW c2, NEW d2, NEW o2, NEW q2,
           \A i \in Idx : q \in c[StreamOf(q)][i].seq <=> q2 \in c2[StreamOf(q2)][i].seq,
           \A i \in Idx : q \in c[StreamOf(q)][i].seq =>
              /\ c[StreamOf(q)][i].pos = c2[StreamOf(q2)][i].pos
              /\ d[o[StreamOf(q)]][i].tok = d2[o2[StreamOf(q2)]][i].tok
    PROVE  Tokens(c, d, o, q) = Tokens(c2, d2, o2, q2)
<1> DEFINE I == {i \in Idx : q \in c[StreamOf(q)][i].seq}
           e(i) == <<c[StreamOf(q)][i].pos, d[o[StreamOf(q)]][i].tok>>
           e2(i) == <<c2[StreamOf(q2)][i].pos, d2[o2[StreamOf(q2)]][i].tok>>
<1>1. I = {i \in Idx : q2 \in c2[StreamOf(q2)][i].seq}
    OBVIOUS
<1>2. \A i \in I : e(i) = e2(i)
    OBVIOUS
<1>3. Tokens(c, d, o, q) = {e(i) : i \in I} /\ Tokens(c2, d2, o2, q2) = {e2(i) : i \in I}
    BY <1>1 DEF Tokens
<1> HIDE DEF I, e, e2
<1> QED BY <1>2, <1>3

\* Nothing is on trial when the stack of prepare() is empty.
LEMMA ContentNow ==
    ASSUME run.stack = <<>>
    PROVE  \A s \in SeqId : SeqContent(s) = Tokens(kv, data, origin, s)
<1>1. \A st : OnTrial(st) = {}
    BY DEF OnTrial, Range
<1> QED BY <1>1 DEF SeqContent, Tokens, CellsOf

LEMMA ContentNext ==
    ASSUME UNCHANGED unified, run'.stack = <<>>
    PROVE  \A s \in SeqId : SeqContent(s)' = Tokens(kv', data', origin', s)
<1>1. \A st : OnTrial(st)' = {}
    BY DEF OnTrial, Range
<1> QED BY <1>1 DEF SeqContent, Tokens, CellsOf, StreamOf

\* The saved states are those that callers hold.
LEMMA SavedSame ==
    ASSUME UNCHANGED <<snap, whole>>
    PROVE  /\ UNCHANGED SavedContent(Range(snap))
           /\ UNCHANGED [s \in SeqId |-> SavedOf(s)]
BY DEF SavedContent, SavedOf

\* Removing a range of one sequence.
LEMMA RemoveMaps ==
    ASSUME NEW s \in SeqId, NEW lo, NEW hi, UNCHANGED <<snap, whole>>,
           \A q \in SeqId : SeqContent(q)' = IF q = s THEN SeqContent(s) \ Memory!Inside(SeqContent(s), lo, hi)
                                             ELSE SeqContent(q)
    PROVE  Memory!Remove(s, lo, hi)
BY SavedSame DEF Memory!Remove

\* The cell of a sequence that others leave, and those that leave it.
LEMMA LeaveContent ==
    ASSUME NEW c \in Cells, NEW ss, NEW q
    PROVE  /\ q \in Leave(c, ss).seq <=> q \in c.seq /\ q \notin ss
           /\ q \in Leave(c, ss).seq => Leave(c, ss).pos = c.pos
<1>1. CASE c.seq \cap ss = {}
    BY <1>1 DEF Leave
<1>2. CASE c.seq \cap ss # {} /\ c.seq \subseteq ss
    BY <1>2 DEF Leave, Empty
<1>3. CASE c.seq \cap ss # {} /\ ~(c.seq \subseteq ss)
    <2>1. Leave(c, ss) = [c EXCEPT !.seq = @ \ ss]
      BY <1>3 DEF Leave
    <2>2. c # Empty
      BY <1>3 DEF Empty
    <2>3. c = [pos |-> c.pos, seq |-> c.seq, shift |-> c.shift]
      BY <2>2, CellShape DEF Cells
    <2> QED BY <2>1, <2>3
<1> QED BY <1>1, <1>2, <1>3

\* A cell with a sequence has a position.
LEMMA HasPos ==
    ASSUME NEW c \in Cells, NEW q \in c.seq
    PROVE  c.pos # Free /\ c.pos \in 0 .. MaxPos
BY CellShape

-----------------------------------------------------------------------------
(* Calls between two batches.                                              *)

\* clear()
LEMMA ClearMaps ==
    ASSUME Inv, Clear
    PROVE  Memory!Clear
<1>1. /\ UNCHANGED <<unified, origin, run, snap, whole>> /\ run.stack = <<>> /\ run'.stack = <<>>
      /\ kv' = [st \in Stream |-> [i \in Idx |-> Empty]]
    BY DEF Clear, Idle
<1>2. ASSUME NEW q \in SeqId PROVE SeqContent(q)' = {}
    <2>1. StreamOf(q) \in Stream
      BY StreamType
    <2>2. \A i \in Idx : q \notin kv'[StreamOf(q)][i].seq
      BY <1>1, <2>1, EmptyFine
    <2> QED BY <1>1, <2>2, ContentNext DEF Tokens
<1> QED BY <1>1, <1>2, SavedSame DEF Memory!Clear, Memory!None

\* Between two batches the positions of a sequence are those of its cells.
LEMMA ContentPos ==
    ASSUME Inv, run = Idle, NEW q \in SeqId
    PROVE  /\ \A e \in SeqContent(q) : e[1] \in 0 .. MaxPos
           /\ SeqContent(q) = Tokens(kv, data, origin, q)
           /\ \A i \in Idx : kv[StreamOf(q)][i] \in Cells
<1>1. SeqContent(q) = Tokens(kv, data, origin, q)
    BY ContentNow DEF Idle
<1>2. \A i \in Idx : kv[StreamOf(q)][i] \in Cells
    BY IdleParts, StreamType
<1>3. \A i \in Idx : q \in kv[StreamOf(q)][i].seq => kv[StreamOf(q)][i].pos \in 0 .. MaxPos
    BY <1>2, HasPos
<1> QED BY <1>1, <1>2, <1>3 DEF Tokens

\* The cells change, the data does not: the sequence keeps what it has at the positions of P.
LEMMA CellsMap ==
    ASSUME run = Idle, UNCHANGED <<unified, data, origin, run>>, NEW q \in SeqId, NEW P,
           \A i \in Idx : /\ q \in kv'[StreamOf(q)][i].seq <=> q \in kv[StreamOf(q)][i].seq /\ kv[StreamOf(q)][i].pos \in P
                          /\ q \in kv'[StreamOf(q)][i].seq => kv'[StreamOf(q)][i].pos = kv[StreamOf(q)][i].pos
    PROVE  SeqContent(q)' = {e \in SeqContent(q) : e[1] \in P}
<1>1. run.stack = <<>> /\ run'.stack = <<>>
    BY DEF Idle
<1> QED BY <1>1, ContentNow, ContentNext DEF Tokens

\* Or it keeps all that it has.
LEMMA CellsSame ==
    ASSUME run = Idle, UNCHANGED <<unified, data, origin, run>>, NEW q \in SeqId,
           \A i \in Idx : /\ q \in kv'[StreamOf(q)][i].seq <=> q \in kv[StreamOf(q)][i].seq
                          /\ q \in kv'[StreamOf(q)][i].seq => kv'[StreamOf(q)][i].pos = kv[StreamOf(q)][i].pos
    PROVE  SeqContent(q)' = SeqContent(q)
<1>1. run.stack = <<>> /\ run'.stack = <<>>
    BY DEF Idle
<1>2. SeqContent(q) = Tokens(kv, data, origin, q) /\ SeqContent(q)' = Tokens(kv', data, origin, q)
    BY <1>1, ContentNow, ContentNext
<1>3. {i \in Idx : q \in kv'[StreamOf(q)][i].seq} = {i \in Idx : q \in kv[StreamOf(q)][i].seq}
    OBVIOUS
<1> QED BY <1>2, <1>3 DEF Tokens

\* The positions outside of a range.
Outside(lo, hi) == {p \in 0 .. MaxPos : ~((lo < 0 \/ lo <= p) /\ (hi < 0 \/ p < hi))}

LEMMA InsideRange ==
    ASSUME Inv, run = Idle, NEW q \in SeqId, NEW lo, NEW hi
    PROVE  /\ {e \in SeqContent(q) : e[1] \in Outside(lo, hi)} = SeqContent(q) \ Memory!Inside(SeqContent(q), lo, hi)
           /\ \A i \in Idx : q \in kv[StreamOf(q)][i].seq =>
                (PosIn(kv[StreamOf(q)][i], lo, hi) <=> ~(kv[StreamOf(q)][i].pos \in Outside(lo, hi)))
<1>1. \A e \in SeqContent(q) : e[1] \in 0 .. MaxPos
    BY ContentPos
<1>2. \A i \in Idx : q \in kv[StreamOf(q)][i].seq => kv[StreamOf(q)][i].pos # Free /\ kv[StreamOf(q)][i].pos \in 0 .. MaxPos
    BY ContentPos, HasPos
<1>3. \A i \in Idx : q \in kv[StreamOf(q)][i].seq =>
        (PosIn(kv[StreamOf(q)][i], lo, hi) <=> ~(kv[StreamOf(q)][i].pos \in Outside(lo, hi)))
    BY <1>2 DEF PosIn, Outside
<1> QED BY <1>1, <1>3 DEF Outside, Memory!Inside

\* seq_rm() of one sequence.
LEMMA SeqRmMaps ==
    ASSUME Inv, NEW s \in SeqId, NEW lo, NEW hi, SeqRm(s, lo, hi)
    PROVE  Memory!Remove(s, lo, hi)
<1> DEFINE st == StreamOf(s)
<1>1. /\ UNCHANGED <<unified, data, origin, run, snap, whole>> /\ run = Idle
      /\ kv' = [kv EXCEPT ![st] = SeqRmCells(kv[st], s, lo, hi)]
    BY DEF SeqRm, Change
<1>2. st \in Stream /\ kv \in [Stream -> [Idx -> Cells]]
    BY <1>1, StreamType, IdleParts
<1>3. \A i \in Idx : kv'[st][i] = IF PosIn(kv[st][i], lo, hi) THEN Leave(kv[st][i], {s}) ELSE kv[st][i]
    BY <1>1, <1>2 DEF SeqRmCells
<1>4. \A q \in SeqId, i \in Idx : StreamOf(q) # st => kv'[StreamOf(q)][i] = kv[StreamOf(q)][i]
    BY <1>1, <1>2, StreamType
<1>5. ASSUME NEW q \in SeqId, q # s PROVE SeqContent(q)' = SeqContent(q)
    <2>1. ASSUME NEW i \in Idx
          PROVE  /\ q \in kv'[StreamOf(q)][i].seq <=> q \in kv[StreamOf(q)][i].seq
                 /\ q \in kv'[StreamOf(q)][i].seq => kv'[StreamOf(q)][i].pos = kv[StreamOf(q)][i].pos
      <3>1. kv[StreamOf(q)][i] \in Cells
        BY <1>1, ContentPos
      <3> QED BY <1>3, <1>4, <1>5, <3>1, LeaveContent
    <2> QED BY <1>1, <2>1, CellsSame
<1>6. SeqContent(s)' = SeqContent(s) \ Memory!Inside(SeqContent(s), lo, hi)
    <2>1. ASSUME NEW i \in Idx
          PROVE  /\ s \in kv'[st][i].seq <=> s \in kv[st][i].seq /\ kv[st][i].pos \in Outside(lo, hi)
                 /\ s \in kv'[st][i].seq => kv'[st][i].pos = kv[st][i].pos
      <3>1. kv[st][i] \in Cells
        BY <1>2
      <3>2. s \in kv[st][i].seq => (PosIn(kv[st][i], lo, hi) <=> ~(kv[st][i].pos \in Outside(lo, hi)))
        BY <1>1, InsideRange
      <3> HIDE DEF st
      <3> QED BY <1>3, <3>1, <3>2, LeaveContent
    <2>2. SeqContent(s)' = {e \in SeqContent(s) : e[1] \in Outside(lo, hi)}
      BY <1>1, <2>1, CellsMap
    <2> QED BY <1>1, <2>2, InsideRange
<1> QED BY <1>1, <1>5, <1>6, RemoveMaps

\* seq_rm() of every sequence.
LEMMA SeqRmAnyMaps ==
    ASSUME Inv, NEW lo, NEW hi, SeqRmAny(lo, hi)
    PROVE  Memory!RemoveAny(lo, hi)
<1>1. /\ UNCHANGED <<unified, data, origin, run, snap, whole>> /\ run = Idle
      /\ kv' = [st \in Stream |-> [i \in Idx |-> IF PosIn(kv[st][i], lo, hi) THEN Empty ELSE kv[st][i]]]
    BY DEF SeqRmAny
<1>2. ASSUME NEW q \in SeqId PROVE SeqContent(q)' = SeqContent(q) \ Memory!Inside(SeqContent(q), lo, hi)
    <2> DEFINE st == StreamOf(q)
    <2>1. ASSUME NEW i \in Idx
          PROVE  /\ q \in kv'[st][i].seq <=> q \in kv[st][i].seq /\ kv[st][i].pos \in Outside(lo, hi)
                 /\ q \in kv'[st][i].seq => kv'[st][i].pos = kv[st][i].pos
      <3>1. kv'[st][i] = IF PosIn(kv[st][i], lo, hi) THEN Empty ELSE kv[st][i]
        BY <1>1, StreamType
      <3>2. q \in kv[st][i].seq => (PosIn(kv[st][i], lo, hi) <=> ~(kv[st][i].pos \in Outside(lo, hi)))
        BY <1>1, InsideRange
      <3> HIDE DEF st
      <3> QED BY <3>1, <3>2, EmptyFine
    <2>2. SeqContent(q)' = {e \in SeqContent(q) : e[1] \in Outside(lo, hi)}
      BY <1>1, <2>1, CellsMap
    <2> QED BY <1>1, <2>2, InsideRange
<1> QED BY <1>1, <1>2, SavedSame DEF Memory!RemoveAny

\* seq_keep()
LEMMA SeqKeepMaps ==
    ASSUME Inv, Careful, NEW s \in SeqId, SeqKeep(s)
    PROVE  Memory!Keep(s)
<1> DEFINE new(i) == [kv[0][i] EXCEPT !.seq = {s}]
<1>1. /\ UNCHANGED <<unified, data, origin, run, snap, whole>> /\ run = Idle /\ unified
      /\ kv' = [kv EXCEPT ![0] = [i \in Idx |-> IF s \in kv[0][i].seq THEN new(i) ELSE Empty]]
    BY DEF SeqKeep, Change, StreamOf
<1>2. \A q : StreamOf(q) = 0
    BY <1>1 DEF StreamOf
<1>3. 0 \in Stream /\ kv \in [Stream -> [Idx -> Cells]]
    BY <1>1, <1>2, StreamType, IdleParts
<1>4. ASSUME NEW i \in Idx
      PROVE  /\ s \in kv[0][i].seq => kv'[0][i].seq = {s} /\ kv'[0][i].pos = kv[0][i].pos
             /\ s \notin kv[0][i].seq => kv'[0][i] = Empty
    <2>1. kv'[0][i] = IF s \in kv[0][i].seq THEN new(i) ELSE Empty
      BY <1>1, <1>3
    <2>2. ASSUME s \in kv[0][i].seq PROVE new(i).seq = {s} /\ new(i).pos = kv[0][i].pos
      <3> DEFINE c == kv[0][i]
      <3>1. c \in Cells /\ s \in c.seq
        BY <1>3, <2>2
      <3>2. new(i) = [c EXCEPT !.seq = {s}]
        OBVIOUS
      <3> HIDE DEF c, new
      <3>3. c = [pos |-> c.pos, seq |-> c.seq, shift |-> c.shift]
        BY <3>1, CellShape
      <3> QED BY <3>2, <3>3 DEF c
    <2> QED BY <2>1, <2>2
<1>5. SeqContent(s)' = SeqContent(s)
    BY <1>1, <1>2, <1>4, EmptyFine, CellsSame
<1>6. ASSUME NEW q \in SeqId, q # s PROVE SeqContent(q)' = {}
    <2>1. \A i \in Idx : q \notin kv'[StreamOf(q)][i].seq
      BY <1>2, <1>4, <1>6, EmptyFine
    <2>2. SeqContent(q)' = Tokens(kv', data', origin', q)
      BY <1>1, ContentNext DEF Idle
    <2> QED BY <2>1, <2>2 DEF Tokens
<1> QED BY <1>1, <1>5, <1>6, SavedSame DEF Memory!Keep

\* seq_cp() within a stream.
LEMMA SeqCpSharedMaps ==
    ASSUME Inv, Careful, NEW s \in SeqId, NEW t \in SeqId, NEW lo, NEW hi, SeqCpShared(s, t, lo, hi)
    PROVE  Memory!Copy(s, t, lo, hi)
<1> DEFINE st == StreamOf(s)
           new(i) == [kv[st][i] EXCEPT !.seq = @ \cup {t}]
           hit(i) == s \in kv[st][i].seq /\ PosIn(kv[st][i], lo, hi)
<1>1. /\ UNCHANGED <<unified, data, origin, run, snap, whole>> /\ run = Idle /\ s # t /\ StreamOf(t) = st
      /\ CellsOf(kv, t) = {}
      /\ kv' = [kv EXCEPT ![st] = [i \in Idx |-> IF hit(i) THEN new(i) ELSE kv[st][i]]]
    BY DEF SeqCpShared
<1>2. st \in Stream /\ kv \in [Stream -> [Idx -> Cells]]
    BY <1>1, StreamType, IdleParts
<1>3. ASSUME NEW i \in Idx
      PROVE  /\ hit(i) => kv'[st][i].seq = kv[st][i].seq \cup {t} /\ kv'[st][i].pos = kv[st][i].pos
             /\ ~hit(i) => kv'[st][i] = kv[st][i]
    <2>1. kv'[st][i] = IF hit(i) THEN new(i) ELSE kv[st][i]
      BY <1>1, <1>2
    <2>2. ASSUME hit(i) PROVE new(i).seq = kv[st][i].seq \cup {t} /\ new(i).pos = kv[st][i].pos
      <3> DEFINE c == kv[st][i]
      <3>1. c \in Cells /\ s \in c.seq
        BY <1>2, <2>2
      <3>2. new(i) = [c EXCEPT !.seq = @ \cup {t}]
        OBVIOUS
      <3> HIDE DEF c, new
      <3>3. c = [pos |-> c.pos, seq |-> c.seq, shift |-> c.shift]
        BY <3>1, CellShape
      <3> QED BY <3>2, <3>3 DEF c
    <2> HIDE DEF hit, new
    <2> QED BY <2>1, <2>2
<1>4. \A q \in SeqId, i \in Idx : StreamOf(q) # st => kv'[StreamOf(q)][i] = kv[StreamOf(q)][i]
    BY <1>1, <1>2, StreamType
<1>5. ASSUME NEW q \in SeqId, q # t PROVE SeqContent(q)' = SeqContent(q)
    <2>1. ASSUME NEW i \in Idx
          PROVE  /\ q \in kv'[StreamOf(q)][i].seq <=> q \in kv[StreamOf(q)][i].seq
                 /\ q \in kv'[StreamOf(q)][i].seq => kv'[StreamOf(q)][i].pos = kv[StreamOf(q)][i].pos
      <3> HIDE DEF st, hit, new
      <3> QED BY <1>3, <1>4, <1>5
    <2> QED BY <1>1, <2>1, CellsSame
<1>6. SeqContent(t)' = Memory!Inside(SeqContent(s), lo, hi) /\ SeqContent(t) = {}
    <2>1. SeqContent(t)' = Tokens(kv', data', origin', t)
      BY <1>1, ContentNext DEF Idle
    <2>2. SeqContent(t) = Tokens(kv, data, origin, t) /\ SeqContent(s) = Tokens(kv, data, origin, s)
      BY <1>1, ContentPos
    <2>3. \A i \in Idx : t \notin kv[st][i].seq
      BY <1>1 DEF CellsOf
    <2>4. \A i \in Idx : /\ t \in kv'[st][i].seq <=> s \in kv[st][i].seq /\ kv[st][i].pos \notin Outside(lo, hi)
                         /\ t \in kv'[st][i].seq => kv'[st][i].pos = kv[st][i].pos
      BY <1>1, <1>3, <2>3, InsideRange
    <2>5. SeqContent(t)' = {e \in SeqContent(s) : e[1] \notin Outside(lo, hi)}
      <3> DEFINE O == Outside(lo, hi)
                 tok(i) == data[origin[st]][i].tok
      <3>1. SeqContent(t)' = {<<kv'[st][i].pos, tok(i)>> : i \in {j \in Idx : t \in kv'[st][j].seq}}
        BY <1>1, <2>1 DEF Tokens
      <3>2. SeqContent(s) = {<<kv[st][i].pos, tok(i)>> : i \in {j \in Idx : s \in kv[st][j].seq}}
        BY <2>2 DEF Tokens
      <3> HIDE DEF hit, new, O, tok, st
      <3> QED BY <2>4, <3>1, <3>2 DEF O
    <2>6. {e \in SeqContent(s) : e[1] \in Outside(lo, hi)} = SeqContent(s) \ Memory!Inside(SeqContent(s), lo, hi)
      BY <1>1, InsideRange
    <2>7. Memory!Inside(SeqContent(s), lo, hi) \subseteq SeqContent(s)
      BY DEF Memory!Inside
    <2>8. SeqContent(t) = {}
      BY <1>1, <2>2, <2>3 DEF Tokens
    <2> QED BY <2>5, <2>6, <2>7, <2>8
<1> QED BY <1>1, <1>5, <1>6, SavedSame DEF Memory!Copy

\* seq_cp() to another stream: the cells now, the data with the next update.
LEMMA SeqCpStreamMaps ==
    ASSUME Inv, Careful, NEW s \in SeqId, NEW t \in SeqId, SeqCpStream(s, t)
    PROVE  Memory!Copy(s, t, -1, -1)
<1> DEFINE new(i) == [kv[s][i] EXCEPT !.seq = {t}]
<1>1. /\ UNCHANGED <<unified, data, run, snap, whole>> /\ run = Idle /\ ~unified /\ s # t
      /\ CellsOf(kv, t) = {} /\ origin' = [origin EXCEPT ![t] = origin[s]]
      /\ kv' = [kv EXCEPT ![t] = [i \in Idx |-> IF s \in kv[s][i].seq THEN new(i) ELSE Empty]]
    BY DEF SeqCpStream, StreamOf
<1>2. /\ s \in Stream /\ t \in Stream /\ kv \in [Stream -> [Idx -> Cells]] /\ origin \in [Stream -> Stream]
      /\ \A q : StreamOf(q) = q
    BY <1>1, StreamType, IdleParts
<1>3. ASSUME NEW i \in Idx
      PROVE  /\ s \in kv[s][i].seq => kv'[t][i].seq = {t} /\ kv'[t][i].pos = kv[s][i].pos
             /\ s \notin kv[s][i].seq => kv'[t][i] = Empty
    <2>1. kv'[t][i] = IF s \in kv[s][i].seq THEN new(i) ELSE Empty
      BY <1>1, <1>2
    <2>2. ASSUME s \in kv[s][i].seq PROVE new(i).seq = {t} /\ new(i).pos = kv[s][i].pos
      <3> DEFINE c == kv[s][i]
      <3>1. c \in Cells /\ s \in c.seq
        BY <1>2, <2>2
      <3>2. new(i) = [c EXCEPT !.seq = {t}]
        OBVIOUS
      <3> HIDE DEF c, new
      <3>3. c = [pos |-> c.pos, seq |-> c.seq, shift |-> c.shift]
        BY <3>1, CellShape
      <3> QED BY <3>2, <3>3 DEF c
    <2> HIDE DEF new
    <2> QED BY <2>1, <2>2
<1> HIDE DEF new
<1>4. ASSUME NEW q \in SeqId
      PROVE  SeqContent(q) = Tokens(kv, data, origin, q) /\ SeqContent(q)' = Tokens(kv', data', origin', q)
    BY <1>1, ContentNow, ContentNext DEF Idle
<1>5. ASSUME NEW q \in SeqId, q # t PROVE SeqContent(q)' = SeqContent(q)
    <2>1. kv'[q] = kv[q] /\ origin'[q] = origin[q]
      BY <1>1, <1>2, <1>5, StreamType
    <2>2. /\ kv'[StreamOf(q)] = kv[StreamOf(q)] /\ origin'[StreamOf(q)] = origin[StreamOf(q)]
          /\ data' = data
      BY <1>1, <1>2, <2>1
    <2>3. Tokens(kv', data', origin', q) = Tokens(kv, data, origin, q)
      BY <2>2, TokensEqual
    <2> QED BY <1>4, <2>3
<1>6. SeqContent(t)' = SeqContent(s) /\ SeqContent(t) = {}
    <2>1. origin'[t] = origin[s]
      BY <1>1, <1>2
    <2>3. SeqContent(t)' = SeqContent(s)
      <3>1. \A i \in Idx : t \in kv'[StreamOf(t)][i].seq <=> s \in kv[StreamOf(s)][i].seq
        BY <1>2, <1>3, EmptyFine
      <3>2. \A i \in Idx : t \in kv'[StreamOf(t)][i].seq => kv'[StreamOf(t)][i].pos = kv[StreamOf(s)][i].pos
        BY <1>2, <1>3, <3>1
      <3>3. origin'[StreamOf(t)] = origin[StreamOf(s)] /\ data' = data
        BY <1>1, <1>2, <2>1
      <3>4. Tokens(kv', data', origin', t) = Tokens(kv, data, origin, s)
        BY <3>1, <3>2, <3>3, TokensEqual
      <3> QED BY <1>4, <3>4
    <2>4. \A i \in Idx : t \notin kv[t][i].seq
      BY <1>1, <1>2 DEF CellsOf
    <2> QED BY <1>2, <1>4, <2>3, <2>4 DEF Tokens
<1>7. Memory!Inside(SeqContent(s), -1, -1) = SeqContent(s)
    BY DEF Memory!Inside
<1> QED BY <1>1, <1>5, <1>6, <1>7, SavedSame DEF Memory!Copy

\* seq_add(): the tokens in the range move, and those that would be below 0 are gone.
LEMMA SeqAddMaps ==
    ASSUME Inv, Careful, NEW s \in SeqId, NEW lo, NEW hi, NEW d \in Int, SeqAdd(s, lo, hi, d)
    PROVE  Memory!Shift(s, lo, hi, d)
<1> DEFINE st == StreamOf(s)
           hit == {i \in CellsOf(kv, s) : PosIn(kv[st][i], lo, hi)}
           new(i) == [kv[st][i] EXCEPT !.pos = @ + d, !.shift = @ + d]
<1>1. /\ UNCHANGED <<unified, data, origin, run, snap, whole>> /\ run = Idle
      /\ \A i \in hit : kv[st][i].seq = {s}
      /\ kv' = [kv EXCEPT ![st] = [i \in Idx |-> IF i \notin hit THEN kv[st][i]
                                                ELSE IF kv[st][i].pos + d < 0 THEN Empty ELSE new(i)]]
    BY DEF SeqAdd
<1>2. st \in Stream /\ kv \in [Stream -> [Idx -> Cells]]
    BY <1>1, StreamType, IdleParts
<1>3. \A i \in Idx : i \in hit <=> s \in kv[st][i].seq /\ kv[st][i].pos \notin Outside(lo, hi)
    <2>1. \A i \in Idx : i \in hit <=> s \in kv[st][i].seq /\ PosIn(kv[st][i], lo, hi)
      BY DEF CellsOf
    <2> HIDE DEF hit
    <2> QED BY <1>1, <2>1, InsideRange
<1>4. ASSUME NEW i \in Idx
      PROVE  /\ i \notin hit => kv'[st][i] = kv[st][i]
             /\ i \in hit /\ kv[st][i].pos + d < 0 => kv'[st][i] = Empty
             /\ i \in hit /\ ~(kv[st][i].pos + d < 0) =>
                  kv'[st][i].seq = {s} /\ kv'[st][i].pos = kv[st][i].pos + d
    <2>1. kv'[st][i] = IF i \notin hit THEN kv[st][i] ELSE IF kv[st][i].pos + d < 0 THEN Empty ELSE new(i)
      BY <1>1, <1>2
    <2>2. ASSUME i \in hit PROVE new(i).seq = {s} /\ new(i).pos = kv[st][i].pos + d
      <3> DEFINE c == kv[st][i]
      <3>1. c \in Cells /\ c.seq = {s}
        BY <1>1, <1>2, <2>2
      <3>2. new(i) = [c EXCEPT !.pos = @ + d, !.shift = @ + d]
        OBVIOUS
      <3> HIDE DEF c, new
      <3>3. c = [pos |-> c.pos, seq |-> c.seq, shift |-> c.shift]
        BY <3>1, CellShape
      <3> QED BY <3>1, <3>2, <3>3 DEF c
    <2> HIDE DEF new, hit
    <2> QED BY <2>1, <2>2
<1>5. \A q \in SeqId, i \in Idx : StreamOf(q) # st => kv'[StreamOf(q)][i] = kv[StreamOf(q)][i]
    BY <1>1, <1>2, StreamType
<1> HIDE DEF hit, new
<1>6. ASSUME NEW q \in SeqId, q # s PROVE SeqContent(q)' = SeqContent(q)
    <2>1. ASSUME NEW i \in Idx
          PROVE  /\ q \in kv'[StreamOf(q)][i].seq <=> q \in kv[StreamOf(q)][i].seq
                 /\ q \in kv'[StreamOf(q)][i].seq => kv'[StreamOf(q)][i].pos = kv[StreamOf(q)][i].pos
      <3>1. CASE StreamOf(q) # st
        BY <1>5, <3>1
      <3>2. CASE StreamOf(q) = st
        <4> HIDE DEF st
        <4>1. i \in hit => q \notin kv[st][i].seq /\ q \notin kv'[st][i].seq
          BY <1>1, <1>4, <1>6, EmptyFine
        <4>2. i \notin hit => kv'[st][i] = kv[st][i]
          BY <1>4
        <4> QED BY <3>2, <4>1, <4>2
      <3> QED BY <3>1, <3>2
    <2> QED BY <1>1, <2>1, CellsSame
<1>7. SeqContent(s)' = Memory!Moved(SeqContent(s), lo, hi, d)
    <2> DEFINE tok(i) == data[origin[st]][i].tok
               O == Outside(lo, hi)
               mine == {i \in Idx : s \in kv[st][i].seq}
               C == SeqContent(s)
               in == Memory!Inside(C, lo, hi)
    <2>1. C = {<<kv[st][i].pos, tok(i)>> : i \in mine}
      BY <1>1, ContentPos DEF Tokens
    <2>2. SeqContent(s)' = {<<kv'[st][i].pos, tok(i)>> : i \in {j \in Idx : s \in kv'[st][j].seq}}
      <3>1. SeqContent(s)' = Tokens(kv', data', origin', s)
        BY <1>1, ContentNext DEF Idle
      <3> QED BY <1>1, <3>1 DEF Tokens
    <2>3. in \subseteq C /\ \A e \in C : e \in in <=> e[1] \notin O
      <3>1. {e \in C : e[1] \in O} = C \ in
        BY <1>1, InsideRange
      <3>2. in \subseteq C
        BY DEF Memory!Inside
      <3> HIDE DEF C, in, O
      <3> QED BY <3>1, <3>2
    <2>4. \A i \in mine : kv[st][i].pos \in Int
      BY <1>2, HasPos
    <2>5. Memory!Moved(C, lo, hi, d) = (C \ in) \cup {e \in {<<x[1] + d, x[2]>> : x \in in} : e[1] >= 0}
      BY DEF Memory!Moved
    <2>6. \A i \in Idx : i \in hit <=> i \in mine /\ kv[st][i].pos \notin O
      BY <1>3
    <2>7. \A i \in Idx : s \in kv'[st][i].seq <=> i \in mine /\ (i \in hit => ~(kv[st][i].pos + d < 0))
      BY <1>4, <2>6, EmptyFine
    <2>8. \A i \in mine : i \notin hit => kv'[st][i].pos = kv[st][i].pos
      BY <1>4
    <2>9. \A i \in hit : ~(kv[st][i].pos + d < 0) => kv'[st][i].pos = kv[st][i].pos + d
      BY <1>4, <2>6 DEF hit, CellsOf
    <2>10. C \ in = {<<kv[st][i].pos, tok(i)>> : i \in mine \ hit}
      <3> HIDE DEF C, in, O, tok, st, mine
      <3>1. mine \subseteq Idx
        BY DEF mine
      <3> QED BY <2>1, <2>3, <2>6, <3>1
    <2>11. in = {<<kv[st][i].pos, tok(i)>> : i \in hit}
      <3> HIDE DEF C, in, O, tok, st, mine
      <3>1. mine \subseteq Idx /\ hit \subseteq Idx
        BY DEF mine, hit, CellsOf
      <3> QED BY <2>1, <2>3, <2>6, <3>1
    <2>12. {e \in {<<x[1] + d, x[2]>> : x \in in} : e[1] >= 0}
             = {<<kv[st][i].pos + d, tok(i)>> : i \in {j \in hit : ~(kv[st][j].pos + d < 0)}}
      <3>1. \A i \in hit : kv[st][i].pos + d \in Int
        BY <2>4, <2>6 DEF hit, CellsOf
      <3> HIDE DEF C, in, O, tok, st, mine
      <3> DEFINE from(i) == <<kv[st][i].pos, tok(i)>>
                 to(i)   == <<kv[st][i].pos + d, tok(i)>>
                 moved(x) == <<x[1] + d, x[2]>>
      <3>2. in = {from(i) : i \in hit} /\ \A i : moved(from(i)) = to(i)
        BY <2>11
      <3>3. {moved(x) : x \in in} = {to(i) : i \in hit}
        <4> HIDE DEF from, to, moved
        <4> QED BY <3>2
      <3> QED BY <3>1, <3>3
    <2>13. SeqContent(s)' = {<<kv[st][i].pos, tok(i)>> : i \in mine \ hit}
             \cup {<<kv[st][i].pos + d, tok(i)>> : i \in {j \in hit : ~(kv[st][j].pos + d < 0)}}
      <3>1. mine \subseteq Idx /\ hit \subseteq mine
        BY <2>6 DEF hit, CellsOf
      <3> DEFINE I == {i \in Idx : s \in kv'[st][i].seq}
                 H == {j \in hit : ~(kv[st][j].pos + d < 0)}
      <3>2. I = (mine \ hit) \cup H
        BY <2>7, <3>1
      <3>3. {<<kv'[st][i].pos, tok(i)>> : i \in mine \ hit} = {<<kv[st][i].pos, tok(i)>> : i \in mine \ hit}
        BY <2>8
      <3>4. {<<kv'[st][i].pos, tok(i)>> : i \in H} = {<<kv[st][i].pos + d, tok(i)>> : i \in H}
        BY <2>9
      <3> HIDE DEF I, H, tok, mine
      <3>5. SeqContent(s)' = {<<kv'[st][i].pos, tok(i)>> : i \in (mine \ hit) \cup H}
        BY <2>2, <3>2 DEF I
      <3>6. SeqContent(s)' = {<<kv'[st][i].pos, tok(i)>> : i \in mine \ hit} \cup {<<kv'[st][i].pos, tok(i)>> : i \in H}
        BY <3>5
      <3> QED BY <3>3, <3>4, <3>6 DEF H
    <2> HIDE DEF C, in, O, tok, mine
    <2> QED BY <2>5, <2>10, <2>12, <2>13 DEF C
<1> QED BY <1>1, <1>6, <1>7, SavedSame DEF Memory!Shift

-----------------------------------------------------------------------------
(* Saving and restoring.                                                   *)

\* The cells of a sequence and where the data comes from stay, so its content does.
LEMMA ContentSame ==
    ASSUME UNCHANGED <<unified, kv, data, origin, run>>
    PROVE  \A q \in SeqId : SeqContent(q)' = SeqContent(q)
BY DEF SeqContent, CellsOf, OnTrial, StreamOf, InStream

\* What is written of a cell.
CellAt(st, i) == [pos |-> kv[st][i].pos, seq |-> kv[st][i].seq, tok |-> data[st][i].tok, rot |-> data[st][i].rot]

\* Each of the cells is written.
LEMMA WrittenAll ==
    ASSUME NEW st \in Stream, NEW I \in SUBSET Idx
    PROVE  Range(Written(st, I)) = {CellAt(st, i) : i \in I} /\ Len(Written(st, I)) <= Size
<1> DEFINE order == InOrder(I)
           w == Written(st, I)
           n == Len(order)
<1>1. order \in Seq(I) /\ Lists(order, I) /\ n = Cardinality(I) /\ n \in Nat
    <2>1. order \in Seq(I) /\ Lists(order, I) /\ n = Cardinality(I)
      BY OrderOfCells
    <2> HIDE DEF order
    <2> QED BY <2>1
<1>2. w = [k \in 1 .. n |-> CellAt(st, order[k])]
    BY DEF Written, CellAt
<1>3. Cardinality(I) <= Size
    <2>1. IsFiniteSet(Idx) /\ Cardinality(Idx) = Size
      BY SizeAssumption, FS_Interval DEF Idx
    <2> QED BY <2>1, FS_Subset
<1> HIDE DEF order, w
<1>4. DOMAIN w = 1 .. n /\ \A k \in 1 .. n : w[k] = CellAt(st, order[k]) /\ order[k] \in I
    BY <1>1, <1>2
<1>5. \A i \in I : \E k \in 1 .. n : order[k] = i
    BY <1>1 DEF Lists
<1>6. Range(w) = {CellAt(st, i) : i \in I}
    <2>1. Range(w) = {w[k] : k \in 1 .. n}
      BY <1>4 DEF Range
    <2> QED BY <1>4, <1>5, <2>1
<1>7. Len(w) = n
    BY <1>1, <1>2
<1> QED BY <1>1, <1>3, <1>6, <1>7 DEF w

\* What a written state holds.
LEMMA WrittenContent ==
    ASSUME NEW st \in Stream, NEW I \in SUBSET Idx
    PROVE  SavedContent(Range(Written(st, I))) = {<<kv[st][i].pos, data[st][i].tok>> : i \in I}
<1>1. Range(Written(st, I)) = {CellAt(st, i) : i \in I}
    BY WrittenAll
<1>2. \A i : CellAt(st, i).pos = kv[st][i].pos /\ CellAt(st, i).tok = data[st][i].tok
    BY DEF CellAt
<1> QED BY <1>1, <1>2 DEF SavedContent

\* Without a window every cell of a sequence is written, and only free cells are usable.
LEMMA NoWindow ==
    ASSUME NSwa = 0
    PROVE  /\ \A p, q : ~MaskedSwa(p, q)
           /\ \A c, st, i : CanUse(c, st, i) <=> c[st][i].pos = Free
BY DEF MaskedSwa, CanUse

\* Nothing is saved of the whole memory.
LEMMA NoneSaved ==
    ASSUME NEW w, w = NothingSaved
    PROVE  UNION {Range(w[st]) : st \in Stream} = {}
BY DEF NothingSaved, Range

\* state_write() of a sequence.
LEMMA StateWriteMaps ==
    ASSUME Inv, Careful, NSwa = 0, NEW s \in SeqId, StateWrite(s)
    PROVE  Memory!Save(s)
<1> DEFINE st == StreamOf(s)
           I == {i \in CellsOf(kv, s) : ~MaskedSwa(kv[st][i].pos, SeqPosMax(kv, s))}
<1>1. /\ run = Idle /\ Settled /\ snap' = Written(st, I) /\ whole' = NothingSaved
      /\ UNCHANGED <<unified, kv, head, data, origin, run>>
    BY DEF StateWrite
<1>2. st \in Stream
    BY StreamType
<1>3. I = {i \in Idx : s \in kv[st][i].seq}
    BY NoWindow DEF CellsOf
<1> HIDE DEF I
<1>4. SavedContent(Range(snap'))  = SeqContent(s)
    <2>1. SavedContent(Range(snap')) = {<<kv[st][i].pos, data[st][i].tok>> : i \in I}
      BY <1>1, <1>2, <1>3, WrittenContent
    <2>2. origin[st] = st
      BY <1>1, <1>2 DEF Settled, Unchanged
    <2> QED BY <1>1, <1>3, <2>1, <2>2, ContentPos DEF Tokens
<1>5. SavedContent(Range(snap))' = SavedContent(Range(snap'))
    BY DEF SavedContent
<1>6. \A q \in SeqId : SavedOf(q)' = {}
    BY <1>1, NoneSaved DEF SavedOf, SavedContent
<1> QED BY <1>1, <1>4, <1>5, <1>6, ContentSame DEF Memory!Save, Memory!None

\* What is saved of the whole memory is for a unified cache, and fits into it.
WholeOK == \A st \in Stream : Len(whole[st]) <= Size /\ (~unified => whole[st] = <<>>)

\* state_write() of all.
LEMMA StateWriteAllMaps ==
    ASSUME Inv, Careful, StateWriteAll
    PROVE  Memory!SaveAll /\ WholeOK'
<1>1. /\ run = Idle /\ Settled /\ unified /\ snap' = <<>>
      /\ whole' = [st \in Stream |-> Written(st, Used(kv, st))]
      /\ UNCHANGED <<unified, kv, head, data, origin, run>>
    BY DEF StateWriteAll
<1>2. \A st \in Stream : Used(kv, st) \in SUBSET Idx /\ whole'[st] = Written(st, Used(kv, st))
    BY <1>1 DEF Used
<1>3. WholeOK'
    BY <1>1, <1>2, WrittenAll DEF WholeOK
<1>4. ASSUME NEW q \in SeqId PROVE SavedOf(q)' = SeqContent(q)
    <2> DEFINE st == StreamOf(q)
               I  == {i \in Idx : q \in kv[st][i].seq}
    <2>1. st \in Stream /\ origin[st] = st
      BY <1>1, StreamType DEF Settled, Unchanged
    <2>2. ASSUME NEW u \in Stream, NEW i \in Idx, q \in kv[u][i].seq PROVE u = st /\ i \in Used(kv, u)
      <3>1. Fine(kv[u][i], u, data[origin[u]][i])
        BY <1>1, IdleParts
      <3>2. kv[u][i] \in Cells /\ u = st
        BY <2>2, <3>1 DEF Fine, Sound
      <3> QED BY <2>2, <3>2, HasPos DEF Used
    <2>3. \A u \in Stream : Range(whole'[u]) = {CellAt(u, i) : i \in Used(kv, u)}
      BY <1>2, WrittenAll
    <2>4. \A u, i : CellAt(u, i).pos = kv[u][i].pos /\ CellAt(u, i).tok = data[u][i].tok /\ CellAt(u, i).seq = kv[u][i].seq
      BY DEF CellAt
    <2>5. {e \in UNION {Range(whole'[u]) : u \in Stream} : q \in e.seq} = {CellAt(st, i) : i \in I}
      <3> DEFINE L == {e \in UNION {Range(whole'[u]) : u \in Stream} : q \in e.seq}
      <3>1. ASSUME NEW e \in L PROVE e \in {CellAt(st, i) : i \in I}
        <4>1. PICK u \in Stream : e \in Range(whole'[u])
          OBVIOUS
        <4>2. PICK i \in Used(kv, u) : e = CellAt(u, i)
          BY <2>3, <4>1
        <4>3. i \in Idx /\ q \in kv[u][i].seq
          BY <2>4, <4>2 DEF Used
        <4>4. u = st
          BY <2>2, <4>3
        <4> QED BY <4>2, <4>3, <4>4
      <3>2. ASSUME NEW i \in I PROVE CellAt(st, i) \in L
        <4>1. i \in Used(kv, st) /\ q \in CellAt(st, i).seq
          BY <2>1, <2>2, <2>4
        <4>2. CellAt(st, i) \in Range(whole'[st])
          BY <2>1, <2>3, <4>1
        <4> QED BY <2>1, <4>1, <4>2
      <3> HIDE DEF L, I, st
      <3>3. L = {CellAt(st, i) : i \in I}
        BY <3>1, <3>2
      <3> QED BY <3>3 DEF L
    <2>6. SavedOf(q)' = {<<e.pos, e.tok>> : e \in {CellAt(st, i) : i \in I}}
      BY <2>5 DEF SavedOf, SavedContent
    <2>7. {<<e.pos, e.tok>> : e \in {CellAt(st, i) : i \in I}} = {<<kv[st][i].pos, data[st][i].tok>> : i \in I}
      <3> HIDE DEF I, st
      <3> QED BY <2>4
    <2> QED BY <1>1, <2>1, <2>6, <2>7, ContentPos DEF Tokens
<1>5. SavedContent(Range(snap))' = {}
    BY <1>1 DEF SavedContent, Range
<1> QED BY <1>1, <1>3, <1>4, <1>5, ContentSame DEF Memory!SaveAll

\* When only free cells are taken, no sequence is purged.
LEMMA NothingPurged ==
    ASSUME NEW c, NEW put, \A st \in Stream : \A i \in DOMAIN put[st] : c[st][i].seq = {}
    PROVE  Apply(c, put) = With(c, put)
<1> DEFINE past(x) == {q \in x.seq : \E p \in Overwritten(c, put, q) : x.pos <= p}
           new(st, i) == IF i \in DOMAIN put[st] THEN put[st][i] ELSE c[st][i]
<1>1. \A q : Overwritten(c, put, q) = {}
    BY DEF Overwritten
<1>2. \A x : past(x) = {}
    BY <1>1
<1>3. \A x : Leave(x, {}) = x
    BY DEF Leave
<1>4. Apply(c, put) = [st \in Stream |-> [i \in Idx |-> Leave(new(st, i), past(new(st, i)))]]
    BY DEF Apply
<1>5. With(c, put) = [st \in Stream |-> [i \in Idx |-> new(st, i)]]
    BY DEF With
<1>6. \A st, i : Leave(new(st, i), past(new(st, i))) = new(st, i)
    <2> HIDE DEF past, new
    <2> QED BY <1>2, <1>3
<1> HIDE DEF past, new
<1> QED BY <1>4, <1>5, <1>6

\* state_read() of a sequence: it has what was saved, or nothing when that does not fit.
LEMMA StateReadMaps ==
    ASSUME Inv, Careful, NSwa = 0, NEW s \in SeqId, StateRead(s)
    PROVE  Memory!Restore(s)
<1> DEFINE st   == StreamOf(s)
           n    == Len(snap)
           gone == SeqRmCells(kv[st], s, -1, -1)
           rest == [kv EXCEPT ![st] = gone]
           low  == Lower(head[st], kv[st], rest[st])
           at   == Search(rest, st, low, n)
           cell(i) == [pos |-> snap[IndexFirst(at, i)].pos, seq |-> {s}, shift |-> 0]
           put  == [u \in Stream |-> IF u # st THEN <<>> ELSE [i \in {at[k] : k \in 1 .. n} |-> cell(i)]]
           read(i) == [tok |-> snap[IndexFirst(at, i)].tok, rot |-> snap[IndexFirst(at, i)].rot]
<1>1. st \in Stream /\ st = StreamOf(s)
    BY StreamType
<1>2. run = Idle /\ run.stack = <<>> /\ run'.stack = <<>> /\ Settled /\ UNCHANGED <<unified, origin, run, snap, whole>> /\ n > 0
    BY DEF StateRead, Idle
<1>3. /\ kv \in [Stream -> [Idx -> Cells]] /\ head \in [Stream -> 0 .. Size]
      /\ data \in [Stream -> [Idx -> Data]] /\ SavedOK /\ \A u \in Stream : origin[u] = u
    BY <1>2, IdleParts DEF Settled, Unchanged
<1>4. \/ n > Len(at) /\ kv' = [kv EXCEPT ![st] = rest[st]] /\ UNCHANGED data
      \/ /\ ~(n > Len(at)) /\ kv' = Apply(rest, put)
         /\ data' = [data EXCEPT ![st] = [i \in Idx |-> IF i \notin DOMAIN put[st] THEN data[st][i] ELSE read(i)]]
    <2>1. \/ n = 0
          \/ n > Len(at) /\ Change(st, rest[st]) /\ UNCHANGED data
          \/ /\ ~(n > Len(at)) /\ kv' = Apply(rest, put)
             /\ data' = [data EXCEPT ![st] = [i \in Idx |-> IF i \notin DOMAIN put[st] THEN data[st][i] ELSE read(i)]]
      BY DEF StateRead
    <2>2. Change(st, rest[st]) => kv' = [kv EXCEPT ![st] = rest[st]]
      BY DEF Change
    <2>3. n # 0
      BY <1>2, <1>3 DEF SavedOK
    <2> HIDE DEF n, rest, at, put, read
    <2> QED BY <2>1, <2>2, <2>3
<1>5. \A q \in SeqId : /\ SeqContent(q) = Tokens(kv, data, origin, q)
                       /\ SeqContent(q)' = Tokens(kv', data', origin', q)
    BY <1>2, ContentNow, ContentNext
<1> HIDE DEF st
<1>6. ASSUME NEW i \in Idx
      PROVE  /\ gone[i] \in Cells /\ s \notin gone[i].seq
             /\ \A q : q # s => (q \in gone[i].seq <=> q \in kv[st][i].seq)
             /\ gone[i].seq # {} => gone[i].pos = kv[st][i].pos
    <2> DEFINE c == kv[st][i]
    <2>1. c \in Cells
      BY <1>1, <1>3
    <2>2. gone[i] = IF PosIn(c, -1, -1) THEN Leave(c, {s}) ELSE c
      BY DEF SeqRmCells
    <2> HIDE DEF c, gone
    <2>3. PosIn(c, -1, -1) <=> c.pos # Free
      BY DEF PosIn
    <2>4. c.pos = Free => c.seq = {}
      BY <2>1, CellShape
    <2>5. Leave(c, {s}) \in Cells
      BY <2>1, LeaveKeeps
    <2>6. /\ \A q : q \in Leave(c, {s}).seq <=> q \in c.seq /\ q # s
          /\ \A q : q \in Leave(c, {s}).seq => Leave(c, {s}).pos = c.pos
      BY <2>1, LeaveContent
    <2> QED BY <2>1, <2>2, <2>3, <2>4, <2>5, <2>6 DEF c
<1>7. gone = [i \in Idx |-> gone[i]]
    BY DEF SeqRmCells
<1> HIDE DEF gone
<1>8. rest[st] = gone /\ \A u \in Stream : u # st => rest[u] = kv[u]
    BY <1>1, <1>3
<1> HIDE DEF rest
<1>9. CASE n > Len(at) /\ kv' = [kv EXCEPT ![st] = rest[st]] /\ UNCHANGED data
    <2>1. kv'[st] = gone /\ \A u \in Stream : u # st => kv'[u] = kv[u]
      BY <1>1, <1>3, <1>8, <1>9
    <2>2. SeqContent(s)' = {}
      BY <1>1, <1>5, <1>6, <2>1 DEF Tokens
    <2>3. ASSUME NEW q \in SeqId, q # s PROVE SeqContent(q)' = SeqContent(q)
      <3> SUFFICES ASSUME NEW i \in Idx
                   PROVE  /\ q \in kv'[StreamOf(q)][i].seq <=> q \in kv[StreamOf(q)][i].seq
                          /\ q \in kv'[StreamOf(q)][i].seq => kv'[StreamOf(q)][i].pos = kv[StreamOf(q)][i].pos
        BY <1>2, <1>9, CellsSame
      <3>1. StreamOf(q) \in Stream
        BY StreamType
      <3> QED BY <1>6, <2>1, <2>3, <3>1
    <2> QED BY <1>2, <2>2, <2>3, SavedSame DEF Memory!Restore
<1>10. CASE /\ ~(n > Len(at)) /\ kv' = Apply(rest, put)
            /\ data' = [data EXCEPT ![st] = [i \in Idx |-> IF i \notin DOMAIN put[st] THEN data[st][i] ELSE read(i)]]
    <2> DEFINE I == {at[k] : k \in 1 .. n}
    <2>1. Lists(at, {i \in Idx : CanUse(rest, st, i)}) /\ at \in Seq(Idx)
      <3>1. low \in 0 .. Size
        BY <1>1, <1>3, LowerInRange
      <3> QED BY <3>1, SearchFinds
    <2>2. n \in Nat /\ snap \in Seq(SavedCell)
      BY <1>3 DEF SavedOK
    <2> HIDE DEF at
    <2>3. Len(at) \in Nat /\ n \in 0 .. Len(at)
      BY <1>10, <2>1, <2>2
    <2>4. DOMAIN put[st] = I /\ (\A i \in I : put[st][i] = cell(i)) /\ \A u \in Stream : u # st => DOMAIN put[u] = {}
      BY <1>1
    <2>5. ASSUME NEW i \in I PROVE i \in Idx /\ gone[i].seq = {}
      <3>1. PICK k \in 1 .. n : i = at[k]
        OBVIOUS
      <3>2. i \in Idx /\ CanUse(rest, st, i)
        <4>1. at \in Seq({j \in Idx : CanUse(rest, st, j)}) /\ k \in 1 .. Len(at)
          BY <2>1, <2>3, <3>1 DEF Lists
        <4> QED BY <3>1, <4>1
      <3>3. gone[i].pos = Free
        BY <1>8, <3>2, NoWindow
      <3> QED BY <1>6, <3>2, <3>3, CellShape
    <2>6. ASSUME NEW k \in 1 .. n PROVE IndexFirst(at, at[k]) = k
      <3>1. IndexFirst(at, at[k]) \in 1 .. n /\ at[IndexFirst(at, at[k])] = at[k]
        BY <2>1, <2>3, FirstPlace
      <3>2. k \in 1 .. Len(at) /\ IndexFirst(at, at[k]) \in 1 .. Len(at)
        BY <2>3, <3>1
      <3> QED BY <2>1, <3>1, <3>2 DEF Lists
    <2> HIDE DEF put, I
    <2>7. kv' = With(rest, put)
      <3>1. \A u \in Stream : \A i \in DOMAIN put[u] : rest[u][i].seq = {}
        BY <1>8, <2>4, <2>5
      <3>2. Apply(rest, put) = With(rest, put)
        BY <3>1, NothingPurged
      <3> QED BY <1>10, <3>2
    <2>8. \A i \in Idx : kv'[st][i] = IF i \in I THEN cell(i) ELSE gone[i]
      BY <1>1, <1>8, <2>4, <2>7 DEF With
    <2>9. \A u \in Stream, i \in Idx : u # st => kv'[u][i] = kv[u][i]
      BY <1>8, <2>4, <2>7 DEF With
    <2>10. \A u \in Stream, i \in Idx : data'[u][i] = IF u = st /\ i \in I THEN read(i) ELSE data[u][i]
      <3> HIDE DEF read
      <3> QED BY <1>1, <1>3, <1>10, <2>4
    <2>11. \A i : cell(i).pos = snap[IndexFirst(at, i)].pos /\ cell(i).seq = {s} /\ read(i).tok = snap[IndexFirst(at, i)].tok
      OBVIOUS
    <2> HIDE DEF cell, read
    <2>12. SeqContent(s)' = SavedContent(Range(snap))
      <3> DEFINE e(i) == <<snap[IndexFirst(at, i)].pos, snap[IndexFirst(at, i)].tok>>
      <3>1. {i \in Idx : s \in kv'[st][i].seq} = I
        BY <1>6, <2>5, <2>8, <2>11
      <3>2. \A i \in I : <<kv'[st][i].pos, data'[origin'[st]][i].tok>> = e(i)
        <4>1. origin'[st] = st
          BY <1>1, <1>2, <1>3
        <4> QED BY <1>1, <2>5, <2>8, <2>10, <2>11, <4>1
      <3>3. SeqContent(s)' = {<<kv'[st][i].pos, data'[origin'[st]][i].tok>> : i \in I}
        BY <1>1, <1>5, <3>1 DEF Tokens
      <3>4. SeqContent(s)' = {e(i) : i \in I}
        BY <3>2, <3>3
      <3>5. {e(i) : i \in I} = {e(at[k]) : k \in 1 .. n}
        <4> HIDE DEF e
        <4> QED BY DEF I
      <3>6. {e(at[k]) : k \in 1 .. n} = {<<snap[k].pos, snap[k].tok>> : k \in 1 .. n}
        BY <2>6
      <3>7. SavedContent(Range(snap)) = {<<snap[k].pos, snap[k].tok>> : k \in 1 .. n}
        <4>1. Range(snap) = {snap[k] : k \in 1 .. n}
          BY <2>2 DEF Range
        <4> QED BY <4>1 DEF SavedContent
      <3> QED BY <3>4, <3>5, <3>6, <3>7
    <2>13. ASSUME NEW q \in SeqId, q # s PROVE SeqContent(q)' = SeqContent(q)
      <3> DEFINE u == StreamOf(q)
      <3>1. u \in Stream /\ origin'[u] = u /\ origin[u] = u
        BY <1>2, <1>3, StreamType
      <3>2. ASSUME NEW i \in Idx
            PROVE  /\ q \in kv[u][i].seq <=> q \in kv'[u][i].seq
                   /\ q \in kv[u][i].seq => /\ kv[u][i].pos = kv'[u][i].pos
                                            /\ data[origin[u]][i].tok = data'[origin'[u]][i].tok
        <4>1. CASE u # st
          BY <2>9, <2>10, <3>1, <4>1
        <4>2. CASE u = st /\ i \in I
          <5>1. q \notin kv'[st][i].seq /\ q \notin kv[st][i].seq
            BY <1>6, <2>5, <2>8, <2>11, <2>13, <4>2
          <5> HIDE DEF u
          <5> QED BY <4>2, <5>1
        <4>3. CASE u = st /\ i \notin I
          <5>1. kv'[st][i] = gone[i] /\ data'[st][i] = data[st][i]
            BY <1>1, <2>8, <2>10, <4>3
          <5>2. q \in gone[i].seq <=> q \in kv[st][i].seq
            BY <1>6, <2>13
          <5>3. q \in gone[i].seq => gone[i].pos = kv[st][i].pos
            BY <1>6
          <5> HIDE DEF u
          <5> QED BY <3>1, <4>3, <5>1, <5>2, <5>3
        <4> QED BY <4>1, <4>2, <4>3
      <3>3. Tokens(kv, data, origin, q) = Tokens(kv', data', origin', q)
        BY <3>2, TokensEqual
      <3> QED BY <1>5, <3>3
    <2> QED BY <1>2, <2>12, <2>13, SavedSame DEF Memory!Restore
<1> QED BY <1>4, <1>9, <1>10

\* state_read() of all.
LEMMA StateReadAllMaps ==
    ASSUME Inv, WholeOK, Careful, StateReadAll
    PROVE  Memory!RestoreAll
<1> DEFINE some == {st \in Stream : whole[st] # <<>>}
           last == Max(some)
           n    == Len(whole[last])
           cell(i) == [Empty EXCEPT !.pos = whole[last][i+1].pos, !.seq = whole[last][i+1].seq]
           read(i) == [tok |-> whole[last][i+1].tok, rot |-> whole[last][i+1].rot]
<1>1. /\ run = Idle /\ Settled /\ some # {} /\ UNCHANGED <<unified, origin, run, snap, whole>>
      /\ kv' = [st \in Stream |-> [i \in Idx |-> IF st = last /\ i < n
                    THEN [Empty EXCEPT !.pos = whole[st][i+1].pos, !.seq = whole[st][i+1].seq] ELSE Empty]]
      /\ data' = [st \in Stream |-> [i \in Idx |-> IF st = last /\ i < n
                    THEN [tok |-> whole[st][i+1].tok, rot |-> whole[st][i+1].rot] ELSE Blank]]
    BY DEF StateReadAll
<1>2. /\ SavedOK /\ \A u \in Stream : origin[u] = u
    BY <1>1, IdleParts DEF Settled, Unchanged
<1>3. unified
    BY <1>1 DEF WholeOK
<1>4. \A q : StreamOf(q) = 0
    BY <1>3 DEF StreamOf
<1>5. \A st \in Stream : st # 0 => whole[st] = <<>>
    <2> SUFFICES ASSUME NEW st \in Stream, st # 0, whole[st] # <<>> PROVE FALSE
      OBVIOUS
    <2> DEFINE w == whole[st]
    <2>1. w \in Seq(SavedCell) /\ \A j \in 1 .. Len(w) : \A q \in w[j].seq : StreamOf(q) = st
      BY <1>2 DEF SavedOK
    <2> HIDE DEF w
    <2>2. 1 \in 1 .. Len(w) /\ w[1] \in SavedCell
      BY <2>1 DEF w
    <2>3. PICK q \in w[1].seq : TRUE
      BY <2>2 DEF SavedCell
    <2> QED BY <1>4, <2>1, <2>2, <2>3
<1>6. last = 0 /\ 0 \in Stream
    <2>1. some \in SUBSET (0 .. NSeq - 1) /\ NSeq - 1 \in Nat
      BY SizeAssumption DEF Stream, SeqId
    <2>2. \A st \in some : st = 0
      BY <1>5
    <2> HIDE DEF some
    <2>3. last \in some
      BY <1>1, <2>1, MaxExists
    <2>4. last \in Stream
      BY <2>3 DEF some
    <2> QED BY <2>2, <2>3, <2>4
<1>7. whole[0] \in Seq(SavedCell) /\ n \in Nat /\ n <= Size
    BY <1>2, <1>6 DEF SavedOK, WholeOK
<1> HIDE DEF last
<1>8. \A i \in Idx : /\ kv'[0][i] = IF i < n THEN cell(i) ELSE Empty
                     /\ data'[0][i] = IF i < n THEN read(i) ELSE Blank
    BY <1>1, <1>6
<1>9. \A i : cell(i).pos = whole[0][i+1].pos /\ cell(i).seq = whole[0][i+1].seq /\ read(i).tok = whole[0][i+1].tok
    BY <1>6 DEF Empty
<1> HIDE DEF cell, read
<1>10. ASSUME NEW q \in SeqId PROVE SeqContent(q)' = SavedOf(q)
    <2> DEFINE w == whole[0]
               I == {i \in Idx : i < n /\ q \in w[i+1].seq}
               e(i) == <<w[i+1].pos, w[i+1].tok>>
    <2>1. SeqContent(q)' = Tokens(kv', data', origin', q) /\ origin'[0] = 0
      BY <1>1, <1>2, <1>6, ContentNext DEF Idle
    <2>2. {i \in Idx : q \in kv'[0][i].seq} = I
      BY <1>8, <1>9, EmptyFine
    <2>3. \A i \in I : <<kv'[0][i].pos, data'[0][i].tok>> = e(i)
      BY <1>8, <1>9
    <2>4. SeqContent(q)' = {<<kv'[0][i].pos, data'[0][i].tok>> : i \in I}
      BY <1>4, <2>1, <2>2 DEF Tokens
    <2>5. SeqContent(q)' = {e(i) : i \in I}
      BY <2>3, <2>4
    <2>6. UNION {Range(whole[st]) : st \in Stream} = {w[k] : k \in 1 .. n}
      <3>1. Range(whole[0]) = {w[k] : k \in 1 .. n}
        BY <1>6, <1>7 DEF Range
      <3>2. \A st \in Stream : st # 0 => Range(whole[st]) = {}
        BY <1>5 DEF Range
      <3> DEFINE part(st) == Range(whole[st])
      <3>3. part(0) = {w[k] : k \in 1 .. n} /\ 0 \in Stream /\ \A st \in Stream : st # 0 => part(st) = {}
        BY <1>6, <3>1, <3>2
      <3> HIDE DEF part, w
      <3>4. UNION {part(st) : st \in Stream} = {w[k] : k \in 1 .. n}
        BY <3>3
      <3> QED BY <3>4 DEF part
    <2>7. SavedOf(q) = {<<x.pos, x.tok>> : x \in {y \in {w[k] : k \in 1 .. n} : q \in y.seq}}
      BY <2>6 DEF SavedOf, SavedContent
    <2>8. {y \in {w[k] : k \in 1 .. n} : q \in y.seq} = {w[i+1] : i \in I}
      <3>1. \A k \in 1 .. n : k - 1 \in Idx /\ k - 1 < n /\ (k - 1) + 1 = k
        BY <1>7, SizeAssumption DEF Idx
      <3>2. \A i \in Idx : i < n => i + 1 \in 1 .. n
        BY <1>7, SizeAssumption DEF Idx
      <3> HIDE DEF w
      <3> QED BY <3>1, <3>2
    <2>9. {<<x.pos, x.tok>> : x \in {w[i+1] : i \in I}} = {e(i) : i \in I}
      <3> HIDE DEF I, w
      <3> QED OBVIOUS
    <2> QED BY <2>5, <2>7, <2>8, <2>9
<1> QED BY <1>1, <1>10, SavedSame DEF Memory!RestoreAll

-----------------------------------------------------------------------------
(* Placing a batch.                                                        *)

\* The cells of the ubatches: each is there for one token of its stream; those of the
\* placed ubatches are taken, and were empty before, those of the others are empty.
PlacesFor(r, c) ==
    /\ \A j \in 1 .. Len(r.stack) : /\ r.stack[j].at = r.sinfo[j]
                                    /\ \A s \in r.S : /\ r.stack[j].old[s] = Empty
                                                      /\ c[StreamOf(s)][r.sinfo[j][s]].pos # Free
    /\ \A j, l \in 1 .. Len(r.sinfo), s, t \in r.S :
          StreamOf(s) = StreamOf(t) /\ r.sinfo[j][s] = r.sinfo[l][t] => j = l /\ s = t
    /\ \A j \in 1 .. Len(r.sinfo), s \in r.S :
          j > Ahead(r, Len(r.stack)) => c[StreamOf(s)][r.sinfo[j][s]] = Empty
PlacesOK == PlacesFor(run, kv)

LEMMA PlacesAfter ==
    ASSUME UNCHANGED unified
    PROVE  PlacesOK' <=> PlacesFor(run', kv')
BY DEF PlacesOK, PlacesFor, StreamOf, Ahead

\* Only the batch, its places and the stack count.
LEMMA PlacesCarry ==
    ASSUME NEW c, NEW r, NEW r2, PlacesFor(r, c), r2.S = r.S, r2.sinfo = r.sinfo, r2.stack = r.stack,
           Ahead(r2, Len(r.stack)) = Ahead(r, Len(r.stack))
    PROVE  PlacesFor(r2, c)
<1> DEFINE a == Ahead(r, Len(r.stack))
<1>1. Ahead(r2, Len(r2.stack)) = a
    OBVIOUS
<1>2. /\ \A j \in 1 .. Len(r.stack) : /\ r.stack[j].at = r.sinfo[j]
                                      /\ \A s \in r.S : /\ r.stack[j].old[s] = Empty
                                                        /\ c[StreamOf(s)][r.sinfo[j][s]].pos # Free
      /\ \A j, l \in 1 .. Len(r.sinfo), s, t \in r.S :
            StreamOf(s) = StreamOf(t) /\ r.sinfo[j][s] = r.sinfo[l][t] => j = l /\ s = t
      /\ \A j \in 1 .. Len(r.sinfo), s \in r.S : j > a => c[StreamOf(s)][r.sinfo[j][s]] = Empty
    BY DEF PlacesFor
<1> HIDE DEF a
<1> QED BY <1>1, <1>2 DEF PlacesFor

\* Nothing is placed between two batches.
LEMMA IdlePlaces ==
    ASSUME NEW c
    PROVE  PlacesFor(Idle, c)
<1>1. Idle.stack = <<>> /\ Idle.sinfo = <<>> /\ Len(<<>>) = 0
    BY DEF Idle
<1> QED BY <1>1 DEF PlacesFor

\* No two sequences of a stream have the same rank.
LEMMA RankShape ==
    ASSUME NEW S \in SUBSET SeqId
    PROVE  /\ \A s \in S : Rank(S, s) \in 1 .. Cardinality(InStream(S, StreamOf(s)))
           /\ \A s, t \in S : StreamOf(s) = StreamOf(t) /\ Rank(S, s) = Rank(S, t) => s = t
<1> DEFINE R(s) == {t \in InStream(S, StreamOf(s)) : t <= s}
<1>1. \A s : Rank(S, s) = Cardinality(R(s))
    BY DEF Rank
<1>2. \A st : IsFiniteSet(InStream(S, st))
    <2>1. IsFiniteSet(SeqId)
      BY SizeAssumption, FS_Interval DEF SeqId
    <2>2. \A st : InStream(S, st) \in SUBSET SeqId
      BY DEF InStream
    <2> QED BY <2>1, <2>2, FS_Subset
<1>3. \A s \in S : R(s) \in SUBSET InStream(S, StreamOf(s)) /\ s \in R(s) /\ s \in Nat
    BY SeqIds DEF InStream
<1>4. ASSUME NEW s \in S, NEW t \in S, StreamOf(s) = StreamOf(t), s < t PROVE Rank(S, s) # Rank(S, t)
    <2>1. R(s) \in SUBSET R(t) /\ t \in R(t) /\ t \notin R(s)
      <3>1. \A x \in InStream(S, StreamOf(s)) : x \in Nat
        BY SeqIds DEF InStream
      <3>2. s \in Nat /\ t \in Nat
        BY <1>3
      <3>3. \A x \in Nat : x <= s => x <= t
        BY <1>4, <3>2
      <3>4. ~(t <= s)
        BY <1>4, <3>2
      <3> QED BY <1>3, <1>4, <3>1, <3>3, <3>4
    <2>2. IsFiniteSet(R(t))
      BY <1>2, <1>3, FS_Subset
    <2> HIDE DEF R
    <2>3. Cardinality(R(s)) # Cardinality(R(t))
      BY <2>1, <2>2, FS_Subset
    <2> QED BY <1>1, <2>3
<1>5. ASSUME NEW s \in S PROVE Rank(S, s) \in 1 .. Cardinality(InStream(S, StreamOf(s)))
    <2> DEFINE I == InStream(S, StreamOf(s))
    <2>1. R(s) \in SUBSET I /\ s \in R(s) /\ IsFiniteSet(I)
      BY <1>2, <1>3
    <2> HIDE DEF R, I
    <2>2. IsFiniteSet(R(s)) /\ Cardinality(R(s)) <= Cardinality(I)
      BY <2>1, FS_Subset
    <2>3. Cardinality(R(s)) \in Nat /\ Cardinality(I) \in Nat /\ Cardinality(R(s)) # 0
      BY <2>1, <2>2, FS_CardinalityType, FS_EmptySet
    <2> QED BY <1>1, <2>2, <2>3 DEF I
<1>6. ASSUME NEW s \in S, NEW t \in S, StreamOf(s) = StreamOf(t), Rank(S, s) = Rank(S, t) PROVE s = t
    <2>1. s \in Nat /\ t \in Nat
      BY <1>3
    <2>2. ~(s < t) /\ ~(t < s)
      BY <1>4, <1>6
    <2> QED BY <2>1, <2>2
<1> QED BY <1>5, <1>6

\* find_slot() gives each sequence an empty cell of its own.
LEMMA SlotFree ==
    ASSUME NSwa = 0, NEW S \in SUBSET SeqId, Fits(S),
           kv \in [Stream -> [Idx -> Cells]], head \in [Stream -> 0 .. Size]
    PROVE  /\ Slot(S) \in [S -> Idx]
           /\ \A s \in S : kv[StreamOf(s)][Slot(S)[s]] = Empty
           /\ \A s, t \in S : StreamOf(s) = StreamOf(t) /\ Slot(S)[s] = Slot(S)[t] => s = t
<1> DEFINE usable(st) == {i \in Idx : CanUse(kv, st, i)}
<1>1. Slot(S) \in [S -> Idx] /\ \A s \in S : Slot(S)[s] = Found(S, StreamOf(s))[Rank(S, s)]
    BY SlotShape DEF Slot
<1>2. \A s \in S : StreamOf(s) \in Stream /\ StreamOf(s) \in Streams(S)
    BY StreamType DEF Streams
<1>3. \A st \in Stream : Lists(Found(S, st), usable(st)) /\ Len(Found(S, st)) \in Nat
    <2> SUFFICES ASSUME NEW st \in Stream PROVE Lists(Found(S, st), usable(st)) /\ Len(Found(S, st)) \in Nat
      OBVIOUS
    <2>1. head[st] \in 0 .. Size
      OBVIOUS
    <2>2. Lists(Found(S, st), usable(st)) /\ Found(S, st) \in Seq(Idx)
      BY <2>1, SearchFinds DEF Found
    <2> QED BY <2>2
<1>4. \A s \in S : Rank(S, s) \in 1 .. Len(Found(S, StreamOf(s)))
    <2> SUFFICES ASSUME NEW s \in S PROVE Rank(S, s) \in 1 .. Len(Found(S, StreamOf(s)))
      OBVIOUS
    <2> DEFINE m == Cardinality(InStream(S, StreamOf(s)))
               n == Len(Found(S, StreamOf(s)))
               k == Rank(S, s)
    <2>1. k \in 1 .. m /\ n \in Nat /\ m <= n
      BY <1>2, <1>3, RankShape DEF Fits
    <2>2. m \in Nat
      <3>1. IsFiniteSet(SeqId)
        BY SizeAssumption, FS_Interval DEF SeqId
      <3>2. InStream(S, StreamOf(s)) \in SUBSET SeqId
        BY DEF InStream
      <3> QED BY <3>1, <3>2, FS_Subset, FS_CardinalityType
    <2>3. k \in 1 .. n
      <3> HIDE DEF k, m, n
      <3> QED BY <2>1, <2>2
    <2> QED BY <2>3
<1>5. ASSUME NEW s \in S PROVE kv[StreamOf(s)][Slot(S)[s]] = Empty
    <2> DEFINE st == StreamOf(s)
    <2>1. Found(S, st) \in Seq(usable(st))
      BY <1>2, <1>3 DEF Lists
    <2>2. Found(S, st)[Rank(S, s)] \in usable(st)
      <3> HIDE DEF usable
      <3> QED BY <1>4, <2>1
    <2>3. kv[st][Slot(S)[s]].pos = Free /\ kv[st][Slot(S)[s]] \in Cells
      BY <1>1, <1>2, <2>2, NoWindow
    <2> QED BY <2>3, CellShape
<1>6. ASSUME NEW s \in S, NEW t \in S, StreamOf(s) = StreamOf(t), Slot(S)[s] = Slot(S)[t] PROVE s = t
    <2> DEFINE f == Found(S, StreamOf(s))
    <2>1. Rank(S, s) = Rank(S, t)
      <3>1. \A j, l \in 1 .. Len(f) : f[j] = f[l] => j = l
        BY <1>2, <1>3 DEF Lists
      <3>2. Rank(S, s) \in 1 .. Len(f) /\ Rank(S, t) \in 1 .. Len(f) /\ f[Rank(S, s)] = f[Rank(S, t)]
        BY <1>1, <1>4, <1>6
      <3> HIDE DEF f
      <3> QED BY <3>1, <3>2
    <2> QED BY <1>6, <2>1, RankShape
<1> QED BY <1>1, <1>5, <1>6

\* apply_ubatch() on empty cells of their own: each sequence has its next position in its
\* cell, and the other cells stay.
LEMMA TakenFree ==
    ASSUME NEW S \in SUBSET SeqId, NEW at \in [S -> Idx],
           \A s \in S : kv[StreamOf(s)][at[s]] = Empty,
           \A s, t \in S : StreamOf(s) = StreamOf(t) /\ at[s] = at[t] => s = t
    PROVE  /\ \A s \in S : Taken(at)[StreamOf(s)][at[s]] = NewAt(s)
           /\ \A s \in S : Placed(at, StreamOf(s), at[s]) = {s} /\ Min({s}) = s
           /\ \A st \in Stream, i \in Idx : ~Hits(at, st, i) => Taken(at)[st][i] = kv[st][i]
<1> DEFINE put == PutAt(at)
<1>1. \A st \in Stream : DOMAIN put[st] = {at[s] : s \in InStream(S, st)}
    BY DEF PutAt
<1>2. \A st \in Stream, i \in Idx : i \in DOMAIN put[st] <=> Hits(at, st, i)
    BY <1>1 DEF Hits, Placed, InStream
<1>3. \A st \in Stream : \A i \in DOMAIN put[st] : put[st][i] = NewAt(Min(Placed(at, st, i)))
    BY <1>1 DEF PutAt, NewAt
<1> HIDE DEF put
<1>4. \A st \in Stream : \A i \in DOMAIN put[st] : kv[st][i].seq = {}
    BY <1>1, EmptyFine DEF InStream
<1>5. Taken(at) = With(kv, put)
    BY <1>4, NothingPurged DEF Taken, put
<1>6. ASSUME NEW s \in S PROVE Placed(at, StreamOf(s), at[s]) = {s} /\ Min({s}) = s
    <2>1. Placed(at, StreamOf(s), at[s]) = {s}
      BY DEF Placed
    <2>2. Min({s}) = s
      <3>1. {s} \in SUBSET Nat /\ {s} # {}
        BY SeqIds
      <3>2. Min({s}) \in {s}
        BY <3>1, MinExists
      <3> QED BY <3>2
    <2> QED BY <2>1, <2>2
<1>7. ASSUME NEW s \in S PROVE Taken(at)[StreamOf(s)][at[s]] = NewAt(s)
    <2>1. StreamOf(s) \in Stream /\ at[s] \in Idx /\ Hits(at, StreamOf(s), at[s])
      BY <1>6, StreamType DEF Hits
    <2>2. at[s] \in DOMAIN put[StreamOf(s)] /\ put[StreamOf(s)][at[s]] = NewAt(s)
      <3>1. at[s] \in DOMAIN put[StreamOf(s)]
        BY <1>2, <2>1
      <3>2. put[StreamOf(s)][at[s]] = NewAt(Min(Placed(at, StreamOf(s), at[s])))
        BY <1>3, <2>1, <3>1
      <3>3. Min(Placed(at, StreamOf(s), at[s])) = s
        BY <1>6
      <3> QED BY <3>1, <3>2, <3>3
    <2> QED BY <1>5, <2>1, <2>2 DEF With
<1>8. \A st \in Stream, i \in Idx : ~Hits(at, st, i) => Taken(at)[st][i] = kv[st][i]
    BY <1>2, <1>5 DEF With
<1> QED BY <1>6, <1>7, <1>8

-----------------------------------------------------------------------------
(* The steps of a batch.                                                   *)

\* The cells on trial are those of the stack.
OnStack(r, st, i) == \E j \in 1 .. Len(r.stack), s \in r.S : StreamOf(s) = st /\ r.stack[j].at[s] = i

LEMMA TrialCells ==
    ASSUME NEW X, run.stack \in Seq(X)
    PROVE  \A st, i : i \in OnTrial(st) <=> OnStack(run, st, i)
<1>1. Range(run.stack) = {run.stack[j] : j \in 1 .. Len(run.stack)}
    BY DEF Range
<1> QED BY <1>1 DEF OnTrial, OnStack, InStream

LEMMA TrialCellsNext ==
    ASSUME NEW X, run'.stack \in Seq(X), UNCHANGED unified
    PROVE  \A st, i : i \in OnTrial(st)' <=> OnStack(run', st, i)
<1>1. Range(run'.stack) = {run'.stack[j] : j \in 1 .. Len(run'.stack)}
    BY DEF Range
<1> QED BY <1>1 DEF OnTrial, OnStack, InStream, StreamOf

\* The data stays, and a sequence keeps its cells, apart from those on trial.
LEMMA TrialContent ==
    ASSUME UNCHANGED <<unified, data, origin>>, NEW X, run.stack \in Seq(X), run'.stack \in Seq(X),
           NEW q \in SeqId,
           \A i \in Idx : q \in kv'[StreamOf(q)][i].seq /\ ~OnStack(run', StreamOf(q), i)
                            <=> q \in kv[StreamOf(q)][i].seq /\ ~OnStack(run, StreamOf(q), i),
           \A i \in Idx : q \in kv[StreamOf(q)][i].seq /\ ~OnStack(run, StreamOf(q), i)
                            => kv'[StreamOf(q)][i].pos = kv[StreamOf(q)][i].pos
    PROVE  SeqContent(q)' = SeqContent(q)
<1> DEFINE st == StreamOf(q)
           I == {i \in Idx : q \in kv[st][i].seq /\ ~OnStack(run, st, i)}
           J == {i \in Idx : q \in kv'[st][i].seq /\ ~OnStack(run', st, i)}
<1>1. CellsOf(kv, q) \ OnTrial(st) = I
    BY TrialCells DEF CellsOf
<1>2. (CellsOf(kv, q) \ OnTrial(st))' = J
    BY TrialCellsNext DEF CellsOf, StreamOf
<1>3. StreamOf(q)' = st
    BY DEF StreamOf
<1>4. SeqContent(q) = {<<kv[st][i].pos, data[origin[st]][i].tok>> : i \in I}
    BY <1>1 DEF SeqContent
<1>5. SeqContent(q)' = {<<kv'[st][i].pos, data[origin[st]][i].tok>> : i \in J}
    BY <1>2, <1>3 DEF SeqContent
<1>6. I = J /\ \A i \in I : kv'[st][i].pos = kv[st][i].pos
    OBVIOUS
<1> DEFINE e(i) == <<kv[st][i].pos, data[origin[st]][i].tok>>
           e2(i) == <<kv'[st][i].pos, data[origin[st]][i].tok>>
<1>7. SeqContent(q) = {e(i) : i \in I} /\ SeqContent(q)' = {e2(i) : i \in J}
    BY <1>4, <1>5
<1>8. I = J /\ \A i \in I : e2(i) = e(i)
    BY <1>6
<1> HIDE DEF I, J, st, e, e2
<1> QED BY <1>7, <1>8

\* Steps that the users of the memory do not see.
LEMMA Unseen ==
    ASSUME UNCHANGED <<snap, whole>>, \A q \in SeqId : SeqContent(q)' = SeqContent(q)
    PROVE  Memory!Work
BY SavedSame DEF Memory!Work, Memory!memVars

\* decode() and update(): the pending copies are made, the tokens stay.
LEMMA DecodeMaps ==
    ASSUME Inv, NEW S \in SUBSET SeqId, NEW tok, NEW n, Decode(S, tok, n)
    PROVE  Memory!Work /\ PlacesOK'
<1>1. /\ run = Idle /\ UNCHANGED <<unified, snap, whole>>
      /\ data' = [st \in Stream |-> [i \in Idx |-> Rotated(st, i)]]
      /\ kv' = [st \in Stream |-> [i \in Idx |-> [kv[st][i] EXCEPT !.shift = 0]]]
      /\ origin' = [st \in Stream |-> st]
    BY DEF Decode
<1>2. /\ kv \in [Stream -> [Idx -> Cells]] /\ data \in [Stream -> [Idx -> Data]]
      /\ origin \in [Stream -> Stream]
    BY <1>1, IdleParts
<1>3. run.stack = <<>> /\ run'.stack = <<>> /\ run'.sinfo = <<>>
    <2>1. PICK b : b = Idle
      OBVIOUS
    <2>2. IsBatch(b) /\ b.stack = <<>> /\ b.sinfo = <<>>
      BY <2>1 DEF IsBatch, Idle
    <2>3. run' = [b EXCEPT !.phase = "prepare", !.S = S, !.tok = tok, !.n = n]
      BY <2>1 DEF Decode
    <2>4. run'.stack = b.stack /\ run'.sinfo = b.sinfo
      BY <2>2, <2>3 DEF IsBatch
    <2> QED BY <1>1, <2>1, <2>2, <2>4
<1>4. ASSUME NEW q \in SeqId PROVE SeqContent(q)' = SeqContent(q)
    <2> DEFINE st == StreamOf(q)
    <2>1. st \in Stream /\ origin[st] \in Stream /\ origin'[st] = st
      BY <1>1, <1>2, StreamType
    <2>2. ASSUME NEW i \in Idx
          PROVE  /\ kv'[st][i].seq = kv[st][i].seq /\ kv'[st][i].pos = kv[st][i].pos
                 /\ data'[origin'[st]][i].tok = data[origin[st]][i].tok
      <3>1. PICK a \in Cells : a = kv[st][i]
        BY <1>2, <2>1
      <3>2. PICK e \in Data : e = data[origin[st]][i]
        BY <1>2, <2>1
      <3>3. kv'[st][i] = [a EXCEPT !.shift = 0] /\ data'[st][i] = [e EXCEPT !.rot = @ + a.shift]
        BY <1>1, <2>1, <3>1, <3>2 DEF Rotated
      <3>4. a = [pos |-> a.pos, seq |-> a.seq, shift |-> a.shift]
        BY DEF Cells, Empty
      <3>5. e = [tok |-> e.tok, rot |-> e.rot]
        BY DEF Data
      <3>6. kv'[st][i].seq = a.seq /\ kv'[st][i].pos = a.pos
        BY <3>3, <3>4
      <3>7. data'[st][i].tok = e.tok
        BY <3>3, <3>5
      <3> QED BY <2>1, <3>1, <3>2, <3>6, <3>7
    <2>3. Tokens(kv, data, origin, q) = Tokens(kv', data', origin', q)
      BY <2>2, TokensEqual
    <2> QED BY <1>1, <1>3, <2>3, ContentNow, ContentNext
<1>5. PlacesFor(run', kv')
    BY <1>3 DEF PlacesFor
<1> QED BY <1>1, <1>4, <1>5, Unseen, PlacesAfter

\* prepare() ends: nothing is placed or taken back.
LEMMA PrepareEndsMaps ==
    ASSUME Inv, PlacesOK, Prepare, run.k > run.n \/ ~Fits(run.S)
    PROVE  Memory!Work /\ PlacesOK'
<1>1. run.phase = "prepare" /\ UNCHANGED <<unified, kv, data, origin, snap, whole>>
    BY DEF Prepare
<1>2. run' = [run EXCEPT !.phase = "rollback", !.ok = run.k > run.n]
    BY DEF Prepare
<1>3. IsBatch(run)
    BY <1>1, BatchParts
<1>4. PICK b : b = run
    OBVIOUS
<1>5. PICK ok : ok = (run.k > run.n)
    OBVIOUS
<1>6. PICK r : r = run'
    OBVIOUS
<1>7. r = [b EXCEPT !.phase = "rollback", !.ok = ok]
    BY <1>2, <1>4, <1>5, <1>6, Zenon
<1>8. r.phase = "rollback" /\ r.S = b.S /\ r.sinfo = b.sinfo /\ r.stack = b.stack
    BY <1>3, <1>4, <1>7 DEF IsBatch
<1>9. run'.phase = "rollback" /\ run'.S = run.S /\ run'.sinfo = run.sinfo /\ run'.stack = run.stack
    BY <1>4, <1>6, <1>8
<1>10. \A q \in SeqId : SeqContent(q)' = SeqContent(q)
    BY <1>1, <1>9 DEF SeqContent, CellsOf, OnTrial, StreamOf, InStream
<1>11. PlacesFor(run', kv')
    BY <1>1, <1>9 DEF PlacesOK, PlacesFor, Ahead
<1> QED BY <1>1, <1>10, <1>11, Unseen, PlacesAfter

\* prepare() places an ubatch: what its cells show is on trial.
LEMMA PreparePlacesMaps ==
    ASSUME Inv, PlacesOK, NSwa = 0, Prepare, ~(run.k > run.n), Fits(run.S)
    PROVE  Memory!Work /\ PlacesOK'
<1> DEFINE at == Slot(run.S)
           e  == [at |-> at, old |-> [s \in run.S |-> kv[StreamOf(s)][at[s]]], head |-> head]
           q  == run.stack
           N  == Len(run.stack)
<1>1. /\ run.phase = "prepare" /\ kv' = Taken(at)
      /\ run' = [run EXCEPT !.k = @ + 1, !.sinfo = Append(@, at), !.stack = Append(@, e)]
      /\ UNCHANGED <<unified, data, origin, snap, whole>>
    BY DEF Prepare
<1>2. /\ kv \in [Stream -> [Idx -> Cells]] /\ head \in [Stream -> 0 .. Size]
      /\ RunFor(run, kv, origin) /\ IsBatch(run) /\ run.S \in SUBSET SeqId /\ run.n \in 1 .. MaxPos + 1
    BY <1>1, BatchParts
<1>3. /\ run.k \in 1 .. run.n /\ N = run.k - 1 /\ Len(run.sinfo) = N /\ N \in Nat /\ N < run.n
      /\ q \in Seq(Entries(run.S)) /\ run.sinfo \in Seq([run.S -> Idx])
    BY <1>1, <1>2 DEF RunFor
<1>4. /\ at \in [run.S -> Idx] /\ \A s \in run.S : kv[StreamOf(s)][at[s]] = Empty
      /\ \A s, t \in run.S : StreamOf(s) = StreamOf(t) /\ at[s] = at[t] => s = t
    BY <1>2, SlotFree
<1>5. ASSUME NEW s \in run.S PROVE SeqPosMax(kv, s) + 1 \in 0 .. MaxPos
    <2>1. N = Ahead(run, N) /\ run.phase # "idle"
      BY <1>1 DEF Ahead
    <2> HIDE DEF N
    <2> QED BY <1>3, <2>1, NextPos DEF N
<1>6. e.at = at /\ (\A s \in run.S : e.old[s] = Empty) /\ e \in Entries(run.S)
    <2>1. \A s \in run.S : kv[StreamOf(s)][at[s]] \in Cells
      BY <1>4, EmptyFine
    <2> HIDE DEF at
    <2> QED BY <1>2, <1>4, <2>1 DEF Entries
<1> HIDE DEF at
<1>7. /\ \A s \in run.S : Taken(at)[StreamOf(s)][at[s]] = NewAt(s)
      /\ \A st \in Stream, i \in Idx : ~Hits(at, st, i) => Taken(at)[st][i] = kv[st][i]
    BY <1>2, <1>4, TakenFree
<1>8. PICK r : r = run'
    OBVIOUS
<1>9. r.phase = "prepare" /\ r.S = run.S /\ r.sinfo = Append(run.sinfo, at) /\ r.stack = Append(q, e)
    <2>1. r = [run EXCEPT !.k = @ + 1, !.sinfo = Append(@, at), !.stack = Append(@, e)]
      BY <1>1, <1>8
    <2> HIDE DEF e
    <2>2. IsBatch(r)
      BY <1>2, <2>1 DEF IsBatch
    <2> QED BY <1>1, <1>2, <2>1, <2>2 DEF IsBatch
<1>10. /\ r.stack \in Seq(Entries(run.S)) /\ Len(r.stack) = N + 1 /\ r.stack[N + 1] = e
       /\ \A j \in 1 .. N : r.stack[j] = q[j]
    <2>1. q \in Seq(Entries(run.S)) /\ e \in Entries(run.S) /\ N = Len(q)
      BY <1>3, <1>6
    <2> HIDE DEF e, N, q
    <2> QED BY <1>9, <2>1, AppendProperties
<1>11. /\ Len(r.sinfo) = N + 1 /\ r.sinfo[N + 1] = at /\ \A j \in 1 .. N : r.sinfo[j] = run.sinfo[j]
    <2>1. run.sinfo \in Seq([run.S -> Idx]) /\ at \in [run.S -> Idx] /\ N = Len(run.sinfo)
      BY <1>3, <1>4
    <2> HIDE DEF e, N, q
    <2> QED BY <1>9, <2>1, AppendProperties
<1>12. /\ \A j \in 1 .. N : /\ q[j].at = run.sinfo[j]
                            /\ \A s \in run.S : /\ q[j].old[s] = Empty
                                                /\ kv[StreamOf(s)][run.sinfo[j][s]].pos # Free
       /\ \A j, l \in 1 .. N, s, t \in run.S :
            StreamOf(s) = StreamOf(t) /\ run.sinfo[j][s] = run.sinfo[l][t] => j = l /\ s = t
    BY <1>3 DEF PlacesOK, PlacesFor
<1>13. \A j \in 1 .. N : run.sinfo[j] \in [run.S -> Idx]
    BY <1>3
<1>14. \A s \in run.S : StreamOf(s) \in Stream /\ at[s] \in Idx
    BY <1>2, <1>4, StreamType
<1> HIDE DEF e, q, N
<1>15. \A st, i : OnStack(r, st, i) <=> OnStack(run, st, i) \/ Hits(at, st, i)
    <2> SUFFICES ASSUME NEW st, NEW i PROVE OnStack(r, st, i) <=> OnStack(run, st, i) \/ Hits(at, st, i)
      OBVIOUS
    <2>1. Hits(at, st, i) <=> \E s \in run.S : StreamOf(s) = st /\ at[s] = i
      BY <1>4 DEF Hits, Placed
    <2>2. \A j : j \in 1 .. N + 1 <=> j \in 1 .. N \/ j = N + 1
      BY <1>3
    <2>3. OnStack(run, st, i) <=> \E j \in 1 .. N, s \in run.S : StreamOf(s) = st /\ q[j].at[s] = i
      BY DEF OnStack, N, q
    <2>4. OnStack(r, st, i) <=> \E j \in 1 .. N + 1, s \in run.S : StreamOf(s) = st /\ r.stack[j].at[s] = i
      BY <1>9, <1>10 DEF OnStack
    <2> QED BY <1>6, <1>10, <2>1, <2>2, <2>3, <2>4
<1>16. ASSUME NEW st \in Stream, NEW i \in Idx, Hits(at, st, i)
       PROVE  kv[st][i] = Empty
    BY <1>4, <1>16 DEF Hits, Placed
<1>17. ASSUME NEW p \in SeqId PROVE SeqContent(p)' = SeqContent(p)
    <2> DEFINE st == StreamOf(p)
    <2>1. st \in Stream
      BY StreamType
    <2>2. ASSUME NEW i \in Idx
          PROVE  /\ p \in kv'[st][i].seq /\ ~OnStack(r, st, i) <=> p \in kv[st][i].seq /\ ~OnStack(run, st, i)
                 /\ p \in kv[st][i].seq /\ ~OnStack(run, st, i) => kv'[st][i].pos = kv[st][i].pos
      <3> HIDE DEF st
      <3>1. CASE Hits(at, st, i)
        BY <1>15, <1>16, <2>1, <3>1, EmptyFine
      <3>2. CASE ~Hits(at, st, i)
        BY <1>1, <1>7, <1>15, <2>1, <3>2
      <3> QED BY <3>1, <3>2
    <2>3. run.stack \in Seq(Entries(run.S)) /\ run'.stack \in Seq(Entries(run.S))
      BY <1>3, <1>8, <1>10 DEF q
    <2> QED BY <1>1, <1>8, <2>2, <2>3, TrialContent
<1>18. ASSUME NEW j \in 1 .. N, NEW s \in run.S
       PROVE  kv'[StreamOf(s)][run.sinfo[j][s]] = kv[StreamOf(s)][run.sinfo[j][s]]
    <2> DEFINE i == run.sinfo[j][s]
    <2>1. i \in Idx /\ kv[StreamOf(s)][i].pos # Free
      BY <1>12, <1>13
    <2>2. ~Hits(at, StreamOf(s), i)
      BY <1>14, <1>16, <2>1, EmptyFine
    <2> QED BY <1>1, <1>7, <1>14, <2>1, <2>2
<1>19. ASSUME NEW s \in run.S PROVE kv'[StreamOf(s)][at[s]].pos # Free
    <2>1. kv'[StreamOf(s)][at[s]].pos = SeqPosMax(kv, s) + 1
      <3>1. kv'[StreamOf(s)][at[s]] = NewAt(s)
        BY <1>1, <1>7
      <3>2. NewAt(s).pos = SeqPosMax(kv, s) + 1
        BY DEF NewAt
      <3> QED BY <3>1, <3>2
    <2> QED BY <1>5, <2>1 DEF Free
<1>20. ASSUME NEW j \in 1 .. N, NEW s \in run.S, NEW t \in run.S, StreamOf(s) = StreamOf(t) PROVE run.sinfo[j][s] # at[t]
    BY <1>4, <1>12, <1>20, EmptyFine
<1>21. PlacesFor(r, kv')
    <2>1. \A j : j \in 1 .. N + 1 <=> j \in 1 .. N \/ j = N + 1
      BY <1>3
    <2>2. ASSUME NEW j \in 1 .. N + 1
          PROVE  /\ r.stack[j].at = r.sinfo[j]
                 /\ \A s \in r.S : r.stack[j].old[s] = Empty /\ kv'[StreamOf(s)][r.sinfo[j][s]].pos # Free
      <3>1. CASE j \in 1 .. N
        <4>1. r.stack[j] = q[j] /\ r.sinfo[j] = run.sinfo[j] /\ r.S = run.S
          BY <1>9, <1>10, <1>11, <3>1
        <4>2. /\ q[j].at = run.sinfo[j]
              /\ \A s \in run.S : q[j].old[s] = Empty /\ kv[StreamOf(s)][run.sinfo[j][s]].pos # Free
          BY <1>12, <3>1
        <4>3. \A s \in run.S : kv'[StreamOf(s)][run.sinfo[j][s]] = kv[StreamOf(s)][run.sinfo[j][s]]
          BY <1>18, <3>1
        <4> HIDE DEF q, N
        <4> QED BY <4>1, <4>2, <4>3
      <3>2. CASE j = N + 1
        BY <1>6, <1>9, <1>10, <1>11, <1>19, <3>2
      <3> QED BY <2>1, <3>1, <3>2
    <2>3. ASSUME NEW j \in 1 .. N + 1, NEW l \in 1 .. N + 1, NEW s \in r.S, NEW t \in r.S,
                 StreamOf(s) = StreamOf(t), r.sinfo[j][s] = r.sinfo[l][t]
          PROVE  j = l /\ s = t
      <3>1. CASE j \in 1 .. N /\ l \in 1 .. N
        BY <1>9, <1>11, <1>12, <2>3, <3>1
      <3>2. CASE j = N + 1 /\ l = N + 1
        BY <1>4, <1>9, <1>11, <2>3, <3>2
      <3>3. CASE j \in 1 .. N /\ l = N + 1
        BY <1>9, <1>11, <1>20, <2>3, <3>3
      <3>4. CASE j = N + 1 /\ l \in 1 .. N
        BY <1>9, <1>11, <1>20, <2>3, <3>4
      <3> QED BY <2>1, <3>1, <3>2, <3>3, <3>4
    <2>4. ASSUME NEW j \in 1 .. N + 1 PROVE ~(j > Ahead(r, N + 1))
      BY <1>3, <1>9 DEF Ahead
    <2> QED BY <1>10, <1>11, <2>2, <2>3, <2>4 DEF PlacesFor
<1> QED BY <1>1, <1>8, <1>17, <1>21, Unseen, PlacesAfter

\* prepare() has taken everything back.
LEMMA RollbackEndsMaps ==
    ASSUME Inv, PlacesOK, Rollback, run.stack = <<>>
    PROVE  Memory!Work /\ PlacesOK'
<1>1. /\ run.phase = "rollback" /\ UNCHANGED <<unified, kv, data, origin, snap, whole>>
      /\ run' = IF run.ok THEN [run EXCEPT !.phase = "run", !.k = 1] ELSE Idle
    BY DEF Rollback
<1>2. IsBatch(run)
    BY <1>1, BatchParts
<1>3. CASE run.ok
    <2>1. PICK r : r = run'
      OBVIOUS
    <2>2. r = [run EXCEPT !.phase = "run", !.k = 1]
      BY <1>1, <1>3, <2>1
    <2>3. r.phase = "run" /\ r.k = 1 /\ r.S = run.S /\ r.sinfo = run.sinfo /\ r.stack = run.stack
      BY <1>2, <2>2 DEF IsBatch
    <2>4. \A q \in SeqId : SeqContent(q)' = SeqContent(q)
      BY <1>1, <2>1, <2>3 DEF SeqContent, CellsOf, OnTrial, StreamOf, InStream
    <2>5. Ahead(r, Len(r.stack)) = Ahead(run, Len(run.stack))
      BY <1>1, <2>3 DEF Ahead
    <2>6. PlacesFor(r, kv)
      BY <2>3, <2>5, PlacesCarry DEF PlacesOK
    <2>7. PlacesFor(run', kv')
      BY <1>1, <2>1, <2>6
    <2> QED BY <1>1, <2>4, <2>7, Unseen, PlacesAfter
<1>4. CASE ~run.ok
    <2>1. run' = Idle /\ run'.stack = <<>>
      BY <1>1, <1>4 DEF Idle
    <2>2. \A q \in SeqId : SeqContent(q)' = SeqContent(q)
      <3>1. \A q \in SeqId : Tokens(kv', data', origin', q) = Tokens(kv, data, origin, q)
        BY <1>1
      <3> QED BY <1>1, <2>1, <3>1, ContentNow, ContentNext
    <2> QED BY <1>1, <2>1, <2>2, IdlePlaces, Unseen, PlacesAfter
<1> QED BY <1>3, <1>4

\* prepare() takes the last ubatch back: its cells are empty again.
LEMMA RollbackTakesMaps ==
    ASSUME Inv, PlacesOK, Rollback, run.stack # <<>>
    PROVE  Memory!Work /\ PlacesOK'
<1> DEFINE q == run.stack
           e == Last(q)
           f == Front(q)
           c == [st \in Stream |-> [i \in Idx |->
                   IF Placed(e.at, st, i) = {} THEN kv[st][i] ELSE e.old[Min(Placed(e.at, st, i))]]]
           N == Len(f)
<1>1. /\ run.phase = "rollback" /\ kv' = c
      /\ run' = [run EXCEPT !.stack = Front(@)]
      /\ UNCHANGED <<unified, data, origin, snap, whole>>
    BY DEF Rollback
<1>2. /\ RunFor(run, kv, origin) /\ IsBatch(run) /\ run.S \in SUBSET SeqId
      /\ q \in Seq(Entries(run.S)) /\ run.sinfo \in Seq([run.S -> Idx])
    BY <1>1, BatchParts
<1>3. /\ f \in Seq(Entries(run.S)) /\ e \in Entries(run.S)
      /\ N \in Nat /\ Len(q) = N + 1 /\ q[N + 1] = e /\ \A j \in 1 .. N : q[j] = f[j]
    <2>1. f \in Seq(Entries(run.S)) /\ e \in Entries(run.S) /\ Extends(q, f, e)
      BY <1>2, TakenBack
    <2> HIDE DEF e, f, q
    <2> QED BY <2>1 DEF Extends
<1>4. N + 1 <= Len(run.sinfo) /\ Len(run.sinfo) \in Nat
    <2>1. run.k \in Nat /\ Len(run.sinfo) = run.k - 1 /\ Len(q) <= run.k - 1 /\ Len(run.sinfo) \in Nat
      BY <1>1, <1>2 DEF RunFor
    <2> HIDE DEF e, f, q
    <2> QED BY <1>3, <2>1
<1> HIDE DEF e, f
<1>5. PICK r : r = run'
    OBVIOUS
<1>6. r.phase = "rollback" /\ r.S = run.S /\ r.sinfo = run.sinfo /\ r.stack = f
    <2>1. r = [run EXCEPT !.stack = f]
      BY <1>1, <1>5 DEF f
    <2>2. IsBatch(r)
      BY <1>2, <2>1 DEF IsBatch
    <2> QED BY <1>1, <1>2, <2>1, <2>2 DEF IsBatch
<1> DEFINE at == run.sinfo[N + 1]
<1>7. /\ \A j \in 1 .. N + 1 : /\ q[j].at = run.sinfo[j]
                               /\ \A s \in run.S : /\ q[j].old[s] = Empty
                                                   /\ kv[StreamOf(s)][run.sinfo[j][s]].pos # Free
      /\ \A j, l \in 1 .. Len(run.sinfo), s, t \in run.S :
            StreamOf(s) = StreamOf(t) /\ run.sinfo[j][s] = run.sinfo[l][t] => j = l /\ s = t
      /\ \A j \in 1 .. Len(run.sinfo), s \in run.S :
            j > N + 1 => kv[StreamOf(s)][run.sinfo[j][s]] = Empty
    <2>1. Ahead(run, N + 1) = N + 1
      BY <1>1 DEF Ahead
    <2> HIDE DEF N
    <2> QED BY <1>3, <2>1 DEF PlacesOK, PlacesFor
<1>8. \A j \in 1 .. Len(run.sinfo) : run.sinfo[j] \in [run.S -> Idx]
    BY <1>2
<1>9. N + 1 \in 1 .. N + 1 /\ N + 1 \in 1 .. Len(run.sinfo) /\ \A j \in 1 .. N : j \in 1 .. N + 1 /\ j \in 1 .. Len(run.sinfo)
    <2> HIDE DEF N
    <2> QED BY <1>3, <1>4
<1>10. at \in [run.S -> Idx] /\ e.at = at /\ \A s \in run.S : e.old[s] = Empty
    BY <1>3, <1>7, <1>8, <1>9
<1> HIDE DEF at, N
<1>11. ASSUME NEW st \in Stream, NEW i \in Idx
       PROVE  kv'[st][i] = IF Hits(at, st, i) THEN Empty ELSE kv[st][i]
    <2>1. kv'[st][i] = IF Placed(at, st, i) = {} THEN kv[st][i] ELSE e.old[Min(Placed(at, st, i))]
      BY <1>1, <1>10
    <2>2. Hits(at, st, i) => Min(Placed(at, st, i)) \in run.S
      BY <1>2, <1>10, PlacedShape DEF Hits
    <2> QED BY <1>10, <2>1, <2>2 DEF Hits
<1>12. \A st, i : OnStack(run, st, i) <=> OnStack(r, st, i) \/ Hits(at, st, i)
    <2> SUFFICES ASSUME NEW st, NEW i PROVE OnStack(run, st, i) <=> OnStack(r, st, i) \/ Hits(at, st, i)
      OBVIOUS
    <2>1. Hits(at, st, i) <=> \E s \in run.S : StreamOf(s) = st /\ at[s] = i
      BY <1>10 DEF Hits, Placed
    <2>2. \A j : j \in 1 .. N + 1 <=> j \in 1 .. N \/ j = N + 1
      BY <1>3
    <2>3. OnStack(r, st, i) <=> \E j \in 1 .. N, s \in run.S : StreamOf(s) = st /\ f[j].at[s] = i
      BY <1>6 DEF OnStack, N
    <2>4. OnStack(run, st, i) <=> \E j \in 1 .. N + 1, s \in run.S : StreamOf(s) = st /\ q[j].at[s] = i
      BY <1>3 DEF OnStack
    <2> HIDE DEF q
    <2> QED BY <1>3, <1>10, <2>1, <2>2, <2>3, <2>4
<1>13. ASSUME NEW p \in SeqId PROVE SeqContent(p)' = SeqContent(p)
    <2> DEFINE st == StreamOf(p)
    <2>1. st \in Stream
      BY StreamType
    <2>2. ASSUME NEW i \in Idx
          PROVE  /\ p \in kv'[st][i].seq /\ ~OnStack(r, st, i) <=> p \in kv[st][i].seq /\ ~OnStack(run, st, i)
                 /\ p \in kv[st][i].seq /\ ~OnStack(run, st, i) => kv'[st][i].pos = kv[st][i].pos
      <3> HIDE DEF st
      <3> QED BY <1>11, <1>12, <2>1, EmptyFine
    <2>3. run.stack \in Seq(Entries(run.S)) /\ run'.stack \in Seq(Entries(run.S))
      BY <1>2, <1>3, <1>5, <1>6
    <2> QED BY <1>1, <1>5, <2>2, <2>3, TrialContent
<1>14. ASSUME NEW j \in 1 .. Len(run.sinfo), NEW s \in run.S, j # N + 1
       PROVE  kv'[StreamOf(s)][run.sinfo[j][s]] = kv[StreamOf(s)][run.sinfo[j][s]]
    <2>1. ~Hits(at, StreamOf(s), run.sinfo[j][s])
      <3> SUFFICES ASSUME NEW t \in run.S, StreamOf(t) = StreamOf(s), at[t] = run.sinfo[j][s] PROVE FALSE
        BY <1>10 DEF Hits, Placed
      <3> QED BY <1>7, <1>9, <1>14 DEF at
    <2>2. StreamOf(s) \in Stream /\ run.sinfo[j][s] \in Idx
      BY <1>2, <1>8, StreamType
    <2> QED BY <1>11, <2>1, <2>2
<1>15. ASSUME NEW s \in run.S PROVE kv'[StreamOf(s)][at[s]] = Empty
    <2>1. StreamOf(s) \in Stream /\ at[s] \in Idx /\ Hits(at, StreamOf(s), at[s])
      BY <1>2, <1>10, StreamType DEF Hits, Placed
    <2> QED BY <1>11, <2>1
<1>16. PlacesFor(r, kv')
    <2>1. ASSUME NEW j \in 1 .. N
          PROVE  /\ f[j].at = run.sinfo[j]
                 /\ \A s \in run.S : f[j].old[s] = Empty /\ kv'[StreamOf(s)][run.sinfo[j][s]].pos # Free
      <3>1. j \in 1 .. N + 1 /\ j \in 1 .. Len(run.sinfo) /\ j # N + 1 /\ q[j] = f[j]
        BY <1>3, <1>9
      <3> HIDE DEF q
      <3> QED BY <1>7, <1>14, <3>1
    <2>2. ASSUME NEW j \in 1 .. Len(run.sinfo), NEW s \in run.S, j > N
          PROVE  kv'[StreamOf(s)][run.sinfo[j][s]] = Empty
      <3>1. CASE j = N + 1
        BY <1>15, <3>1 DEF at
      <3>2. CASE j # N + 1
        <4>1. j > N + 1
          BY <1>3, <1>4, <2>2, <3>2
        <4> QED BY <1>7, <1>14, <3>2, <4>1
      <3> QED BY <3>1, <3>2
    <2>3. Ahead(r, N) = N
      BY <1>6 DEF Ahead
    <2>4. \A j, l \in 1 .. Len(run.sinfo), s, t \in run.S :
            StreamOf(s) = StreamOf(t) /\ run.sinfo[j][s] = run.sinfo[l][t] => j = l /\ s = t
      BY <1>7
    <2> HIDE DEF q
    <2> QED BY <1>6, <2>1, <2>2, <2>3, <2>4 DEF PlacesFor, N
<1> QED BY <1>1, <1>5, <1>13, <1>16, Unseen, PlacesAfter

\* The next position of a sequence in the memory is that after its cells.
LEMMA NextPosition ==
    ASSUME run.stack = <<>>, NEW q \in SeqId
    PROVE  Memory!NextPos(SeqContent(q)) = SeqPosMax(kv, q) + 1
<1> DEFINE I == {i \in Idx : q \in kv[StreamOf(q)][i].seq}
           C == SeqContent(q)
           p(i) == kv[StreamOf(q)][i].pos
           e(i) == <<p(i), data[origin[StreamOf(q)]][i].tok>>
           fst(x) == x[1]
<1>1. C = {e(i) : i \in I}
    BY ContentNow DEF Tokens
<1>2. PosOf(kv, q) = {p(i) : i \in I}
    BY DEF PosOf, CellsOf
<1>3. \A i : fst(e(i)) = p(i)
    OBVIOUS
<1>4. PosOf(kv, q) = {x[1] : x \in C} /\ (C = {} <=> PosOf(kv, q) = {})
    <2> HIDE DEF C, I, e, p, fst
    <2>1. PosOf(kv, q) = {fst(x) : x \in C} /\ (C = {} <=> PosOf(kv, q) = {})
      BY <1>1, <1>2, <1>3
    <2> QED BY <2>1 DEF fst
<1> HIDE DEF C, I, e
<1>5. Memory!NextPos(C) = IF C = {} THEN 0 ELSE Max({x[1] : x \in C}) + 1
    BY DEF Memory!NextPos, Memory!Max, Max
<1>6. -1 + 1 = 0
    OBVIOUS
<1> QED BY <1>4, <1>5, <1>6 DEF SeqPosMax, C

\* The cells of the ubatch that is about to be computed.
LEMMA UbatchFree ==
    ASSUME Inv, PlacesOK, run.phase = "run", NEW at, at = run.sinfo[run.k]
    PROVE  /\ \A s \in run.S : kv[StreamOf(s)][at[s]] = Empty
           /\ \A s, t \in run.S : StreamOf(s) = StreamOf(t) /\ at[s] = at[t] => s = t
           /\ \A s \in run.S : Taken(at)[StreamOf(s)][at[s]] = NewAt(s)
           /\ \A s \in run.S : Placed(at, StreamOf(s), at[s]) = {s} /\ Min({s}) = s
           /\ \A st \in Stream, i \in Idx : ~Hits(at, st, i) => Taken(at)[st][i] = kv[st][i]
           /\ \A st, i : Hits(at, st, i) => \E s \in run.S : StreamOf(s) = st /\ at[s] = i
<1>1. run.k \in 1 .. run.n /\ run.stack = <<>> /\ at \in [run.S -> Idx] /\ run.S \in SUBSET SeqId
      /\ RunFor(run, kv, origin)
    BY UbatchTaken
<1>2. Len(run.sinfo) = run.n /\ run.k \in 1 .. Len(run.sinfo) /\ run.k > run.k - 1
    BY <1>1 DEF RunFor
<1>3. Ahead(run, Len(run.stack)) = run.k - 1
    BY DEF Ahead
<1>4. \A s \in run.S : kv[StreamOf(s)][at[s]] = Empty
    BY <1>2, <1>3 DEF PlacesOK, PlacesFor
<1>5. \A s, t \in run.S : StreamOf(s) = StreamOf(t) /\ at[s] = at[t] => s = t
    BY <1>2 DEF PlacesOK, PlacesFor
<1>6. \A st, i : Hits(at, st, i) => \E s \in run.S : StreamOf(s) = st /\ at[s] = i
    BY <1>1 DEF Hits, Placed
<1>7. run.S \in SUBSET SeqId /\ at \in [run.S -> Idx]
    BY <1>1
<1>8. /\ \A s \in run.S : Taken(at)[StreamOf(s)][at[s]] = NewAt(s)
      /\ \A s \in run.S : Placed(at, StreamOf(s), at[s]) = {s} /\ Min({s}) = s
      /\ \A st \in Stream, i \in Idx : ~Hits(at, st, i) => Taken(at)[st][i] = kv[st][i]
    BY <1>4, <1>5, <1>7, TakenFree, ZenonT(60)
<1> QED BY <1>4, <1>5, <1>6, <1>8

\* process_ubatch(): each sequence of the batch has one more token.
LEMMA ComputeMaps ==
    ASSUME Inv, PlacesOK, Compute
    PROVE  Memory!Append(run.S, run.tok) /\ PlacesOK'
<1>1. PICK at : at = run.sinfo[run.k]
    OBVIOUS
<1> DEFINE new(s) == [tok |-> run.tok[s], rot |-> SeqPosMax(kv, s) + 1]
<1>2. /\ run.phase = "run" /\ kv' = Taken(at) /\ Finish /\ UNCHANGED <<unified, origin, snap, whole>>
      /\ data' = [st \in Stream |-> [i \in Idx |->
                    IF Placed(at, st, i) = {} THEN data[st][i] ELSE new(Min(Placed(at, st, i)))]]
    BY <1>1 DEF Compute
<1>3. /\ data \in [Stream -> [Idx -> Data]] /\ \A st \in Stream : origin[st] = st
      /\ RunFor(run, kv, origin) /\ IsBatch(run) /\ run.S \in SUBSET SeqId
      /\ run.k \in 1 .. run.n /\ run.stack = <<>> /\ at \in [run.S -> Idx]
    BY <1>1, <1>2, UbatchTaken
<1>4. /\ \A s \in run.S : kv[StreamOf(s)][at[s]] = Empty
      /\ \A s \in run.S : Taken(at)[StreamOf(s)][at[s]] = NewAt(s)
      /\ \A s \in run.S : Placed(at, StreamOf(s), at[s]) = {s} /\ Min({s}) = s
      /\ \A st \in Stream, i \in Idx : ~Hits(at, st, i) => Taken(at)[st][i] = kv[st][i]
      /\ \A st, i : Hits(at, st, i) => \E s \in run.S : StreamOf(s) = st /\ at[s] = i
    <2>1. run.phase = "run"
      BY <1>2
    <2> HIDE DEF new
    <2> QED BY <1>1, <2>1, UbatchFree
<1>5. \A s : NewAt(s).seq = {s} /\ NewAt(s).pos = SeqPosMax(kv, s) + 1 /\ new(s).tok = run.tok[s]
    BY DEF NewAt
<1>6. \A s \in run.S : StreamOf(s) \in Stream /\ at[s] \in Idx /\ Hits(at, StreamOf(s), at[s])
    BY <1>3, <1>4, StreamType DEF Hits
<1>7. \A st \in Stream, i \in Idx : ~Hits(at, st, i) => kv'[st][i] = kv[st][i] /\ data'[st][i] = data[st][i]
    BY <1>2, <1>4 DEF Hits
<1>8. \A s \in run.S : kv'[StreamOf(s)][at[s]] = NewAt(s) /\ data'[StreamOf(s)][at[s]] = new(s)
    <2> SUFFICES ASSUME NEW s \in run.S
                 PROVE  kv'[StreamOf(s)][at[s]] = NewAt(s) /\ data'[StreamOf(s)][at[s]] = new(s)
      OBVIOUS
    <2> DEFINE P == Placed(at, StreamOf(s), at[s])
    <2>1. P = {s} /\ Min(P) = s
      BY <1>4
    <2>2. data'[StreamOf(s)][at[s]] = IF P = {} THEN data[StreamOf(s)][at[s]] ELSE new(Min(P))
      BY <1>2, <1>6
    <2> HIDE DEF new, P
    <2> QED BY <1>2, <1>4, <2>1, <2>2
<1> HIDE DEF new
<1>9. run'.stack = <<>> /\ (run' = Idle \/ (/\ run.k # run.n /\ run'.phase = "run" /\ run'.S = run.S
                                            /\ run'.k = run.k + 1 /\ run'.sinfo = run.sinfo))
    <2>1. CASE run.k = run.n
      BY <1>2, <2>1 DEF Finish, Idle
    <2>2. CASE run.k # run.n
      <3>1. PICK r : r = run'
        OBVIOUS
      <3>2. r = [run EXCEPT !.k = @ + 1]
        BY <1>2, <2>2, <3>1 DEF Finish
      <3>3. r.phase = "run" /\ r.S = run.S /\ r.k = run.k + 1 /\ r.sinfo = run.sinfo /\ r.stack = run.stack
        BY <1>2, <1>3, <3>2 DEF IsBatch
      <3> QED BY <1>3, <2>2, <3>1, <3>3
    <2> QED BY <2>1, <2>2
<1>10. ASSUME NEW q \in SeqId
       PROVE  SeqContent(q) = Tokens(kv, data, origin, q) /\ SeqContent(q)' = Tokens(kv', data', origin', q)
    BY <1>2, <1>3, <1>9, ContentNow, ContentNext
<1>11. ASSUME NEW q \in SeqId, q \notin run.S PROVE SeqContent(q)' = SeqContent(q)
    <2> DEFINE st == StreamOf(q)
    <2>1. st \in Stream /\ origin'[st] = st /\ origin[st] = st
      BY <1>2, <1>3, StreamType
    <2>2. ASSUME NEW i \in Idx
          PROVE  /\ q \in kv[st][i].seq <=> q \in kv'[st][i].seq
                 /\ q \in kv[st][i].seq => /\ kv[st][i].pos = kv'[st][i].pos
                                           /\ data[origin[st]][i].tok = data'[origin'[st]][i].tok
      <3>1. CASE Hits(at, st, i)
        <4>1. PICK s \in run.S : StreamOf(s) = st /\ at[s] = i
          BY <1>4, <3>1
        <4>2. kv[st][i] = Empty /\ kv'[st][i].seq = {s}
          BY <1>4, <1>5, <1>8, <4>1
        <4>3. q \notin kv[st][i].seq /\ q \notin kv'[st][i].seq
          BY <1>11, <4>2, EmptyFine
        <4> HIDE DEF st
        <4> QED BY <4>3
      <3>2. CASE ~Hits(at, st, i)
        BY <1>7, <2>1, <3>2
      <3> QED BY <3>1, <3>2
    <2>3. Tokens(kv, data, origin, q) = Tokens(kv', data', origin', q)
      BY <2>2, TokensEqual
    <2> QED BY <1>10, <2>3
<1>12. ASSUME NEW q \in SeqId, q \in run.S
       PROVE  SeqContent(q)' = SeqContent(q) \cup {<<SeqPosMax(kv, q) + 1, run.tok[q]>>}
    <2> DEFINE st == StreamOf(q)
               I == {i \in Idx : q \in kv[st][i].seq}
               J == {i \in Idx : q \in kv'[st][i].seq}
               e(i) == <<kv[st][i].pos, data[st][i].tok>>
               g(i) == <<kv'[st][i].pos, data'[st][i].tok>>
    <2>1. st \in Stream /\ origin'[st] = st /\ origin[st] = st
      BY <1>2, <1>3, StreamType
    <2>2. SeqContent(q) = {e(i) : i \in I} /\ SeqContent(q)' = {g(i) : i \in J}
      BY <1>10, <2>1 DEF Tokens
    <2>3. ASSUME NEW i \in Idx
          PROVE  (i \in J <=> i \in I \/ i = at[q]) /\ (i \in I => e(i) = g(i))
      <3>1. CASE Hits(at, st, i)
        <4>1. PICK s \in run.S : StreamOf(s) = st /\ at[s] = i
          BY <1>4, <3>1
        <4>2. kv[st][i] = Empty /\ kv'[st][i].seq = {s}
          BY <1>4, <1>5, <1>8, <4>1
        <4>3. i = at[q] => s = q
          <5>1. StreamOf(q) = st
            OBVIOUS
          <5>2. \A t \in run.S : StreamOf(t) = st /\ at[t] = i => kv'[st][i].seq = {t}
            <6> HIDE DEF st
            <6> QED BY <1>5, <1>8
          <5> HIDE DEF st
          <5> QED BY <1>12, <4>2, <5>1, <5>2
        <4>4. i \notin I
          BY <4>2, EmptyFine
        <4>5. i \in J <=> s = q
          BY <4>2
        <4> HIDE DEF I, J, e, g, st
        <4> QED BY <4>1, <4>3, <4>4, <4>5
      <3>2. CASE ~Hits(at, st, i)
        <4>1. i # at[q]
          BY <1>6, <1>12, <3>2
        <4> QED BY <1>7, <2>1, <3>2, <4>1
      <3> QED BY <3>1, <3>2
    <2>4. at[q] \in Idx /\ g(at[q]) = <<SeqPosMax(kv, q) + 1, run.tok[q]>>
      BY <1>5, <1>6, <1>8, <1>12
    <2>5. I \subseteq Idx /\ J \subseteq Idx
      OBVIOUS
    <2> HIDE DEF I, J, e, g
    <2> QED BY <2>2, <2>3, <2>4, <2>5
<1>13. Memory!Append(run.S, run.tok)
    <2>1. \A q \in SeqId : Memory!NextPos(SeqContent(q)) = SeqPosMax(kv, q) + 1
      BY <1>3, NextPosition
    <2>2. \A q \in SeqId : SeqContent(q)' = IF q \in run.S THEN SeqContent(q) \cup {<<Memory!NextPos(SeqContent(q)), run.tok[q]>>}
                                            ELSE SeqContent(q)
      BY <1>11, <1>12, <2>1
    <2> QED BY <1>2, <2>2, SavedSame DEF Memory!Append
<1>14. PlacesFor(run', kv')
    <2>1. CASE run' = Idle
      BY <2>1, IdlePlaces
    <2>2. CASE run.k # run.n /\ run'.phase = "run" /\ run'.S = run.S /\ run'.k = run.k + 1 /\ run'.sinfo = run.sinfo
      <3>1. /\ \A j, l \in 1 .. Len(run.sinfo), s, t \in run.S :
                 StreamOf(s) = StreamOf(t) /\ run.sinfo[j][s] = run.sinfo[l][t] => j = l /\ s = t
            /\ \A j \in 1 .. Len(run.sinfo), s \in run.S :
                 j > run.k - 1 => kv[StreamOf(s)][run.sinfo[j][s]] = Empty
        BY <1>2 DEF PlacesOK, PlacesFor, Ahead
      <3>2. /\ Len(run.sinfo) = run.n /\ run.sinfo \in Seq([run.S -> Idx]) /\ run.k \in 1 .. Len(run.sinfo)
            /\ run.k \in Int /\ (run.k + 1) - 1 = run.k
        BY <1>2, <1>3 DEF RunFor
      <3>3. ASSUME NEW j \in 1 .. Len(run.sinfo), NEW s \in run.S, j > run.k
            PROVE  kv'[StreamOf(s)][run.sinfo[j][s]] = Empty
        <4>1. ~Hits(at, StreamOf(s), run.sinfo[j][s])
          <5> SUFFICES ASSUME NEW t \in run.S, StreamOf(t) = StreamOf(s), at[t] = run.sinfo[j][s] PROVE FALSE
            BY <1>4
          <5> QED BY <1>1, <3>1, <3>2, <3>3
        <4>2. StreamOf(s) \in Stream /\ run.sinfo[j] \in [run.S -> Idx]
          BY <1>6, <3>2
        <4>3. run.sinfo[j][s] \in Idx
          BY <4>2
        <4> QED BY <1>7, <3>1, <3>2, <3>3, <4>1, <4>2, <4>3
      <3>4. Ahead(run', Len(run'.stack)) = run.k
        BY <2>2, <3>2 DEF Ahead
      <3>5. Len(run'.stack) = 0
        BY <1>9
      <3> QED BY <2>2, <3>1, <3>3, <3>4, <3>5 DEF PlacesFor
    <2> QED BY <1>9, <2>1, <2>2
<1> QED BY <1>2, <1>13, <1>14, PlacesAfter

\* The computation fails: what the ubatch placed is removed, and nothing else.
LEMMA ComputeFailsMaps ==
    ASSUME Inv, PlacesOK, ComputeFails
    PROVE  Memory!Work /\ PlacesOK'
<1>1. PICK at : at = run.sinfo[run.k]
    OBVIOUS
<1> DEFINE late(x) == {s \in run.S : x.pos > SeqPosMax(kv, s)}
<1>2. /\ run.phase = "run" /\ run' = Idle /\ UNCHANGED <<unified, data, origin, snap, whole>>
      /\ kv' = [st \in Stream |-> [i \in Idx |-> Leave(Taken(at)[st][i], late(Taken(at)[st][i]))]]
    BY <1>1 DEF ComputeFails
<1>3. /\ kv \in [Stream -> [Idx -> Cells]] /\ run.S \in SUBSET SeqId /\ run.stack = <<>>
      /\ Taken(at) \in [Stream -> [Idx -> Cells]]
      /\ \A s \in run.S : SeqPosMax(kv, s) + 1 \in 0 .. MaxPos
    BY <1>1, <1>2, UbatchTaken
<1>4. /\ \A s \in run.S : kv[StreamOf(s)][at[s]] = Empty
      /\ \A s \in run.S : Taken(at)[StreamOf(s)][at[s]] = NewAt(s)
      /\ \A st \in Stream, i \in Idx : ~Hits(at, st, i) => Taken(at)[st][i] = kv[st][i]
      /\ \A st, i : Hits(at, st, i) => \E s \in run.S : StreamOf(s) = st /\ at[s] = i
    BY <1>1, <1>2, UbatchFree
<1>5. ASSUME NEW q \in SeqId PROVE SeqContent(q)' = SeqContent(q)
    <2> DEFINE st == StreamOf(q)
    <2>1. st \in Stream /\ \A i \in Idx : kv[st][i] \in Cells
      BY <1>3, StreamType
    <2>2. SeqPosMax(kv, q) \in -1 .. MaxPos /\ \A i \in Idx : q \in kv[st][i].seq => kv[st][i].pos <= SeqPosMax(kv, q)
      BY <2>1, GreatestPos
    <2> HIDE DEF st
    <2>3. ASSUME NEW i \in Idx
          PROVE  /\ q \in kv[st][i].seq <=> q \in kv'[st][i].seq
                 /\ q \in kv[st][i].seq => kv[st][i].pos = kv'[st][i].pos
      <3> DEFINE x == Taken(at)[st][i]
      <3>1. kv'[st][i] = Leave(x, late(x)) /\ x \in Cells
        BY <1>2, <1>3, <2>1
      <3> HIDE DEF x, late
      <3>2. /\ q \in kv'[st][i].seq <=> q \in x.seq /\ q \notin late(x)
            /\ q \in kv'[st][i].seq => kv'[st][i].pos = x.pos
        BY <3>1, LeaveContent
      <3>3. CASE Hits(at, st, i)
        <4>1. PICK s \in run.S : StreamOf(s) = st /\ at[s] = i
          BY <1>4, <3>3
        <4>2. kv[st][i] = Empty /\ x = NewAt(s)
          BY <1>4, <4>1 DEF x
        <4>3. x.seq = {s} /\ x.pos = SeqPosMax(kv, s) + 1
          BY <4>2 DEF NewAt
        <4>4. SeqPosMax(kv, s) \in Int
          <5>1. s \in SeqId /\ StreamOf(s) \in Stream
            BY <1>3, StreamType
          <5>2. SeqPosMax(kv, s) \in -1 .. MaxPos
            BY <1>3, <5>1, GreatestPos
          <5> QED BY <5>2
        <4>5. s \in late(x)
          BY <4>3, <4>4 DEF late
        <4> QED BY <3>2, <4>2, <4>3, <4>5, EmptyFine
      <3>4. CASE ~Hits(at, st, i)
        <4>1. x = kv[st][i]
          BY <1>4, <2>1, <3>4 DEF x
        <4>2. q \in kv[st][i].seq => q \notin late(x)
          <5> SUFFICES ASSUME q \in kv[st][i].seq, kv[st][i].pos > SeqPosMax(kv, q) PROVE FALSE
            BY <4>1 DEF late
          <5>1. kv[st][i].pos \in Int
            BY <2>1, HasPos
          <5> QED BY <2>2, <5>1
        <4> QED BY <3>2, <4>1, <4>2
      <3> QED BY <3>3, <3>4
    <2>4. Tokens(kv, data, origin, q) = Tokens(kv', data', origin', q)
      <3>1. \A i \in Idx : q \in kv[StreamOf(q)][i].seq <=> q \in kv'[StreamOf(q)][i].seq
        BY <2>3 DEF st
      <3>2. \A i \in Idx : q \in kv[StreamOf(q)][i].seq => kv[StreamOf(q)][i].pos = kv'[StreamOf(q)][i].pos
        BY <2>3 DEF st
      <3>3. data' = data /\ origin' = origin
        BY <1>2
      <3> QED BY <3>1, <3>2, <3>3, TokensEqual
    <2>5. run'.stack = <<>>
      BY <1>2 DEF Idle
    <2> QED BY <1>2, <1>3, <2>4, <2>5, ContentNow, ContentNext
<1> QED BY <1>2, <1>5, IdlePlaces, Unseen, PlacesAfter

-----------------------------------------------------------------------------
(* The theorem.                                                            *)

RInv == Inv /\ PlacesOK /\ WholeOK

\* An empty cache holds nothing.
LEMMA InitMaps == Init => RInv /\ Memory!Init
<1> SUFFICES ASSUME Init PROVE RInv /\ Memory!Init
    OBVIOUS
<1>1. Inv /\ run = Idle /\ run.stack = <<>> /\ snap = <<>> /\ whole = NothingSaved
      /\ kv = [st \in Stream |-> [i \in Idx |-> Empty]]
    BY InitStep DEF Init, Idle
<1>2. PlacesOK
    BY <1>1, IdlePlaces DEF PlacesOK
<1>3. WholeOK
    BY <1>1, SizeAssumption DEF WholeOK, NothingSaved
<1>4. ASSUME NEW q \in SeqId PROVE SeqContent(q) = {}
    <2>1. StreamOf(q) \in Stream
      BY StreamType
    <2>2. \A i \in Idx : q \notin kv[StreamOf(q)][i].seq
      BY <1>1, <2>1, EmptyFine
    <2> QED BY <1>1, <2>2, ContentNow DEF Tokens
<1>5. SavedContent(Range(snap)) = {}
    BY <1>1 DEF SavedContent, Range
<1>6. \A q \in SeqId : SavedOf(q) = {}
    BY <1>1, NoneSaved DEF SavedOf, SavedContent
<1> QED BY <1>1, <1>2, <1>3, <1>4, <1>5, <1>6 DEF RInv, Memory!Init, Memory!None

\* What a call between two batches keeps.
LEMMA IdleKeeps ==
    ASSUME run = Idle, UNCHANGED <<unified, run, whole>>, WholeOK
    PROVE  PlacesOK' /\ WholeOK'
<1>1. PlacesOK'
    BY IdlePlaces, PlacesAfter
<1> QED BY <1>1 DEF WholeOK

\* Every step of the cache keeps the invariant, and is a step of the memory or one that
\* its users do not see.
LEMMA StepMaps ==
    ASSUME Careful, NSwa = 0, RInv, [Next]_vars
    PROVE  PlacesOK' /\ WholeOK' /\ [Memory!Next]_Memory!memVars
<1> DEFINE Ok == PlacesOK' /\ WholeOK' /\ Memory!Next
<1> SUFFICES Ok
    OBVIOUS
<1> USE DEF RInv
<1>1. CASE Clear
    <2>1. Memory!Clear
      BY <1>1, ClearMaps
    <2>2. PlacesOK' /\ WholeOK'
      BY <1>1, IdleKeeps DEF Clear
    <2> QED BY <2>1, <2>2 DEF Memory!Next
<1>2. ASSUME NEW r \in Ranges, SeqRmAny(r[1], r[2]) PROVE Ok
    <2>1. Memory!RemoveAny(r[1], r[2])
      BY <1>2, SeqRmAnyMaps
    <2>2. PlacesOK' /\ WholeOK'
      BY <1>2, IdleKeeps DEF SeqRmAny
    <2> QED BY <2>1, <2>2 DEF Memory!Next
<1>3. ASSUME NEW r \in Ranges, NEW s \in SeqId, SeqRm(s, r[1], r[2]) PROVE Ok
    <2>1. Memory!Remove(s, r[1], r[2])
      BY <1>3, SeqRmMaps
    <2>2. PlacesOK' /\ WholeOK'
      BY <1>3, IdleKeeps DEF SeqRm
    <2> QED BY <2>1, <2>2 DEF Memory!Next
<1>4. ASSUME NEW r \in Ranges, NEW s \in SeqId, NEW t \in SeqId, SeqCpShared(s, t, r[1], r[2]) PROVE Ok
    <2>1. Memory!Copy(s, t, r[1], r[2])
      BY <1>4, SeqCpSharedMaps
    <2>2. PlacesOK' /\ WholeOK'
      BY <1>4, IdleKeeps DEF SeqCpShared
    <2> QED BY <2>1, <2>2 DEF Memory!Next
<1>5. ASSUME NEW s \in SeqId, NEW t \in SeqId, SeqCpShared(s, t, -1, -1) \/ SeqCpStream(s, t) PROVE Ok
    <2>1. Memory!Copy(s, t, -1, -1)
      BY <1>5, SeqCpSharedMaps, SeqCpStreamMaps
    <2>2. PlacesOK' /\ WholeOK'
      BY <1>5, IdleKeeps DEF SeqCpShared, SeqCpStream
    <2> QED BY <2>1, <2>2 DEF Memory!Next
<1>6. ASSUME NEW r \in Ranges, NEW s \in SeqId, NEW d \in Deltas, SeqAdd(s, r[1], r[2], d) PROVE Ok
    <2>1. d \in Int
      BY BoundAssumption
    <2>2. Memory!Shift(s, r[1], r[2], d)
      BY <1>6, <2>1, SeqAddMaps
    <2>3. PlacesOK' /\ WholeOK'
      BY <1>6, IdleKeeps DEF SeqAdd
    <2> QED BY <2>2, <2>3 DEF Memory!Next
<1>7. ASSUME NEW s \in SeqId, SeqKeep(s) PROVE Ok
    <2>1. Memory!Keep(s)
      BY <1>7, SeqKeepMaps
    <2>2. PlacesOK' /\ WholeOK'
      BY <1>7, IdleKeeps DEF SeqKeep
    <2> QED BY <2>1, <2>2 DEF Memory!Next
<1>8. ASSUME NEW s \in SeqId, StateRead(s) PROVE Ok
    <2>1. Memory!Restore(s)
      BY <1>8, StateReadMaps
    <2>2. PlacesOK' /\ WholeOK'
      BY <1>8, IdleKeeps DEF StateRead
    <2> QED BY <2>1, <2>2 DEF Memory!Next
<1>9. ASSUME NEW s \in Savers, StateWrite(s) PROVE Ok
    <2>1. s \in SeqId
      BY SizeAssumption DEF SeqId
    <2>2. Memory!Save(s)
      BY <1>9, <2>1, StateWriteMaps
    <2>3. PlacesOK'
      BY <1>9, IdlePlaces, PlacesAfter DEF StateWrite
    <2>4. WholeOK'
      BY <1>9, SizeAssumption DEF StateWrite, WholeOK, NothingSaved
    <2> QED BY <2>1, <2>2, <2>3, <2>4 DEF Memory!Next
<1>10. ASSUME NEW S \in SUBSET SeqId, NEW tok \in [S -> Tok], NEW n \in 1 .. MaxUb, Decode(S, tok, n) PROVE Ok
    <2>1. Memory!Work /\ PlacesOK'
      BY <1>10, DecodeMaps
    <2>2. WholeOK'
      BY <1>10 DEF Decode, WholeOK
    <2> QED BY <2>1, <2>2 DEF Memory!Next
<1>11. CASE Prepare
    <2>1. Memory!Work /\ PlacesOK'
      BY <1>11, PrepareEndsMaps, PreparePlacesMaps
    <2>2. WholeOK'
      BY <1>11 DEF Prepare, WholeOK
    <2> QED BY <2>1, <2>2 DEF Memory!Next
<1>12. CASE Rollback
    <2>1. Memory!Work /\ PlacesOK'
      BY <1>12, RollbackEndsMaps, RollbackTakesMaps
    <2>2. WholeOK'
      BY <1>12 DEF Rollback, WholeOK
    <2> QED BY <2>1, <2>2 DEF Memory!Next
<1>13. CASE Compute
    <2>1. Memory!Append(run.S, run.tok) /\ PlacesOK'
      BY <1>13, ComputeMaps
    <2>2. run.S \in SUBSET SeqId /\ run.tok \in [run.S -> Tok]
      <3>1. run.phase = "run" /\ Inv
        BY <1>13 DEF Compute
      <3>2. PICK at : at = run.sinfo[run.k]
        OBVIOUS
      <3> QED BY <3>1, <3>2, UbatchTaken
    <2>3. WholeOK'
      BY <1>13 DEF Compute, WholeOK
    <2> QED BY <2>1, <2>2, <2>3 DEF Memory!Next
<1>14. CASE ComputeFails
    <2>1. Memory!Work /\ PlacesOK'
      BY <1>14, ComputeFailsMaps
    <2>2. WholeOK'
      BY <1>14 DEF ComputeFails, WholeOK
    <2> QED BY <2>1, <2>2 DEF Memory!Next
<1>15. CASE StateWriteAll
    <2>1. Memory!SaveAll /\ WholeOK'
      BY <1>15, StateWriteAllMaps
    <2>2. PlacesOK'
      BY <1>15, IdlePlaces, PlacesAfter DEF StateWriteAll
    <2> QED BY <2>1, <2>2 DEF Memory!Next
<1>16. CASE StateReadAll
    <2>1. Memory!RestoreAll
      BY <1>16, StateReadAllMaps
    <2>2. PlacesOK' /\ WholeOK'
      BY <1>16, IdleKeeps DEF StateReadAll
    <2> QED BY <2>1, <2>2 DEF Memory!Next
<1>17. CASE UNCHANGED vars
    <2>1. UNCHANGED <<unified, kv, head, data, origin, run, snap, whole>>
      BY <1>17 DEF vars
    <2>2. Memory!Work
      BY <2>1, ContentSame, Unseen
    <2>3. PlacesOK' /\ WholeOK'
      BY <2>1, PlacesAfter DEF PlacesOK, WholeOK
    <2> QED BY <2>2, <2>3 DEF Memory!Next
<1> HIDE DEF Ok
<1> QED BY <1>1, <1>2, <1>3, <1>4, <1>5, <1>6, <1>7, <1>8, <1>9, <1>10, <1>11, <1>12, <1>13, <1>14, <1>15, <1>16, <1>17 DEF Next

\* Without a window the cells, streams, pending copies and shifts, trial placements,
\* failures of a batch and saved states are a memory of sequences: each holds the tokens
\* it was given, at their positions, whatever is done to the others.
THEOREM KeepsSequences == ASSUME Careful, NSwa = 0 PROVE Spec => Implements
<1>1. Init => RInv /\ Memory!Init
    BY InitMaps
<1>2. RInv /\ [Next]_vars => RInv'
    BY StepMaps, NextStep DEF RInv
<1>3. RInv /\ [Next]_vars => [Memory!Next]_Memory!memVars
    BY StepMaps
<1> QED BY <1>1, <1>2, <1>3, PTL DEF Spec, Implements, Memory!Spec

=============================================================================
