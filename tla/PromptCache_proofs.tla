-------------------------- MODULE PromptCache_proofs --------------------------
(***************************************************************************)
(* What slots and cache entries claim and hold, for any number of slots,   *)
(* any prompts, limits and adapters.                                       *)
(*                                                                         *)
(* A task calls the operations on the cache one after the other, so each   *)
(* of them is followed on its own: Leads(m, n) says what leads from one    *)
(* memory to the next, and it is transitive.  update() only leaves entries *)
(* out (Part), alloc() adds a prompt that no entry covers after it has     *)
(* removed those that it covers, and load() moves an entry to a slot.      *)
(* The steps of a slot follow from what they compute or remove: between    *)
(* the batching and the decoding the cells hold a prefix of the prompt     *)
(* (Claimed), and this is why an exception there is excluded (Reliable).   *)
(*                                                                         *)
(* That nothing is forgotten is followed in the same way by Keeps(m, T):   *)
(* each entry of m has a place of its own among the entries and slots      *)
(* there were at first, so that what has room there has room in m (Room),  *)
(* and unless the limit has been reduced m carries all prompts.            *)
(***************************************************************************)
EXTENDS PromptCache, SequenceTheorems, FiniteSetTheorems, TLAPS

-----------------------------------------------------------------------------
(* Naturals: least elements, steps from 0 to n, recursion.                 *)

\* A set of naturals that is not empty has a least element.
LEMMA MinExists ==
    ASSUME NEW S \in SUBSET Nat, S # {}
    PROVE  Min(S) \in S /\ \A x \in S : Min(S) <= x
<1> DEFINE R == {ss \in Nat \X Nat : ss[1] < ss[2]}
<1>1. IsWellFoundedOn(R, Nat)
    BY NatLessThanWellFounded DEF OpToRel
<1>2. PICK x \in S : \A y \in S : ~(<<y, x>> \in R)
    <2> HIDE DEF R
    <2> QED BY <1>1, WFMin
<1>3. ASSUME NEW y \in S PROVE x <= y
    <2>1. <<y, x>> \in Nat \X Nat /\ ~(<<y, x>> \in R)
      BY <1>2
    <2>2. ~(y < x)
      BY <2>1
    <2> QED BY <2>2
<1> QED BY <1>3 DEF Min

\* A set with 0 and with the successor of each of its elements below n has all of 0 .. n.
LEMMA Steps ==
    ASSUME NEW n \in Nat, NEW B, 0 \in B,
           \A k \in 1 .. n : k - 1 \in B => k \in B
    PROVE  \A k \in 0 .. n : k \in B
<1> DEFINE C == (0 .. n) \ B
<1> SUFFICES ASSUME C # {} PROVE FALSE
    OBVIOUS
<1>1. Min(C) \in C /\ \A x \in C : Min(C) <= x
    BY MinExists
<1> DEFINE k == Min(C)
<1>2. k \in 1 .. n /\ k - 1 \in 0 .. n /\ ~(k <= k - 1)
    BY <1>1
<1>3. k - 1 \in B
    BY <1>1, <1>2
<1> QED BY <1>1, <1>2, <1>3

\* f starts at a and goes on by the steps st.
Runs(f, X, n, a, st) ==
    f \in [0 .. n -> X] /\ f[0] = a /\ \A k \in 1 .. n : f[k] = st[k][f[k - 1]]

\* A function is defined on 0 .. n by its first value and its steps.
LEMMA RecursionExists ==
    ASSUME NEW X, NEW n \in Nat, NEW a \in X, NEW st,
           \A k \in 1 .. n, x \in X : st[k][x] \in X
    PROVE  \E f : Runs(f, X, n, a, st)
<1> DEFINE B == {m \in 0 .. n : \E f : Runs(f, X, m, a, st)}
<1>1. 0 \in B
    <2> DEFINE f == [k \in 0 .. 0 |-> a]
    <2>1. Runs(f, X, 0, a, st)
      BY DEF Runs
    <2> HIDE DEF f
    <2> QED BY <2>1
<1>2. ASSUME NEW m \in 1 .. n, m - 1 \in B PROVE m \in B
    <2>1. PICK f : Runs(f, X, m - 1, a, st)
      BY <1>2
    <2> DEFINE v == st[m][f[m - 1]]
               g == [k \in 0 .. m |-> IF k = m THEN v ELSE f[k]]
    <2>2. v \in X
      BY <2>1 DEF Runs
    <2>3. g \in [0 .. m -> X]
      BY <2>1, <2>2 DEF Runs
    <2>4. ASSUME NEW k \in 1 .. m PROVE g[k] = st[k][g[k - 1]]
      <3>1. CASE k = m
        BY <3>1, <2>1 DEF Runs
      <3>2. CASE k # m
        <4>1. k \in 1 .. m - 1 /\ k - 1 \in 0 .. m - 1 /\ k - 1 # m
          BY <3>2
        <4>2. g[k] = f[k] /\ g[k - 1] = f[k - 1]
          BY <4>1, <3>2
        <4>3. f[k] = st[k][f[k - 1]]
          BY <2>1, <4>1 DEF Runs
        <4> QED BY <4>2, <4>3
      <3> QED BY <3>1, <3>2
    <2>5. g[0] = a
      BY <2>1 DEF Runs
    <2>6. Runs(g, X, m, a, st)
      <3> HIDE DEF g
      <3> QED BY <2>3, <2>4, <2>5 DEF Runs
    <2> HIDE DEF g
    <2> QED BY <2>6
<1>3. \A m \in 1 .. n : m - 1 \in B => m \in B
    BY <1>2
<1>4. \A m \in 0 .. n : m \in B
    <2> HIDE DEF B
    <2> QED BY <1>1, <1>3, Steps
<1> QED BY <1>4

\* The total of a sequence is the last of its partial sums.
LEMMA TotalSums ==
    ASSUME NEW w \in Seq(Nat)
    PROVE  \E f \in [0 .. Len(w) -> Nat] :
             /\ f[0] = 0 /\ Total(w) = f[Len(w)]
             /\ \A k \in 1 .. Len(w) : f[k] = f[k - 1] + w[k]
<1> DEFINE n == Len(w)
           Sum(g) == g = [k \in 0 .. n |-> IF k = 0 THEN 0 ELSE g[k - 1] + w[k]]
           st == [k \in 1 .. n |-> [x \in Nat |-> x + w[k]]]
<1>1. n \in Nat /\ 0 \in Nat /\ \A k \in 1 .. n : w[k] \in Nat
    OBVIOUS
<1>2. \A k \in 1 .. n, x \in Nat : st[k][x] = x + w[k] /\ st[k][x] \in Nat
    BY <1>1
<1>3. PICK f : Runs(f, Nat, n, 0, st)
    <2> HIDE DEF st, n
    <2> QED BY <1>1, <1>2, RecursionExists
<1> HIDE DEF st
<1>4. f \in [0 .. n -> Nat] /\ f[0] = 0 /\ \A k \in 1 .. n : f[k] = f[k - 1] + w[k]
    <2> HIDE DEF n
    <2>1. f \in [0 .. n -> Nat] /\ f[0] = 0 /\ \A k \in 1 .. n : f[k] = st[k][f[k - 1]]
      BY <1>3 DEF Runs
    <2>2. ASSUME NEW k \in 1 .. n PROVE f[k] = f[k - 1] + w[k]
      <3>1. k - 1 \in 0 .. n
        BY <1>1
      <3>2. f[k - 1] \in Nat
        BY <2>1, <3>1
      <3> QED BY <1>2, <2>1, <3>2
    <2> QED BY <2>1, <2>2
<1>5. Sum(f)
    BY <1>4
<1> DEFINE sum == CHOOSE g : Sum(g)
<1>6. Sum(sum)
    BY <1>5
<1>7. Total(w) = sum[n]
    BY DEF Total
<1> HIDE DEF sum
<1>8. sum[0] = 0 /\ \A k \in 1 .. n : sum[k] = sum[k - 1] + w[k]
    BY <1>1, <1>6
<1>9. \A k \in 0 .. n : sum[k] \in Nat
    <2> DEFINE B == {k \in 0 .. n : sum[k] \in Nat}
    <2> HIDE DEF n
    <2>1. 0 \in B
      BY <1>1, <1>8
    <2>2. ASSUME NEW k \in 1 .. n, k - 1 \in B PROVE k \in B
      <3>1. sum[k - 1] \in Nat /\ w[k] \in Nat
        BY <1>1, <2>2
      <3>2. sum[k] = sum[k - 1] + w[k]
        BY <1>8
      <3>3. k \in 0 .. n
        BY <1>1
      <3> QED BY <3>1, <3>2, <3>3
    <2> HIDE DEF B
    <2>3. \A k \in 0 .. n : k \in B
      BY <1>1, <2>1, <2>2, Steps
    <2> QED BY <2>3 DEF B
<1>10. sum \in [0 .. n -> Nat]
    BY <1>6, <1>9
<1> QED BY <1>7, <1>8, <1>10

\* A total is a natural.
LEMMA TotalNat ==
    ASSUME NEW w \in Seq(Nat)
    PROVE  Total(w) \in Nat
<1>1. PICK f \in [0 .. Len(w) -> Nat] : Total(w) = f[Len(w)]
    BY TotalSums
<1>2. Len(w) \in 0 .. Len(w)
    OBVIOUS
<1> QED BY <1>1, <1>2

\* Leaving elements out at the front does not make the total greater.
LEMMA TotalSuffix ==
    ASSUME NEW w \in Seq(Nat), NEW j \in 0 .. Len(w)
    PROVE  /\ SubSeq(w, j + 1, Len(w)) \in Seq(Nat)
           /\ Total(SubSeq(w, j + 1, Len(w))) <= Total(w)
<1> DEFINE v == SubSeq(w, j + 1, Len(w))
<1>1. Len(w) \in Nat /\ j \in Nat /\ \A k \in 1 .. Len(w) : w[k] \in Nat
    OBVIOUS
<1>2. v \in Seq(Nat) /\ Len(v) = Len(w) - j /\ \A k \in 1 .. Len(v) : v[k] = w[k + j]
    BY <1>1, SubSeqProperties
<1> HIDE DEF v
<1>3. PICK f \in [0 .. Len(w) -> Nat] :
        /\ f[0] = 0 /\ Total(w) = f[Len(w)]
        /\ \A k \in 1 .. Len(w) : f[k] = f[k - 1] + w[k]
    BY TotalSums
<1>4. PICK g \in [0 .. Len(v) -> Nat] :
        /\ g[0] = 0 /\ Total(v) = g[Len(v)]
        /\ \A k \in 1 .. Len(v) : g[k] = g[k - 1] + v[k]
    BY <1>2, TotalSums
<1> DEFINE B == {k \in 0 .. Len(v) : g[k] <= f[k + j]}
<1>5. 0 \in B
    <2>1. 0 \in 0 .. Len(v) /\ 0 + j \in 0 .. Len(w)
      BY <1>1, <1>2
    <2>2. f[0 + j] \in Nat
      BY <1>3, <2>1
    <2>3. 0 <= f[0 + j]
      BY <2>2
    <2>4. g[0] = 0
      BY <1>4
    <2> QED BY <2>1, <2>3, <2>4
<1>6. ASSUME NEW k \in 1 .. Len(v), k - 1 \in B PROVE k \in B
    <2>1. k \in 0 .. Len(v) /\ k - 1 \in 0 .. Len(v) /\ k + j \in 1 .. Len(w)
          /\ (k + j) - 1 = (k - 1) + j /\ (k - 1) + j \in 0 .. Len(w)
      BY <1>1, <1>2
    <2>2. g[k] = g[k - 1] + w[k + j]
      BY <1>2, <1>4
    <2>3. f[k + j] = f[(k - 1) + j] + w[k + j]
      BY <1>3, <2>1
    <2> DEFINE a == g[k - 1]
               b == f[(k - 1) + j]
               x == w[k + j]
    <2>4. a \in Nat /\ b \in Nat
      BY <1>3, <1>4, <2>1
    <2>5. w[k + j] \in Nat
      BY <1>1, <2>1
    <2>6. g[k - 1] <= f[(k - 1) + j]
      BY <1>6
    <2>7. g[k] <= f[k + j]
      <3>1. x \in Nat /\ a <= b
        BY <2>5, <2>6
      <3> HIDE DEF a, b, x
      <3>2. a + x <= b + x
        BY <2>4, <3>1
      <3> QED BY <2>2, <2>3, <3>2 DEF a, b, x
    <2> QED BY <2>1, <2>7
<1>7. \A k \in 0 .. Len(v) : k \in B
    <2> HIDE DEF B
    <2>1. Len(v) \in Nat
      BY <1>2
    <2> QED BY <1>5, <1>6, <2>1, Steps
<1>8. Len(v) \in 0 .. Len(v) /\ Len(v) + j = Len(w)
    BY <1>1, <1>2
<1>9. Total(v) <= Total(w)
    BY <1>3, <1>4, <1>7, <1>8
<1> QED BY <1>2, <1>9 DEF v

-----------------------------------------------------------------------------
(* Prompts and contents.                                                   *)

\* A prefix agrees on its whole length.
LEMMA PrefixElements ==
    ASSUME NEW S, NEW p \in Seq(S), NEW q \in Seq(S)
    PROVE  IsPrefix(p, q) <=> Len(p) <= Len(q) /\ \A k \in 1 .. Len(p) : p[k] = q[k]
<1>1. Len(p) \in Nat /\ Len(q) \in Nat
    OBVIOUS
<1>2. SubSeq(p, 1, Len(p)) = p
    OBVIOUS
<1>3. ASSUME Len(p) <= Len(q)
      PROVE  /\ SubSeq(q, 1, Len(p)) \in Seq(S) /\ Len(SubSeq(q, 1, Len(p))) = Len(p)
             /\ \A k \in 1 .. Len(p) : SubSeq(q, 1, Len(p))[k] = q[k]
    BY <1>1, <1>3, SubSeqProperties
<1>4. ASSUME Len(p) <= Len(q), \A k \in 1 .. Len(p) : p[k] = q[k]
      PROVE  p = SubSeq(q, 1, Len(p))
    <2> DEFINE r == SubSeq(q, 1, Len(p))
    <2>1. r \in Seq(S) /\ Len(r) = Len(p) /\ \A k \in 1 .. Len(p) : r[k] = q[k]
      BY <1>3, <1>4
    <2> HIDE DEF r
    <2>2. p = r
      BY <1>4, <2>1, SeqEqual
    <2> QED BY <2>2 DEF r
<1> QED BY <1>2, <1>3, <1>4 DEF IsPrefix

\* Prefixes of prefixes are prefixes, and a prompt of equal length is the same.
LEMMA PrefixOrder ==
    ASSUME NEW S
    PROVE  /\ \A p \in Seq(S) : IsPrefix(p, p) /\ IsPrefix(<<>>, p)
           /\ \A p, q, r \in Seq(S) : IsPrefix(p, q) /\ IsPrefix(q, r) => IsPrefix(p, r)
<1>1. ASSUME NEW p \in Seq(S) PROVE IsPrefix(p, p) /\ IsPrefix(<<>>, p)
    <2> DEFINE e == <<>>
    <2>1. e \in Seq(S) /\ Len(e) = 0 /\ Len(p) \in Nat
      OBVIOUS
    <2>2. IsPrefix(p, p)
      BY <2>1, PrefixElements
    <2> HIDE DEF e
    <2>3. Len(e) <= Len(p) /\ \A k \in 1 .. Len(e) : e[k] = p[k]
      BY <2>1
    <2>4. IsPrefix(e, p)
      BY <2>1, <2>3, PrefixElements
    <2> QED BY <2>2, <2>4 DEF e
<1>2. ASSUME NEW p \in Seq(S), NEW q \in Seq(S), NEW r \in Seq(S), IsPrefix(p, q), IsPrefix(q, r)
      PROVE  IsPrefix(p, r)
    <2>1. Len(p) \in Nat /\ Len(q) \in Nat /\ Len(r) \in Nat
      OBVIOUS
    <2>2. Len(p) <= Len(q) /\ \A k \in 1 .. Len(p) : p[k] = q[k]
      BY <1>2, PrefixElements
    <2>3. Len(q) <= Len(r) /\ \A k \in 1 .. Len(q) : q[k] = r[k]
      BY <1>2, PrefixElements
    <2>4. Len(p) <= Len(r) /\ \A k \in 1 .. Len(p) : p[k] = r[k]
      BY <2>1, <2>2, <2>3
    <2> QED BY <2>4, PrefixElements
<1> QED BY <1>1, <1>2

\* A function on 1 .. n is a sequence of length n.
LEMMA FunctionSeq ==
    ASSUME NEW S, NEW n \in Nat, NEW f \in [1 .. n -> S]
    PROVE  f \in Seq(S) /\ Len(f) = n
OBVIOUS

\* The tokens of cells, one by one.
LEMMA TokensOfCells ==
    ASSUME NEW c \in Seq(Cell)
    PROVE  /\ TokensOf(c) \in Seq(Tokens) /\ Len(TokensOf(c)) = Len(c)
           /\ \A k \in 1 .. Len(c) : TokensOf(c)[k] = c[k].tok /\ c[k] \in Cell
<1>1. Len(c) \in Nat /\ \A k \in 1 .. Len(c) : c[k] \in Cell
    OBVIOUS
<1>2. \A k \in 1 .. Len(c) : c[k].tok \in Tokens
    BY <1>1 DEF Cell
<1>3. TokensOf(c) \in [1 .. Len(c) -> Tokens]
    BY <1>2 DEF TokensOf
<1> QED BY <1>1, <1>3, FunctionSeq DEF TokensOf

\* get_common_prefix() counts the tokens up to the first difference.
LEMMA CommonPrefix ==
    ASSUME NEW p \in Seq(Tokens), NEW q \in Seq(Tokens)
    PROVE  /\ Lcp(p, q) \in Nat /\ Lcp(p, q) <= Len(p) /\ Lcp(p, q) <= Len(q)
           /\ \A k \in 1 .. Lcp(p, q) : p[k] = q[k]
<1> DEFINE C == {k \in DOMAIN p \cap DOMAIN q : \A j \in 1 .. k : p[j] = q[j]}
           D == {k \in 1 .. Len(p) + 1 : k \notin C}
<1>1. Len(p) \in Nat /\ Len(q) \in Nat /\ DOMAIN p = 1 .. Len(p) /\ DOMAIN q = 1 .. Len(q)
    OBVIOUS
<1>2. D \in SUBSET Nat /\ Len(p) + 1 \in D
    BY <1>1
<1>3. PICK d \in D : \A x \in D : d <= x
    <2> HIDE DEF D
    <2>1. D # {}
      BY <1>2
    <2> QED BY <1>2, <2>1, MinExists
<1> DEFINE n == d - 1
<1>4. d \in 1 .. Len(p) + 1 /\ d \notin C /\ n \in Nat /\ n <= Len(p)
    BY <1>1, <1>3
<1>5. ASSUME NEW k \in 1 .. n PROVE k \in C
    <2>1. k \in 1 .. Len(p) + 1 /\ ~(d <= k)
      BY <1>1, <1>4
    <2> QED BY <1>3, <2>1
<1>6. ASSUME NEW k \in C PROVE k \in 1 .. n
    <2>1. k \in Nat /\ k >= 1 /\ k \in 1 .. Len(q) /\ k \in 1 .. Len(p)
      BY <1>1
    <2>2. ASSUME d <= k PROVE FALSE
      <3>1. d \in 1 .. Len(p) /\ d \in 1 .. Len(q) /\ \A j \in 1 .. d : j \in 1 .. k
        BY <1>1, <1>4, <2>1, <2>2
      <3>2. d \in C
        BY <1>1, <3>1
      <3> QED BY <1>4, <3>2
    <2> QED BY <1>4, <2>1, <2>2
<1>7. C = 1 .. n
    BY <1>5, <1>6
<1>8. Cardinality(1 .. n) = n
    BY <1>4, FS_Interval
<1>9. Lcp(p, q) = n
    BY <1>7, <1>8 DEF Lcp
<1>10. \A k \in 1 .. n : p[k] = q[k] /\ k \in 1 .. Len(q)
    <2> SUFFICES ASSUME NEW k \in 1 .. n PROVE p[k] = q[k] /\ k \in 1 .. Len(q)
      OBVIOUS
    <2>1. k \in C
      BY <1>5
    <2>2. k \in 1 .. k
      BY <1>4
    <2> QED BY <1>1, <2>1, <2>2
<1>11. n <= Len(q)
    <2>1. CASE n = 0
      BY <1>1, <2>1
    <2>2. CASE n # 0
      <3>1. n \in 1 .. n
        BY <1>4, <2>2
      <3> QED BY <1>10, <3>1
    <2> QED BY <2>1, <2>2
<1> HIDE DEF n, C, D
<1> QED BY <1>4, <1>9, <1>10, <1>11

\* Cutting leaves the cells in front.
LEMMA CutCells ==
    ASSUME NEW c \in Seq(Cell), NEW n \in Nat
    PROVE  /\ Cut(c, n) \in Seq(Cell) /\ Len(Cut(c, n)) <= n /\ Len(Cut(c, n)) <= Len(c)
           /\ \A k \in 1 .. Len(Cut(c, n)) : Cut(c, n)[k] = c[k]
<1> DEFINE m == IF n < Len(c) THEN n ELSE Len(c)
<1>1. Len(c) \in Nat /\ \A k \in 1 .. Len(c) : c[k] \in Cell
    OBVIOUS
<1>2. m \in Nat /\ m <= n /\ m <= Len(c)
    BY <1>1
<1>3. Cut(c, n) = SubSeq(c, 1, m)
    BY DEF Cut
<1> HIDE DEF m
<1>4. \A k \in 1 .. m : c[k] \in Cell
    BY <1>1, <1>2
<1>5. SubSeq(c, 1, m) \in Seq(Cell) /\ Len(SubSeq(c, 1, m)) = m /\ \A k \in 1 .. m : SubSeq(c, 1, m)[k] = c[k]
    BY <1>2, <1>4, SubSeqProperties
<1> QED BY <1>2, <1>3, <1>5

\* Computing the rest of a prompt fills up the cells.
LEMMA ComputedCells ==
    ASSUME NEW c \in Seq(Cell), NEW p \in Seq(Tokens), NEW l \in Adapters
    PROVE  /\ Computed(c, p, l) \in Seq(Cell)
           /\ IsPrefix(TokensOf(c), p) => TokensOf(Computed(c, p, l)) = p
<1> DEFINE d == [k \in 1 .. Len(p) - Len(c) |-> [tok |-> p[Len(c) + k], lora |-> l]]
           r == c \o d
<1>1. /\ Len(c) \in Nat /\ Len(p) \in Nat /\ \A k \in 1 .. Len(c) : c[k] \in Cell
      /\ \A k \in 1 .. Len(p) : p[k] \in Tokens
    OBVIOUS
<1>2. ASSUME NEW k \in 1 .. Len(p) - Len(c)
      PROVE  d[k] \in Cell /\ d[k].tok = p[Len(c) + k]
    <2>1. Len(c) + k \in 1 .. Len(p)
      BY <1>1
    <2> QED BY <1>1, <2>1 DEF Cell
<1>3. d \in Seq(Cell) /\ Len(d) = IF Len(c) < Len(p) THEN Len(p) - Len(c) ELSE 0
    <2> DEFINE m == IF Len(c) < Len(p) THEN Len(p) - Len(c) ELSE 0
    <2>1. m \in Nat /\ 1 .. m = 1 .. Len(p) - Len(c)
      BY <1>1
    <2>2. d \in [1 .. Len(p) - Len(c) -> Cell]
      BY <1>2
    <2> HIDE DEF m, d
    <2>3. d \in [1 .. m -> Cell]
      BY <2>1, <2>2
    <2>4. d \in Seq(Cell) /\ Len(d) = m
      BY <2>1, <2>3, FunctionSeq
    <2> QED BY <2>4 DEF m
<1> HIDE DEF d
<1>4. /\ r \in Seq(Cell) /\ Len(r) = Len(c) + Len(d)
      /\ \A k \in 1 .. Len(r) : r[k] = IF k <= Len(c) THEN c[k] ELSE d[k - Len(c)]
    BY <1>3, ConcatProperties
<1>5. Computed(c, p, l) = r
    BY DEF Computed, d
<1> HIDE DEF r
<1>6. ASSUME IsPrefix(TokensOf(c), p) PROVE TokensOf(r) = p
    <2>1. Len(c) <= Len(p) /\ \A k \in 1 .. Len(c) : c[k].tok = p[k]
      BY <1>6, TokensOfCells, PrefixElements
    <2>2. Len(r) = Len(p)
      BY <1>1, <1>3, <1>4, <2>1
    <2>3. /\ TokensOf(r) \in Seq(Tokens) /\ Len(TokensOf(r)) = Len(p)
          /\ \A k \in 1 .. Len(p) : TokensOf(r)[k] = r[k].tok
      BY <1>4, <2>2, TokensOfCells
    <2>4. ASSUME NEW k \in 1 .. Len(p) PROVE r[k].tok = p[k]
      <3>1. CASE k <= Len(c)
        BY <1>1, <1>4, <2>1, <2>2, <3>1
      <3>2. CASE ~(k <= Len(c))
        <4>1. k - Len(c) \in 1 .. Len(p) - Len(c) /\ Len(c) + (k - Len(c)) = k
          BY <1>1, <3>2
        <4>2. d[k - Len(c)].tok = p[Len(c) + (k - Len(c))]
          BY <1>2, <4>1
        <4> QED BY <1>4, <2>2, <3>2, <4>1, <4>2
      <3> QED BY <3>1, <3>2
    <2> HIDE DEF TokensOf
    <2> QED BY <2>3, <2>4, SeqEqual
<1> QED BY <1>4, <1>5, <1>6

-----------------------------------------------------------------------------
(* Totals of numbers that have their places among others.                  *)

\* What is taken from one element is missing in the total.
LEMMA TotalWithZero ==
    ASSUME NEW v \in Seq(Nat), NEW j \in 1 .. Len(v)
    PROVE  /\ [v EXCEPT ![j] = 0] \in Seq(Nat) /\ Len([v EXCEPT ![j] = 0]) = Len(v)
           /\ Total([v EXCEPT ![j] = 0]) + v[j] = Total(v)
<1> DEFINE u == [v EXCEPT ![j] = 0]
<1>1. Len(v) \in Nat /\ j \in Nat /\ \A k \in 1 .. Len(v) : v[k] \in Nat
    OBVIOUS
<1>2. /\ u \in Seq(Nat) /\ Len(u) = Len(v) /\ u[j] = 0
      /\ \A k \in 1 .. Len(v) : k # j => u[k] = v[k]
    OBVIOUS
<1> HIDE DEF u
<1>3. PICK f \in [0 .. Len(v) -> Nat] :
        /\ f[0] = 0 /\ Total(v) = f[Len(v)]
        /\ \A k \in 1 .. Len(v) : f[k] = f[k - 1] + v[k]
    BY TotalSums
<1>4. PICK g \in [0 .. Len(u) -> Nat] :
        /\ g[0] = 0 /\ Total(u) = g[Len(u)]
        /\ \A k \in 1 .. Len(u) : g[k] = g[k - 1] + u[k]
    BY <1>2, TotalSums
<1> DEFINE B == {k \in 0 .. Len(v) : f[k] = IF k < j THEN g[k] ELSE g[k] + v[j]}
<1>5. 0 \in B
    BY <1>1, <1>3, <1>4
<1>6. ASSUME NEW k \in 1 .. Len(v), k - 1 \in B PROVE k \in B
    <2>1. k \in 0 .. Len(v) /\ k - 1 \in 0 .. Len(v)
      BY <1>1
    <2>2. f[k] = f[k - 1] + v[k] /\ g[k] = g[k - 1] + u[k]
      BY <1>2, <1>3, <1>4
    <2>3. /\ f[k - 1] \in Nat /\ g[k - 1] \in Nat /\ v[k] \in Nat /\ v[j] \in Nat
      BY <1>1, <1>2, <1>3, <1>4, <2>1
    <2>4. f[k - 1] = IF k - 1 < j THEN g[k - 1] ELSE g[k - 1] + v[j]
      BY <1>6
    <2>5. CASE k < j
      <3>1. u[k] = v[k] /\ f[k - 1] = g[k - 1]
        BY <1>1, <1>2, <2>4, <2>5
      <3>2. f[k] = g[k]
        BY <2>2, <3>1
      <3> QED BY <2>1, <2>5, <3>2
    <2>6. CASE k = j
      <3>1. u[k] = 0 /\ f[k - 1] = g[k - 1]
        BY <1>1, <1>2, <2>4, <2>6
      <3>2. g[k] = g[k - 1] /\ f[k] = g[k] + v[j]
        BY <2>2, <2>3, <2>6, <3>1
      <3>3. ~(k < j)
        BY <1>1, <2>6
      <3> QED BY <2>1, <3>2, <3>3
    <2>7. CASE j < k
      <3>1. u[k] = v[k] /\ f[k - 1] = g[k - 1] + v[j] /\ ~(k < j)
        BY <1>1, <1>2, <2>4, <2>7
      <3>2. \A x, y, z \in Nat : (x + y) + z = (x + z) + y
        OBVIOUS
      <3>3. (g[k - 1] + v[j]) + v[k] = (g[k - 1] + v[k]) + v[j]
        BY <2>3, <3>2
      <3>4. f[k] = g[k] + v[j]
        BY <2>2, <3>1, <3>3
      <3> QED BY <2>1, <3>1, <3>4
    <2>8. k < j \/ k = j \/ j < k
      BY <1>1
    <2> QED BY <2>5, <2>6, <2>7, <2>8
<1>7. \A k \in 0 .. Len(v) : k \in B
    <2> HIDE DEF B
    <2> QED BY <1>1, <1>5, <1>6, Steps
<1>8. f[Len(v)] = g[Len(v)] + v[j]
    <2>1. Len(v) \in 0 .. Len(v) /\ ~(Len(v) < j)
      BY <1>1
    <2> QED BY <1>7, <2>1
<1> QED BY <1>2, <1>3, <1>4, <1>8 DEF u

\* When each number has a place of its own among others, where it is not greater than
\* the one that is there, the total is not greater.
LEMMA TotalOfPlaced ==
    ASSUME NEW w \in Seq(Nat), NEW v \in Seq(Nat), NEW a \in [1 .. Len(w) -> 1 .. Len(v)],
           \A i, j \in 1 .. Len(w) : a[i] = a[j] => i = j,
           \A i \in 1 .. Len(w) : w[i] <= v[a[i]]
    PROVE  Total(w) <= Total(v)
<1> DEFINE n == Len(w)
           taken(k) == {a[i] : i \in 1 .. k}
           u(k) == [j \in 1 .. Len(v) |-> IF j \in taken(k) THEN 0 ELSE v[j]]
<1>1. /\ n \in Nat /\ Len(v) \in Nat /\ \A k \in 1 .. n : w[k] \in Nat /\ a[k] \in 1 .. Len(v)
      /\ \A j \in 1 .. Len(v) : v[j] \in Nat
    <2>1. Len(w) \in Nat /\ \A k \in 1 .. Len(w) : w[k] \in Nat
      OBVIOUS
    <2>2. Len(v) \in Nat /\ \A j \in 1 .. Len(v) : v[j] \in Nat
      OBVIOUS
    <2>3. \A k \in 1 .. n : a[k] \in 1 .. Len(v)
      OBVIOUS
    <2> QED BY <2>1, <2>2, <2>3
<1>2. ASSUME NEW k \in 0 .. n PROVE u(k) \in Seq(Nat) /\ Len(u(k)) = Len(v)
    <2>1. u(k) \in [1 .. Len(v) -> Nat]
      BY <1>1
    <2> HIDE DEF u
    <2> QED BY <1>1, <2>1, FunctionSeq
<1>3. PICK f \in [0 .. n -> Nat] :
        /\ f[0] = 0 /\ Total(w) = f[n]
        /\ \A k \in 1 .. n : f[k] = f[k - 1] + w[k]
    BY TotalSums
<1> DEFINE B == {k \in 0 .. n : f[k] + Total(u(k)) <= Total(v)}
<1>4. Total(v) \in Nat
    BY TotalNat
<1>5. 0 \in B
    <2>1. taken(0) = {}
      OBVIOUS
    <2>2. u(0) \in Seq(Nat) /\ Len(u(0)) = Len(v)
      <3>1. 0 \in 0 .. n
        BY <1>1
      <3> QED BY <1>2, <3>1
    <2>3. \A j \in 1 .. Len(v) : u(0)[j] = v[j]
      BY <2>1
    <2> DEFINE x == u(0)
    <2>4. x = v
      <3>1. x \in Seq(Nat) /\ Len(x) = Len(v) /\ \A j \in 1 .. Len(v) : x[j] = v[j]
        BY <2>2, <2>3
      <3> HIDE DEF x
      <3> QED BY <3>1, SeqEqual
    <2>5. Total(u(0)) = Total(v)
      BY <2>4
    <2> HIDE DEF u
    <2> QED BY <1>1, <1>3, <1>4, <2>5
<1>6. ASSUME NEW k \in 1 .. n, k - 1 \in B PROVE k \in B
    <2> DEFINE x == u(k - 1)
               j == a[k]
               y == [x EXCEPT ![j] = 0]
    <2>1. k \in 0 .. n /\ k - 1 \in 0 .. n /\ j \in 1 .. Len(v) /\ k \in Nat
      BY <1>1
    <2>2. j \notin taken(k - 1)
      <3> SUFFICES ASSUME NEW i \in 1 .. k - 1, a[i] = j PROVE FALSE
        OBVIOUS
      <3>1. i \in 1 .. n /\ i # k
        BY <1>1, <2>1
      <3> QED BY <3>1
    <2>3. x[j] = v[j]
      BY <2>1, <2>2
    <2>4. taken(k) = taken(k - 1) \cup {j}
      <3>1. 1 .. k = (1 .. k - 1) \cup {k}
        BY <2>1
      <3> QED BY <3>1
    <2>5. x \in Seq(Nat) /\ Len(x) = Len(v) /\ u(k) \in Seq(Nat) /\ Len(u(k)) = Len(v)
      <3> HIDE DEF u
      <3> QED BY <1>2, <2>1
    <2>6. \A i \in 1 .. Len(v) : u(k)[i] = IF i = j THEN 0 ELSE x[i]
      <3> HIDE DEF taken, j
      <3> QED BY <2>4
    <2> DEFINE z == u(k)
    <2>7. z \in Seq(Nat) /\ Len(z) = Len(v) /\ \A i \in 1 .. Len(v) : z[i] = IF i = j THEN 0 ELSE x[i]
      BY <2>5, <2>6
    <2>8. w[k] <= x[j] /\ x[j] \in Nat /\ w[k] \in Nat
      BY <1>1, <2>1, <2>3
    <2>9. f[k - 1] + Total(x) <= Total(v)
      BY <1>6
    <2> HIDE DEF x, z, j, u
    <2>10. /\ y \in Seq(Nat) /\ Len(y) = Len(x) /\ Total(y) + x[j] = Total(x)
      BY <2>1, <2>5, TotalWithZero
    <2>11. \A i \in 1 .. Len(v) : y[i] = IF i = j THEN 0 ELSE x[i]
      <3>1. DOMAIN x = 1 .. Len(v)
        BY <2>5
      <3> QED BY <3>1
    <2> HIDE DEF y
    <2>12. z = y
      BY <2>5, <2>7, <2>10, <2>11, SeqEqual
    <2>13. Total(y) \in Nat /\ Total(x) \in Nat
      BY <2>5, <2>10, TotalNat
    <2>14. f[k] = f[k - 1] + w[k] /\ f[k - 1] \in Nat
      BY <1>3, <2>1
    <2>15. f[k] + Total(y) <= Total(v)
      <3>1. \A p, q, o, t, e, b \in Nat :
              p + t <= e /\ q + o = t /\ b <= o => (p + b) + q <= e
        OBVIOUS
      <3>2. (f[k - 1] + w[k]) + Total(y) <= Total(v)
        <4>1. /\ f[k - 1] \in Nat /\ Total(y) \in Nat /\ x[j] \in Nat /\ Total(x) \in Nat
              /\ Total(v) \in Nat /\ w[k] \in Nat
          BY <1>4, <2>8, <2>13, <2>14
        <4>2. f[k - 1] + Total(x) <= Total(v) /\ Total(y) + x[j] = Total(x) /\ w[k] <= x[j]
          BY <2>8, <2>9, <2>10
        <4> QED BY ONLY <3>1, <4>1, <4>2
      <3> QED BY <2>14, <3>2
    <2>16. Total(u(k)) = Total(y)
      BY <2>12 DEF z
    <2> QED BY <2>1, <2>15, <2>16
<1>7. \A k \in 0 .. n : k \in B
    <2> HIDE DEF B, n
    <2> QED BY <1>1, <1>5, <1>6, Steps
<1>8. n \in 0 .. n
    BY <1>1
<1>9. f[n] + Total(u(n)) <= Total(v)
    <2> HIDE DEF u, n
    <2> QED BY <1>7, <1>8
<1>10. Total(u(n)) \in Nat
    <2>1. u(n) \in Seq(Nat)
      BY <1>2, <1>8
    <2> HIDE DEF u
    <2> QED BY <2>1, TotalNat
<1>11. f[n] \in Nat
    BY <1>3, <1>8
<1> HIDE DEF u, n
<1> QED BY <1>3, <1>4, <1>9, <1>10, <1>11

-----------------------------------------------------------------------------
(* The entries of the cache.                                               *)

\* No entry holds what another holds, and each claims something and holds it.
Distinct(c) == \A i, j \in DOMAIN c : IsPrefix(c[i].tokens, c[j].tokens) => i = j
AllHeld(c)  == \A i \in DOMAIN c : c[i].tokens # <<>> /\ TokensOf(c[i].main) = c[i].tokens

\* d has some of the first n entries of c, each at most once.
Picks(a, d, c, n) ==
    /\ a \in [DOMAIN d -> 1 .. n]
    /\ \A i \in DOMAIN d : d[i] = c[a[i]]
    /\ \A i, j \in DOMAIN d : a[i] = a[j] => i = j

Part(d, c) == d \in Seq(CacheEntry) /\ \E a : Picks(a, d, c, Len(c))

\* What holds of all entries holds of a part of them.
LEMMA PartKeeps ==
    ASSUME NEW c \in Seq(CacheEntry), NEW d, Part(d, c)
    PROVE  (Distinct(c) => Distinct(d)) /\ (AllHeld(c) => AllHeld(d))
<1>1. PICK a : Picks(a, d, c, Len(c))
    BY DEF Part
<1>2. \A i \in DOMAIN d : a[i] \in DOMAIN c /\ d[i] = c[a[i]]
    BY <1>1 DEF Picks
<1>3. \A i, j \in DOMAIN d : a[i] = a[j] => i = j
    BY <1>1 DEF Picks
<1> QED BY <1>2, <1>3 DEF Distinct, AllHeld

\* All of the entries are a part.
LEMMA PartSelf ==
    ASSUME NEW c \in Seq(CacheEntry)
    PROVE  Part(c, c)
<1> DEFINE a == [i \in DOMAIN c |-> i]
<1>1. Picks(a, c, c, Len(c))
    BY DEF Picks
<1> HIDE DEF a
<1> QED BY <1>1 DEF Part

\* A part of a part is a part.
LEMMA PartOfPart ==
    ASSUME NEW c \in Seq(CacheEntry), NEW d, NEW e, Part(d, c), Part(e, d)
    PROVE  Part(e, c)
<1>1. PICK a : Picks(a, d, c, Len(c))
    BY DEF Part
<1>2. PICK b : Picks(b, e, d, Len(d))
    BY DEF Part
<1> DEFINE f == [i \in DOMAIN e |-> a[b[i]]]
<1>3. d \in Seq(CacheEntry) /\ e \in Seq(CacheEntry) /\ DOMAIN d = 1 .. Len(d)
    BY DEF Part
<1>4. \A i \in DOMAIN e : b[i] \in DOMAIN d /\ e[i] = d[b[i]]
    BY <1>2, <1>3 DEF Picks
<1>5. \A i \in DOMAIN d : a[i] \in 1 .. Len(c) /\ d[i] = c[a[i]]
    BY <1>1 DEF Picks
<1>6. /\ \A i, j \in DOMAIN d : a[i] = a[j] => i = j
      /\ \A i, j \in DOMAIN e : b[i] = b[j] => i = j
    BY <1>1, <1>2 DEF Picks
<1>7. Picks(f, e, c, Len(c))
    BY <1>4, <1>5, <1>6 DEF Picks
<1> HIDE DEF f
<1> QED BY <1>3, <1>7 DEF Part

\* The newest entries are a part.
LEMMA PartRest ==
    ASSUME NEW c \in Seq(CacheEntry), NEW k \in 0 .. Len(c)
    PROVE  /\ Part(Rest(c, k), c) /\ Len(Rest(c, k)) = Len(c) - k
           /\ \A i \in 1 .. Len(c) - k : Rest(c, k)[i] = c[i + k]
<1> DEFINE d == Rest(c, k)
           a == [i \in DOMAIN d |-> i + k]
<1>1. Len(c) \in Nat /\ k \in Nat /\ \A i \in 1 .. Len(c) : c[i] \in CacheEntry
    OBVIOUS
<1>2. d \in Seq(CacheEntry) /\ Len(d) = Len(c) - k /\ \A i \in 1 .. Len(d) : d[i] = c[i + k]
    <2>1. k + 1 \in Int /\ \A i \in k + 1 .. Len(c) : c[i] \in CacheEntry
      BY <1>1
    <2>2. /\ d \in Seq(CacheEntry)
          /\ Len(d) = IF k + 1 <= Len(c) THEN Len(c) - (k + 1) + 1 ELSE 0
          /\ \A i \in 1 .. Len(c) - (k + 1) + 1 : d[i] = c[(k + 1) + i - 1]
      BY <1>1, <2>1, SubSeqProperties DEF Rest
    <2> HIDE DEF d
    <2>3. Len(d) = Len(c) - k
      BY <1>1, <2>2
    <2>4. ASSUME NEW i \in 1 .. Len(d) PROVE d[i] = c[i + k]
      <3>1. i \in 1 .. Len(c) - (k + 1) + 1 /\ (k + 1) + i - 1 = i + k
        BY <1>1, <2>3
      <3> QED BY <2>2, <3>1
    <2> QED BY <2>2, <2>3, <2>4
<1> HIDE DEF d
<1>3. DOMAIN d = 1 .. Len(d) /\ \A i \in 1 .. Len(d) : i + k \in 1 .. Len(c)
    BY <1>1, <1>2
<1>4. \A i, j \in DOMAIN d : i + k = j + k => i = j
    BY <1>1, <1>2, <1>3
<1>5. Picks(a, d, c, Len(c))
    BY <1>2, <1>3, <1>4 DEF Picks
<1> HIDE DEF a
<1>6. Part(d, c)
    BY <1>2, <1>5 DEF Part
<1> QED BY <1>2, <1>6 DEF d

\* Taking an entry out leaves a part.
LEMMA PartRemoved ==
    ASSUME NEW c \in Seq(CacheEntry), NEW k \in DOMAIN c
    PROVE  Part(RemoveAt(c, k), c)
<1> DEFINE u == SubSeq(c, 1, k - 1)
           v == SubSeq(c, k + 1, Len(c))
           d == u \o v
           a == [i \in DOMAIN d |-> IF i < k THEN i ELSE i + 1]
<1>1. Len(c) \in Nat /\ k \in 1 .. Len(c) /\ \A i \in 1 .. Len(c) : c[i] \in CacheEntry
    OBVIOUS
<1>2. u \in Seq(CacheEntry) /\ Len(u) = k - 1 /\ \A i \in 1 .. k - 1 : u[i] = c[i]
    <2>1. 1 \in Int /\ k - 1 \in Int /\ \A i \in 1 .. k - 1 : c[i] \in CacheEntry
      BY <1>1
    <2>2. /\ u \in Seq(CacheEntry)
          /\ Len(u) = IF 1 <= k - 1 THEN (k - 1) - 1 + 1 ELSE 0
          /\ \A i \in 1 .. (k - 1) - 1 + 1 : u[i] = c[1 + i - 1]
      BY <2>1, SubSeqProperties
    <2> HIDE DEF u
    <2> QED BY <1>1, <2>2
<1>3. v \in Seq(CacheEntry) /\ Len(v) = Len(c) - k /\ \A i \in 1 .. Len(c) - k : v[i] = c[i + k]
    BY PartRest DEF Rest, Part
<1> HIDE DEF u, v
<1>4. /\ d \in Seq(CacheEntry) /\ Len(d) = Len(c) - 1
      /\ \A i \in 1 .. Len(d) : d[i] = IF i <= k - 1 THEN u[i] ELSE v[i - (k - 1)]
    <2>1. /\ d \in Seq(CacheEntry) /\ Len(d) = Len(u) + Len(v)
          /\ \A i \in 1 .. Len(u) + Len(v) : d[i] = IF i <= Len(u) THEN u[i] ELSE v[i - Len(u)]
      BY <1>2, <1>3, ConcatProperties
    <2> HIDE DEF d
    <2>2. Len(u) + Len(v) = Len(c) - 1
      BY <1>1, <1>2, <1>3
    <2> QED BY <1>2, <2>1, <2>2
<1> HIDE DEF d
<1>5. DOMAIN d = 1 .. Len(c) - 1
    BY <1>4
<1>6. ASSUME NEW i \in DOMAIN d PROVE a[i] \in 1 .. Len(c) /\ d[i] = c[a[i]]
    <2>1. CASE i < k
      <3>1. i \in 1 .. k - 1 /\ i <= k - 1 /\ i \in 1 .. Len(d) /\ i \in 1 .. Len(c)
        BY <1>1, <1>4, <1>5, <2>1
      <3> QED BY <1>2, <1>4, <2>1, <3>1
    <2>2. CASE ~(i < k)
      <3>1. /\ ~(i <= k - 1) /\ i \in 1 .. Len(d) /\ i - (k - 1) \in 1 .. Len(c) - k
            /\ (i - (k - 1)) + k = i + 1 /\ i + 1 \in 1 .. Len(c)
        BY <1>1, <1>4, <1>5, <2>2
      <3>2. d[i] = v[i - (k - 1)]
        BY <1>4, <3>1
      <3>3. v[i - (k - 1)] = c[i + 1]
        BY <1>3, <3>1
      <3> QED BY <2>2, <3>1, <3>2, <3>3
    <2> QED BY <2>1, <2>2
<1>7. \A i, j \in DOMAIN d : a[i] = a[j] => i = j
    BY <1>1, <1>5
<1>8. Picks(a, d, c, Len(c))
    BY <1>6, <1>7 DEF Picks
<1> HIDE DEF a
<1>9. Part(d, c)
    BY <1>4, <1>8 DEF Part
<1> QED BY <1>9 DEF RemoveAt, d, u, v

\* The entries that Without keeps, one entry of the cache after the other.
KeepsOn(kept, c, p) ==
    /\ kept[0] = <<>> /\ Without(c, p) = kept[Len(c)]
    /\ \A k \in 1 .. Len(c) :
         kept[k] = IF IsPrefix(c[k].tokens, p) THEN kept[k - 1] ELSE Append(kept[k - 1], c[k])

LEMMA WithoutSteps ==
    ASSUME NEW c \in Seq(CacheEntry), NEW p
    PROVE  \E kept : KeepsOn(kept, c, p)
<1> DEFINE n == Len(c)
           X == Seq(CacheEntry)
           step(x, k) == IF IsPrefix(c[k].tokens, p) THEN x ELSE Append(x, c[k])
           none == <<>>
           Kept(g) == g = [k \in 0 .. n |-> IF k = 0 THEN none ELSE step(g[k - 1], k)]
           st == [k \in 1 .. n |-> [x \in X |-> step(x, k)]]
<1>1. n \in Nat /\ none \in X /\ \A k \in 1 .. n : c[k] \in CacheEntry
    OBVIOUS
<1>2. \A k \in 1 .. n, x \in X : st[k][x] = step(x, k) /\ st[k][x] \in X
    BY <1>1
<1>3. PICK f : Runs(f, X, n, none, st)
    <2> HIDE DEF st, n, none, X
    <2> QED BY <1>1, <1>2, RecursionExists
<1> HIDE DEF st
<1>4. f \in [0 .. n -> X] /\ f[0] = none /\ \A k \in 1 .. n : f[k] = step(f[k - 1], k)
    <2> HIDE DEF n, X, step
    <2>1. f \in [0 .. n -> X] /\ f[0] = none /\ \A k \in 1 .. n : f[k] = st[k][f[k - 1]]
      BY <1>3 DEF Runs
    <2>2. \A k \in 1 .. n : k - 1 \in 0 .. n
      BY <1>1
    <2> QED BY <1>2, <2>1, <2>2
<1>5. Kept(f)
    <2> HIDE DEF n, X, step, none
    <2>1. \A k \in 0 .. n : k # 0 => k \in 1 .. n
      BY <1>1
    <2> QED BY <1>4, <2>1
<1> DEFINE kept == CHOOSE g : Kept(g)
<1>6. Kept(kept)
    BY <1>5
<1>7. Without(c, p) = kept[n]
    BY DEF Without
<1> HIDE DEF kept
<1>8. kept[0] = none /\ \A k \in 1 .. n : kept[k] = step(kept[k - 1], k)
    <2> HIDE DEF n, X, step, none
    <2>1. 0 \in 0 .. n /\ \A k \in 1 .. n : k # 0 /\ k \in 0 .. n
      BY <1>1
    <2> QED BY <1>6, <2>1
<1>9. KeepsOn(kept, c, p)
    BY <1>7, <1>8 DEF KeepsOn
<1> QED BY <1>9

\* The entries that a prompt does not make obsolete are a part of all, and none of
\* them is a prefix of the prompt.
LEMMA WithoutPart ==
    ASSUME NEW c \in Seq(CacheEntry), NEW p \in Seq(Tokens)
    PROVE  /\ Part(Without(c, p), c)
           /\ \A i \in DOMAIN Without(c, p) : ~IsPrefix(Without(c, p)[i].tokens, p)
<1> DEFINE n == Len(c)
           X == Seq(CacheEntry)
           step(x, k) == IF IsPrefix(c[k].tokens, p) THEN x ELSE Append(x, c[k])
           none == <<>>
<1>1. n \in Nat /\ none \in X /\ Len(none) = 0 /\ \A k \in 1 .. n : c[k] \in CacheEntry
    OBVIOUS
<1>2. PICK kept : KeepsOn(kept, c, p)
    BY WithoutSteps
<1>3. Without(c, p) = kept[n]
    BY <1>2 DEF KeepsOn
<1>4. kept[0] = none /\ \A k \in 1 .. n : kept[k] = step(kept[k - 1], k)
    BY <1>2 DEF KeepsOn
<1> HIDE DEF none
<1> DEFINE Fine(d, k) == /\ d \in X /\ \E a : Picks(a, d, c, k)
                         /\ \A i \in DOMAIN d : ~IsPrefix(d[i].tokens, p)
           B == {k \in 0 .. n : Fine(kept[k], k)}
<1>5. 0 \in B
    <2>1. DOMAIN none = {}
      BY DEF none
    <2> DEFINE a == [i \in DOMAIN none |-> 1]
    <2>2. Picks(a, none, c, 0)
      BY <2>1 DEF Picks
    <2> HIDE DEF a
    <2>3. Fine(none, 0)
      BY <1>1, <2>1, <2>2
    <2>4. 0 \in 0 .. n
      BY <1>1
    <2> QED BY <1>4, <2>3, <2>4
<1>6. ASSUME NEW k \in 1 .. n, k - 1 \in B PROVE k \in B
    <2> DEFINE d == kept[k - 1]
               e == kept[k]
    <2>1. Fine(d, k - 1)
      BY <1>6
    <2>2. PICK a : Picks(a, d, c, k - 1)
      BY <2>1
    <2>3. d \in Seq(CacheEntry) /\ e = step(d, k) /\ k \in 0 .. n /\ k \in Nat /\ c[k] \in CacheEntry
      BY <1>1, <1>4, <2>1
    <2>4. DOMAIN d = 1 .. Len(d) /\ Len(d) \in Nat
      BY <2>3
    <2> HIDE DEF d, e
    <2>5. /\ \A i \in DOMAIN d : a[i] \in 1 .. k - 1 /\ d[i] = c[a[i]]
          /\ \A i, j \in DOMAIN d : a[i] = a[j] => i = j
      BY <2>2 DEF Picks
    <2>6. CASE IsPrefix(c[k].tokens, p)
      <3>1. e = d
        BY <2>3, <2>6
      <3>2. Picks(a, d, c, k)
        BY <2>2, <2>3 DEF Picks
      <3>3. Fine(e, k)
        BY <2>1, <3>1, <3>2
      <3> QED BY <2>3, <3>3 DEF e
    <2>7. CASE ~IsPrefix(c[k].tokens, p)
      <3>1. e = Append(d, c[k])
        BY <2>3, <2>7
      <3>2. /\ e \in Seq(CacheEntry) /\ Len(e) = Len(d) + 1
            /\ \A i \in 1 .. Len(d) : e[i] = d[i]
            /\ e[Len(d) + 1] = c[k]
        BY <2>3, <3>1, AppendProperties
      <3>3. DOMAIN e = 1 .. Len(d) + 1
        BY <3>2
      <3> DEFINE b == [i \in 1 .. Len(d) + 1 |-> IF i = Len(d) + 1 THEN k ELSE a[i]]
      <3>4. ASSUME NEW i \in 1 .. Len(d) + 1
            PROVE  /\ b[i] \in 1 .. k /\ e[i] = c[b[i]] /\ ~IsPrefix(e[i].tokens, p)
                   /\ b[i] = k => i = Len(d) + 1
        <4>1. CASE i = Len(d) + 1
          BY <2>3, <2>7, <3>2, <4>1
        <4>2. CASE i # Len(d) + 1
          <5>1. i \in 1 .. Len(d)
            BY <2>4, <4>2
          <5>2. b[i] = a[i] /\ a[i] \in 1 .. k - 1 /\ e[i] = d[i] /\ d[i] = c[a[i]]
            BY <2>4, <2>5, <3>2, <4>2, <5>1
          <5>3. ~IsPrefix(d[i].tokens, p)
            BY <2>1, <2>4, <5>1 DEF d
          <5>4. a[i] \in 1 .. k /\ a[i] # k
            BY <2>3, <5>2
          <5> QED BY <5>2, <5>3, <5>4
        <4> QED BY <4>1, <4>2
      <3>5. ASSUME NEW i \in 1 .. Len(d) + 1, NEW j \in 1 .. Len(d) + 1, b[i] = b[j] PROVE i = j
        <4>1. CASE i # Len(d) + 1 /\ j # Len(d) + 1
          <5>1. i \in 1 .. Len(d) /\ j \in 1 .. Len(d) /\ b[i] = a[i] /\ b[j] = a[j]
            BY <2>4, <4>1
          <5> QED BY <2>4, <2>5, <3>5, <5>1
        <4>2. CASE i = Len(d) + 1 \/ j = Len(d) + 1
          <5>1. b[i] = k \/ b[j] = k
            BY <4>2
          <5>2. b[i] = k /\ b[j] = k
            BY <3>5, <5>1
          <5> HIDE DEF b
          <5> QED BY <3>4, <5>2
        <4> QED BY <4>1, <4>2
      <3>6. b \in [DOMAIN e -> 1 .. k]
        BY <3>3, <3>4
      <3> HIDE DEF b
      <3>7. Picks(b, e, c, k)
        BY <3>3, <3>4, <3>5, <3>6 DEF Picks
      <3>8. Fine(e, k)
        BY <3>2, <3>3, <3>4, <3>7
      <3> QED BY <2>3, <3>8 DEF e
    <2> QED BY <2>6, <2>7
<1>7. \A k \in 0 .. n : k \in B
    <2> HIDE DEF B, n
    <2> QED BY <1>1, <1>5, <1>6, Steps
<1>8. Fine(kept[n], n)
    <2>1. n \in 0 .. n
      BY <1>1
    <2> QED BY <1>7, <2>1
<1> HIDE DEF n
<1>9. Part(kept[n], c)
    BY <1>8 DEF Part, n
<1> QED BY <1>3, <1>8, <1>9

\* The sizes of entries are a sequence of naturals.
LEMMA WeightsSeq ==
    ASSUME NEW c \in Seq(CacheEntry)
    PROVE  /\ [k \in 1 .. Len(c) |-> Weight(c[k])] \in Seq(Nat)
           /\ Len([k \in 1 .. Len(c) |-> Weight(c[k])]) = Len(c)
<1> DEFINE w == [k \in 1 .. Len(c) |-> Weight(c[k])]
<1>1. Len(c) \in Nat /\ \A k \in 1 .. Len(c) : c[k] \in CacheEntry
    OBVIOUS
<1>2. \A e \in CacheEntry : Weight(e) \in Nat
    BY DEF CacheEntry, Weight
<1>3. w \in [1 .. Len(c) -> Nat]
    BY <1>1, <1>2
<1> QED BY <1>1, <1>3, FunctionSeq

\* The size of the cache is a natural, and smaller without the oldest entries.
LEMMA SizeOfRest ==
    ASSUME NEW c \in Seq(CacheEntry)
    PROVE  /\ CacheSize(c) \in Nat
           /\ \A k \in 0 .. Len(c) : CacheSize(Rest(c, k)) <= CacheSize(c)
<1> DEFINE w(d) == [k \in 1 .. Len(d) |-> Weight(d[k])]
<1>1. w(c) \in Seq(Nat) /\ Len(w(c)) = Len(c)
    BY WeightsSeq
<1>2. \A d : CacheSize(d) = Total(w(d))
    BY DEF CacheSize
<1>3. CacheSize(c) \in Nat
    BY <1>1, <1>2, TotalNat
<1>4. ASSUME NEW k \in 0 .. Len(c) PROVE CacheSize(Rest(c, k)) <= CacheSize(c)
    <2> DEFINE r == Rest(c, k)
               v == SubSeq(w(c), k + 1, Len(w(c)))
    <2>1. Len(r) = Len(c) - k /\ \A i \in 1 .. Len(c) - k : r[i] = c[i + k]
      BY PartRest
    <2>2. v \in Seq(Nat) /\ Total(v) <= Total(w(c))
      <3> HIDE DEF w
      <3> QED BY <1>1, TotalSuffix
    <2>3. Len(c) \in Nat /\ k \in Nat /\ \A i \in 1 .. Len(c) : w(c)[i] = Weight(c[i])
      OBVIOUS
    <2>4. \A i \in 1 .. Len(c) - k : i + k \in 1 .. Len(c)
      BY <2>3
    <2>5. Len(v) = Len(c) - k /\ \A i \in 1 .. Len(c) - k : v[i] = w(c)[i + k]
      <3>1. \A i \in k + 1 .. Len(c) : w(c)[i] \in Nat
        <4> HIDE DEF w
        <4> QED BY <1>1, <2>3
      <3> DEFINE u == w(c)
      <3>2. Len(u) = Len(c) /\ \A i \in k + 1 .. Len(c) : u[i] \in Nat
        BY <1>1, <3>1
      <3> HIDE DEF u
      <3>3. /\ Len(SubSeq(u, k + 1, Len(c))) = IF k + 1 <= Len(c) THEN Len(c) - (k + 1) + 1 ELSE 0
            /\ \A i \in 1 .. Len(c) - (k + 1) + 1 : SubSeq(u, k + 1, Len(c))[i] = u[(k + 1) + i - 1]
        BY <2>3, <3>2, SubSeqProperties
      <3>4. Len(SubSeq(u, k + 1, Len(c))) = Len(c) - k
        BY <2>3, <3>3
      <3>5. ASSUME NEW i \in 1 .. Len(c) - k PROVE SubSeq(u, k + 1, Len(c))[i] = u[i + k]
        <4>1. i \in 1 .. Len(c) - (k + 1) + 1 /\ (k + 1) + i - 1 = i + k
          BY <2>3
        <4> QED BY <3>3, <4>1
      <3> QED BY <3>2, <3>4, <3>5 DEF u
    <2>6. w(r) \in Seq(Nat) /\ Len(w(r)) = Len(c) - k /\ \A i \in 1 .. Len(c) - k : w(r)[i] = Weight(r[i])
      <3>1. r \in Seq(CacheEntry)
        BY PartRest DEF Part
      <3> HIDE DEF r
      <3>2. w(r) \in Seq(Nat) /\ Len(w(r)) = Len(r)
        BY <3>1, WeightsSeq
      <3> QED BY <2>1, <3>2
    <2>7. \A i \in 1 .. Len(c) - k : w(r)[i] = v[i]
      <3> HIDE DEF w, v, r
      <3> QED BY <2>1, <2>3, <2>4, <2>5, <2>6
    <2>8. w(r) = v
      <3> HIDE DEF w, v, r
      <3> QED BY <2>2, <2>5, <2>6, <2>7, SeqEqual
    <2> HIDE DEF v, w, r
    <2> QED BY <1>2, <2>2, <2>8 DEF r
<1> QED BY <1>3, <1>4

\* Dropping the oldest entries ends with an allowed rest or with at most one entry.
LEMMA DropUntilRest ==
    ASSUME NEW c \in Seq(CacheEntry), NEW allowed
    PROVE  \E k \in 0 .. Len(c) :
             DropUntil(c, allowed) = Rest(c, k) /\ (k \in allowed \/ Len(Rest(c, k)) <= 1)
<1>1. Len(c) \in Nat
    OBVIOUS
<1>2. CASE c = <<>>
    <2>1. 0 \in 0 .. Len(c) /\ Len(c) = 0
      BY <1>1, <1>2
    <2>2. Len(Rest(c, 0)) = 0 /\ Rest(c, 0) \in Seq(CacheEntry)
      <3>1. Part(Rest(c, 0), c) /\ Len(Rest(c, 0)) = Len(c) - 0
        BY <2>1, PartRest
      <3> QED BY <2>1, <3>1 DEF Part
    <2>3. Rest(c, 0) = <<>>
      BY <2>2, EmptySeq
    <2> QED BY <1>2, <2>1, <2>2, <2>3 DEF DropUntil
<1>3. CASE c # <<>>
    <2> DEFINE S == {k \in 0 .. Len(c) - 1 : k = Len(c) - 1 \/ k \in allowed}
               k == Min(S)
    <2>1. Len(c) # 0
      BY <1>3, EmptySeq
    <2>2. S \in SUBSET Nat /\ Len(c) - 1 \in S
      BY <1>1, <2>1
    <2>3. k \in S
      <3> HIDE DEF S
      <3>1. S # {}
        BY <2>2
      <3> QED BY <2>2, <3>1, MinExists
    <2>4. DropUntil(c, allowed) = Rest(c, k)
      BY <1>3 DEF DropUntil
    <2> HIDE DEF k
    <2>5. k \in 0 .. Len(c) /\ (k = Len(c) - 1 \/ k \in allowed)
      BY <1>1, <2>3
    <2>6. Len(Rest(c, k)) = Len(c) - k
      BY <2>5, PartRest
    <2>7. k = Len(c) - 1 => Len(Rest(c, k)) <= 1
      BY <1>1, <2>6
    <2> QED BY <2>4, <2>5, <2>7
<1> QED BY <1>2, <1>3

Within(c, lim) == Len(c) <= 1 \/ lim = 0 \/ CacheSize(c) <= lim

\* update() leaves a part of the entries that keeps to the limit.
LEMMA TrimEffect ==
    ASSUME NEW c \in Seq(CacheEntry), NEW lim \in Nat
    PROVE  Part(Trim(c, lim), c) /\ Within(Trim(c, lim), lim)
<1> DEFINE fit == IF lim = 0 THEN c ELSE FitSize(c, lim)
<1>1. Part(fit, c) /\ Within(fit, lim)
    <2>1. CASE lim = 0
      BY <2>1, PartSelf DEF Within
    <2>2. CASE lim # 0
      <3> DEFINE ok == {k \in 0 .. Len(c) : CacheSize(Rest(c, k)) <= lim}
      <3>1. PICK k \in 0 .. Len(c) :
              DropUntil(c, ok) = Rest(c, k) /\ (k \in ok \/ Len(Rest(c, k)) <= 1)
        BY DropUntilRest, Zenon
      <3>2. fit = Rest(c, k)
        BY <2>2, <3>1 DEF FitSize
      <3>3. Part(Rest(c, k), c)
        BY PartRest
      <3>4. Within(Rest(c, k), lim)
        BY <3>1 DEF Within
      <3> HIDE DEF fit
      <3> QED BY <3>2, <3>3, <3>4
    <2> QED BY <2>1, <2>2
<1>2. Trim(c, lim) = fit \/ \E most : Trim(c, lim) = FitTokens(fit, most)
    BY DEF Trim
<1> HIDE DEF fit
<1>3. CASE Trim(c, lim) = fit
    BY <1>1, <1>3
<1>4. ASSUME NEW most, Trim(c, lim) = FitTokens(fit, most)
      PROVE  Part(Trim(c, lim), c) /\ Within(Trim(c, lim), lim)
    <2>1. fit \in Seq(CacheEntry)
      BY <1>1 DEF Part
    <2> DEFINE ok == {k \in 0 .. Len(fit) : CacheTokens(Rest(fit, k)) <= most}
    <2>2. PICK k \in 0 .. Len(fit) : DropUntil(fit, ok) = Rest(fit, k)
      BY <2>1, DropUntilRest, Zenon
    <2> DEFINE r == Rest(fit, k)
    <2>3. Trim(c, lim) = r
      BY <1>4, <2>2 DEF FitTokens
    <2>4. Part(r, fit) /\ Len(r) = Len(fit) - k /\ r \in Seq(CacheEntry)
      BY <2>1, PartRest DEF Part
    <2>5. CacheSize(r) <= CacheSize(fit) /\ CacheSize(r) \in Nat /\ CacheSize(fit) \in Nat
      <3>1. CacheSize(r) \in Nat
        <4> HIDE DEF r
        <4> QED BY <2>4, SizeOfRest
      <3> QED BY <2>1, <3>1, SizeOfRest
    <2>6. Len(fit) \in Nat /\ k \in Nat
      BY <2>1
    <2> HIDE DEF r
    <2>7. Within(r, lim)
      BY <1>1, <2>4, <2>5, <2>6 DEF Within
    <2>8. Part(r, c)
      BY <1>1, <2>4, PartOfPart
    <2> QED BY <2>3, <2>7, <2>8
<1> QED BY <1>2, <1>3, <1>4

-----------------------------------------------------------------------------
(* The operations of a completion task.                                    *)

Memories == [prompt : [Slot -> Seq(Tokens)], main : [Slot -> Seq(Cell)],
             drft : [Slot -> Seq(Cell)], cache : Seq(CacheEntry), limit : Nat]

\* What a slot claims is exactly what its cells hold; one that claims nothing may
\* hold anything until it starts.
SlotHeld(m, s) == TokensOf(m.main[s]) = m.prompt[s]
Held(m)        == \A s \in Slot : m.prompt[s] = <<>> \/ SlotHeld(m, s)

\* From m the operations lead to n: no entry comes twice and, if no draft context
\* refuses a state, each slot is left alone, holds its prompt or is an idle one that
\* claims nothing, and entries hold what they claim.
Leads(m, n) ==
    /\ n \in Memories
    /\ Distinct(m.cache) => Distinct(n.cache)
    /\ "draft" \notin Refusals /\ Held(m) /\ AllHeld(m.cache) =>
         /\ AllHeld(n.cache)
         /\ \A s \in Slot : \/ n.prompt[s] = m.prompt[s] /\ n.main[s] = m.main[s]
                            \/ SlotHeld(n, s)
                            \/ Idle(s) /\ n.prompt[s] = <<>>

\* The operations lead on from where others have led.
LEMMA LeadsOn ==
    /\ \A m \in Memories : Leads(m, m)
    /\ \A m, n, o : Leads(m, n) /\ Leads(n, o) => Leads(m, o)
<1>1. ASSUME NEW m, NEW n, NEW o, Leads(m, n), Leads(n, o) PROVE Leads(m, o)
    <2>1. o \in Memories /\ (Distinct(m.cache) => Distinct(o.cache))
      BY <1>1 DEF Leads
    <2>2. ASSUME "draft" \notin Refusals, Held(m), AllHeld(m.cache)
          PROVE  /\ AllHeld(o.cache)
                 /\ \A s \in Slot : \/ o.prompt[s] = m.prompt[s] /\ o.main[s] = m.main[s]
                                    \/ SlotHeld(o, s)
                                    \/ Idle(s) /\ o.prompt[s] = <<>>
      <3>1. /\ AllHeld(n.cache)
            /\ \A s \in Slot : \/ n.prompt[s] = m.prompt[s] /\ n.main[s] = m.main[s]
                               \/ SlotHeld(n, s)
                               \/ Idle(s) /\ n.prompt[s] = <<>>
        BY <1>1, <2>2 DEF Leads
      <3>2. Held(n)
        BY <2>2, <3>1 DEF Held, SlotHeld
      <3>3. /\ AllHeld(o.cache)
            /\ \A s \in Slot : \/ o.prompt[s] = n.prompt[s] /\ o.main[s] = n.main[s]
                               \/ SlotHeld(o, s)
                               \/ Idle(s) /\ o.prompt[s] = <<>>
        BY <1>1, <2>2, <3>1, <3>2 DEF Leads
      <3> QED BY <3>1, <3>3 DEF SlotHeld
    <2> QED BY <2>1, <2>2 DEF Leads
<1>2. ASSUME NEW m \in Memories PROVE Leads(m, m)
    BY DEF Leads
<1> QED BY <1>1, <1>2

\* A change of the cache alone to a part of it.
LEMMA PartLeads ==
    ASSUME NEW m \in Memories, NEW n \in Memories, Part(n.cache, m.cache),
           n.prompt = m.prompt, n.main = m.main
    PROVE  Leads(m, n)
<1>1. m.cache \in Seq(CacheEntry)
    BY DEF Memories
<1> QED BY <1>1, PartKeeps DEF Leads

\* update() keeps to the limit.
LEMMA UpdatedLeads ==
    ASSUME NEW m \in Memories
    PROVE  Leads(m, Updated(m)) /\ Within(Updated(m).cache, Updated(m).limit)
<1> DEFINE c == Trim(m.cache, m.limit)
<1>1. Part(c, m.cache) /\ Within(c, m.limit)
    BY TrimEffect DEF Memories
<1>2. c \in Seq(CacheEntry)
    BY <1>1 DEF Part
<1> HIDE DEF c
<1>3. Updated(m) = [m EXCEPT !.cache = c]
    BY DEF Updated, c
<1>4. /\ Updated(m) \in Memories /\ Updated(m).cache = c /\ Updated(m).limit = m.limit
      /\ Updated(m).prompt = m.prompt /\ Updated(m).main = m.main
    BY <1>2, <1>3 DEF Memories
<1> QED BY <1>1, <1>4, PartLeads

\* The limit is reduced.
LEMMA ReducedLeads ==
    ASSUME NEW m \in Memories
    PROVE  Leads(m, Reduced(m)) /\ Within(Reduced(m).cache, Reduced(m).limit)
<1> DEFINE l == Max({1, (2 * CacheSize(m.cache)) \div 5})
           n == [m EXCEPT !.limit = l]
<1>1. l \in Nat
    <2>1. CacheSize(m.cache) \in Nat
      BY SizeOfRest DEF Memories
    <2> DEFINE h == (2 * CacheSize(m.cache)) \div 5
    <2>2. h \in Nat
      BY <2>1
    <2> HIDE DEF h
    <2>3. \E x \in {1, h} : \A y \in {1, h} : x >= y
      BY <2>2
    <2>4. Max({1, h}) \in {1, h}
      BY <2>3 DEF Max
    <2> QED BY <2>2, <2>4 DEF h
<1> HIDE DEF l
<1>2. n \in Memories /\ n.cache = m.cache /\ n.prompt = m.prompt /\ n.main = m.main
    BY <1>1 DEF Memories
<1>3. Reduced(m) = Updated(n)
    BY DEF Reduced, l
<1> HIDE DEF n
<1>4. Leads(m, n)
    <2>1. Part(n.cache, m.cache)
      BY <1>2, PartSelf DEF Memories
    <2> QED BY <1>2, <2>1, PartLeads
<1> QED BY <1>2, <1>3, <1>4, UpdatedLeads, LeadsOn

\* prompt_save(): the prompt of the slot is not yet covered, and the entries that
\* it covers are gone when it is added.
LEMMA SavedLeads ==
    ASSUME NEW m \in Memories, NEW s \in Slot, NEW fits \in BOOLEAN
    PROVE  /\ Leads(m, Saved(m, s, fits))
           /\ Saved(m, s, fits).prompt = m.prompt /\ Saved(m, s, fits).main = m.main
<1> DEFINE p == m.prompt[s]
           c == Without(m.cache, p)
           rest == [m EXCEPT !.cache = c]
           e == Entry(m, s)
           n == [rest EXCEPT !.cache = Append(@, e)]
<1>1. /\ m.cache \in Seq(CacheEntry) /\ p \in Seq(Tokens) /\ m.main[s] \in Seq(Cell)
      /\ m.drft[s] \in Seq(Cell)
    BY DEF Memories
<1>2. Part(c, m.cache) /\ (\A i \in DOMAIN c : ~IsPrefix(c[i].tokens, p)) /\ c \in Seq(CacheEntry)
    <2> HIDE DEF p
    <2> QED BY <1>1, WithoutPart DEF Part
<1>3. e \in CacheEntry /\ e.tokens = p /\ e.main = m.main[s]
    BY <1>1 DEF Entry, CacheEntry
<1> HIDE DEF c, e
<1>4. rest \in Memories /\ rest.cache = c /\ rest.prompt = m.prompt /\ rest.main = m.main
    BY <1>2 DEF Memories
<1>5. Leads(m, rest)
    <2> HIDE DEF rest
    <2> QED BY <1>2, <1>4, PartLeads
<1>6. CASE ~Saves(m, s)
    <2>1. Saved(m, s, fits) = m
      BY <1>6 DEF Saved
    <2> QED BY <2>1, LeadsOn
<1>7. CASE Saves(m, s) /\ ~fits
    <2>1. Saved(m, s, fits) = Reduced(rest)
      BY <1>7 DEF Saved, c
    <2>2. Leads(m, Reduced(rest))
      <3> HIDE DEF rest
      <3> QED BY <1>4, <1>5, ReducedLeads, LeadsOn
    <2>3. Reduced(rest).prompt = rest.prompt /\ Reduced(rest).main = rest.main
      <3> HIDE DEF rest
      <3> QED BY <1>4 DEF Reduced, Updated, Memories
    <2> HIDE DEF rest
    <2> QED BY <1>4, <2>1, <2>2, <2>3
<1>8. CASE Saves(m, s) /\ fits
    <2> DEFINE d == Append(c, e)
    <2>1. Saved(m, s, fits) = n
      BY <1>8 DEF Saved, c, e
    <2>2. /\ d \in Seq(CacheEntry) /\ Len(d) = Len(c) + 1
          /\ (\A i \in 1 .. Len(c) : d[i] = c[i]) /\ d[Len(c) + 1] = e
      BY <1>2, <1>3, AppendProperties
    <2>3. n.cache = d /\ n.prompt = m.prompt /\ n.main = m.main /\ n \in Memories
      BY <1>2, <1>4, <2>2 DEF Memories
    <2> HIDE DEF n, d, rest
    <2>4. /\ DOMAIN d = 1 .. Len(c) + 1 /\ DOMAIN c = 1 .. Len(c)
          /\ \A i \in DOMAIN d : (i = Len(c) + 1 /\ d[i] = e) \/ (i \in DOMAIN c /\ d[i] = c[i])
      BY <1>2, <2>2
    <2>5. p # <<>> /\ \A i \in DOMAIN m.cache : ~IsPrefix(p, m.cache[i].tokens)
      BY <1>8 DEF Saves, Covered
    <2>6. \A i \in DOMAIN c : ~IsPrefix(p, c[i].tokens)
      <3>1. PICK a : Picks(a, c, m.cache, Len(m.cache))
        BY <1>2 DEF Part
      <3>2. \A i \in DOMAIN c : a[i] \in DOMAIN m.cache /\ c[i] = m.cache[a[i]]
        BY <1>1, <3>1 DEF Picks
      <3> QED BY <2>5, <3>2
    <2>7. ASSUME Distinct(c) PROVE Distinct(d)
      <3> SUFFICES ASSUME NEW i \in DOMAIN d, NEW j \in DOMAIN d,
                          IsPrefix(d[i].tokens, d[j].tokens)
                   PROVE  i = j
        BY DEF Distinct
      <3> QED BY <1>2, <1>3, <2>4, <2>6, <2>7 DEF Distinct
    <2>8. ASSUME AllHeld(c), Held(m) PROVE AllHeld(d)
      <3>1. TokensOf(e.main) = e.tokens /\ e.tokens # <<>>
        BY <1>3, <2>5, <2>8 DEF Held, SlotHeld
      <3> QED BY <2>4, <2>8, <3>1 DEF AllHeld
    <2>9. Leads(m, n)
      BY <1>4, <1>5, <2>3, <2>7, <2>8 DEF Leads
    <2> QED BY <2>1, <2>3, <2>9
<1> QED BY <1>6, <1>7, <1>8

\* No cells hold no tokens.
LEMMA NothingHeld == TokensOf(<<>>) = <<>>
<1> DEFINE e == <<>>
<1>1. e \in Seq(Cell) /\ Len(e) = 0
    OBVIOUS
<1> HIDE DEF e
<1>2. TokensOf(e) \in Seq(Tokens) /\ Len(TokensOf(e)) = 0
    BY <1>1, TokensOfCells
<1>3. TokensOf(e) = <<>>
    BY <1>2, EmptySeq
<1> QED BY <1>3 DEF e

\* Clearing empties one slot.
LEMMA ClearedEffect ==
    ASSUME NEW m \in Memories, NEW s \in Slot
    PROVE  /\ Cleared(m, s) \in Memories
           /\ Cleared(m, s).cache = m.cache /\ Cleared(m, s).limit = m.limit
           /\ Cleared(m, s).prompt[s] = <<>> /\ Cleared(m, s).main[s] = <<>>
           /\ \A t \in Slot : t # s => /\ Cleared(m, s).prompt[t] = m.prompt[t]
                                       /\ Cleared(m, s).main[t] = m.main[t]
<1> DEFINE n == Cleared(m, s)
           p == [m.prompt EXCEPT ![s] = <<>>]
           c == [m.main EXCEPT ![s] = <<>>]
           d == [m.drft EXCEPT ![s] = <<>>]
<1>1. p \in [Slot -> Seq(Tokens)] /\ c \in [Slot -> Seq(Cell)] /\ d \in [Slot -> Seq(Cell)]
    <2>1. \A S, T : \A f \in [S -> Seq(T)] : [f EXCEPT ![s] = <<>>] \in [S -> Seq(T)]
      <3>1. \A T : <<>> \in Seq(T)
        OBVIOUS
      <3> QED BY <3>1
    <2> QED BY <2>1 DEF Memories
<1>2. n \in Memories /\ n.cache = m.cache /\ n.limit = m.limit
    <2>1. n = [m EXCEPT !.prompt = p, !.main = c, !.drft = d]
      BY DEF Cleared, Memories
    <2> HIDE DEF n, p, c, d
    <2> QED BY <1>1, <2>1 DEF Memories
<1>3. n.prompt[s] = <<>> /\ n.main[s] = <<>>
    BY DEF Cleared, Memories
<1>4. \A t \in Slot : t # s => n.prompt[t] = m.prompt[t] /\ n.main[t] = m.main[t]
    BY DEF Cleared, Memories
<1> HIDE DEF n
<1> QED BY <1>2, <1>3, <1>4 DEF n

\* A cleared slot claims nothing and holds nothing.
LEMMA ClearedLeads ==
    ASSUME NEW m \in Memories, NEW s \in Slot
    PROVE  Leads(m, Cleared(m, s)) /\ Cleared(m, s).cache = m.cache /\ Cleared(m, s).limit = m.limit
<1> DEFINE n == Cleared(m, s)
<1> HIDE DEF n
<1>1. /\ n \in Memories /\ n.cache = m.cache /\ n.limit = m.limit
      /\ n.prompt[s] = <<>> /\ n.main[s] = <<>>
      /\ \A t \in Slot : t # s => n.prompt[t] = m.prompt[t] /\ n.main[t] = m.main[t]
    BY ClearedEffect DEF n
<1>2. SlotHeld(n, s)
    BY <1>1, NothingHeld DEF SlotHeld
<1>3. Leads(m, n)
    BY <1>1, <1>2 DEF Leads
<1> QED BY <1>1, <1>3 DEF n

\* load() finds an entry of the cache, or none.
LEMMA BestEntry ==
    ASSUME NEW m \in Memories, NEW s \in Slot, NEW new
    PROVE  Best(m, s, new) \in 0 .. Len(m.cache)
<1> DEFINE n == Len(m.cache)
           of(i) == IF i = 0 THEN m.prompt[s] ELSE m.cache[i].tokens
           same(i) == Lcp(of(i), new)
           keepsMore(i, b) == of(b) = <<>> \/ same(i) * Len(of(b)) > same(b) * Len(of(i))
           better(i, b) == 4 * same(i) >= Len(of(i)) /\ keepsMore(i, b) /\ same(i) > same(b)
           step(i, b) == IF better(i, b) THEN i ELSE b
           Found(g) == g = [i \in 0 .. n |-> IF i = 0 THEN 0 ELSE step(i, g[i - 1])]
           best == CHOOSE g : Found(g)
           st == [i \in 1 .. n |-> [b \in 0 .. n |-> step(i, b)]]
<1>1. n \in Nat /\ 0 \in 0 .. n
    BY DEF Memories
<1>2. Best(m, s, new) = best[n]
    BY DEF Best
<1> HIDE DEF better
<1>3. \A i \in 1 .. n, b \in 0 .. n : st[i][b] = step(i, b) /\ st[i][b] \in 0 .. n
    <2> HIDE DEF n
    <2> QED BY <1>1
<1> HIDE DEF st
<1>4. PICK f : Runs(f, 0 .. n, n, 0, st)
    <2> HIDE DEF n
    <2>1. \A i \in 1 .. n, b \in 0 .. n : st[i][b] \in 0 .. n
      BY <1>3
    <2> QED BY <1>1, <2>1, RecursionExists
<1> HIDE DEF n, step
<1>5. Found(f)
    <2>1. f \in [0 .. n -> 0 .. n] /\ f[0] = 0 /\ \A i \in 1 .. n : f[i] = st[i][f[i - 1]]
      BY <1>4 DEF Runs
    <2>2. \A i \in 1 .. n : i - 1 \in 0 .. n
      BY <1>1
    <2>3. \A i \in 0 .. n : i # 0 => i \in 1 .. n
      BY <1>1
    <2> QED BY <1>3, <2>1, <2>2, <2>3
<1>6. Found(best)
    <2> HIDE DEF Found
    <2> QED BY <1>5
<1> HIDE DEF best
<1>7. \A i \in 0 .. n : best[i] \in 0 .. n
    <2> DEFINE B == {i \in 0 .. n : best[i] \in 0 .. n}
    <2>1. 0 \in B
      BY <1>1, <1>6
    <2>2. ASSUME NEW i \in 1 .. n, i - 1 \in B PROVE i \in B
      <3>1. i \in 0 .. n /\ i # 0
        BY <1>1
      <3>2. best[i] = step(i, best[i - 1])
        BY <1>6, <3>1
      <3>3. best[i] = i \/ best[i] = best[i - 1]
        BY <3>2 DEF step
      <3> QED BY <2>2, <3>1, <3>3
    <2> HIDE DEF B
    <2>3. \A i \in 0 .. n : i \in B
      BY <1>1, <2>1, <2>2, Steps
    <2> QED BY <2>3 DEF B
<1>8. best[n] \in 0 .. n
    <2>1. n \in 0 .. n
      BY <1>1
    <2> QED BY <1>7, <2>1
<1> QED BY <1>2, <1>8 DEF n

\* prompt_load(): the slot gets tokens and state of the same entry; when the state is
\* refused it is cleared.
LEMMA LoadedLeads ==
    ASSUME NEW m \in Memories, NEW s \in Slot, NEW new, NEW refusal \in {"none"} \cup Refusals
    PROVE  Leads(m, Loaded(m, s, new, refusal))
<1> DEFINE i == Best(m, s, new)
           e == m.cache[i]
           read(c, data) == IF data = <<>> THEN c ELSE data
           n == Loaded(m, s, new, refusal)
<1>1. i \in 0 .. Len(m.cache)
    BY BestEntry
<1>2. m.cache \in Seq(CacheEntry)
    BY DEF Memories
<1>3. CASE i = 0
    <2>1. n = m
      BY <1>3 DEF Loaded
    <2> QED BY <2>1, LeadsOn
<1>4. CASE i # 0
    <2>1. i \in DOMAIN m.cache
      BY <1>1, <1>2, <1>4
    <2>2. /\ e \in CacheEntry /\ e.tokens \in Seq(Tokens) /\ e.main \in Seq(Cell)
          /\ e.drft \in Seq(Cell)
      <3> HIDE DEF i
      <3>1. e \in CacheEntry
        BY <1>2, <2>1
      <3> QED BY <3>1 DEF CacheEntry
    <2>3. CASE refusal = "main" /\ e.main # <<>>
      <3>1. n = Cleared(m, s)
        BY <1>4, <2>3 DEF Loaded
      <3> QED BY <3>1, ClearedLeads
    <2>4. CASE refusal = "draft" /\ e.drft # <<>>
      <3> DEFINE o == Cleared(m, s)
                 c == [m.cache EXCEPT ![i].main = <<>>]
      <3>1. n = [o EXCEPT !.cache[i].main = <<>>]
        BY <1>4, <2>4 DEF Loaded
      <3>2. o \in Memories /\ o.cache = m.cache
        BY ClearedLeads DEF Leads
      <3> HIDE DEF o, n, i
      <3>3. c \in Seq(CacheEntry) /\ DOMAIN c = DOMAIN m.cache
            /\ \A j \in DOMAIN c : c[j].tokens = m.cache[j].tokens
        <4>1. \A j \in DOMAIN m.cache : m.cache[j] \in CacheEntry
          BY <1>2
        <4>2. [e EXCEPT !.main = <<>>] \in CacheEntry /\ [e EXCEPT !.main = <<>>].tokens = e.tokens
          <5> HIDE DEF e
          <5>1. <<>> \in Seq(Cell)
            OBVIOUS
          <5> QED BY <2>2, <5>1 DEF CacheEntry
        <4>3. Len(m.cache) \in Nat /\ DOMAIN m.cache = 1 .. Len(m.cache)
          BY <1>2
        <4>4. c \in [1 .. Len(m.cache) -> CacheEntry]
          BY <4>1, <4>2, <4>3
        <4>5. \A j \in DOMAIN m.cache : c[j].tokens = m.cache[j].tokens
          BY <4>2
        <4> QED BY <4>3, <4>4, <4>5, FunctionSeq
      <3>4. n = [o EXCEPT !.cache = c]
        BY <3>1, <3>2 DEF Memories
      <3> HIDE DEF c
      <3>5. n \in Memories /\ n.cache = c
        BY <3>2, <3>3, <3>4 DEF Memories
      <3>6. Distinct(m.cache) => Distinct(n.cache)
        BY <3>3, <3>5 DEF Distinct
      <3>7. "draft" \in Refusals
        BY <2>4
      <3>8. Leads(m, n)
        BY <3>5, <3>6, <3>7 DEF Leads
      <3> QED BY <3>8 DEF n
    <2>5. CASE ~(refusal = "main" /\ e.main # <<>>) /\ ~(refusal = "draft" /\ e.drft # <<>>)
      <3> DEFINE c == RemoveAt(m.cache, i)
                 a == read(m.main[s], e.main)
                 b == read(m.drft[s], e.drft)
      <3>1. n = [m EXCEPT !.prompt[s] = e.tokens, !.main[s] = a, !.drft[s] = b, !.cache = c]
        BY <1>4, <2>5 DEF Loaded, Memories
      <3>2. Part(c, m.cache) /\ c \in Seq(CacheEntry)
        <4> HIDE DEF i
        <4> QED BY <1>2, <2>1, PartRemoved DEF Part
      <3>3. a \in Seq(Cell) /\ b \in Seq(Cell)
        BY <2>2 DEF Memories
      <3>4. AllHeld(m.cache) => e.tokens # <<>> /\ TokensOf(e.main) = e.tokens
        BY <2>1 DEF AllHeld
      <3>5. AllHeld(m.cache) => TokensOf(a) = e.tokens
        BY <3>4, NothingHeld
      <3> HIDE DEF n, c, a, b, i
      <3>6. /\ n \in Memories /\ n.cache = c /\ n.prompt[s] = e.tokens /\ n.main[s] = a
            /\ \A t \in Slot : t # s => n.prompt[t] = m.prompt[t] /\ n.main[t] = m.main[t]
        BY <2>2, <3>1, <3>2, <3>3 DEF Memories
      <3>7. AllHeld(m.cache) => SlotHeld(n, s)
        BY <3>5, <3>6 DEF SlotHeld
      <3>8. (Distinct(m.cache) => Distinct(c)) /\ (AllHeld(m.cache) => AllHeld(c))
        BY <1>2, <3>2, PartKeeps
      <3>9. Leads(m, n)
        BY <3>6, <3>7, <3>8 DEF Leads
      <3> QED BY <3>9 DEF n
    <2> QED BY <2>3, <2>4, <2>5
<1> QED BY <1>3, <1>4

\* Other adapters make an idle slot claim nothing.
LEMMA DropsLeads ==
    ASSUME NEW m \in Memories, NEW s \in Slot, Idle(s), NEW l
    PROVE  /\ Leads(m, DropsPrompt(m, s, l))
           /\ DropsPrompt(m, s, l).cache = m.cache /\ DropsPrompt(m, s, l).limit = m.limit
<1> DEFINE n == [m EXCEPT !.prompt[s] = <<>>]
           p == [m.prompt EXCEPT ![s] = <<>>]
<1>1. p \in [Slot -> Seq(Tokens)]
    <2>1. <<>> \in Seq(Tokens)
      OBVIOUS
    <2> QED BY <2>1 DEF Memories
<1>2. n = [m EXCEPT !.prompt = p]
    BY DEF Memories
<1>3. p[s] = <<>> /\ \A t \in Slot : t # s => p[t] = m.prompt[t]
    BY DEF Memories
<1>4. DropsPrompt(m, s, l) = n \/ DropsPrompt(m, s, l) = m
    BY DEF DropsPrompt
<1> HIDE DEF n, p
<1>5. n \in Memories /\ n.prompt = p /\ n.main = m.main /\ n.cache = m.cache /\ n.limit = m.limit
    BY <1>1, <1>2 DEF Memories
<1>6. Leads(m, n)
    BY <1>3, <1>5 DEF Leads
<1> QED BY <1>4, <1>5, <1>6, LeadsOn

\* get_available_slot() saves and loads, and the cache keeps to its limit.
LEMMA SwappedLeads ==
    ASSUME Memory \in Memories, NEW r, NEW s \in Slot, NEW full,
           NEW refusal \in {"none"} \cup Refusals
    PROVE  /\ Leads(Memory, Swapped(r, s, full, refusal))
           /\ Within(cache, limit) =>
                Within(Swapped(r, s, full, refusal).cache, Swapped(r, s, full, refusal).limit)
<1> DEFINE n == Saved(Memory, s, s \notin full)
           o == Loaded(n, s, r.tokens, refusal)
           q == Updated(o)
<1>1. CASE LosesMuch(r, s)
    <2>1. Leads(Memory, n)
      <3>1. (s \notin full) \in BOOLEAN
        OBVIOUS
      <3> QED BY <3>1, SavedLeads
    <2>2. n \in Memories
      BY <2>1 DEF Leads
    <2>3. Swapped(r, s, full, refusal) = q
      BY <1>1 DEF Swapped
    <2> HIDE DEF n
    <2>4. Leads(n, o)
      BY <2>2, LoadedLeads
    <2>5. o \in Memories
      BY <2>4 DEF Leads
    <2> HIDE DEF o
    <2>6. Leads(o, q) /\ Within(q.cache, q.limit)
      BY <2>5, UpdatedLeads
    <2> HIDE DEF q
    <2> QED BY <2>1, <2>3, <2>4, <2>6, LeadsOn
<1>2. CASE ~LosesMuch(r, s)
    <2>1. Swapped(r, s, full, refusal) = Memory
      BY <1>2 DEF Swapped
    <2>2. Memory.cache = cache /\ Memory.limit = limit
      BY DEF Memory
    <2> QED BY <2>1, <2>2, LeadsOn
<1> QED BY <1>1, <1>2

\* An idle slot is saved and, when all slots share the cells, cleared.
SweptSlot(n, s, full) ==
    LET q == IF Saves(n, s) THEN Updated(Saved(n, s, s \notin full)) ELSE n
    IN  IF Unified THEN Cleared(q, s) ELSE q

\* That leads on, and to a cache that keeps to its limit.
LEMMA SweptSlotLeads ==
    ASSUME NEW n \in Memories, NEW s \in Slot, NEW full
    PROVE  /\ Leads(n, SweptSlot(n, s, full))
           /\ Within(n.cache, n.limit) =>
                Within(SweptSlot(n, s, full).cache, SweptSlot(n, s, full).limit)
<1> DEFINE o == Saved(n, s, s \notin full)
           q == IF Saves(n, s) THEN Updated(o) ELSE n
           u == SweptSlot(n, s, full)
<1>1. Leads(n, o)
    <2>1. (s \notin full) \in BOOLEAN
      OBVIOUS
    <2> QED BY <2>1, SavedLeads
<1>2. u = IF Unified THEN Cleared(q, s) ELSE q
    BY DEF SweptSlot
<1> HIDE DEF o, u
<1>3. Leads(n, q) /\ (Within(n.cache, n.limit) => Within(q.cache, q.limit))
    <2>1. CASE ~Saves(n, s)
      BY <2>1, LeadsOn
    <2>2. CASE Saves(n, s)
      <3>1. o \in Memories
        BY <1>1 DEF Leads
      <3>2. Leads(o, Updated(o)) /\ Within(Updated(o).cache, Updated(o).limit)
        BY <3>1, UpdatedLeads
      <3>3. q = Updated(o)
        BY <2>2
      <3> QED BY <1>1, <3>2, <3>3, LeadsOn
    <2> QED BY <2>1, <2>2
<1>4. q \in Memories
    BY <1>3 DEF Leads
<1> HIDE DEF q
<1>5. CASE Unified
    <2>1. u = Cleared(q, s)
      BY <1>2, <1>5
    <2>2. Leads(q, u) /\ u.cache = q.cache /\ u.limit = q.limit
      BY <1>4, <2>1, ClearedLeads
    <2> QED BY <1>3, <2>2, LeadsOn DEF u
<1>6. CASE ~Unified
    BY <1>2, <1>3, <1>6 DEF u
<1> QED BY <1>5, <1>6

\* What holds at first, and with each slot passed on to the next, holds at the end.
LEMMA SweptBy ==
    ASSUME NEW m \in Memories, NEW idle \in SUBSET Slot, NEW full,
           NEW G \in [0 .. NSlots -> SUBSET Memories], m \in G[0],
           \A k \in 1 .. NSlots : \A n \in G[k - 1] :
             IF k - 1 \in idle THEN SweptSlot(n, k - 1, full) \in G[k] ELSE n \in G[k]
    PROVE  Swept(m, idle, full) \in G[NSlots]
<1> DEFINE save(n, s)  == IF Saves(n, s) THEN Updated(Saved(n, s, s \notin full)) ELSE n
           clear(n, s) == IF Unified THEN Cleared(n, s) ELSE n
           step(n, k)  == IF k - 1 \in idle THEN clear(save(n, k - 1), k - 1) ELSE n
           Done(g) == g = [k \in 0 .. NSlots |-> IF k = 0 THEN m ELSE step(g[k - 1], k)]
           after == CHOOSE g : Done(g)
           st == [k \in 1 .. NSlots |-> [n \in Memories |-> step(n, k)]]
<1>1. NSlots \in Nat
    BY SlotAssumption
<1>2. \A n, k : step(n, k) = IF k - 1 \in idle THEN SweptSlot(n, k - 1, full) ELSE n
    BY DEF SweptSlot
<1>3. Swept(m, idle, full) = after[NSlots]
    BY DEF Swept
<1> HIDE DEF step
<1>4. ASSUME NEW n \in Memories, NEW k \in 1 .. NSlots PROVE step(n, k) \in Memories
    <2>1. CASE k - 1 \in idle
      <3> DEFINE s == k - 1
      <3>1. s \in Slot /\ step(n, k) = SweptSlot(n, s, full)
        BY <1>2, <2>1
      <3> HIDE DEF s
      <3>2. Leads(n, SweptSlot(n, s, full))
        BY <3>1, SweptSlotLeads
      <3> QED BY <3>1, <3>2 DEF Leads
    <2>2. CASE k - 1 \notin idle
      BY <1>2, <2>2
    <2> QED BY <2>1, <2>2
<1>5. \A k \in 1 .. NSlots, n \in Memories : st[k][n] = step(n, k) /\ st[k][n] \in Memories
    BY <1>4
<1> HIDE DEF st
<1>6. PICK f : Runs(f, Memories, NSlots, m, st)
    <2>1. \A k \in 1 .. NSlots, n \in Memories : st[k][n] \in Memories
      BY <1>5
    <2> QED BY <1>1, <2>1, RecursionExists
<1>7. Done(f)
    <2>1. f \in [0 .. NSlots -> Memories] /\ f[0] = m /\ \A k \in 1 .. NSlots : f[k] = st[k][f[k - 1]]
      BY <1>6 DEF Runs
    <2>2. \A k \in 1 .. NSlots : k - 1 \in 0 .. NSlots
      BY <1>1
    <2>3. \A k \in 0 .. NSlots : k # 0 => k \in 1 .. NSlots
      BY <1>1
    <2> QED BY <1>5, <2>1, <2>2, <2>3
<1>8. Done(after)
    <2> HIDE DEF Done
    <2> QED BY <1>7
<1> HIDE DEF after
<1>9. \A k \in 0 .. NSlots : after[k] \in G[k]
    <2> DEFINE B == {k \in 0 .. NSlots : after[k] \in G[k]}
    <2>1. 0 \in B
      BY <1>1, <1>8
    <2>2. ASSUME NEW k \in 1 .. NSlots, k - 1 \in B PROVE k \in B
      <3>1. k \in 0 .. NSlots /\ k # 0
        BY <1>1
      <3>2. after[k] = step(after[k - 1], k)
        BY <1>8, <3>1
      <3>3. after[k] \in G[k]
        BY <1>2, <2>2, <3>2
      <3> QED BY <3>1, <3>3
    <2> HIDE DEF B
    <2>3. \A k \in 0 .. NSlots : k \in B
      BY <1>1, <2>1, <2>2, Steps
    <2> QED BY <2>3 DEF B
<1>10. NSlots \in 0 .. NSlots
    BY <1>1
<1> QED BY <1>3, <1>9, <1>10

\* The idle slots are saved and cleared one after the other.
LEMMA SweptLeads ==
    ASSUME NEW m \in Memories, NEW idle \in SUBSET Slot, NEW full
    PROVE  /\ Leads(m, Swept(m, idle, full))
           /\ Within(m.cache, m.limit) =>
                Within(Swept(m, idle, full).cache, Swept(m, idle, full).limit)
<1> DEFINE X == {n \in Memories : /\ Leads(m, n)
                                  /\ Within(m.cache, m.limit) => Within(n.cache, n.limit)}
           G == [k \in 0 .. NSlots |-> X]
<1>1. NSlots \in Nat
    BY SlotAssumption
<1>2. ASSUME NEW n \in X, NEW s \in Slot PROVE SweptSlot(n, s, full) \in X
    <2> DEFINE u == SweptSlot(n, s, full)
    <2>1. Leads(n, u) /\ (Within(n.cache, n.limit) => Within(u.cache, u.limit))
      BY SweptSlotLeads
    <2> HIDE DEF u
    <2>2. Leads(m, u)
      BY <2>1, LeadsOn
    <2>3. u \in Memories
      BY <2>1 DEF Leads
    <2> QED BY <2>1, <2>2, <2>3 DEF u
<1>3. m \in X
    BY LeadsOn
<1> HIDE DEF X
<1>4. \A k \in 0 .. NSlots : G[k] = X
    OBVIOUS
<1>5. G \in [0 .. NSlots -> SUBSET Memories]
    BY DEF X
<1> HIDE DEF G
<1>6. \A k \in 1 .. NSlots : k \in 0 .. NSlots /\ k - 1 \in 0 .. NSlots /\ 0 \in 0 .. NSlots
    BY <1>1
<1>7. \A k \in 1 .. NSlots : \A n \in G[k - 1] :
        IF k - 1 \in idle THEN SweptSlot(n, k - 1, full) \in G[k] ELSE n \in G[k]
    <2>1. \A s \in idle, n \in X : SweptSlot(n, s, full) \in X
      BY <1>2
    <2> QED BY <1>4, <1>6, <2>1
<1>8. m \in G[0] /\ NSlots \in 0 .. NSlots
    BY <1>1, <1>3, <1>4
<1>9. Swept(m, idle, full) \in G[NSlots]
    BY <1>5, <1>7, <1>8, SweptBy
<1>10. Swept(m, idle, full) \in X
    BY <1>4, <1>8, <1>9
<1> QED BY <1>10 DEF X

-----------------------------------------------------------------------------
(* The inductive invariant.                                                *)

\* Who works on what, and in which order slots were used.
RunOK ==
    /\ lora \in [Slot -> Adapters \cup {"none"}] /\ default \in Adapters
    /\ state \in [Slot -> States]
    /\ request \in [Slot -> Prompts \cup {<<>>}]
    /\ \A s \in Slot : Idle(s) <=> request[s] = <<>>
    /\ \A s \in Slot : ~Idle(s) => lora[s] # "none"
    /\ used \in [Slot -> Slot] /\ \A s, t \in Slot : used[s] = used[t] => s = t

FileOK == file \in [tokens : Seq(Tokens), main : Seq(Cell)]

\* The cache and its limit.
CacheInv == Distinct(cache) /\ Within(cache, limit)

Inv == TypeOK /\ CacheInv

\* What is claimed is held: exactly by the cells of a slot that generates, up to what
\* is in the batch by those of a slot in the batch, and exactly by entries and file.
Claimed(s) ==
    CASE state[s] = "batched" ->
           prompt[s] = request[s] /\ IsPrefix(TokensOf(main[s]), prompt[s])
      [] state[s] = "generating" -> TokensOf(main[s]) = prompt[s]
      [] OTHER -> prompt[s] = <<>> \/ TokensOf(main[s]) = prompt[s]

FileHeld == file.tokens = <<>> \/ TokensOf(file.main) = file.tokens

ClaimsInv == (\A s \in Slot : Claimed(s)) /\ AllHeld(cache) /\ FileHeld

\* No draft context refuses a state that the main context has taken, and no
\* exception comes between batching and decoding.
Reliable == "draft" \notin Refusals /\ ~Aborts

\* Types of the slots and the cache, of the scheduling and of the file.
LEMMA TypeParts == TypeOK <=> Memory \in Memories /\ RunOK /\ FileOK
BY DEF TypeOK, Memory, Memories, RunOK, FileOK

\* Where operations have led, there are types and no entry twice.
LEMMA BecomesTypes ==
    ASSUME NEW n, Leads(Memory, n), Becomes(n)
    PROVE  /\ Memory' \in Memories
           /\ Distinct(cache) => Distinct(cache')
           /\ cache' = n.cache /\ limit' = n.limit
<1>1. n \in Memories /\ (Distinct(cache) => Distinct(n.cache))
    BY DEF Leads, Memory
<1> QED BY <1>1 DEF Becomes, Memory, Memories

\* At rest nothing is claimed that the operations rely on and that is not held.
LEMMA HeldAtRest ==
    ASSUME TypeOK, ClaimsInv, AtRest
    PROVE  Held(Memory) /\ AllHeld(Memory.cache)
<1>1. \A s \in Slot : prompt[s] = <<>> \/ TokensOf(main[s]) = prompt[s]
    BY DEF ClaimsInv, Claimed, AtRest
<1> QED BY <1>1 DEF ClaimsInv, Held, SlotHeld, Memory

\* ... and that stays so.
LEMMA BecomesClaims ==
    ASSUME TypeOK, ClaimsInv, AtRest, Reliable, NEW n, Leads(Memory, n), Becomes(n)
    PROVE  /\ AllHeld(cache')
           /\ \A s \in Slot : \/ prompt'[s] = prompt[s] /\ main'[s] = main[s]
                              \/ TokensOf(main'[s]) = prompt'[s]
                              \/ Idle(s) /\ prompt'[s] = <<>>
<1>1. /\ AllHeld(n.cache)
      /\ \A s \in Slot : \/ n.prompt[s] = Memory.prompt[s] /\ n.main[s] = Memory.main[s]
                         \/ SlotHeld(n, s)
                         \/ Idle(s) /\ n.prompt[s] = <<>>
    BY HeldAtRest DEF Leads, Reliable
<1> QED BY <1>1 DEF Becomes, Memory, SlotHeld

\* The slots released last are used last; the order stays one.
LEMMA UsedLastOrder ==
    ASSUME RunOK, NEW S \in SUBSET Slot, UsedLast(S)
    PROVE  used' \in [Slot -> Slot] /\ \A s, t \in Slot : used'[s] = used'[t] => s = t
<1> DEFINE before(t, s) == IF s \in S THEN t \notin S \/ t < s
                           ELSE t \notin S /\ used[t] < used[s]
           R(s) == {t \in Slot : before(t, s)}
<1>1. used' = [s \in Slot |-> Cardinality(R(s))]
    BY DEF UsedLast
<1>2. NSlots \in Nat /\ Slot \in SUBSET Int /\ \A s \in Slot : used[s] \in Int
    BY SlotAssumption DEF Slot, RunOK
<1>3. IsFiniteSet(Slot) /\ Cardinality(Slot) = NSlots
    <2>1. IsFiniteSet(0 .. NSlots - 1) /\ Cardinality(0 .. NSlots - 1) = NSlots
      <3>1. NSlots - 1 \in Int /\ 0 \in Int /\ ~(NSlots - 1 < 0) /\ (NSlots - 1) - 0 + 1 = NSlots
        BY SlotAssumption
      <3> QED BY <3>1, FS_Interval
    <2> QED BY <2>1 DEF Slot
<1>4. \A s, t \in Slot : used[s] = used[t] => s = t
    BY DEF RunOK
<1>5. \A s \in Slot : ~before(s, s)
    BY <1>2
<1>6. \A s, t \in Slot : s # t => before(s, t) \/ before(t, s)
    BY <1>2, <1>4
<1>7. \A s, t, u \in Slot : before(s, t) /\ before(t, u) => before(s, u)
    BY <1>2
<1> HIDE DEF before
<1>8. \A s \in Slot : R(s) \subseteq Slot /\ IsFiniteSet(R(s)) /\ Cardinality(R(s)) \in Nat
    BY <1>3, FS_Subset, FS_CardinalityType
<1>9. ASSUME NEW s \in Slot PROVE Cardinality(R(s)) \in Slot
    <2>1. R(s) # Slot
      BY <1>5
    <2>2. Cardinality(R(s)) < Cardinality(Slot)
      <3> HIDE DEF R
      <3> QED BY <1>2, <1>3, <1>8, <2>1, FS_Subset
    <2>3. Cardinality(R(s)) \in Nat
      BY <1>8
    <2> HIDE DEF R
    <2> QED BY <1>2, <1>3, <2>2, <2>3 DEF Slot
<1>10. ASSUME NEW s \in Slot, NEW t \in Slot, before(s, t)
       PROVE  Cardinality(R(s)) < Cardinality(R(t))
    <2>1. R(s) \subseteq R(t)
      BY <1>7, <1>10
    <2>2. s \in R(t) /\ s \notin R(s)
      BY <1>5, <1>10
    <2>3. R(s) # R(t)
      BY <2>2
    <2> HIDE DEF R
    <2> QED BY <1>8, <2>1, <2>3, FS_Subset
<1>11. \A s, t \in Slot : Cardinality(R(s)) = Cardinality(R(t)) => s = t
    <2> SUFFICES ASSUME NEW s \in Slot, NEW t \in Slot, s # t
                 PROVE  Cardinality(R(s)) # Cardinality(R(t))
      OBVIOUS
    <2>1. Cardinality(R(s)) < Cardinality(R(t)) \/ Cardinality(R(t)) < Cardinality(R(s))
      BY <1>6, <1>10
    <2>2. Cardinality(R(s)) \in Nat /\ Cardinality(R(t)) \in Nat
      BY <1>8
    <2> HIDE DEF R
    <2> QED BY <2>1, <2>2
<1> HIDE DEF R
<1> QED BY <1>1, <1>9, <1>11

\* release() leaves the slots idle and without a task.
LEMMA ReleasedOK ==
    ASSUME RunOK, NEW S \in SUBSET Slot, Released(S), default' = default
    PROVE  RunOK' /\ \A s \in Slot : state'[s] = IF s \in S THEN "idle" ELSE state[s]
<1>1. used' \in [Slot -> Slot] /\ \A s, t \in Slot : used'[s] = used'[t] => s = t
    BY UsedLastOrder DEF Released
<1>2. /\ state' = [s \in Slot |-> IF s \in S THEN "idle" ELSE state[s]]
      /\ request' = [s \in Slot |-> IF s \in S THEN <<>> ELSE request[s]]
      /\ lora' = lora
    BY DEF Released
<1>3. /\ state' \in [Slot -> States] /\ request' \in [Slot -> Prompts \cup {<<>>}]
    BY <1>2 DEF RunOK, States
<1>4. \A s \in Slot : state'[s] = "idle" <=> request'[s] = <<>>
    BY <1>2 DEF RunOK, Idle
<1>5. \A s \in Slot : state'[s] # "idle" => lora'[s] # "none"
    BY <1>2 DEF RunOK, Idle
<1> QED BY <1>1, <1>2, <1>3, <1>4, <1>5 DEF RunOK, Idle

\* Without a change of the scheduling it stays well-formed.
LEMMA RunKept ==
    ASSUME RunOK, UNCHANGED running, default' \in Adapters
    PROVE  RunOK'
BY DEF RunOK, running, Idle

-----------------------------------------------------------------------------
(* The actions.                                                            *)

\* Min of a set of slots is one of them.
LEMMA MinSlot ==
    ASSUME NEW S \in SUBSET Slot, S # {}
    PROVE  Min(S) \in S
<1>1. S \in SUBSET Nat
    BY DEF Slot
<1> QED BY <1>1, MinExists

\* A completion is given a slot, or none.
LEMMA ChosenSlot ==
    ASSUME NEW r \in Requests, Chosen(r) # -1
    PROVE  Chosen(r) \in Slot
<1>1. MostSimilar(r) \in SUBSET Slot
    BY DEF MostSimilar, Similar
<1>2. Oldest \in SUBSET Slot
    BY DEF Oldest
<1>3. r.slot \in Slot \cup {-1}
    BY InputAssumption DEF Requests, Slot
<1> QED BY <1>1, <1>2, <1>3, MinSlot DEF Chosen

\* The prompts of requests.
LEMMA RequestPrompt ==
    /\ Prompts \subseteq Seq(Tokens) /\ <<>> \notin Prompts
    /\ \A r \in Requests : r.tokens \in Prompts /\ r.lora \in Adapters \cup {"default"}
BY InputAssumption DEF Requests

\* What the invariant says of the next state, part by part.
LEMMA InvParts ==
    ASSUME Memory' \in Memories, RunOK', FileOK', Distinct(cache'), Within(cache', limit')
    PROVE  Inv'
<1>1. TypeOK'
    BY DEF TypeOK, Memory, Memories, RunOK, FileOK
<1> QED BY <1>1 DEF Inv, CacheInv

\* What is claimed in the next state, part by part.
LEMMA ClaimsParts ==
    ASSUME \A s \in Slot : Claimed(s)', AllHeld(cache'), FileHeld'
    PROVE  ClaimsInv'
BY DEF ClaimsInv

\* At rest a slot that is left alone, or that holds what it claims, goes on.
LEMMA ClaimedKept ==
    ASSUME NEW s \in Slot, Claimed(s), state[s] # "batched", state'[s] = state[s],
           \/ prompt'[s] = prompt[s] /\ main'[s] = main[s]
           \/ TokensOf(main'[s]) = prompt'[s]
           \/ Idle(s) /\ prompt'[s] = <<>>
    PROVE  Claimed(s)'
BY DEF Claimed, Idle

\* A completion for a slot at work changes the prompt of the slot and the cache.
LEMMA DeferStep ==
    ASSUME Inv, NEW r \in Requests, NEW full, NEW refusal \in {"none"} \cup Refusals,
           Defer(r, full, refusal)
    PROVE  Inv' /\ (Reliable /\ ClaimsInv => ClaimsInv')
<1> DEFINE s == Chosen(r)
           n == Swapped(r, s, full, refusal)
<1>1. Memory \in Memories /\ RunOK /\ FileOK /\ Distinct(cache) /\ Within(cache, limit) /\ TypeOK
    BY TypeParts DEF Inv, CacheInv
<1>2. s \in Slot
    BY ChosenSlot DEF Defer
<1>3. AtRest /\ Becomes(n) /\ UNCHANGED <<running, default, file>>
    BY DEF Defer
<1> HIDE DEF s
<1>4. Leads(Memory, n) /\ Within(n.cache, n.limit)
    BY <1>1, <1>2, SwappedLeads
<1> HIDE DEF n
<1>5. /\ Memory' \in Memories /\ Distinct(cache') /\ Within(cache', limit')
    BY <1>1, <1>3, <1>4, BecomesTypes
<1>6. RunOK' /\ FileOK'
    BY <1>1, <1>3, RunKept DEF RunOK, FileOK
<1>7. Inv'
    BY <1>5, <1>6, InvParts
<1>8. ASSUME Reliable, ClaimsInv PROVE ClaimsInv'
    <2>1. /\ AllHeld(cache')
          /\ \A t \in Slot : \/ prompt'[t] = prompt[t] /\ main'[t] = main[t]
                             \/ TokensOf(main'[t]) = prompt'[t]
                             \/ Idle(t) /\ prompt'[t] = <<>>
      BY <1>1, <1>3, <1>4, <1>8, BecomesClaims
    <2>2. \A t \in Slot : Claimed(t)'
      BY <1>3, <1>8, <2>1, ClaimedKept DEF ClaimsInv, AtRest, running
    <2>3. FileHeld'
      BY <1>3, <1>8 DEF FileHeld, ClaimsInv
    <2> QED BY <2>1, <2>2, <2>3, ClaimsParts
<1> QED BY <1>7, <1>8

\* A completion for an idle slot launches it, or is found invalid after the slot was
\* given its prompt and adapters.
LEMMA LaunchStep ==
    ASSUME Inv, NEW r \in Requests, NEW full, NEW refusal \in {"none"} \cup Refusals,
           NEW valid \in BOOLEAN, Launch(r, full, refusal, valid)
    PROVE  Inv' /\ (Reliable /\ ClaimsInv => ClaimsInv')
<1> DEFINE s == Chosen(r)
           o == Swapped(r, s, full, refusal)
           m == DropsPrompt(o, s, r.lora)
           idle == {t \in Slot : Idle(t) /\ t # s}
           w == Swept(m, idle, full)
<1>1. Memory \in Memories /\ RunOK /\ FileOK /\ Distinct(cache) /\ Within(cache, limit) /\ TypeOK
    BY TypeParts DEF Inv, CacheInv
<1>2. s \in Slot
    BY ChosenSlot DEF Launch
<1>3. /\ AtRest /\ Idle(s) /\ UNCHANGED <<used, default, file>>
      /\ lora' = [lora EXCEPT ![s] = IF r.lora = "default" THEN default ELSE r.lora]
      /\ \/ /\ state'   = [state EXCEPT ![s] = "started"]
            /\ request' = [request EXCEPT ![s] = r.tokens]
            /\ Becomes(w) \/ Becomes(m)
         \/ /\ Becomes(m)
            /\ UNCHANGED <<state, request>>
    BY DEF Launch
<1> HIDE DEF s
<1>4. Leads(Memory, o) /\ Within(o.cache, o.limit)
    BY <1>1, <1>2, SwappedLeads
<1>5. o \in Memories
    BY <1>4 DEF Leads
<1> HIDE DEF o
<1>6. Leads(o, m) /\ Within(m.cache, m.limit) /\ m \in Memories
    <2>1. Leads(o, m) /\ m.cache = o.cache /\ m.limit = o.limit
      BY <1>2, <1>3, <1>5, DropsLeads
    <2> HIDE DEF m
    <2> QED BY <1>4, <2>1 DEF Leads
<1> HIDE DEF m
<1>7. Leads(m, w) /\ Within(w.cache, w.limit)
    <2>1. idle \in SUBSET Slot
      OBVIOUS
    <2> HIDE DEF idle
    <2> QED BY <1>6, <2>1, SweptLeads
<1> HIDE DEF w
<1>8. PICK n : Becomes(n) /\ Leads(Memory, n) /\ Within(n.cache, n.limit)
    BY <1>3, <1>4, <1>6, <1>7, LeadsOn
<1>9. /\ Memory' \in Memories /\ Distinct(cache') /\ Within(cache', limit')
    BY <1>1, <1>8, BecomesTypes
<1>10. FileOK'
    BY <1>1, <1>3 DEF FileOK
<1>11. r.tokens \in Prompts /\ r.tokens # <<>> /\ r.lora \in Adapters \cup {"default"}
    BY RequestPrompt
<1>12. \A t \in Slot : \/ state'[t] = state[t] /\ request'[t] = request[t]
                       \/ t = s /\ state'[t] = "started" /\ request'[t] = r.tokens
    BY <1>1, <1>3 DEF RunOK
<1>13. RunOK'
    <2>1. state' \in [Slot -> States] /\ request' \in [Slot -> Prompts \cup {<<>>}]
      BY <1>1, <1>3, <1>11 DEF RunOK, States
    <2>2. \A t \in Slot : state'[t] = "idle" <=> request'[t] = <<>>
      BY <1>1, <1>11, <1>12 DEF RunOK, Idle
    <2>3. lora' \in [Slot -> Adapters \cup {"none"}] /\ lora'[s] \in Adapters
          /\ \A t \in Slot : t # s => lora'[t] = lora[t]
      BY <1>1, <1>2, <1>3, <1>11 DEF RunOK
    <2>4. \A t \in Slot : state'[t] # "idle" => lora'[t] # "none"
      BY <1>1, <1>12, <2>3, InputAssumption DEF RunOK, Idle
    <2> QED BY <1>1, <1>3, <2>1, <2>2, <2>3, <2>4 DEF RunOK, Idle
<1>14. Inv'
    BY <1>9, <1>10, <1>13, InvParts
<1>15. ASSUME Reliable, ClaimsInv PROVE ClaimsInv'
    <2>1. /\ AllHeld(cache')
          /\ \A t \in Slot : \/ prompt'[t] = prompt[t] /\ main'[t] = main[t]
                             \/ TokensOf(main'[t]) = prompt'[t]
                             \/ Idle(t) /\ prompt'[t] = <<>>
      BY <1>1, <1>3, <1>8, <1>15, BecomesClaims
    <2>2. ASSUME NEW t \in Slot PROVE Claimed(t)'
      <3>1. CASE state'[t] = state[t]
        BY <1>3, <1>15, <2>1, <3>1, ClaimedKept DEF ClaimsInv, AtRest
      <3>2. CASE t = s /\ state'[t] = "started"
        <4>1. prompt'[t] = <<>> \/ TokensOf(main'[t]) = prompt'[t]
          BY <1>3, <1>15, <2>1, <3>2 DEF ClaimsInv, Claimed, Idle
        <4> QED BY <3>2, <4>1 DEF Claimed
      <3> QED BY <1>12, <3>1, <3>2
    <2>3. FileHeld'
      BY <1>3, <1>15 DEF FileHeld, ClaimsInv
    <2> QED BY <2>1, <2>2, <2>3, ClaimsParts
<1> QED BY <1>14, <1>15

\* Prompts and cells of well-formed slots.
LEMMA SlotTypes ==
    ASSUME TypeOK
    PROVE  /\ prompt \in [Slot -> Seq(Tokens)] /\ main \in [Slot -> Seq(Cell)]
           /\ drft \in [Slot -> Seq(Cell)] /\ cache \in Seq(CacheEntry) /\ limit \in Nat
           /\ \A s \in Slot : ~Idle(s) => lora[s] \in Adapters
           /\ \A s \in Slot : ~Idle(s) => request[s] \in Seq(Tokens) /\ request[s] # <<>>
BY RequestPrompt DEF TypeOK, Idle

\* New prompts and cells are well-formed as soon as their functions are.
LEMMA MemoryParts ==
    ASSUME Inv, UNCHANGED cached,
           prompt' \in [Slot -> Seq(Tokens)], main' \in [Slot -> Seq(Cell)],
           drft' \in [Slot -> Seq(Cell)]
    PROVE  Memory' \in Memories /\ Distinct(cache') /\ Within(cache', limit')
<1>1. cache' = cache /\ limit' = limit
    BY DEF cached
<1>2. cache \in Seq(CacheEntry) /\ limit \in Nat /\ Distinct(cache) /\ Within(cache, limit)
    BY DEF Inv, CacheInv, TypeOK
<1> QED BY <1>1, <1>2 DEF Memory, Memories

\* A function changed at one slot.
LEMMA ChangedAt ==
    ASSUME NEW S, NEW f \in [Slot -> S], NEW s \in Slot, NEW x \in S, NEW g,
           g = [f EXCEPT ![s] = x]
    PROVE  g \in [Slot -> S] /\ g[s] = x /\ \A t \in Slot : t # s => g[t] = f[t]
OBVIOUS

\* pre_decode(): the common part is kept, what is kept of the cells is the beginning
\* of the request.
LEMMA StartStep ==
    ASSUME Inv, NEW s \in Slot, Start(s)
    PROVE  Inv' /\ (Reliable /\ ClaimsInv => ClaimsInv')
<1> DEFINE p == prompt[s]
           q == request[s]
           same == Lcp(p, q)
           past == IF same = Len(q) THEN same - 1 ELSE same
           c == Cut(main[s], past)
           d == Cut(drft[s], past)
<1>1. TypeOK /\ RunOK /\ FileOK
    BY TypeParts DEF Inv
<1>2. /\ state[s] = "started" /\ main' = [main EXCEPT ![s] = c] /\ drft' = [drft EXCEPT ![s] = d]
      /\ prompt' = [prompt EXCEPT ![s] = q] /\ state' = [state EXCEPT ![s] = "batched"]
      /\ UNCHANGED <<lora, request, used, cached, default, file>>
    <2>1. main' = [main EXCEPT ![s] = Cut(@, past)] /\ drft' = [drft EXCEPT ![s] = Cut(@, past)]
      BY DEF Start
    <2>2. main' = [main EXCEPT ![s] = c] /\ drft' = [drft EXCEPT ![s] = d]
      <3> HIDE DEF past
      <3> QED BY <2>1
    <2> QED BY <2>2 DEF Start
<1>3. p \in Seq(Tokens) /\ q \in Seq(Tokens) /\ q # <<>> /\ main[s] \in Seq(Cell) /\ drft[s] \in Seq(Cell)
    BY <1>1, <1>2, SlotTypes DEF Idle
<1> HIDE DEF p, q
<1>4. /\ same \in Nat /\ same <= Len(p) /\ same <= Len(q)
      /\ \A k \in 1 .. same : p[k] = q[k]
    BY <1>3, CommonPrefix
<1> HIDE DEF same
<1>5. past \in Nat /\ past <= same
    <2>1. Len(q) \in Nat /\ Len(q) # 0
      BY <1>3, EmptySeq
    <2> QED BY <1>4, <2>1
<1> HIDE DEF past
<1>6. /\ c \in Seq(Cell) /\ Len(c) <= past /\ Len(c) <= Len(main[s])
      /\ \A k \in 1 .. Len(c) : c[k] = main[s][k]
    BY <1>3, <1>5, CutCells
<1>7. d \in Seq(Cell)
    BY <1>3, <1>5, CutCells
<1> HIDE DEF c, d
<1>8. /\ prompt' \in [Slot -> Seq(Tokens)] /\ prompt'[s] = q
      /\ main' \in [Slot -> Seq(Cell)] /\ main'[s] = c
      /\ drft' \in [Slot -> Seq(Cell)]
      /\ \A t \in Slot : t # s => prompt'[t] = prompt[t] /\ main'[t] = main[t]
    BY <1>1, <1>2, <1>3, <1>6, <1>7, SlotTypes, ChangedAt
<1>9. /\ state' \in [Slot -> States] /\ state'[s] = "batched"
      /\ \A t \in Slot : t # s => state'[t] = state[t]
    BY <1>1, <1>2 DEF RunOK, States
<1>10. RunOK'
    BY <1>1, <1>2, <1>9 DEF RunOK, Idle
<1>11. Inv'
    <2>1. UNCHANGED cached /\ FileOK'
      BY <1>1, <1>2 DEF FileOK
    <2> QED BY <1>8, <1>10, <2>1, MemoryParts, InvParts
<1>12. ASSUME ClaimsInv PROVE ClaimsInv'
    <2>1. p = <<>> \/ TokensOf(main[s]) = p
      BY <1>2, <1>12 DEF ClaimsInv, Claimed, p
    <2>2. IsPrefix(TokensOf(c), q)
      <3>1. Len(c) \in Nat /\ Len(p) \in Nat /\ Len(q) \in Nat
        BY <1>3, <1>6
      <3>2. Len(c) <= Len(q)
        BY <1>4, <1>5, <1>6, <3>1
      <3>3. ASSUME NEW k \in 1 .. Len(c) PROVE c[k].tok = q[k]
        <4>1. k \in 1 .. same /\ k \in 1 .. Len(p) /\ k \in 1 .. Len(main[s])
          BY <1>3, <1>4, <1>5, <1>6, <3>1
        <4>2. p # <<>>
          BY <4>1, <3>1
        <4>3. main[s][k].tok = p[k]
          BY <1>3, <2>1, <4>1, <4>2, TokensOfCells
        <4> QED BY <1>4, <1>6, <4>1, <4>3
      <3>4. /\ TokensOf(c) \in Seq(Tokens) /\ Len(TokensOf(c)) = Len(c)
            /\ \A k \in 1 .. Len(c) : TokensOf(c)[k] = c[k].tok
        BY <1>6, TokensOfCells
      <3> HIDE DEF TokensOf
      <3> QED BY <1>3, <3>2, <3>3, <3>4, PrefixElements
    <2>3. Claimed(s)'
      BY <1>2, <1>8, <1>9, <2>2 DEF Claimed, q
    <2>4. ASSUME NEW t \in Slot, t # s PROVE Claimed(t)'
      BY <1>2, <1>8, <1>9, <1>12, <2>4 DEF ClaimsInv, Claimed
    <2>5. AllHeld(cache') /\ FileHeld'
      BY <1>2, <1>12 DEF ClaimsInv, FileHeld, cached
    <2> QED BY <2>3, <2>4, <2>5, ClaimsParts
<1> QED BY <1>11, <1>12

\* decode() computes what the batch has of the prompts.
LEMMA DecodeStep ==
    ASSUME Inv, Decode
    PROVE  Inv' /\ (Reliable /\ ClaimsInv => ClaimsInv')
<1>1. TypeOK /\ RunOK /\ FileOK
    BY TypeParts DEF Inv
<1>2. /\ main' = [s \in Slot |-> IF s \in Batched THEN Computed(main[s], prompt[s], lora[s]) ELSE main[s]]
      /\ drft' = [s \in Slot |-> IF s \in Batched THEN DraftComputed(drft[s], prompt[s], lora[s])
                                                  ELSE drft[s]]
      /\ state' = [s \in Slot |-> IF s \in Batched THEN "generating" ELSE state[s]]
      /\ UNCHANGED <<prompt, lora, request, used, cached, default, file>>
    BY DEF Decode
<1>3. ASSUME NEW s \in Slot, s \in Batched
      PROVE  /\ Computed(main[s], prompt[s], lora[s]) \in Seq(Cell)
             /\ DraftComputed(drft[s], prompt[s], lora[s]) \in Seq(Cell)
             /\ IsPrefix(TokensOf(main[s]), prompt[s]) =>
                  TokensOf(Computed(main[s], prompt[s], lora[s])) = prompt[s]
    <2>1. /\ main[s] \in Seq(Cell) /\ drft[s] \in Seq(Cell) /\ prompt[s] \in Seq(Tokens)
          /\ lora[s] \in Adapters
      BY <1>1, <1>3, SlotTypes DEF Batched, Idle
    <2>2. <<>> \in Seq(Cell)
      OBVIOUS
    <2> QED BY <2>1, <2>2, ComputedCells DEF DraftComputed
<1>4. main' \in [Slot -> Seq(Cell)] /\ drft' \in [Slot -> Seq(Cell)] /\ prompt' \in [Slot -> Seq(Tokens)]
    BY <1>1, <1>2, <1>3, SlotTypes
<1>5. RunOK'
    <2>1. state' \in [Slot -> States] /\ \A s \in Slot : state'[s] = "idle" <=> state[s] = "idle"
      BY <1>1, <1>2 DEF RunOK, States, Batched
    <2> QED BY <1>1, <1>2, <2>1 DEF RunOK, Idle
<1>6. Inv'
    <2>1. UNCHANGED cached /\ FileOK'
      BY <1>1, <1>2 DEF FileOK
    <2> QED BY <1>4, <1>5, <2>1, MemoryParts, InvParts
<1>7. ASSUME ClaimsInv PROVE ClaimsInv'
    <2>1. ASSUME NEW s \in Slot, s \in Batched PROVE Claimed(s)'
      <3>1. IsPrefix(TokensOf(main[s]), prompt[s])
        BY <1>7, <2>1 DEF ClaimsInv, Claimed, Batched
      <3>2. state'[s] = "generating" /\ TokensOf(main'[s]) = prompt'[s]
        BY <1>2, <1>3, <2>1, <3>1
      <3> QED BY <3>2 DEF Claimed
    <2>2. ASSUME NEW s \in Slot, s \notin Batched PROVE Claimed(s)'
      <3>1. state'[s] = state[s] /\ main'[s] = main[s] /\ prompt'[s] = prompt[s] /\ request'[s] = request[s]
        BY <1>2, <2>2
      <3> QED BY <1>7, <3>1 DEF ClaimsInv, Claimed
    <2>3. AllHeld(cache') /\ FileHeld'
      BY <1>2, <1>7 DEF ClaimsInv, FileHeld, cached
    <2> QED BY <2>1, <2>2, <2>3, ClaimsParts
<1> QED BY <1>6, <1>7

\* The token sampled last is computed.
LEMMA GenerateStep ==
    ASSUME Inv, NEW s \in Slot, NEW tok \in Sampled, Generate(s, tok)
    PROVE  Inv' /\ (Reliable /\ ClaimsInv => ClaimsInv')
<1> DEFINE p == Append(prompt[s], tok)
           c == Computed(main[s], p, lora[s])
           d == DraftComputed(drft[s], p, lora[s])
<1>1. TypeOK /\ RunOK /\ FileOK
    BY TypeParts DEF Inv
<1>2. /\ state[s] = "generating" /\ prompt' = [prompt EXCEPT ![s] = p]
      /\ main' = [main EXCEPT ![s] = c] /\ drft' = [drft EXCEPT ![s] = d]
      /\ UNCHANGED <<running, cached, default, file>>
    <2>1. main' = [main EXCEPT ![s] = Computed(@, p, lora[s])]
          /\ drft' = [drft EXCEPT ![s] = DraftComputed(@, p, lora[s])]
      BY DEF Generate
    <2>2. main' = [main EXCEPT ![s] = c] /\ drft' = [drft EXCEPT ![s] = d]
      <3> HIDE DEF p
      <3> QED BY <2>1
    <2> QED BY <2>2 DEF Generate
<1>3. /\ prompt[s] \in Seq(Tokens) /\ main[s] \in Seq(Cell) /\ drft[s] \in Seq(Cell)
      /\ lora[s] \in Adapters /\ tok \in Tokens
    BY <1>1, <1>2, SlotTypes, InputAssumption DEF Idle
<1>4. /\ p \in Seq(Tokens) /\ Len(p) = Len(prompt[s]) + 1
      /\ \A k \in 1 .. Len(prompt[s]) : p[k] = prompt[s][k]
    BY <1>3, AppendProperties
<1> HIDE DEF p
<1>5. c \in Seq(Cell) /\ (IsPrefix(TokensOf(main[s]), p) => TokensOf(c) = p)
    BY <1>3, <1>4, ComputedCells
<1>6. d \in Seq(Cell)
    <2>1. <<>> \in Seq(Cell)
      OBVIOUS
    <2> QED BY <1>3, <1>4, <2>1, ComputedCells DEF DraftComputed
<1> HIDE DEF c, d
<1>7. /\ prompt' \in [Slot -> Seq(Tokens)] /\ prompt'[s] = p
      /\ main' \in [Slot -> Seq(Cell)] /\ main'[s] = c
      /\ drft' \in [Slot -> Seq(Cell)]
      /\ \A t \in Slot : t # s => prompt'[t] = prompt[t] /\ main'[t] = main[t]
    BY <1>1, <1>2, <1>4, <1>5, <1>6, SlotTypes, ChangedAt
<1>8. Inv'
    <2>1. UNCHANGED cached /\ FileOK' /\ RunOK'
      BY <1>1, <1>2, RunKept DEF FileOK, RunOK
    <2> QED BY <1>7, <2>1, MemoryParts, InvParts
<1>9. ASSUME ClaimsInv PROVE ClaimsInv'
    <2>1. TokensOf(main[s]) = prompt[s]
      BY <1>2, <1>9 DEF ClaimsInv, Claimed
    <2>2. IsPrefix(prompt[s], p)
      <3>1. Len(prompt[s]) \in Nat
        BY <1>3
      <3>2. Len(prompt[s]) <= Len(p)
        BY <1>4, <3>1
      <3> QED BY <1>3, <1>4, <3>2, PrefixElements
    <2>3. TokensOf(c) = p
      BY <1>5, <2>1, <2>2
    <2>4. Claimed(s)'
      BY <1>2, <1>7, <2>3 DEF Claimed, running
    <2>5. ASSUME NEW t \in Slot, t # s PROVE Claimed(t)'
      BY <1>2, <1>7, <1>9, <2>5 DEF ClaimsInv, Claimed, running
    <2>6. AllHeld(cache') /\ FileHeld'
      BY <1>2, <1>9 DEF ClaimsInv, FileHeld, cached
    <2> QED BY <2>4, <2>5, <2>6, ClaimsParts
<1> QED BY <1>8, <1>9

\* A slot that is released goes on claiming what it holds.
LEMMA ReleaseKeepsClaims ==
    ASSUME Inv, NEW S \in SUBSET Slot, Released(S), \A s \in S : state[s] # "batched",
           UNCHANGED <<held, cached, default, file>>
    PROVE  Inv' /\ (ClaimsInv => ClaimsInv')
<1>1. TypeOK /\ RunOK /\ FileOK
    BY TypeParts DEF Inv
<1>2. RunOK' /\ \A s \in Slot : state'[s] = IF s \in S THEN "idle" ELSE state[s]
    BY <1>1, ReleasedOK
<1>3. Inv'
    <2>1. /\ prompt' \in [Slot -> Seq(Tokens)] /\ main' \in [Slot -> Seq(Cell)]
          /\ drft' \in [Slot -> Seq(Cell)] /\ UNCHANGED cached /\ FileOK'
      BY <1>1, SlotTypes DEF held, FileOK
    <2> QED BY <1>2, <2>1, MemoryParts, InvParts
<1>4. ASSUME ClaimsInv PROVE ClaimsInv'
    <2>1. ASSUME NEW s \in Slot PROVE Claimed(s)'
      <3>1. \/ state'[s] = "idle" /\ state[s] # "batched"
            \/ state'[s] = state[s] /\ request'[s] = request[s]
        BY <1>2 DEF Released
      <3>2. prompt'[s] = prompt[s] /\ main'[s] = main[s] /\ Claimed(s)
        BY <1>4 DEF held, ClaimsInv
      <3> QED BY <3>1, <3>2 DEF Claimed
    <2>2. AllHeld(cache') /\ FileHeld'
      BY <1>4 DEF ClaimsInv, FileHeld, cached
    <2> QED BY <2>1, <2>2, ClaimsParts
<1> QED BY <1>3, <1>4

\* The end of a generation, or a cancelled task.
LEMMA ReleaseStep ==
    ASSUME Inv, NEW s \in Slot, Release(s)
    PROVE  Inv' /\ (Reliable /\ ClaimsInv => ClaimsInv')
<1>1. {s} \in SUBSET Slot /\ \A t \in {s} : state[t] # "batched"
    BY DEF Release, AtRest
<1> QED BY <1>1, ReleaseKeepsClaims DEF Release

\* An exception outside batching and decoding.
LEMMA AbortStep ==
    ASSUME Inv, Abort
    PROVE  Inv' /\ (Reliable /\ ClaimsInv => ClaimsInv')
<1>1. TypeOK /\ RunOK /\ FileOK /\ Processing \in SUBSET Slot
    BY TypeParts DEF Inv, Processing
<1>2. Inv'
    <2>1. /\ prompt' \in [Slot -> Seq(Tokens)] /\ main' \in [Slot -> Seq(Cell)]
          /\ drft' \in [Slot -> Seq(Cell)] /\ UNCHANGED cached /\ FileOK'
      BY <1>1, SlotTypes DEF held, FileOK, Abort
    <2>2. RunOK'
      BY <1>1, ReleasedOK DEF Abort
    <2> QED BY <2>1, <2>2, MemoryParts, InvParts
<1>3. ASSUME Reliable, ClaimsInv PROVE ClaimsInv'
    <2>1. \A t \in Processing : state[t] # "batched"
      BY <1>3 DEF Abort, Reliable, Batched, Processing
    <2> QED BY <1>1, <1>3, <2>1, ReleaseKeepsClaims DEF Abort
<1> QED BY <1>2, <1>3

\* Slots whose decoding fails claim nothing and hold nothing.
LEMMA DecodeFailsStep ==
    ASSUME Inv, DecodeFails
    PROVE  Inv' /\ (Reliable /\ ClaimsInv => ClaimsInv')
<1>1. TypeOK /\ RunOK /\ FileOK /\ Processing \in SUBSET Slot
    BY TypeParts DEF Inv, Processing
<1>2. /\ Released(Processing) /\ UNCHANGED <<cached, default, file>>
      /\ prompt' = [s \in Slot |-> IF Idle(s) THEN prompt[s] ELSE <<>>]
      /\ main'   = [s \in Slot |-> IF Idle(s) THEN main[s] ELSE <<>>]
      /\ drft'   = [s \in Slot |-> IF Idle(s) THEN drft[s] ELSE <<>>]
    BY DEF DecodeFails
<1>3. RunOK' /\ \A s \in Slot : state'[s] = "idle"
    BY <1>1, <1>2, ReleasedOK DEF Processing, Idle
<1>4. Inv'
    <2>1. <<>> \in Seq(Tokens) /\ <<>> \in Seq(Cell)
      OBVIOUS
    <2>2. /\ prompt' \in [Slot -> Seq(Tokens)] /\ main' \in [Slot -> Seq(Cell)]
          /\ drft' \in [Slot -> Seq(Cell)] /\ UNCHANGED cached /\ FileOK'
      BY <1>1, <1>2, <2>1, SlotTypes DEF FileOK
    <2> QED BY <1>3, <2>2, MemoryParts, InvParts
<1>5. ASSUME ClaimsInv PROVE ClaimsInv'
    <2>1. ASSUME NEW s \in Slot PROVE Claimed(s)'
      <3>1. prompt'[s] = <<>> \/ (Idle(s) /\ prompt'[s] = prompt[s] /\ main'[s] = main[s])
        BY <1>2
      <3>2. prompt'[s] = <<>> \/ TokensOf(main'[s]) = prompt'[s]
        BY <1>5, <3>1 DEF ClaimsInv, Claimed, Idle
      <3> QED BY <1>3, <3>2 DEF Claimed
    <2>2. AllHeld(cache') /\ FileHeld'
      BY <1>2, <1>5 DEF ClaimsInv, FileHeld, cached
    <2> QED BY <2>1, <2>2, ClaimsParts
<1> QED BY <1>4, <1>5

\* Clearing an idle slot, in the middle of a decoding or between tasks.
LEMMA ClearIdleStep ==
    ASSUME Inv, NEW s \in Slot, Idle(s), Becomes(Cleared(Memory, s)),
           UNCHANGED <<running, default, file>>
    PROVE  Inv' /\ (ClaimsInv => ClaimsInv')
<1> DEFINE n == Cleared(Memory, s)
<1>1. TypeOK /\ RunOK /\ FileOK /\ Memory \in Memories
    BY TypeParts DEF Inv
<1>2. /\ n \in Memories /\ n.cache = cache /\ n.limit = limit /\ n.prompt[s] = <<>>
      /\ \A t \in Slot : t # s => n.prompt[t] = prompt[t] /\ n.main[t] = main[t]
    BY <1>1, ClearedEffect DEF Memory
<1>3. Becomes(n)
    OBVIOUS
<1> HIDE DEF n
<1>4. /\ prompt' \in [Slot -> Seq(Tokens)] /\ main' \in [Slot -> Seq(Cell)]
      /\ drft' \in [Slot -> Seq(Cell)] /\ UNCHANGED cached /\ prompt'[s] = <<>>
      /\ \A t \in Slot : t # s => prompt'[t] = prompt[t] /\ main'[t] = main[t]
    BY <1>2, <1>3 DEF Becomes, Memories, cached
<1>5. Inv'
    <2>1. FileOK' /\ RunOK'
      BY <1>1, RunKept DEF FileOK, RunOK
    <2> QED BY <1>4, <2>1, MemoryParts, InvParts
<1>6. ASSUME ClaimsInv PROVE ClaimsInv'
    <2>1. ASSUME NEW t \in Slot PROVE Claimed(t)'
      <3>1. CASE t = s
        BY <1>4, <3>1 DEF Claimed, Idle, running
      <3>2. CASE t # s
        BY <1>4, <1>6, <3>2 DEF ClaimsInv, Claimed, running
      <3> QED BY <3>1, <3>2
    <2>2. AllHeld(cache') /\ FileHeld'
      BY <1>4, <1>6 DEF ClaimsInv, FileHeld, cached
    <2> QED BY <2>1, <2>2, ClaimsParts
<1> QED BY <1>5, <1>6

\* try_clear_idle_slots() clears the first idle slot that claims something.
LEMMA EvictStep ==
    ASSUME Inv, Evict
    PROVE  Inv' /\ (Reliable /\ ClaimsInv => ClaimsInv')
<1> DEFINE full == {s \in Slot : Idle(s) /\ prompt[s] # <<>>}
<1>1. full # {} /\ Becomes(Cleared(Memory, Min(full))) /\ UNCHANGED <<running, default, file>>
    BY DEF Evict
<1>2. full \in SUBSET Slot
    OBVIOUS
<1>3. Min(full) \in full
    <2> HIDE DEF full
    <2> QED BY <1>1, <1>2, MinSlot
<1> DEFINE s == Min(full)
<1>4. s \in Slot /\ Idle(s)
    BY <1>3
<1> HIDE DEF s
<1>5. Becomes(Cleared(Memory, s))
    BY <1>1 DEF s
<1> QED BY <1>1, <1>4, <1>5, ClearIdleStep

\* A slot is saved to the file, and the file is what the slot claims.
LEMMA SlotSaveStep ==
    ASSUME Inv, NEW s \in Slot, SlotSave(s)
    PROVE  Inv' /\ (Reliable /\ ClaimsInv => ClaimsInv')
<1>1. TypeOK /\ RunOK /\ FileOK /\ Memory \in Memories
    BY TypeParts DEF Inv
<1>2. /\ Idle(s) /\ file' = [tokens |-> prompt[s], main |-> main[s]]
      /\ UNCHANGED <<held, running, cached, default>>
    BY DEF SlotSave
<1>3. Inv'
    <2>1. /\ prompt' \in [Slot -> Seq(Tokens)] /\ main' \in [Slot -> Seq(Cell)]
          /\ drft' \in [Slot -> Seq(Cell)] /\ UNCHANGED cached /\ FileOK'
      BY <1>1, <1>2, SlotTypes DEF FileOK, held
    <2>2. RunOK'
      BY <1>1, <1>2, RunKept DEF RunOK
    <2> QED BY <2>1, <2>2, MemoryParts, InvParts
<1>4. ASSUME ClaimsInv PROVE ClaimsInv'
    <2>1. \A t \in Slot : Claimed(t)'
      BY <1>2, <1>4 DEF ClaimsInv, Claimed, held, running
    <2>2. FileHeld'
      BY <1>2, <1>4 DEF ClaimsInv, Claimed, FileHeld, Idle
    <2>3. AllHeld(cache')
      BY <1>2, <1>4 DEF ClaimsInv, cached
    <2> QED BY <2>1, <2>2, <2>3, ClaimsParts
<1> QED BY <1>3, <1>4

\* A slot that is restored claims what the file claims, or nothing.
LEMMA SlotRestoreStep ==
    ASSUME Inv, NEW s \in Slot, NEW outcome, SlotRestore(s, outcome)
    PROVE  Inv' /\ (Reliable /\ ClaimsInv => ClaimsInv')
<1> DEFINE p == IF outcome = "ok" THEN file.tokens ELSE <<>>
           c == IF outcome = "ok" THEN file.main ELSE <<>>
<1>1. TypeOK /\ RunOK /\ FileOK /\ Memory \in Memories
    BY TypeParts DEF Inv
<1>2. /\ Idle(s) /\ prompt' = [prompt EXCEPT ![s] = p]
      /\ \/ main' = main /\ (outcome = "invalid" \/ file.main = <<>>)
         \/ main' = [main EXCEPT ![s] = c]
      /\ UNCHANGED <<drft, running, cached, default, file>>
    BY DEF SlotRestore
<1>3. p \in Seq(Tokens) /\ c \in Seq(Cell)
    <2>1. <<>> \in Seq(Tokens) /\ <<>> \in Seq(Cell)
      OBVIOUS
    <2> QED BY <1>1, <2>1 DEF FileOK
<1>4. p = <<>> \/ (outcome = "ok" /\ p = file.tokens /\ c = file.main)
    OBVIOUS
<1> HIDE DEF p, c
<1>5. /\ prompt' \in [Slot -> Seq(Tokens)] /\ prompt'[s] = p
      /\ main' \in [Slot -> Seq(Cell)] /\ drft' \in [Slot -> Seq(Cell)]
      /\ main'[s] = c \/ (main'[s] = main[s] /\ (outcome = "invalid" \/ file.main = <<>>))
      /\ \A t \in Slot : t # s => prompt'[t] = prompt[t] /\ main'[t] = main[t]
    <2>1. /\ prompt' \in [Slot -> Seq(Tokens)] /\ prompt'[s] = p /\ drft' \in [Slot -> Seq(Cell)]
          /\ \A t \in Slot : t # s => prompt'[t] = prompt[t]
      BY <1>1, <1>2, <1>3, SlotTypes, ChangedAt
    <2>2. CASE main' = main /\ (outcome = "invalid" \/ file.main = <<>>)
      BY <1>1, <2>1, <2>2, SlotTypes
    <2>3. CASE main' = [main EXCEPT ![s] = c]
      <3>1. /\ main' \in [Slot -> Seq(Cell)] /\ main'[s] = c
            /\ \A t \in Slot : t # s => main'[t] = main[t]
        BY <1>1, <1>3, <2>3, SlotTypes, ChangedAt
      <3> QED BY <2>1, <3>1
    <2> QED BY <1>2, <2>2, <2>3
<1>6. Inv'
    <2>1. UNCHANGED cached /\ FileOK' /\ RunOK'
      BY <1>1, <1>2, RunKept DEF FileOK, RunOK
    <2> QED BY <1>5, <2>1, MemoryParts, InvParts
<1>7. ASSUME ClaimsInv PROVE ClaimsInv'
    <2>1. file.main = <<>> => file.tokens = <<>>
      BY <1>7, NothingHeld DEF ClaimsInv, FileHeld
    <2>2. p = <<>> \/ TokensOf(main'[s]) = p
      BY <1>4, <1>5, <1>7, <2>1 DEF ClaimsInv, FileHeld
    <2>3. Claimed(s)'
      BY <1>2, <1>5, <2>2 DEF Claimed, running, Idle
    <2>4. ASSUME NEW t \in Slot, t # s PROVE Claimed(t)'
      BY <1>2, <1>5, <1>7, <2>4 DEF ClaimsInv, Claimed, running
    <2>5. AllHeld(cache') /\ FileHeld'
      BY <1>2, <1>7 DEF ClaimsInv, FileHeld, cached
    <2> QED BY <2>3, <2>4, <2>5, ClaimsParts
<1> QED BY <1>6, <1>7

\* The default adapters change.
LEMMA SetLoraStep ==
    ASSUME Inv, NEW l \in Adapters, SetLora(l)
    PROVE  Inv' /\ (Reliable /\ ClaimsInv => ClaimsInv')
<1>1. TypeOK /\ RunOK /\ FileOK
    BY TypeParts DEF Inv
<1>2. default' = l /\ UNCHANGED <<held, running, cached, file>>
    BY DEF SetLora
<1>3. Inv'
    <2>1. /\ prompt' \in [Slot -> Seq(Tokens)] /\ main' \in [Slot -> Seq(Cell)]
          /\ drft' \in [Slot -> Seq(Cell)] /\ UNCHANGED cached /\ FileOK' /\ RunOK'
      BY <1>1, <1>2, SlotTypes, RunKept DEF FileOK, held
    <2> QED BY <2>1, MemoryParts, InvParts
<1>4. ASSUME ClaimsInv PROVE ClaimsInv'
    BY <1>2, <1>4 DEF ClaimsInv, Claimed, FileHeld, held, running, cached
<1> QED BY <1>3, <1>4

\* A step of any kind, or none.
LEMMA NextStep ==
    ASSUME Inv, [Next]_vars
    PROVE  Inv' /\ (Reliable /\ ClaimsInv => ClaimsInv')
<1>1. CASE UNCHANGED vars
    <2>1. Inv'
      BY <1>1 DEF vars, Inv, TypeOK, CacheInv, Idle
    <2>2. ClaimsInv => ClaimsInv'
      BY <1>1 DEF vars, ClaimsInv, Claimed, FileHeld
    <2> QED BY <2>1, <2>2
<1>2. ASSUME NEW r \in Requests, NEW full \in SUBSET Filled, NEW refusal \in Refused,
             \/ Defer(r, full, refusal)
             \/ \E valid \in BOOLEAN : Launch(r, full, refusal, valid)
      PROVE  Inv' /\ (Reliable /\ ClaimsInv => ClaimsInv')
    <2>1. refusal \in {"none"} \cup Refusals
      BY DEF Refused
    <2> QED BY <1>2, <2>1, DeferStep, LaunchStep
<1>3. ASSUME NEW s \in Slot,
             \/ Start(s) \/ Release(s)
             \/ \E tok \in Sampled : Generate(s, tok)
             \/ SlotSave(s) \/ SlotErase(s)
             \/ \E outcome \in {"ok", "invalid", "unfit"} : SlotRestore(s, outcome)
      PROVE  Inv' /\ (Reliable /\ ClaimsInv => ClaimsInv')
    <2>1. CASE SlotErase(s)
      BY <2>1, ClearIdleStep DEF SlotErase
    <2> QED BY <1>3, <2>1, StartStep, ReleaseStep, GenerateStep, SlotSaveStep, SlotRestoreStep
<1>4. ASSUME Decode \/ Evict \/ DecodeFails \/ Abort
      PROVE  Inv' /\ (Reliable /\ ClaimsInv => ClaimsInv')
    BY <1>4, DecodeStep, EvictStep, DecodeFailsStep, AbortStep
<1>5. ASSUME NEW l \in Adapters, SetLora(l)
      PROVE  Inv' /\ (Reliable /\ ClaimsInv => ClaimsInv')
    BY <1>5, SetLoraStep
<1> QED BY <1>1, <1>2, <1>3, <1>4, <1>5 DEF Next

\* At the start nothing is claimed and the cache is empty.
LEMMA InitStep == Init => Inv /\ ClaimsInv
<1> SUFFICES ASSUME Init PROVE Inv /\ ClaimsInv
    OBVIOUS
<1>1. <<>> \in Seq(Tokens) /\ <<>> \in Seq(Cell) /\ <<>> \in Seq(CacheEntry) /\ DOMAIN <<>> = {} /\ Len(<<>>) = 0
    OBVIOUS
<1>2. used \in [Slot -> Slot] /\ \A s, t \in Slot : used[s] = used[t] => s = t
    BY SlotAssumption DEF Init, Slot
<1>3. TypeOK
    BY <1>1, <1>2, LimitAssumption DEF Init, TypeOK, Idle, States
<1>4. CacheInv
    BY <1>1 DEF Init, CacheInv, Distinct, Within
<1>5. ClaimsInv
    BY <1>1 DEF Init, ClaimsInv, Claimed, AllHeld, FileHeld
<1> QED BY <1>3, <1>4, <1>5 DEF Inv

\* Types, entries and limit in every state.
THEOREM CacheAlways == Spec => []Inv
<1>1. Init => Inv
    BY InitStep
<1>2. Inv /\ [Next]_vars => Inv'
    BY NextStep
<1> QED BY <1>1, <1>2, PTL DEF Spec

\* Prompts, contents and entries are sequences, slots are ordered by use, and a busy
\* slot has a request and adapters.
THEOREM TypeCorrect == Spec => []TypeOK
<1>1. Inv => TypeOK
    BY DEF Inv
<1> QED BY <1>1, CacheAlways, PTL

\* No prompt is stored twice: alloc() refuses what an entry covers already and drops
\* the entries that the new one covers.
THEOREM NoPromptStoredTwice == Spec => []NoEntryTwice
<1>1. Inv => NoEntryTwice
    BY DEF Inv, CacheInv, Distinct, NoEntryTwice
<1> QED BY <1>1, CacheAlways, PTL

\* update() is called whenever the cache has grown or its limit has shrunk.
THEOREM LimitKept == Spec => []WithinLimit
<1>1. Inv => WithinLimit
    BY DEF Inv, CacheInv, Within, WithinLimit
<1> QED BY <1>1, CacheAlways, PTL

\* What slots, entries and file claim is held, unless a draft context refuses a state
\* or an exception comes between batching and decoding.
THEOREM ClaimsAlways ==
    ASSUME Reliable
    PROVE  Spec => [](Inv /\ ClaimsInv)
<1>1. Init => Inv /\ ClaimsInv
    BY InitStep
<1>2. Inv /\ ClaimsInv /\ [Next]_vars => (Inv /\ ClaimsInv)'
    BY NextStep
<1> QED BY <1>1, <1>2, PTL DEF Spec

\* No slot claims tokens that its cells do not hold, so that the prefix that the next
\* request skips has been computed.
THEOREM PromptsBacked ==
    ASSUME Reliable
    PROVE  Spec => []PromptBacked
<1>1. Inv /\ ClaimsInv => PromptBacked
    <2> SUFFICES ASSUME Inv, ClaimsInv, NEW s \in Slot, state[s] # "batched"
                 PROVE  IsPrefix(prompt[s], TokensOf(main[s]))
      BY DEF PromptBacked
    <2>1. prompt[s] \in Seq(Tokens) /\ main[s] \in Seq(Cell)
      BY SlotTypes DEF Inv
    <2>2. TokensOf(main[s]) \in Seq(Tokens)
      BY <2>1, TokensOfCells
    <2>3. prompt[s] = <<>> \/ TokensOf(main[s]) = prompt[s]
      BY DEF ClaimsInv, Claimed
    <2> QED BY <2>1, <2>2, <2>3, PrefixOrder
<1> QED BY <1>1, ClaimsAlways, PTL

\* No entry of the cache claims tokens that its data does not hold.
THEOREM EntriesStayBacked ==
    ASSUME Reliable
    PROVE  Spec => []EntriesBacked
<1>1. Inv /\ ClaimsInv => EntriesBacked
    <2> SUFFICES ASSUME Inv, ClaimsInv, NEW i \in DOMAIN cache
                 PROVE  IsPrefix(cache[i].tokens, TokensOf(cache[i].main))
      BY DEF EntriesBacked
    <2>1. cache[i] \in CacheEntry
      BY DEF Inv, TypeOK
    <2>2. cache[i].tokens \in Seq(Tokens)
      BY <2>1 DEF CacheEntry
    <2>3. TokensOf(cache[i].main) = cache[i].tokens
      BY DEF ClaimsInv, AllHeld
    <2> QED BY <2>2, <2>3, PrefixOrder
<1> QED BY <1>1, ClaimsAlways, PTL

-----------------------------------------------------------------------------
(* Nothing is forgotten.                                                   *)

\* One of the entries of d is e.
Among(e, d) == \E i \in DOMAIN d : d[i] = e

\* An entry that the prompt does not make obsolete is kept.
LEMMA WithoutKeeps ==
    ASSUME NEW c \in Seq(CacheEntry), NEW p, NEW j \in DOMAIN c, ~IsPrefix(c[j].tokens, p)
    PROVE  Among(c[j], Without(c, p))
<1>1. PICK kept : KeepsOn(kept, c, p)
    BY WithoutSteps
<1> DEFINE Has(d) == \E i \in DOMAIN d : d[i] = c[j]
           B == {k \in 0 .. Len(c) : kept[k] \in Seq(CacheEntry) /\ (j <= k => Has(kept[k]))}
<1>2. Len(c) \in Nat /\ j \in 1 .. Len(c) /\ \A k \in 1 .. Len(c) : c[k] \in CacheEntry
    OBVIOUS
<1>3. 0 \in B
    <2>1. <<>> \in Seq(CacheEntry)
      OBVIOUS
    <2>2. kept[0] = <<>>
      BY <1>1 DEF KeepsOn
    <2>3. 0 \in 0 .. Len(c) /\ ~(j <= 0)
      BY <1>2
    <2> DEFINE x == kept[0]
    <2>4. x \in Seq(CacheEntry)
      BY <2>1, <2>2
    <2> HIDE DEF Has, x
    <2> QED BY <2>3, <2>4 DEF x
<1>4. ASSUME NEW k \in 1 .. Len(c), k - 1 \in B PROVE k \in B
    <2> DEFINE d == kept[k - 1]
               e == kept[k]
    <2>1. k \in 0 .. Len(c) /\ c[k] \in CacheEntry /\ (j <= k => j = k \/ j <= k - 1)
      BY <1>2
    <2>2. d \in Seq(CacheEntry) /\ (j <= k - 1 => Has(d))
      BY <1>4
    <2>3. e = IF IsPrefix(c[k].tokens, p) THEN d ELSE Append(d, c[k])
      BY <1>1 DEF KeepsOn
    <2> HIDE DEF d, e
    <2>4. CASE IsPrefix(c[k].tokens, p)
      <3>1. e = d /\ j # k
        BY <2>3, <2>4
      <3>2. e \in Seq(CacheEntry) /\ (j <= k => Has(e))
        <4> HIDE DEF Has
        <4> QED BY <2>1, <2>2, <3>1
      <3> HIDE DEF Has
      <3> QED BY <2>1, <3>2 DEF e
    <2>5. CASE ~IsPrefix(c[k].tokens, p)
      <3>1. e = Append(d, c[k])
        BY <2>3, <2>5
      <3>2. /\ e \in Seq(CacheEntry) /\ Len(e) = Len(d) + 1 /\ Len(d) \in Nat
            /\ \A i \in 1 .. Len(d) : e[i] = d[i]
            /\ e[Len(d) + 1] = c[k]
        BY <2>1, <2>2, <3>1, AppendProperties
      <3>3. DOMAIN e = 1 .. Len(d) + 1 /\ DOMAIN d = 1 .. Len(d)
        BY <2>2, <3>2
      <3>4. j = k => Has(e)
        <4>1. Len(d) + 1 \in DOMAIN e
          BY <3>2, <3>3
        <4> QED BY <3>2, <4>1
      <3>5. Has(d) => Has(e)
        <4>1. DOMAIN d \subseteq DOMAIN e
          BY <3>2, <3>3
        <4> QED BY <3>2, <3>3, <4>1
      <3>6. e \in Seq(CacheEntry) /\ (j <= k => Has(e))
        <4> HIDE DEF Has
        <4> QED BY <2>1, <2>2, <3>2, <3>4, <3>5
      <3> HIDE DEF Has
      <3> QED BY <2>1, <3>6 DEF e
    <2> QED BY <2>4, <2>5
<1>5. \A k \in 0 .. Len(c) : k \in B
    <2> HIDE DEF B
    <2> QED BY <1>2, <1>3, <1>4, Steps
<1>6. Has(kept[Len(c)])
    <2>1. Len(c) \in 0 .. Len(c) /\ j <= Len(c)
      BY <1>2
    <2> HIDE DEF Has
    <2> QED BY <1>5, <2>1
<1> QED BY <1>1, <1>6 DEF KeepsOn, Among

\* All the other entries are left when one is taken out.
LEMMA RemovedKeeps ==
    ASSUME NEW c \in Seq(CacheEntry), NEW k \in DOMAIN c, NEW j \in DOMAIN c, j # k
    PROVE  Among(c[j], RemoveAt(c, k))
<1> DEFINE u == SubSeq(c, 1, k - 1)
           v == SubSeq(c, k + 1, Len(c))
           d == u \o v
<1>1. Len(c) \in Nat /\ k \in 1 .. Len(c) /\ j \in 1 .. Len(c) /\ \A i \in 1 .. Len(c) : c[i] \in CacheEntry
    OBVIOUS
<1>2. u \in Seq(CacheEntry) /\ Len(u) = k - 1 /\ \A i \in 1 .. k - 1 : u[i] = c[i]
    <2>1. 1 \in Int /\ k - 1 \in Int /\ \A i \in 1 .. k - 1 : c[i] \in CacheEntry
      BY <1>1
    <2>2. /\ u \in Seq(CacheEntry)
          /\ Len(u) = IF 1 <= k - 1 THEN (k - 1) - 1 + 1 ELSE 0
          /\ \A i \in 1 .. (k - 1) - 1 + 1 : u[i] = c[1 + i - 1]
      BY <2>1, SubSeqProperties
    <2> HIDE DEF u
    <2> QED BY <1>1, <2>2
<1>3. v \in Seq(CacheEntry) /\ Len(v) = Len(c) - k /\ \A i \in 1 .. Len(c) - k : v[i] = c[i + k]
    BY PartRest DEF Rest, Part
<1> HIDE DEF u, v
<1>4. /\ d \in Seq(CacheEntry) /\ Len(d) = Len(u) + Len(v)
      /\ \A i \in 1 .. Len(u) + Len(v) : d[i] = IF i <= Len(u) THEN u[i] ELSE v[i - Len(u)]
    BY <1>2, <1>3, ConcatProperties
<1> HIDE DEF d
<1>5. DOMAIN d = 1 .. Len(u) + Len(v) /\ Len(u) + Len(v) = Len(c) - 1
    BY <1>1, <1>2, <1>3, <1>4
<1>6. CASE j < k
    <2>1. j \in DOMAIN d /\ j <= Len(u) /\ j \in 1 .. k - 1
      BY <1>1, <1>2, <1>5, <1>6
    <2>2. d[j] = c[j]
      BY <1>2, <1>4, <1>5, <2>1
    <2> QED BY <2>1, <2>2 DEF Among, RemoveAt, d, u, v
<1>7. CASE k < j
    <2> DEFINE i == j - 1
    <2>1. /\ i \in DOMAIN d /\ ~(i <= Len(u)) /\ i - Len(u) = j - k
          /\ j - k \in 1 .. Len(c) - k /\ (j - k) + k = j
      <3>1. Len(u) = k - 1 /\ DOMAIN d = 1 .. Len(c) - 1
        BY <1>2, <1>5
      <3>2. i \in 1 .. Len(c) - 1 /\ ~(i <= k - 1) /\ i - (k - 1) = j - k
        BY <1>1, <1>7
      <3>3. j - k \in 1 .. Len(c) - k /\ (j - k) + k = j
        BY <1>1, <1>7
      <3> HIDE DEF i
      <3> QED BY <3>1, <3>2, <3>3
    <2> HIDE DEF i
    <2>2. d[i] = v[j - k]
      BY <1>4, <1>5, <2>1
    <2>3. v[j - k] = c[j]
      BY <1>3, <2>1
    <2> QED BY <2>1, <2>2, <2>3 DEF Among, RemoveAt, d, u, v
<1> QED BY <1>1, <1>6, <1>7

\* The tokens of entries are as many as a sequence of naturals says.
LEMMA LengthsSeq ==
    ASSUME NEW c \in Seq(CacheEntry)
    PROVE  /\ [k \in 1 .. Len(c) |-> Len(c[k].tokens)] \in Seq(Nat)
           /\ Len([k \in 1 .. Len(c) |-> Len(c[k].tokens)]) = Len(c)
<1> DEFINE w == [k \in 1 .. Len(c) |-> Len(c[k].tokens)]
<1>1. Len(c) \in Nat /\ \A k \in 1 .. Len(c) : c[k] \in CacheEntry
    OBVIOUS
<1>2. \A e \in CacheEntry : Len(e.tokens) \in Nat
    BY DEF CacheEntry
<1>3. w \in [1 .. Len(c) -> Nat]
    BY <1>1, <1>2
<1> QED BY <1>1, <1>3, FunctionSeq

\* An entry is no larger than another and has no more tokens.
Lighter(e, d) == Weight(e) <= Weight(d) /\ Len(e.tokens) <= Len(d.tokens)

\* Each entry of c has a place of its own among those of d, that it fits in.
Places(a, c, d) ==
    /\ a \in [DOMAIN c -> DOMAIN d]
    /\ \A i, j \in DOMAIN c : a[i] = a[j] => i = j
    /\ \A i \in DOMAIN c : Lighter(c[i], d[a[i]])

\* Then all of c is no larger than all of d, and has no more tokens.
LEMMA SizeOfPlaced ==
    ASSUME NEW c \in Seq(CacheEntry), NEW d \in Seq(CacheEntry), NEW a, Places(a, c, d)
    PROVE  CacheSize(c) <= CacheSize(d) /\ CacheTokens(c) <= CacheTokens(d)
<1>1. /\ DOMAIN c = 1 .. Len(c) /\ DOMAIN d = 1 .. Len(d)
      /\ a \in [1 .. Len(c) -> 1 .. Len(d)]
      /\ \A i, j \in 1 .. Len(c) : a[i] = a[j] => i = j
      /\ \A i \in 1 .. Len(c) : Lighter(c[i], d[a[i]])
    <2>1. DOMAIN c = 1 .. Len(c) /\ DOMAIN d = 1 .. Len(d)
      OBVIOUS
    <2> QED BY <2>1 DEF Places
<1>2. CacheSize(c) <= CacheSize(d)
    <2> DEFINE w == [k \in 1 .. Len(c) |-> Weight(c[k])]
               v == [k \in 1 .. Len(d) |-> Weight(d[k])]
    <2>1. w \in Seq(Nat) /\ Len(w) = Len(c) /\ v \in Seq(Nat) /\ Len(v) = Len(d)
      <3> HIDE DEF w, v
      <3> QED BY WeightsSeq DEF w, v
    <2>2. \A i \in 1 .. Len(c) : w[i] <= v[a[i]]
      BY <1>1 DEF Lighter
    <2>3. CacheSize(c) = Total(w) /\ CacheSize(d) = Total(v)
      BY DEF CacheSize
    <2> HIDE DEF w, v
    <2>4. Total(w) <= Total(v)
      <3>1. a \in [1 .. Len(w) -> 1 .. Len(v)]
        BY <1>1, <2>1
      <3>2. \A i, j \in 1 .. Len(w) : a[i] = a[j] => i = j
        BY <1>1, <2>1
      <3>3. \A i \in 1 .. Len(w) : w[i] <= v[a[i]]
        BY <2>1, <2>2
      <3> QED BY <2>1, <3>1, <3>2, <3>3, TotalOfPlaced
    <2> QED BY <2>3, <2>4
<1>3. CacheTokens(c) <= CacheTokens(d)
    <2> DEFINE w == [k \in 1 .. Len(c) |-> Len(c[k].tokens)]
               v == [k \in 1 .. Len(d) |-> Len(d[k].tokens)]
    <2>1. w \in Seq(Nat) /\ Len(w) = Len(c) /\ v \in Seq(Nat) /\ Len(v) = Len(d)
      <3> HIDE DEF w, v
      <3> QED BY LengthsSeq DEF w, v
    <2>2. \A i \in 1 .. Len(c) : w[i] <= v[a[i]]
      BY <1>1 DEF Lighter
    <2>3. CacheTokens(c) = Total(w) /\ CacheTokens(d) = Total(v)
      BY DEF CacheTokens
    <2> HIDE DEF w, v
    <2>4. Total(w) <= Total(v)
      <3>1. a \in [1 .. Len(w) -> 1 .. Len(v)]
        BY <1>1, <2>1
      <3>2. \A i, j \in 1 .. Len(w) : a[i] = a[j] => i = j
        BY <1>1, <2>1
      <3>3. \A i \in 1 .. Len(w) : w[i] <= v[a[i]]
        BY <2>1, <2>2
      <3> QED BY <2>1, <3>1, <3>2, <3>3, TotalOfPlaced
    <2> QED BY <2>3, <2>4
<1> QED BY <1>2, <1>3

\* A maximum of two is one of them, and not less than either.
LEMMA MaxOfTwo ==
    ASSUME NEW x \in Int, NEW y \in Int
    PROVE  Max({x, y}) \in {x, y} /\ x <= Max({x, y}) /\ y <= Max({x, y})
<1>1. \E z \in {x, y} : \A t \in {x, y} : z >= t
    OBVIOUS
<1>2. Max({x, y}) \in {x, y} /\ \A t \in {x, y} : Max({x, y}) >= t
    BY <1>1 DEF Max
<1> QED BY <1>2

\* Without dropping any the rest is all.
LEMMA RestAll ==
    ASSUME NEW c \in Seq(CacheEntry)
    PROVE  Rest(c, 0) = c /\ 0 \in 0 .. Len(c)
<1>1. 0 \in 0 .. Len(c) /\ Len(c) \in Nat
    OBVIOUS
<1>2. /\ Rest(c, 0) \in Seq(CacheEntry) /\ Len(Rest(c, 0)) = Len(c) - 0
      /\ \A i \in 1 .. Len(c) - 0 : Rest(c, 0)[i] = c[i + 0]
    BY <1>1, PartRest DEF Part
<1>3. Len(Rest(c, 0)) = Len(c) /\ \A i \in 1 .. Len(c) : Rest(c, 0)[i] = c[i]
    BY <1>1, <1>2
<1> QED BY <1>1, <1>2, <1>3, SeqEqual

\* Nothing is dropped when all may stay.
LEMMA AllStay ==
    ASSUME NEW c \in Seq(CacheEntry), NEW allowed, 0 \in allowed
    PROVE  DropUntil(c, allowed) = c
<1>1. CASE c = <<>>
    BY <1>1 DEF DropUntil
<1>2. CASE c # <<>>
    <2> DEFINE S == {k \in 0 .. Len(c) - 1 : k = Len(c) - 1 \/ k \in allowed}
    <2>1. Len(c) \in Nat /\ Len(c) # 0
      BY <1>2, EmptySeq
    <2>2. S \in SUBSET Nat /\ 0 \in S
      BY <2>1
    <2>3. DropUntil(c, allowed) = Rest(c, Min(S))
      BY <1>2 DEF DropUntil
    <2> HIDE DEF S
    <2>4. Min(S) = 0
      <3>1. S # {}
        BY <2>2
      <3>2. Min(S) \in Nat /\ Min(S) <= 0
        BY <2>2, <3>1, MinExists
      <3> QED BY <3>2
    <2>5. Rest(c, 0) = c
      BY RestAll
    <2> QED BY <2>3, <2>4, <2>5
<1> QED BY <1>1, <1>2

\* update() leaves a cache alone that keeps to both limits.
LEMMA TrimNothing ==
    ASSUME NEW c \in Seq(CacheEntry), NEW lim \in Nat,
           lim = 0 \/ CacheSize(c) <= lim,
           LimitTokens = 0 \/ CacheTokens(c) <= LimitTokens
    PROVE  Trim(c, lim) = c
<1> DEFINE fit  == IF lim = 0 THEN c ELSE FitSize(c, lim)
           n    == CacheTokens(fit)
           most == IF lim = 0 \/ n = 0 THEN LimitTokens
                   ELSE Max({LimitTokens, (lim * n) \div Max({CacheSize(fit), n})})
<1>0. Rest(c, 0) = c /\ 0 \in 0 .. Len(c)
    BY RestAll
<1>1. fit = c
    <2>1. CASE lim = 0
      BY <2>1
    <2>2. CASE lim # 0
      <3> DEFINE ok == {k \in 0 .. Len(c) : CacheSize(Rest(c, k)) <= lim}
      <3>1. 0 \in ok
        BY <1>0, <2>2
      <3>2. fit = DropUntil(c, ok)
        BY <2>2 DEF FitSize
      <3> HIDE DEF ok, fit
      <3> QED BY <3>1, <3>2, AllStay
    <2> QED BY <2>1, <2>2
<1>2. Trim(c, lim) = IF LimitTokens = 0 THEN fit ELSE FitTokens(fit, most)
    BY DEF Trim
<1>3. CacheTokens(c) \in Nat /\ CacheSize(c) \in Nat
    <2>1. CacheTokens(c) \in Nat
      BY LengthsSeq, TotalNat DEF CacheTokens
    <2> QED BY <2>1, SizeOfRest
<1>4. LimitTokens <= most /\ most \in Int
    <2>1. LimitTokens \in Nat
      BY LimitAssumption
    <2>2. CASE lim = 0 \/ n = 0
      BY <2>1, <2>2
    <2>3. CASE ~(lim = 0 \/ n = 0)
      <3> DEFINE m == Max({CacheSize(fit), n})
                 q == (lim * n) \div m
      <3>1. n \in Nat /\ n # 0 /\ CacheSize(fit) \in Nat
        BY <1>1, <1>3, <2>3
      <3>2. m \in Nat /\ m > 0
        <4> HIDE DEF n, fit
        <4> DEFINE z == CacheSize(fit)
        <4>1. z \in Int /\ n \in Int /\ z \in Nat
          BY <3>1
        <4>2. m = Max({z, n})
          OBVIOUS
        <4> HIDE DEF m, z
        <4>3. Max({z, n}) \in {z, n} /\ n <= Max({z, n})
          BY <4>1, MaxOfTwo
        <4> QED BY <3>1, <4>1, <4>2, <4>3
      <3>3. most = Max({LimitTokens, q})
        BY <2>3
      <3> HIDE DEF m, n, fit, most
      <3>4. q \in Int
        <4>1. lim * n \in Int
          BY <3>1
        <4> HIDE DEF q
        <4> QED BY <3>2, <4>1 DEF q
      <3> HIDE DEF q
      <3>5. LimitTokens \in Int
        BY <2>1
      <3>6. Max({LimitTokens, q}) \in {LimitTokens, q} /\ LimitTokens <= Max({LimitTokens, q})
        BY <3>4, <3>5, MaxOfTwo
      <3> QED BY <3>3, <3>4, <3>5, <3>6
    <2> QED BY <2>2, <2>3
<1> HIDE DEF most
<1>5. CASE LimitTokens = 0
    BY <1>1, <1>2, <1>5
<1>6. CASE LimitTokens # 0
    <2> DEFINE ok == {k \in 0 .. Len(c) : CacheTokens(Rest(c, k)) <= most}
    <2>1. CacheTokens(c) <= most
      BY <1>3, <1>4, <1>6, LimitAssumption
    <2>2. 0 \in ok
      BY <1>0, <2>1
    <2>3. Trim(c, lim) = DropUntil(c, ok)
      BY <1>1, <1>2, <1>6 DEF FitTokens
    <2> HIDE DEF ok
    <2> QED BY <2>2, <2>3, AllStay
<1> QED BY <1>5, <1>6

\* The prompts to be had in a memory, and that each is a prefix of one to be had later.
Prompted(m)   == {m.prompt[s] : s \in Slot} \cup {m.cache[i].tokens : i \in DOMAIN m.cache}
Carries(m, n) == \A p \in Prompted(m) : \E q \in Prompted(n) : IsPrefix(p, q)

\* What the cache holds and what it would hold with all slots saved.
AllEntries == cache \o [k \in 1 .. NSlots |-> Entry(Memory, k - 1)]

\* The entries of m fit in the places of AllEntries; those of the slots T, that are still
\* as they were, are free.
Fits(a, m, T) ==
    /\ Places(a, m.cache, AllEntries)
    /\ \A t \in T : /\ Entry(m, t) = Entry(Memory, t)
                    /\ \A i \in DOMAIN m.cache : a[i] # Len(cache) + 1 + t
Room(m, T) == \E a : Fits(a, m, T)

\* From the current memory the operations lead to m with room for the slots T and,
\* unless an allocation has failed, with all prompts.
Keeps(m, T) ==
    m \in Memories /\ Room(m, T) /\ (m.limit = limit => Carries(Memory, m))

\* The prompt of a slot is in the cache.
Stored(m, s) == m.prompt[s] = <<>> \/ Covered(m.cache, m.prompt[s])

\* Prompts are sequences.
LEMMA PromptedSeq ==
    ASSUME NEW m \in Memories
    PROVE  Prompted(m) \subseteq Seq(Tokens)
<1>1. \A s \in Slot : m.prompt[s] \in Seq(Tokens)
    BY DEF Memories
<1>2. \A i \in DOMAIN m.cache : m.cache[i] \in CacheEntry
    BY DEF Memories
<1>3. \A i \in DOMAIN m.cache : m.cache[i].tokens \in Seq(Tokens)
    BY <1>2 DEF CacheEntry
<1> QED BY <1>1, <1>3 DEF Prompted

\* Prompts are carried on from where they have been carried.
LEMMA CarriesOn ==
    ASSUME NEW m \in Memories, NEW n \in Memories, NEW o \in Memories,
           Carries(m, n), Carries(n, o)
    PROVE  Carries(m, o)
<1> SUFFICES ASSUME NEW p \in Prompted(m) PROVE \E r \in Prompted(o) : IsPrefix(p, r)
    BY DEF Carries
<1>1. PICK q \in Prompted(n) : IsPrefix(p, q)
    BY DEF Carries
<1>2. PICK r \in Prompted(o) : IsPrefix(q, r)
    BY DEF Carries
<1>3. p \in Seq(Tokens) /\ q \in Seq(Tokens) /\ r \in Seq(Tokens)
    BY PromptedSeq
<1>4. IsPrefix(p, r)
    BY <1>1, <1>2, <1>3, PrefixOrder
<1> QED BY <1>4

\* A memory carries its own prompts.
LEMMA CarriesSelf ==
    ASSUME NEW m \in Memories
    PROVE  Carries(m, m)
<1>1. \A p \in Prompted(m) : IsPrefix(p, p)
    BY PromptedSeq, PrefixOrder
<1> QED BY <1>1 DEF Carries

\* The entries of the cache, then those of the slots.
LEMMA AllEntriesSeq ==
    ASSUME Memory \in Memories
    PROVE  /\ AllEntries \in Seq(CacheEntry) /\ Len(AllEntries) = Len(cache) + NSlots
           /\ \A i \in 1 .. Len(cache) : AllEntries[i] = cache[i]
           /\ \A t \in Slot : AllEntries[Len(cache) + 1 + t] = Entry(Memory, t)
<1> DEFINE d == [k \in 1 .. NSlots |-> Entry(Memory, k - 1)]
<1>1. NSlots \in Nat /\ cache \in Seq(CacheEntry) /\ Len(cache) \in Nat
    <2>1. cache \in Seq(CacheEntry)
      BY DEF Memories, Memory
    <2> QED BY <2>1, SlotAssumption
<1>2. \A t \in Slot : Entry(Memory, t) \in CacheEntry
    BY DEF Memories, Entry, CacheEntry
<1>3. \A k \in 1 .. NSlots : k - 1 \in Slot
    BY <1>1 DEF Slot
<1>4. d \in [1 .. NSlots -> CacheEntry]
    BY <1>2, <1>3
<1>5. d \in Seq(CacheEntry) /\ Len(d) = NSlots
    <2> HIDE DEF d
    <2> QED BY <1>1, <1>4, FunctionSeq
<1>6. \A k \in 1 .. NSlots : d[k] = Entry(Memory, k - 1)
    OBVIOUS
<1>7. AllEntries = cache \o d
    BY DEF AllEntries
<1> HIDE DEF d
<1>8. /\ AllEntries \in Seq(CacheEntry) /\ Len(AllEntries) = Len(cache) + NSlots
      /\ \A i \in 1 .. Len(cache) + Len(d) :
           AllEntries[i] = IF i <= Len(cache) THEN cache[i] ELSE d[i - Len(cache)]
    BY <1>1, <1>5, <1>7, ConcatProperties
<1>9. ASSUME NEW i \in 1 .. Len(cache) PROVE AllEntries[i] = cache[i]
    <2>1. i \in 1 .. Len(cache) + Len(d) /\ i <= Len(cache)
      BY <1>1, <1>5
    <2> QED BY <1>8, <2>1
<1>10. ASSUME NEW t \in Slot PROVE AllEntries[Len(cache) + 1 + t] = Entry(Memory, t)
    <2>1. t \in 0 .. NSlots - 1
      BY DEF Slot
    <2>2. /\ Len(cache) + 1 + t \in 1 .. Len(cache) + Len(d) /\ ~(Len(cache) + 1 + t <= Len(cache))
          /\ (Len(cache) + 1 + t) - Len(cache) = t + 1 /\ t + 1 \in 1 .. NSlots /\ (t + 1) - 1 = t
      BY <1>1, <1>5, <2>1
    <2>3. AllEntries[Len(cache) + 1 + t] = d[t + 1]
      BY <1>8, <2>2
    <2>4. d[t + 1] = Entry(Memory, (t + 1) - 1)
      BY <1>6, <2>2
    <2> QED BY <2>2, <2>3, <2>4
<1> QED BY <1>8, <1>9, <1>10

\* The weight and the length of an entry are naturals.
LEMMA LighterSelf ==
    ASSUME NEW e \in CacheEntry
    PROVE  Weight(e) \in Nat /\ Len(e.tokens) \in Nat /\ Lighter(e, e)
<1>1. Weight(e) \in Nat /\ Len(e.tokens) \in Nat
    BY DEF CacheEntry, Weight
<1> QED BY <1>1 DEF Lighter

\* At first all entries are in their places.
LEMMA KeepsAtFirst ==
    ASSUME Memory \in Memories
    PROVE  Keeps(Memory, Slot)
<1> DEFINE a == [i \in DOMAIN cache |-> i]
<1>1. cache \in Seq(CacheEntry) /\ Memory.cache = cache /\ DOMAIN cache = 1 .. Len(cache) /\ Len(cache) \in Nat
    <2>1. cache \in Seq(CacheEntry) /\ Memory.cache = cache
      BY DEF Memories, Memory
    <2> QED BY <2>1
<1>2. NSlots \in Nat /\ Slot = 0 .. NSlots - 1
    BY SlotAssumption DEF Slot
<1>3. DOMAIN AllEntries = 1 .. Len(cache) + NSlots
    BY AllEntriesSeq
<1>4. \A i \in DOMAIN cache : i \in DOMAIN AllEntries /\ AllEntries[i] = cache[i] /\ Lighter(cache[i], cache[i])
    <2>1. \A i \in DOMAIN cache : i \in DOMAIN AllEntries
      BY <1>1, <1>2, <1>3
    <2>2. \A i \in DOMAIN cache : cache[i] \in CacheEntry
      BY <1>1
    <2> QED BY <1>1, <2>1, <2>2, AllEntriesSeq, LighterSelf
<1>5. Places(a, cache, AllEntries)
    BY <1>4 DEF Places
<1>6. \A i \in DOMAIN cache, t \in Slot : a[i] # Len(cache) + 1 + t
    BY <1>1, <1>2
<1>7. Fits(a, Memory, Slot)
    <2> HIDE DEF a
    <2> QED BY <1>1, <1>5, <1>6 DEF Fits
<1>8. Room(Memory, Slot)
    <2> HIDE DEF a
    <2> QED BY <1>7 DEF Room
<1> QED BY <1>8, CarriesSelf DEF Keeps

\* With fewer entries there is still room.
LEMMA PartRoom ==
    ASSUME Memory \in Memories, NEW m \in Memories, NEW n \in Memories, NEW T, NEW U,
           Room(m, T), Part(n.cache, m.cache), U \subseteq T,
           \A t \in U : Entry(n, t) = Entry(m, t)
    PROVE  Room(n, U)
<1> DEFINE c == m.cache
           d == n.cache
<1>1. PICK a : Fits(a, m, T)
    BY DEF Room
<1>2. PICK b : Picks(b, d, c, Len(c))
    BY DEF Part
<1>3. c \in Seq(CacheEntry) /\ DOMAIN c = 1 .. Len(c)
    <2>1. c \in Seq(CacheEntry)
      BY DEF Memories
    <2> QED BY <2>1
<1>4. /\ \A i \in DOMAIN d : b[i] \in DOMAIN c /\ d[i] = c[b[i]]
      /\ \A i, j \in DOMAIN d : b[i] = b[j] => i = j
    BY <1>2, <1>3 DEF Picks
<1>5. /\ \A i \in DOMAIN c : a[i] \in DOMAIN AllEntries /\ Lighter(c[i], AllEntries[a[i]])
      /\ \A i, j \in DOMAIN c : a[i] = a[j] => i = j
      /\ \A t \in T : /\ Entry(m, t) = Entry(Memory, t)
                      /\ \A i \in DOMAIN c : a[i] # Len(cache) + 1 + t
    BY <1>1 DEF Fits, Places
<1> HIDE DEF c, d
<1> DEFINE f == [i \in DOMAIN d |-> a[b[i]]]
<1>6. Places(f, d, AllEntries)
    <2>1. f \in [DOMAIN d -> DOMAIN AllEntries]
      BY <1>4, <1>5
    <2>2. \A i, j \in DOMAIN d : f[i] = f[j] => i = j
      BY <1>4, <1>5
    <2>3. \A i \in DOMAIN d : Lighter(d[i], AllEntries[f[i]])
      BY <1>4, <1>5
    <2> HIDE DEF f
    <2> QED BY <2>1, <2>2, <2>3 DEF Places
<1>7. \A t \in U, i \in DOMAIN d : f[i] # Len(cache) + 1 + t
    BY <1>4, <1>5
<1>8. \A t \in U : Entry(n, t) = Entry(Memory, t)
    BY <1>5
<1> HIDE DEF f
<1>9. Fits(f, n, U)
    BY <1>6, <1>7, <1>8 DEF Fits, d
<1> QED BY <1>9 DEF Room

\* With room the cache keeps to the limits.
LEMMA RoomLimits ==
    ASSUME Memory \in Memories, Ample, NEW m \in Memories, NEW T, Room(m, T)
    PROVE  /\ CacheSize(m.cache) \in Nat
           /\ limit = 0 \/ (limit > 1 /\ CacheSize(m.cache) <= limit)
           /\ LimitTokens = 0 \/ CacheTokens(m.cache) <= LimitTokens
<1>1. PICK a : Places(a, m.cache, AllEntries)
    BY DEF Room, Fits
<1>2. m.cache \in Seq(CacheEntry) /\ AllEntries \in Seq(CacheEntry) /\ limit \in Nat
    BY AllEntriesSeq DEF Memories, Memory
<1>3. CacheSize(m.cache) <= CacheSize(AllEntries) /\ CacheTokens(m.cache) <= CacheTokens(AllEntries)
    BY <1>1, <1>2, SizeOfPlaced
<1>4. CacheSize(m.cache) \in Nat /\ CacheSize(AllEntries) \in Nat
    BY <1>2, SizeOfRest
<1>5. CacheTokens(m.cache) \in Nat /\ CacheTokens(AllEntries) \in Nat /\ LimitTokens \in Nat
    <2>1. \A c \in Seq(CacheEntry) : CacheTokens(c) \in Nat
      BY LengthsSeq, TotalNat DEF CacheTokens
    <2> QED BY <1>2, <2>1, LimitAssumption
<1>6. /\ limit = 0 \/ (limit > 1 /\ CacheSize(AllEntries) <= limit)
      /\ LimitTokens = 0 \/ CacheTokens(AllEntries) <= LimitTokens
    BY DEF Ample, AllEntries
<1> QED BY <1>2, <1>3, <1>4, <1>5, <1>6

\* update() changes the entries alone, and none unless the limit has been reduced.
LEMMA UpdatedKeeps ==
    ASSUME Memory \in Memories, Ample, NEW m, NEW T, Keeps(m, T)
    PROVE  /\ Keeps(Updated(m), T)
           /\ Updated(m).limit = m.limit /\ Updated(m).prompt = m.prompt
           /\ m.limit = limit => Updated(m).cache = m.cache
<1> DEFINE c == Trim(m.cache, m.limit)
           n == Updated(m)
<1>1. m \in Memories /\ Room(m, T) /\ (m.limit = limit => Carries(Memory, m))
    BY DEF Keeps
<1>2. m.cache \in Seq(CacheEntry) /\ m.limit \in Nat
    BY <1>1 DEF Memories
<1>3. Part(c, m.cache) /\ c \in Seq(CacheEntry)
    BY <1>2, TrimEffect DEF Part
<1>4. ASSUME m.limit = limit PROVE c = m.cache
    <2>1. /\ CacheSize(m.cache) \in Nat
          /\ limit = 0 \/ (limit > 1 /\ CacheSize(m.cache) <= limit)
          /\ LimitTokens = 0 \/ CacheTokens(m.cache) <= LimitTokens
      BY <1>1, RoomLimits
    <2> QED BY <1>2, <1>4, <2>1, TrimNothing
<1>5. n = [m EXCEPT !.cache = c]
    BY DEF Updated
<1> HIDE DEF c, n
<1>6. /\ n \in Memories /\ n.cache = c /\ n.limit = m.limit
      /\ n.prompt = m.prompt /\ n.main = m.main /\ n.drft = m.drft
    BY <1>1, <1>3, <1>5 DEF Memories
<1>7. Room(n, T)
    <2>1. \A t \in T : Entry(n, t) = Entry(m, t)
      BY <1>6 DEF Entry
    <2> QED BY <1>1, <1>3, <1>6, <2>1, PartRoom
<1>8. n.limit = limit => Carries(Memory, n)
    <2>1. n.limit = limit => n = m
      BY <1>1, <1>4, <1>5, <1>6 DEF Memories
    <2> QED BY <1>1, <1>6, <2>1
<1>9. Keeps(n, T)
    BY <1>6, <1>7, <1>8 DEF Keeps
<1> QED BY <1>4, <1>6, <1>9 DEF n

\* A limit that an allocation has reduced is another one.
LEMMA ReducedKeeps ==
    ASSUME Memory \in Memories, Ample, NEW m \in Memories, NEW T, Room(m, T)
    PROVE  /\ Keeps(Reduced(m), T) /\ Reduced(m).limit # limit /\ Reduced(m).prompt = m.prompt
<1> DEFINE z == CacheSize(m.cache)
           h == (2 * z) \div 5
           l == Max({1, h})
           n == [m EXCEPT !.limit = l]
<1>1. z \in Nat /\ (limit = 0 \/ (limit > 1 /\ z <= limit)) /\ limit \in Nat
    <2>1. limit \in Nat
      BY DEF Memories, Memory
    <2> QED BY <2>1, RoomLimits
<1>2. Reduced(m) = Updated(n)
    BY DEF Reduced
<1> HIDE DEF z
<1>3. h \in Nat /\ (limit > 1 => h < limit)
    <2>1. h \in Nat /\ 5 * h <= 2 * z
      BY <1>1
    <2> HIDE DEF h
    <2> QED BY <1>1, <2>1
<1> HIDE DEF h
<1>4. l \in Nat /\ l # limit
    <2>1. 1 \in Int /\ h \in Int
      BY <1>3
    <2>2. Max({1, h}) \in {1, h} /\ 1 <= Max({1, h})
      BY <2>1, MaxOfTwo
    <2> QED BY <1>1, <1>3, <2>2
<1> HIDE DEF l
<1>5. /\ n \in Memories /\ n.cache = m.cache /\ n.limit = l
      /\ n.prompt = m.prompt /\ n.main = m.main /\ n.drft = m.drft
    BY <1>4 DEF Memories
<1> HIDE DEF n
<1>6. Keeps(n, T)
    <2>1. Part(n.cache, m.cache)
      BY <1>5, PartSelf DEF Memories
    <2>2. \A t \in T : Entry(n, t) = Entry(m, t)
      BY <1>5 DEF Entry
    <2>3. Room(n, T)
      BY <1>5, <2>1, <2>2, PartRoom
    <2> QED BY <1>4, <1>5, <2>3 DEF Keeps
<1>7. Keeps(Updated(n), T) /\ Updated(n).limit = n.limit /\ Updated(n).prompt = n.prompt
    BY <1>6, UpdatedKeeps
<1> QED BY <1>2, <1>4, <1>5, <1>7

\* Fewer slots may still be saved.
LEMMA KeepsFewer ==
    ASSUME Memory \in Memories, NEW m, NEW T, NEW U, Keeps(m, T), U \subseteq T
    PROVE  Keeps(m, U)
<1>1. PICK a : Fits(a, m, T)
    BY DEF Keeps, Room
<1>2. Fits(a, m, U)
    BY <1>1 DEF Fits
<1> QED BY <1>2 DEF Keeps, Room

\* prompt_save(): the entry of the slot takes its own place; it has what the entries had
\* that it makes obsolete.
LEMMA SavedKeeps ==
    ASSUME Memory \in Memories, Ample, NEW m, NEW T \in SUBSET Slot, Keeps(m, T), NEW s \in T,
           NEW fits \in BOOLEAN
    PROVE  /\ Keeps(Saved(m, s, fits), T \ {s}) /\ Saved(m, s, fits).prompt = m.prompt
           /\ Saved(m, s, fits).limit = limit => Stored(Saved(m, s, fits), s)
<1> DEFINE p == m.prompt[s]
           c == Without(m.cache, p)
           rest == [m EXCEPT !.cache = c]
           e == Entry(m, s)
           U == T \ {s}
<1>1. m \in Memories /\ Room(m, T) /\ (m.limit = limit => Carries(Memory, m)) /\ s \in Slot
    BY DEF Keeps
<1>2. /\ m.cache \in Seq(CacheEntry) /\ p \in Seq(Tokens) /\ m.main[s] \in Seq(Cell)
      /\ m.drft[s] \in Seq(Cell)
    BY <1>1 DEF Memories
<1>3. Part(c, m.cache) /\ c \in Seq(CacheEntry)
    <2> HIDE DEF p
    <2> QED BY <1>2, WithoutPart DEF Part
<1>4. e \in CacheEntry /\ e.tokens = p
    BY <1>2 DEF Entry, CacheEntry
<1>5. \A j \in DOMAIN m.cache : ~IsPrefix(m.cache[j].tokens, p) => Among(m.cache[j], c)
    <2> HIDE DEF p
    <2> QED BY <1>2, WithoutKeeps
<1> HIDE DEF c
<1>6. /\ rest \in Memories /\ rest.cache = c /\ rest.prompt = m.prompt /\ rest.limit = m.limit
      /\ rest.main = m.main /\ rest.drft = m.drft
    BY <1>1, <1>3 DEF Memories
<1>7. CASE ~Saves(m, s)
    <2>1. Saved(m, s, fits) = m
      BY <1>7 DEF Saved
    <2>2. Keeps(m, U)
      BY KeepsFewer
    <2>3. Stored(m, s)
      BY <1>7 DEF Saves, Stored
    <2> QED BY <2>1, <2>2, <2>3
<1>8. CASE Saves(m, s) /\ ~fits
    <2>1. Saved(m, s, fits) = Reduced(rest)
      BY <1>8 DEF Saved, c
    <2> HIDE DEF rest
    <2>2. Room(rest, U)
      <3>1. \A t \in U : Entry(rest, t) = Entry(m, t)
        BY <1>6 DEF Entry
      <3> QED BY <1>1, <1>3, <1>6, <3>1, PartRoom
    <2>3. Keeps(Reduced(rest), U) /\ Reduced(rest).limit # limit /\ Reduced(rest).prompt = rest.prompt
      BY <1>6, <2>2, ReducedKeeps
    <2> QED BY <1>6, <2>1, <2>3
<1>9. CASE Saves(m, s) /\ fits
    <2> DEFINE d == Append(c, e)
               n == [rest EXCEPT !.cache = Append(@, e)]
    <2>1. Saved(m, s, fits) = n
      BY <1>9 DEF Saved, c
    <2>2. /\ d \in Seq(CacheEntry) /\ Len(d) = Len(c) + 1 /\ Len(c) \in Nat
          /\ (\A i \in 1 .. Len(c) : d[i] = c[i]) /\ d[Len(c) + 1] = e
      BY <1>3, <1>4, AppendProperties
    <2>3. /\ n \in Memories /\ n.cache = d /\ n.prompt = m.prompt /\ n.limit = m.limit
          /\ n.main = m.main /\ n.drft = m.drft
      BY <1>3, <1>6, <2>2 DEF Memories
    <2> HIDE DEF n, d, e, rest
    <2>4. /\ DOMAIN d = 1 .. Len(c) + 1 /\ DOMAIN c = 1 .. Len(c)
          /\ Len(c) + 1 \in DOMAIN d /\ Len(c) + 1 \notin DOMAIN c
          /\ \A i \in DOMAIN d : i # Len(c) + 1 => i \in DOMAIN c
          /\ \A i \in DOMAIN c : i \in DOMAIN d
      BY <1>3, <2>2
    <2> DEFINE place == Len(cache) + 1 + s
    <2>5. Room(n, U)
      <3>1. Room(rest, T)
        <4>1. \A t \in T : Entry(rest, t) = Entry(m, t)
          BY <1>6 DEF Entry
        <4> QED BY <1>1, <1>3, <1>6, <4>1, PartRoom
      <3>2. PICK a : Fits(a, rest, T)
        BY <3>1 DEF Room
      <3>3. /\ \A i \in DOMAIN c : a[i] \in DOMAIN AllEntries /\ Lighter(c[i], AllEntries[a[i]])
            /\ \A i, j \in DOMAIN c : a[i] = a[j] => i = j
        BY <1>6, <3>2 DEF Fits, Places
      <3>4. \A t \in T : /\ Entry(rest, t) = Entry(Memory, t)
                         /\ \A i \in DOMAIN c : a[i] # Len(cache) + 1 + t
        BY <1>6, <3>2 DEF Fits
      <3>5. e = Entry(Memory, s) /\ \A t \in U : Entry(n, t) = Entry(Memory, t)
        BY <1>6, <2>3, <3>4 DEF Entry, e
      <3>6. place \in DOMAIN AllEntries /\ AllEntries[place] = Entry(Memory, s)
        <4>1. DOMAIN AllEntries = 1 .. Len(cache) + NSlots /\ AllEntries[place] = Entry(Memory, s)
          BY <1>1, AllEntriesSeq
        <4>2. Len(cache) \in Nat
          BY DEF Memories, Memory
        <4>3. s \in 0 .. NSlots - 1 /\ NSlots \in Nat
          BY <1>1, SlotAssumption DEF Slot
        <4> QED BY <4>1, <4>2, <4>3
      <3>7. \A t \in U : place # Len(cache) + 1 + t
        <4>1. Len(cache) \in Nat
          BY DEF Memories, Memory
        <4>2. Slot \subseteq Int
          BY DEF Slot
        <4> QED BY <1>1, <4>1, <4>2
      <3>8. Lighter(e, AllEntries[place])
        BY <1>4, <3>5, <3>6, LighterSelf
      <3>9. \A i \in DOMAIN c : a[i] # place
        BY <3>4
      <3> HIDE DEF place, U
      <3> DEFINE b == [i \in DOMAIN d |-> IF i = Len(c) + 1 THEN place ELSE a[i]]
      <3>10. ASSUME NEW i \in DOMAIN d
             PROVE  /\ b[i] \in DOMAIN AllEntries /\ Lighter(d[i], AllEntries[b[i]])
                    /\ \A t \in U : b[i] # Len(cache) + 1 + t
        <4>1. CASE i = Len(c) + 1
          BY <2>2, <3>6, <3>7, <3>8, <4>1
        <4>2. CASE i # Len(c) + 1
          <5>1. i \in DOMAIN c /\ b[i] = a[i] /\ d[i] = c[i]
            BY <2>2, <2>4, <4>2
          <5>2. \A t \in U : a[i] # Len(cache) + 1 + t
            BY <3>4, <5>1 DEF U
          <5> QED BY <3>3, <5>1, <5>2
        <4> QED BY <4>1, <4>2
      <3>11. ASSUME NEW i \in DOMAIN d, NEW j \in DOMAIN d, b[i] = b[j] PROVE i = j
        <4>1. \A k \in DOMAIN d : k # Len(c) + 1 => k \in DOMAIN c /\ b[k] = a[k]
          BY <2>4
        <4>2. b[Len(c) + 1] = place
          BY <2>4
        <4> HIDE DEF b
        <4> QED BY <3>3, <3>9, <3>11, <4>1, <4>2
      <3>12. Places(b, d, AllEntries)
        <4>1. b \in [DOMAIN d -> DOMAIN AllEntries]
          BY <3>10
        <4> HIDE DEF b
        <4> QED BY <3>10, <3>11, <4>1 DEF Places
      <3> HIDE DEF b
      <3>13. Fits(b, n, U)
        BY <2>3, <3>5, <3>10, <3>12 DEF Fits
      <3> QED BY <3>13 DEF Room
    <2>6. Carries(m, n)
      <3> SUFFICES ASSUME NEW q \in Prompted(m) PROVE \E r \in Prompted(n) : IsPrefix(q, r)
        BY DEF Carries
      <3>1. q \in Seq(Tokens)
        BY <1>1, PromptedSeq
      <3>2. CASE \E t \in Slot : q = m.prompt[t]
        <4>1. q \in Prompted(n)
          BY <2>3, <3>2 DEF Prompted
        <4> QED BY <3>1, <4>1, PrefixOrder
      <3>3. CASE \E j \in DOMAIN m.cache : q = m.cache[j].tokens
        <4>1. PICK j \in DOMAIN m.cache : q = m.cache[j].tokens
          BY <3>3
        <4>2. CASE IsPrefix(q, p)
          <5>1. p \in Prompted(n)
            BY <1>1, <2>3 DEF Prompted
          <5> QED BY <4>2, <5>1
        <4>3. CASE ~IsPrefix(q, p)
          <5>1. PICK i \in DOMAIN c : c[i] = m.cache[j]
            BY <1>5, <4>1, <4>3 DEF Among
          <5>2. i \in DOMAIN d /\ d[i] = c[i]
            BY <2>2, <2>4
          <5>3. q \in Prompted(n)
            BY <2>3, <4>1, <5>1, <5>2 DEF Prompted
          <5> QED BY <3>1, <5>3, PrefixOrder
        <4> QED BY <4>2, <4>3
      <3> QED BY <3>2, <3>3 DEF Prompted
    <2>7. n.limit = limit => Carries(Memory, n)
      BY <1>1, <2>3, <2>6, CarriesOn
    <2>8. Stored(n, s)
      <3>1. IsPrefix(p, p)
        <4> HIDE DEF p
        <4> QED BY <1>2, PrefixOrder
      <3>2. IsPrefix(n.prompt[s], n.cache[Len(c) + 1].tokens) /\ Len(c) + 1 \in DOMAIN n.cache
        BY <1>4, <2>2, <2>3, <2>4, <3>1
      <3> QED BY <3>2 DEF Stored, Covered
    <2>9. Keeps(n, U)
      BY <2>3, <2>5, <2>7 DEF Keeps
    <2> QED BY <2>1, <2>3, <2>8, <2>9
<1> QED BY <1>7, <1>8, <1>9

\* A slot may be cleared whose prompt is stored.
LEMMA ClearedKeeps ==
    ASSUME Memory \in Memories, NEW m, NEW T \in SUBSET Slot, Keeps(m, T), NEW s \in Slot, s \notin T,
           m.limit = limit => Stored(m, s)
    PROVE  Keeps(Cleared(m, s), T)
<1> DEFINE n == Cleared(m, s)
<1>1. m \in Memories /\ Room(m, T) /\ (m.limit = limit => Carries(Memory, m))
    BY DEF Keeps
<1> HIDE DEF n
<1>2. /\ n \in Memories /\ n.cache = m.cache /\ n.limit = m.limit /\ n.prompt[s] = <<>>
      /\ \A t \in Slot : t # s => n.prompt[t] = m.prompt[t] /\ n.main[t] = m.main[t]
    BY <1>1, ClearedEffect DEF n
<1>3. \A t \in Slot : t # s => n.drft[t] = m.drft[t]
    BY <1>1 DEF n, Cleared, Memories
<1>4. Room(n, T)
    <2>1. \A t \in T : Entry(n, t) = Entry(m, t)
      BY <1>2, <1>3 DEF Entry
    <2>2. Part(n.cache, m.cache)
      BY <1>1, <1>2, PartSelf DEF Memories
    <2> QED BY <1>1, <1>2, <2>1, <2>2, PartRoom
<1>5. ASSUME Stored(m, s) PROVE Carries(m, n)
    <2> SUFFICES ASSUME NEW q \in Prompted(m) PROVE \E r \in Prompted(n) : IsPrefix(q, r)
      BY DEF Carries
    <2>1. q \in Seq(Tokens)
      BY <1>1, PromptedSeq
    <2>2. CASE q \in Prompted(n)
      BY <2>1, <2>2, PrefixOrder
    <2>3. CASE q = m.prompt[s]
      <3>1. CASE q = <<>>
        <4>1. q \in Prompted(n)
          BY <1>2, <3>1 DEF Prompted
        <4> QED BY <2>2, <4>1
      <3>2. CASE q # <<>>
        <4>1. PICK i \in DOMAIN m.cache : IsPrefix(q, m.cache[i].tokens)
          BY <1>5, <2>3, <3>2 DEF Stored, Covered
        <4>2. m.cache[i].tokens \in Prompted(n)
          BY <1>2 DEF Prompted
        <4> QED BY <4>1, <4>2
      <3> QED BY <3>1, <3>2
    <2>4. q = m.prompt[s] \/ q \in Prompted(n)
      BY <1>2 DEF Prompted
    <2> QED BY <2>2, <2>3, <2>4
<1>6. n.limit = limit => Carries(Memory, n)
    BY <1>1, <1>2, <1>5, CarriesOn
<1>7. Keeps(n, T)
    BY <1>2, <1>4, <1>6 DEF Keeps
<1> QED BY <1>7 DEF n

\* prompt_load(): the tokens of the entry go to the slot, and what the slot held is in
\* the cache; when the state is refused the entry stays.
LEMMA LoadedKeeps ==
    ASSUME Memory \in Memories, NEW m, NEW T \in SUBSET Slot, Keeps(m, T), NEW s \in Slot, s \notin T,
           m.limit = limit => Stored(m, s), NEW new, NEW refusal \in {"none"} \cup Refusals
    PROVE  Keeps(Loaded(m, s, new, refusal), T)
<1> DEFINE i == Best(m, s, new)
           e == m.cache[i]
           read(x, data) == IF data = <<>> THEN x ELSE data
           n == Loaded(m, s, new, refusal)
<1>1. m \in Memories /\ Room(m, T) /\ (m.limit = limit => Carries(Memory, m))
    BY DEF Keeps
<1>2. m.cache \in Seq(CacheEntry) /\ i \in 0 .. Len(m.cache)
    BY <1>1, BestEntry DEF Memories
<1>3. n \in Memories
    BY <1>1, LoadedLeads DEF Leads
<1>4. CASE i = 0
    <2>1. n = m
      BY <1>4 DEF Loaded
    <2> QED BY <2>1
<1>5. CASE i # 0
    <2>1. i \in DOMAIN m.cache
      BY <1>2, <1>5
    <2> DEFINE o == Cleared(m, s)
    <2>2. Keeps(o, T) /\ o \in Memories /\ o.cache = m.cache /\ o.limit = m.limit
      BY <1>1, ClearedEffect, ClearedKeeps
    <2>3. CASE refusal = "main" /\ e.main # <<>>
      <3>1. n = o
        BY <1>5, <2>3 DEF Loaded
      <3> QED BY <2>2, <3>1
    <2>4. CASE refusal = "draft" /\ e.drft # <<>>
      <3> DEFINE c == [m.cache EXCEPT ![i].main = <<>>]
      <3>1. n = [o EXCEPT !.cache[i].main = <<>>]
        BY <1>5, <2>4 DEF Loaded
      <3> HIDE DEF o, n, i
      <3>2. n = [o EXCEPT !.cache = c]
        BY <2>2, <3>1 DEF Memories
      <3>3. DOMAIN c = DOMAIN m.cache /\ \A j \in DOMAIN c : Lighter(c[j], m.cache[j])
                                                             /\ c[j].tokens = m.cache[j].tokens
        <4>1. DOMAIN c = DOMAIN m.cache
          OBVIOUS
        <4>2. ASSUME NEW j \in DOMAIN m.cache
              PROVE  Lighter(c[j], m.cache[j]) /\ c[j].tokens = m.cache[j].tokens
          <5>1. m.cache[j] \in CacheEntry
            BY <1>2
          <5>2. CASE j # i
            <6>1. c[j] = m.cache[j]
              BY <5>2
            <6> HIDE DEF c
            <6> QED BY <5>1, <6>1, LighterSelf
          <5>3. CASE j = i
            <6>1. c[j] = [m.cache[j] EXCEPT !.main = <<>>]
              BY <5>3
            <6> HIDE DEF c
            <6> DEFINE x == m.cache[j]
            <6>2. /\ c[j].tokens = x.tokens /\ c[j].main = <<>> /\ c[j].drft = x.drft
              BY <5>1, <6>1 DEF CacheEntry
            <6>3. Len(x.main) \in Nat /\ Len(x.drft) \in Nat /\ Len(x.tokens) \in Nat
              BY <5>1 DEF CacheEntry
            <6>4. Len(c[j].main) = 0
              BY <6>2
            <6>5. Weight(c[j]) <= Weight(x)
              BY <6>2, <6>3, <6>4 DEF Weight
            <6> QED BY <6>2, <6>3, <6>5 DEF Lighter
          <5> QED BY <5>2, <5>3
        <4> HIDE DEF c
        <4> QED BY <4>1, <4>2
      <3> HIDE DEF c
      <3>4. n.cache = c /\ n.prompt = o.prompt /\ n.main = o.main /\ n.drft = o.drft /\ n.limit = o.limit
        BY <2>2, <3>2 DEF Memories
      <3>5. Room(n, T)
        <4>1. PICK a : Fits(a, o, T)
          BY <2>2 DEF Keeps, Room
        <4>2. /\ a \in [DOMAIN m.cache -> DOMAIN AllEntries]
              /\ \A j, k \in DOMAIN m.cache : a[j] = a[k] => j = k
              /\ \A j \in DOMAIN m.cache : Lighter(m.cache[j], AllEntries[a[j]])
          BY <2>2, <4>1 DEF Fits, Places
        <4>3. ASSUME NEW j \in DOMAIN c PROVE Lighter(c[j], AllEntries[a[j]])
          <5> DEFINE x == m.cache[j]
                     y == AllEntries[a[j]]
          <5>1. Lighter(c[j], x) /\ Lighter(x, y)
            BY <3>3, <4>2
          <5>2. c[j] \in CacheEntry /\ x \in CacheEntry /\ y \in CacheEntry
            <6>1. c \in Seq(CacheEntry)
              BY <1>3, <3>4 DEF Memories, n
            <6> QED BY <1>2, <3>3, <4>2, <6>1, AllEntriesSeq
          <5> HIDE DEF x, y
          <5>3. /\ Weight(c[j]) \in Nat /\ Weight(x) \in Nat /\ Weight(y) \in Nat
                /\ Len(c[j].tokens) \in Nat /\ Len(x.tokens) \in Nat /\ Len(y.tokens) \in Nat
            BY <5>2, LighterSelf
          <5>4. Lighter(c[j], y)
            BY <5>1, <5>3 DEF Lighter
          <5> QED BY <5>4 DEF y
        <4>4. Places(a, c, AllEntries)
          BY <3>3, <4>2, <4>3 DEF Places
        <4>5. \A t \in T : /\ Entry(n, t) = Entry(Memory, t)
                           /\ \A j \in DOMAIN c : a[j] # Len(cache) + 1 + t
          BY <2>2, <3>3, <3>4, <4>1 DEF Fits, Entry
        <4>6. Fits(a, n, T)
          BY <3>4, <4>4, <4>5 DEF Fits
        <4> QED BY <4>6 DEF Room
      <3>6. Prompted(n) = Prompted(o)
        BY <2>2, <3>3, <3>4 DEF Prompted
      <3>7. n.limit = limit => Carries(Memory, n)
        BY <2>2, <3>4, <3>6 DEF Keeps, Carries
      <3>8. n \in Memories
        BY <1>3 DEF n
      <3>9. Keeps(n, T)
        BY <3>5, <3>7, <3>8 DEF Keeps
      <3> QED BY <3>9 DEF n
    <2>5. CASE ~(refusal = "main" /\ e.main # <<>>) /\ ~(refusal = "draft" /\ e.drft # <<>>)
      <3> DEFINE c == RemoveAt(m.cache, i)
                 a == read(m.main[s], e.main)
                 b == read(m.drft[s], e.drft)
      <3>1. n = [m EXCEPT !.prompt[s] = e.tokens, !.main[s] = a, !.drft[s] = b, !.cache = c]
        BY <1>5, <2>5 DEF Loaded, Memories
      <3>2. Part(c, m.cache) /\ c \in Seq(CacheEntry)
        <4> HIDE DEF i
        <4> QED BY <1>2, <2>1, PartRemoved DEF Part
      <3>3. \A j \in DOMAIN m.cache : j # i => Among(m.cache[j], c)
        <4> HIDE DEF i
        <4> QED BY <1>2, <2>1, RemovedKeeps
      <3> HIDE DEF n, c, a, b
      <3>4. /\ n.cache = c /\ n.limit = m.limit /\ n.prompt[s] = e.tokens
            /\ \A t \in Slot : t # s => /\ n.prompt[t] = m.prompt[t] /\ n.main[t] = m.main[t]
                                        /\ n.drft[t] = m.drft[t]
        <4> HIDE DEF e
        <4> QED BY <1>1, <3>1 DEF Memories
      <3> HIDE DEF i
      <3>5. n \in Memories
        BY <1>3 DEF n
      <3>6. Room(n, T)
        <4>1. \A t \in T : Entry(n, t) = Entry(m, t)
          BY <3>4 DEF Entry
        <4> QED BY <1>1, <3>2, <3>4, <3>5, <4>1, PartRoom
      <3>7. \A j \in DOMAIN m.cache : m.cache[j].tokens \in Prompted(n)
        <4> SUFFICES ASSUME NEW j \in DOMAIN m.cache PROVE m.cache[j].tokens \in Prompted(n)
          OBVIOUS
        <4>1. CASE j = i
          BY <3>4, <4>1 DEF Prompted
        <4>2. CASE j # i
          <5>1. PICK k \in DOMAIN c : c[k] = m.cache[j]
            BY <3>3, <4>2 DEF Among
          <5> QED BY <3>4, <5>1 DEF Prompted
        <4> QED BY <4>1, <4>2
      <3>8. ASSUME Stored(m, s) PROVE Carries(m, n)
        <4> SUFFICES ASSUME NEW q \in Prompted(m) PROVE \E r \in Prompted(n) : IsPrefix(q, r)
          BY DEF Carries
        <4>1. q \in Seq(Tokens)
          BY <1>1, PromptedSeq
        <4>2. CASE q \in Prompted(n)
          BY <4>1, <4>2, PrefixOrder
        <4>3. CASE q = m.prompt[s]
          <5>1. CASE q = <<>>
            <6>1. e.tokens \in Prompted(n)
              BY <2>1, <3>7
            <6>2. e.tokens \in Seq(Tokens)
              BY <3>5, <6>1, PromptedSeq
            <6> QED BY <5>1, <6>1, <6>2, PrefixOrder
          <5>2. CASE q # <<>>
            <6>1. PICK k \in DOMAIN m.cache : IsPrefix(q, m.cache[k].tokens)
              BY <3>8, <4>3, <5>2 DEF Stored, Covered
            <6> QED BY <3>7, <6>1
          <5> QED BY <5>1, <5>2
        <4>4. q = m.prompt[s] \/ q \in Prompted(n)
          <5>1. CASE \E t \in Slot : q = m.prompt[t]
            BY <3>4, <5>1 DEF Prompted
          <5>2. CASE \E j \in DOMAIN m.cache : q = m.cache[j].tokens
            BY <3>7, <5>2
          <5> QED BY <5>1, <5>2 DEF Prompted
        <4> QED BY <4>2, <4>3, <4>4
      <3>9. n.limit = limit => Carries(Memory, n)
        BY <1>1, <3>4, <3>5, <3>8, CarriesOn
      <3>10. Keeps(n, T)
        BY <3>5, <3>6, <3>9 DEF Keeps
      <3> QED BY <3>10 DEF n
    <2> QED BY <2>3, <2>4, <2>5
<1> QED BY <1>4, <1>5

\* get_available_slot() saves what it replaces.
LEMMA SwappedKeeps ==
    ASSUME Memory \in Memories, Ample, NEW r, NEW s \in Slot, NEW full,
           NEW refusal \in {"none"} \cup Refusals
    PROVE  Keeps(Swapped(r, s, full, refusal), Slot \ {s})
<1> DEFINE n == Saved(Memory, s, s \notin full)
           o == Loaded(n, s, r.tokens, refusal)
           T == Slot \ {s}
<1>1. Keeps(Memory, Slot)
    BY KeepsAtFirst
<1>2. CASE LosesMuch(r, s)
    <2>1. Keeps(n, T) /\ (n.limit = limit => Stored(n, s))
      <3>1. (s \notin full) \in BOOLEAN /\ Slot \in SUBSET Slot
        OBVIOUS
      <3> QED BY <1>1, <3>1, SavedKeeps
    <2>2. Swapped(r, s, full, refusal) = Updated(o)
      BY <1>2 DEF Swapped
    <2>3. T \in SUBSET Slot /\ s \notin T
      OBVIOUS
    <2> HIDE DEF n, T
    <2>4. Keeps(o, T)
      BY <2>1, <2>3, LoadedKeeps
    <2> HIDE DEF o
    <2>5. Keeps(Updated(o), T)
      BY <2>4, UpdatedKeeps
    <2> QED BY <2>2, <2>5 DEF T
<1>3. CASE ~LosesMuch(r, s)
    <2>1. Swapped(r, s, full, refusal) = Memory
      BY <1>3 DEF Swapped
    <2> QED BY <1>1, <2>1, KeepsFewer
<1> QED BY <1>2, <1>3

\* An idle slot leaves with its prompt in the cache.
LEMMA SweptSlotKeeps ==
    ASSUME Memory \in Memories, Ample, NEW n, NEW T \in SUBSET Slot, Keeps(n, T), NEW s \in T, NEW full
    PROVE  Keeps(SweptSlot(n, s, full), T \ {s})
<1> DEFINE o == Saved(n, s, s \notin full)
           q == IF Saves(n, s) THEN Updated(o) ELSE n
           U == T \ {s}
<1>1. SweptSlot(n, s, full) = IF Unified THEN Cleared(q, s) ELSE q
    BY DEF SweptSlot
<1>2. Keeps(o, U) /\ o.prompt = n.prompt /\ (o.limit = limit => Stored(o, s))
    <2>1. (s \notin full) \in BOOLEAN
      OBVIOUS
    <2> QED BY <2>1, SavedKeeps
<1> HIDE DEF o
<1>3. Keeps(q, U) /\ (q.limit = limit => Stored(q, s))
    <2>1. CASE ~Saves(n, s)
      <3>1. Stored(n, s)
        BY <2>1 DEF Saves, Stored
      <3>2. Keeps(n, U)
        BY KeepsFewer
      <3> QED BY <2>1, <3>1, <3>2
    <2>2. CASE Saves(n, s)
      <3> DEFINE u == Updated(o)
      <3> HIDE DEF u, U
      <3>1. Keeps(u, U) /\ u.limit = o.limit /\ u.prompt = o.prompt /\ (o.limit = limit => u.cache = o.cache)
        BY <1>2, UpdatedKeeps DEF u
      <3>2. u.limit = limit => Stored(u, s)
        BY <1>2, <3>1 DEF Stored
      <3> QED BY <2>2, <3>1, <3>2 DEF u
    <2> QED BY <2>1, <2>2
<1> HIDE DEF q
<1>4. Keeps(Cleared(q, s), U)
    <2>1. U \in SUBSET Slot /\ s \in Slot /\ s \notin U
      OBVIOUS
    <2> HIDE DEF U
    <2> QED BY <1>3, <2>1, ClearedKeeps
<1> QED BY <1>1, <1>3, <1>4

\* So do all of them, one after the other.
LEMMA SweptKeeps ==
    ASSUME Memory \in Memories, Ample, NEW s \in Slot, NEW m, Keeps(m, Slot \ {s}),
           NEW idle \in SUBSET (Slot \ {s}), NEW full
    PROVE  Keeps(Swept(m, idle, full), {})
<1> DEFINE T(k) == {t \in Slot : t # s /\ k <= t}
           G == [k \in 0 .. NSlots |-> {n \in Memories : Keeps(n, T(k))}]
<1>1. NSlots \in Nat /\ Slot = 0 .. NSlots - 1
    BY SlotAssumption DEF Slot
<1>2. \A k \in 0 .. NSlots, n \in Memories : n \in G[k] <=> Keeps(n, T(k))
    OBVIOUS
<1>3. G \in [0 .. NSlots -> SUBSET Memories]
    OBVIOUS
<1>4. m \in G[0] /\ m \in Memories
    <2>1. T(0) = Slot \ {s} /\ 0 \in 0 .. NSlots
      BY <1>1
    <2>2. m \in Memories
      BY DEF Keeps
    <2> HIDE DEF T, G
    <2> QED BY <1>2, <2>1, <2>2
<1>5. ASSUME NEW k \in 1 .. NSlots, NEW n \in G[k - 1]
      PROVE  IF k - 1 \in idle THEN SweptSlot(n, k - 1, full) \in G[k] ELSE n \in G[k]
    <2> DEFINE t == k - 1
    <2>1. k \in 0 .. NSlots /\ t \in 0 .. NSlots
      BY <1>1
    <2>2. n \in Memories /\ Keeps(n, T(t))
      <3>1. n \in Memories
        BY <1>3, <2>1
      <3> HIDE DEF T, G
      <3> QED BY <1>2, <2>1, <3>1
    <2>3. T(k) = T(t) \ {t} /\ T(k) \subseteq T(t) /\ T(t) \in SUBSET Slot
      BY <1>1, <2>1
    <2>4. CASE t \in idle
      <3>1. t \in T(t)
        BY <1>1, <2>4
      <3> DEFINE u == SweptSlot(n, t, full)
      <3> HIDE DEF T, t, u
      <3>2. Keeps(u, T(k))
        BY <2>2, <2>3, <3>1, SweptSlotKeeps DEF u
      <3>3. u \in Memories
        BY <3>2 DEF Keeps
      <3>4. u \in G[k]
        <4> HIDE DEF G
        <4> QED BY <1>2, <2>1, <3>2, <3>3
      <3> HIDE DEF G
      <3> QED BY <2>4, <3>4 DEF u, t
    <2>5. CASE t \notin idle
      <3> HIDE DEF T
      <3>1. Keeps(n, T(k))
        BY <2>2, <2>3, KeepsFewer
      <3>2. n \in G[k]
        <4> HIDE DEF G
        <4> QED BY <1>2, <2>1, <2>2, <3>1
      <3> HIDE DEF G
      <3> QED BY <2>5, <3>2
    <2> QED BY <2>4, <2>5
<1>6. idle \in SUBSET Slot
    OBVIOUS
<1> DEFINE w == Swept(m, idle, full)
<1> HIDE DEF w
<1>7. w \in G[NSlots]
    <2> HIDE DEF G
    <2> QED BY <1>3, <1>4, <1>5, <1>6, SweptBy DEF w
<1>8. w \in Memories /\ Keeps(w, T(NSlots))
    <2>1. NSlots \in 0 .. NSlots
      BY <1>1
    <2>2. w \in Memories
      <3> HIDE DEF G
      <3> QED BY <1>3, <1>7, <2>1
    <2> HIDE DEF G, T
    <2> QED BY <1>2, <1>7, <2>1, <2>2
<1>9. T(NSlots) = {}
    BY <1>1
<1> HIDE DEF T
<1> QED BY <1>8, <1>9 DEF w

\* A completion that is launched for slot s with the adapters of the slot: either way,
\* with room and with the limit as it was, every prompt to be had before survives.
LEMMA LaunchKeeps ==
    ASSUME Inv, Ample, NEW r \in Requests, NEW full, NEW refusal \in {"none"} \cup Refusals,
           NEW valid \in BOOLEAN, Launch(r, full, refusal, valid),
           lora'[Chosen(r)] = lora[Chosen(r)], limit' = limit
    PROVE  Survives
<1> DEFINE s == Chosen(r)
           o == Swapped(r, s, full, refusal)
           m == DropsPrompt(o, s, r.lora)
           idle == {t \in Slot : Idle(t) /\ t # s}
           w == Swept(m, idle, full)
<1>1. Memory \in Memories /\ RunOK
    BY TypeParts DEF Inv
<1>2. s \in Slot
    BY ChosenSlot DEF Launch
<1>3. /\ lora' = [lora EXCEPT ![s] = IF r.lora = "default" THEN default ELSE r.lora]
      /\ Becomes(w) \/ Becomes(m)
    BY DEF Launch
<1>4. lora'[s] = lora[s]
    OBVIOUS
<1> HIDE DEF s
<1>5. Keeps(o, Slot \ {s})
    BY <1>1, <1>2, SwappedKeeps
<1> HIDE DEF o
<1>6. m = o
    <2>1. r.lora \in {"default", lora[s]}
      BY <1>1, <1>2, <1>3, <1>4 DEF RunOK
    <2> QED BY <2>1 DEF DropsPrompt
<1> HIDE DEF m
<1>7. Keeps(w, {})
    <2>1. idle \in SUBSET (Slot \ {s})
      OBVIOUS
    <2> HIDE DEF idle
    <2> QED BY <1>1, <1>2, <1>5, <1>6, <2>1, SweptKeeps
<1> HIDE DEF w
<1>8. PICK n, T : Becomes(n) /\ Keeps(n, T)
    BY <1>3, <1>5, <1>6, <1>7
<1>9. prompt' = n.prompt /\ cache' = n.cache /\ Carries(Memory, n)
    BY <1>8 DEF Becomes, Keeps
<1>10. Prompted(Memory) = Available /\ Prompted(n) = Available'
    BY <1>9 DEF Prompted, Available, Memory
<1> QED BY <1>9, <1>10 DEF Carries, Survives

\* Nothing else starts a slot that was idle.
LEMMA StartedByLaunch ==
    ASSUME Inv, [Next]_vars, NEW s \in Slot, state[s] = "idle", state'[s] = "started"
    PROVE  \E r \in Requests, full \in SUBSET Filled, refusal \in Refused, valid \in BOOLEAN :
             Launch(r, full, refusal, valid) /\ Chosen(r) = s
<1>1. state \in [Slot -> States] /\ state'[s] # state[s]
    BY TypeParts DEF Inv, RunOK
<1>2. CASE UNCHANGED vars
    BY <1>1, <1>2 DEF vars
<1>3. ASSUME NEW r \in Requests, NEW full \in SUBSET Filled, NEW refusal \in Refused,
             \/ Defer(r, full, refusal)
             \/ \E valid \in BOOLEAN : Launch(r, full, refusal, valid)
      PROVE  \E valid \in BOOLEAN : Launch(r, full, refusal, valid) /\ Chosen(r) = s
    <2>1. CASE Defer(r, full, refusal)
      BY <1>1, <2>1 DEF Defer, running
    <2>2. ASSUME NEW valid \in BOOLEAN, Launch(r, full, refusal, valid) PROVE Chosen(r) = s
      <3>1. state' = state \/ state' = [state EXCEPT ![Chosen(r)] = "started"]
        BY <2>2 DEF Launch
      <3> QED BY <1>1, <3>1
    <2> QED BY <1>3, <2>1, <2>2
<1>4. ASSUME NEW t \in Slot,
             \/ Start(t) \/ Release(t)
             \/ \E tok \in Sampled : Generate(t, tok)
             \/ SlotSave(t) \/ SlotErase(t)
             \/ \E outcome \in {"ok", "invalid", "unfit"} : SlotRestore(t, outcome)
      PROVE  FALSE
    <2>1. CASE Start(t)
      BY <1>1, <2>1 DEF Start
    <2>2. CASE Release(t)
      BY <1>1, <2>2 DEF Release, Released
    <2>3. CASE \E tok \in Sampled : Generate(t, tok)
      BY <1>1, <2>3 DEF Generate, running
    <2>4. CASE SlotSave(t)
      BY <1>1, <2>4 DEF SlotSave, running
    <2>5. CASE SlotErase(t)
      BY <1>1, <2>5 DEF SlotErase, running
    <2>6. CASE \E outcome \in {"ok", "invalid", "unfit"} : SlotRestore(t, outcome)
      BY <1>1, <2>6 DEF SlotRestore, running
    <2> QED BY <1>4, <2>1, <2>2, <2>3, <2>4, <2>5, <2>6
<1>5. CASE Decode
    BY <1>1, <1>5 DEF Decode, Batched
<1>6. CASE Evict
    BY <1>1, <1>6 DEF Evict, running
<1>7. CASE DecodeFails
    BY <1>1, <1>7 DEF DecodeFails, Released
<1>8. CASE Abort
    BY <1>1, <1>8 DEF Abort, Released
<1>9. ASSUME NEW l \in Adapters, SetLora(l) PROVE FALSE
    BY <1>1, <1>9 DEF SetLora, running
<1> QED BY <1>2, <1>3, <1>4, <1>5, <1>6, <1>7, <1>8, <1>9 DEF Next

\* A completion that is launched loses no prompt, whatever was saved, loaded, refused or
\* cleared for it, if there is room and no allocation fails.
THEOREM NothingIsForgotten == Spec => NothingForgotten
<1> DEFINE Kept == \A s \in Slot :
                     state[s] = "idle" /\ state'[s] = "started" /\ lora'[s] = lora[s]
                       /\ limit' = limit /\ Ample => Survives
<1>1. Inv /\ [Next]_vars => [Kept]_vars
    <2> SUFFICES ASSUME Inv, [Next]_vars, NEW s \in Slot,
                        state[s] = "idle", state'[s] = "started", lora'[s] = lora[s],
                        limit' = limit, Ample
                 PROVE  Survives
      OBVIOUS
    <2>1. PICK r \in Requests, full \in SUBSET Filled, refusal \in Refused, valid \in BOOLEAN :
            Launch(r, full, refusal, valid) /\ Chosen(r) = s
      BY StartedByLaunch
    <2>2. refusal \in {"none"} \cup Refusals
      BY DEF Refused
    <2> QED BY <2>1, <2>2, LaunchKeeps
<1>2. Spec => [][Kept]_vars
    BY <1>1, CacheAlways, PTL DEF Spec
<1> QED BY <1>2 DEF NothingForgotten

=============================================================================
