------------------------- MODULE DecodeBatch_proofs -------------------------
(***************************************************************************)
(* What decode() makes of a batch, for any number of sequences, any        *)
(* n_ubatch and any batches.                                               *)
(*                                                                         *)
(* First the operators: what a list filtered by a set has (Picked), that   *)
(* the selection sort sorts and that its swaps, made on another list of    *)
(* rows, do the same (SortSorts), and what each split takes (SplitFresh,   *)
(* SplitSound).  Folds are recursive functions here, and Recursion says    *)
(* that they are defined; what holds of them at every step is shown with   *)
(* Steps.                                                                  *)
(*                                                                         *)
(* Then the call, action by action.  CallInv holds whatever callers pass:  *)
(* ubatches have the used tokens once (Marked), out_ids the outputs of     *)
(* these (Gathered), and the rows are those of the ubatches computed so    *)
(* far (Rowed).  With callers that do their duties, OrderlyInv adds that   *)
(* of tokens that share a sequence the earlier one is used first, and      *)
(* MemInv that what is still to be computed goes on, without a gap, where  *)
(* the memory ends.                                                        *)
(***************************************************************************)
EXTENDS DecodeBatch, SequenceTheorems, FiniteSetTheorems, TLAPS

-----------------------------------------------------------------------------
(* Numbers, finite sets, recursion.                                        *)

\* A set of naturals that is not empty has a least element.
LEMMA MinExists ==
    ASSUME NEW S \in SUBSET Nat, S # {}
    PROVE  Min(S) \in S /\ \A x \in S : Min(S) <= x
<1> DEFINE R == {ss \in Nat \X Nat : ss[1] < ss[2]}
<1>1. IsWellFoundedOn(R, Nat)
    BY NatLessThanWellFounded DEF OpToRel
<1>2. PICK x \in S : \A y \in S : ~(<<y, x>> \in R)
    <2> HIDE DEF R
    <2> QED BY <1>1, WFMin
<1>3. ASSUME NEW y \in S PROVE x <= y
    <2>1. <<y, x>> \in Nat \X Nat /\ ~(<<y, x>> \in R)
      BY <1>2
    <2>2. ~(y < x)
      BY <2>1
    <2> QED BY <2>2
<1> QED BY <1>3 DEF Min

\* One with a bound has a greatest element.
LEMMA MaxExists ==
    ASSUME NEW b \in Nat, NEW S \in SUBSET (0 .. b), S # {}
    PROVE  Max(S) \in S /\ \A x \in S : Max(S) >= x
<1> DEFINE D == {d \in Nat : b - d \in S}
<1>1. PICK x \in S : TRUE
    OBVIOUS
<1>2. b - x \in Nat /\ b - (b - x) = x
    OBVIOUS
<1>3. D \in SUBSET Nat /\ D # {}
    BY <1>1, <1>2
<1>4. Min(D) \in D /\ \A y \in D : Min(D) <= y
    <2> HIDE DEF D
    <2> QED BY <1>3, MinExists
<1>5. PICK d \in Nat : b - d \in S /\ \A y \in D : d <= y
    BY <1>4
<1>6. ASSUME NEW y \in S PROVE b - d >= y
    <2>1. b - y \in Nat /\ b - (b - y) = y
      OBVIOUS
    <2>2. b - y \in D
      BY <2>1
    <2>3. d <= b - y
      BY <1>5, <2>2
    <2> QED BY <2>1, <2>3
<1> QED BY <1>5, <1>6 DEF Max

\* A set with 0 and with the successor of each of its elements below n has all of 0 .. n.
LEMMA Steps ==
    ASSUME NEW n \in Nat, NEW B, 0 \in B,
           \A k \in 1 .. n : k - 1 \in B => k \in B
    PROVE  \A k \in 0 .. n : k \in B
<1> DEFINE C == (0 .. n) \ B
<1> SUFFICES ASSUME C # {} PROVE FALSE
    OBVIOUS
<1>1. Min(C) \in C /\ \A x \in C : Min(C) <= x
    BY MinExists
<1> DEFINE k == Min(C)
<1>2. k \in 1 .. n /\ k - 1 \in 0 .. n /\ ~(k <= k - 1)
    BY <1>1
<1>3. k - 1 \in B
    BY <1>1, <1>2
<1> QED BY <1>1, <1>2, <1>3

LEMMA FunctionSeq ==
    ASSUME NEW n \in Nat, NEW S, NEW f \in [1 .. n -> S]
    PROVE  f \in Seq(S) /\ Len(f) = n
<1>1. f \in Seq(S)
    BY SeqDef
<1>2. Len(f) \in Nat /\ 1 .. Len(f) = 1 .. n
    BY <1>1, LenProperties
<1>3. ASSUME NEW m \in Nat, 1 .. m = 1 .. n PROVE m = n
    <2>1. m \in 1 .. m \/ m = 0
      OBVIOUS
    <2>2. n \in 1 .. n \/ n = 0
      OBVIOUS
    <2>3. m <= n /\ n <= m
      BY <1>3, <2>1, <2>2
    <2> QED BY <2>3
<1> QED BY <1>1, <1>2, <1>3

\* Blocks of k.
LEMMA OneBlock ==
    ASSUME NEW k \in Nat
    PROVE  k \div 1 = k /\ k * 1 = k /\ \A i \in 1 .. k : (i - 1) \div k = 0
OBVIOUS

LEMMA BlockOf ==
    ASSUME NEW n \in Nat, n > 0, NEW k \in Nat, k > 0, NEW x \in 1 .. n * k
    PROVE  /\ (x - 1) \div k \in 0 .. n - 1 /\ (x - 1) % k \in 0 .. k - 1
           /\ x = k * ((x - 1) \div k) + ((x - 1) % k) + 1
OBVIOUS

LEMMA InBlock ==
    ASSUME NEW n \in Nat, n > 0, NEW k \in Nat, k > 0, NEW b \in 0 .. n - 1, NEW r \in 0 .. k - 1
    PROVE  /\ k * b + r + 1 \in 1 .. n * k
           /\ ((k * b + r + 1) - 1) \div k = b /\ ((k * b + r + 1) - 1) % k = r
<1>1. k * b + k <= n * k
    OBVIOUS
<1>2. (k * b + r) \div k = b /\ (k * b + r) % k = r
    OBVIOUS
<1>3. (k * b + r + 1) - 1 = k * b + r /\ k * b \in Nat
    OBVIOUS
<1> QED BY <1>1, <1>2, <1>3

LEMMA BlocksFit ==
    ASSUME NEW n \in Nat, n > 0, NEW m \in Nat, n <= m, NEW k \in Nat, k <= m \div n
    PROVE  n * k <= m
<1>1. n * (m \div n) <= m /\ m \div n \in Nat
    OBVIOUS
<1>2. n * k <= n * (m \div n)
    BY <1>1
<1> QED BY <1>1, <1>2

LEMMA Quotient ==
    ASSUME NEW n \in Nat, n > 0, NEW m \in Nat
    PROVE  m \div n \in Nat /\ (n <= m => m \div n >= 1)
OBVIOUS

LEMMA BlockCount ==
    ASSUME NEW n \in Nat, n > 0, NEW k \in Nat
    PROVE  (n * k) \div n = k /\ k * n = n * k /\ n * k \in Nat
OBVIOUS

\* f starts at a and goes on by the steps st, within X.
Runs(f, n, a, st, X) == /\ f = [k \in 0 .. n |-> IF k = 0 THEN a ELSE st[k][f[k - 1]]]
                        /\ \A k \in 0 .. n : f[k] \in X

\* Steps within X define a function.
LEMMA Recursion ==
    ASSUME NEW n \in Nat, NEW X, NEW a \in X, NEW st,
           \A k \in 1 .. n : \A x \in X : st[k][x] \in X
    PROVE  \E f : Runs(f, n, a, st, X)
<1> DEFINE Good(m, f) == Runs(f, m, a, st, X)
           B == {m \in 0 .. n : \E f : Good(m, f)}
<1>1. 0 \in B
    <2> DEFINE f == [k \in 0 .. 0 |-> a]
    <2>1. Good(0, f)
      BY DEF Runs
    <2> HIDE DEF f
    <2> QED BY <2>1
<1>2. ASSUME NEW m \in 1 .. n, m - 1 \in B PROVE m \in B
    <2>1. PICK f : Good(m - 1, f)
      BY <1>2
    <2> DEFINE v == st[m][f[m - 1]]
               g == [k \in 0 .. m |-> IF k = m THEN v ELSE f[k]]
    <2>2. f = [k \in 0 .. m - 1 |-> IF k = 0 THEN a ELSE st[k][f[k - 1]]]
      BY <2>1 DEF Runs
    <2>3. v \in X
      <3>1. m - 1 \in 0 .. m - 1
        OBVIOUS
      <3> QED BY <2>1, <3>1 DEF Runs
    <2> HIDE DEF v
    <2>4. ASSUME NEW k \in 0 .. m
          PROVE  g[k] \in X /\ g[k] = IF k = 0 THEN a ELSE st[k][g[k - 1]]
      <3>1. CASE k = m
        BY <2>3, <3>1 DEF v
      <3>2. CASE k # m
        <4>1. k \in 0 .. m - 1 /\ g[k] = f[k] /\ (k # 0 => g[k - 1] = f[k - 1])
          BY <3>2
        <4>2. f[k] = IF k = 0 THEN a ELSE st[k][f[k - 1]]
          BY <2>2, <4>1
        <4> QED BY <2>1, <4>1, <4>2 DEF Runs
      <3> QED BY <3>1, <3>2
    <2>5. g = [k \in 0 .. m |-> IF k = 0 THEN a ELSE st[k][g[k - 1]]]
      <3>1. g = [k \in 0 .. m |-> g[k]]
        OBVIOUS
      <3> HIDE DEF g
      <3> QED BY <2>4, <3>1
    <2>6. Good(m, g)
      <3> HIDE DEF g
      <3> QED BY <2>4, <2>5 DEF Runs
    <2> HIDE DEF Good
    <2> QED BY <2>6
<1>3. \A m \in 1 .. n : m - 1 \in B => m \in B
    BY <1>2
<1>4. n \in B
    <2> HIDE DEF B
    <2> QED BY <1>1, <1>3, Steps
<1> QED BY <1>4

-----------------------------------------------------------------------------
(* Only: the elements of a set, in their order.                            *)

OnlyBy(f, s, T) ==
    /\ f[0] = <<>>
    /\ \A k \in 1 .. Len(s) : f[k] = IF s[k] \in T THEN Append(f[k - 1], s[k]) ELSE f[k - 1]

LEMMA OnlyRuns ==
    ASSUME NEW X, NEW s \in Seq(X), NEW T
    PROVE  \E f : OnlyBy(f, s, T) /\ Only(s, T) = f[Len(s)]
<1> DEFINE n == Len(s)
           G(f) == f = [k \in 0 .. n |-> IF k = 0 THEN <<>>
                                         ELSE IF s[k] \in T THEN Append(f[k - 1], s[k]) ELSE f[k - 1]]
           st == [k \in 1 .. n |-> [x \in Seq(X) |-> IF s[k] \in T THEN Append(x, s[k]) ELSE x]]
           c == CHOOSE f : G(f)
<1>1. n \in Nat /\ \A k \in 1 .. n : s[k] \in X
    BY ElementOfSeq, LenProperties
<1>2. Only(s, T) = c[n]
    BY DEF Only
<1>3. \A k \in 1 .. n : \A x \in Seq(X) : st[k][x] \in Seq(X)
    BY <1>1, AppendProperties
<1> DEFINE a == <<>>
           S == Seq(X)
<1>4. PICK f : Runs(f, n, a, st, S)
    <2>1. a \in S
      OBVIOUS
    <2>2. \A k \in 1 .. n : \A x \in S : st[k][x] \in S
      BY <1>3
    <2>3. n \in Nat
      BY <1>1
    <2> HIDE DEF st, n, a, S
    <2> QED BY <2>1, <2>2, <2>3, Recursion
<1>5. f = [k \in 0 .. n |-> IF k = 0 THEN a ELSE st[k][f[k - 1]]] /\ \A k \in 0 .. n : f[k] \in S
    BY <1>4 DEF Runs
<1>6. G(f)
    <2>1. ASSUME NEW k \in 0 .. n, k # 0
          PROVE  st[k][f[k - 1]] = IF s[k] \in T THEN Append(f[k - 1], s[k]) ELSE f[k - 1]
      <3>1. k - 1 \in 0 .. n /\ k \in 1 .. n
        BY <1>1, <2>1
      <3> QED BY <1>5, <3>1
    <2> HIDE DEF st, n
    <2> QED BY <1>5, <2>1
<1>7. G(c)
    <2> HIDE DEF G
    <2> QED BY <1>6
<1>8. OnlyBy(c, s, T)
    <2> HIDE DEF c
    <2>1. \A k \in 1 .. n : k \in 0 .. n /\ k # 0
      BY <1>1
    <2>2. 0 \in 0 .. n
      BY <1>1
    <2> HIDE DEF n
    <2>3. c[0] = <<>>
      BY <1>7, <2>2
    <2>4. ASSUME NEW k \in 1 .. n
          PROVE  c[k] = IF s[k] \in T THEN Append(c[k - 1], s[k]) ELSE c[k - 1]
      BY <1>7, <2>1
    <2> QED BY <2>3, <2>4 DEF OnlyBy, n
<1> HIDE DEF c
<1> QED BY <1>2, <1>8

\* Of a list without repetition.
Unrepeated(s) == \A i, j \in 1 .. Len(s) : i # j => s[i] # s[j]

\* r has elements of s[1 .. k], in their order.
Embeds(g, r, s, k) ==
    /\ g \in [1 .. Len(r) -> 1 .. k]
    /\ \A j \in 1 .. Len(r) : r[j] = s[g[j]]
    /\ \A i, j \in 1 .. Len(r) : i < j => g[i] < g[j]

\* They are those in T.
Has(r, y) == \E j \in 1 .. Len(r) : r[j] = y
Picked(r, s, T, k) ==
    /\ \A j \in 1 .. Len(r) : r[j] \in T
    /\ \A i \in 1 .. k : s[i] \in T => Has(r, s[i])
    /\ \E g : Embeds(g, r, s, k)

LEMMA PickNext ==
    ASSUME NEW X, NEW s \in Seq(X), NEW T, NEW k \in 1 .. Len(s), NEW r \in Seq(X), Picked(r, s, T, k - 1)
    PROVE  IF s[k] \in T THEN Append(r, s[k]) \in Seq(X) /\ Picked(Append(r, s[k]), s, T, k)
                          ELSE Picked(r, s, T, k)
<1>1. Len(s) \in Nat /\ s[k] \in X /\ k \in Nat /\ Len(r) \in Nat
    BY ElementOfSeq, LenProperties
<1>2. PICK g : Embeds(g, r, s, k - 1)
    BY DEF Picked
<1>3. CASE s[k] \notin T
    <2>1. \A i \in 1 .. k : i = k \/ i \in 1 .. k - 1
      BY <1>1
    <2>2. Embeds(g, r, s, k)
      BY <1>1, <1>2 DEF Embeds
    <2> QED BY <1>3, <2>1, <2>2 DEF Picked
<1>4. CASE s[k] \in T
    <2> DEFINE n == Len(r)
               q == Append(r, s[k])
               h == [j \in 1 .. n + 1 |-> IF j = n + 1 THEN k ELSE g[j]]
    <2>1. /\ q \in Seq(X) /\ Len(q) = n + 1 /\ q[n + 1] = s[k]
          /\ \A j \in 1 .. n : q[j] = r[j]
      BY <1>1, <1>4, AppendProperties
    <2>2. h \in [1 .. n + 1 -> 1 .. k] /\ h[n + 1] = k
          /\ \A j \in 1 .. n : h[j] = g[j] /\ g[j] \in 1 .. k - 1 /\ j \in 1 .. n + 1
      <3>1. \A j \in 1 .. n : g[j] \in 1 .. k - 1 /\ j \in 1 .. n + 1 /\ j # n + 1
        BY <1>1, <1>2 DEF Embeds
      <3>2. \A j \in 1 .. n + 1 : j = n + 1 \/ j \in 1 .. n
        BY <1>1
      <3>3. n + 1 \in 1 .. n + 1 /\ k \in 1 .. k /\ 1 .. k - 1 \subseteq 1 .. k
        BY <1>1
      <3> HIDE DEF n
      <3> QED BY <3>1, <3>2, <3>3
    <2> HIDE DEF h, q
    <2>3. \A j \in 1 .. n + 1 : j = n + 1 \/ j \in 1 .. n
      BY <1>1
    <2>4. \A j \in 1 .. n + 1 : q[j] \in T /\ q[j] = s[h[j]]
      BY <1>2, <1>4, <2>1, <2>2, <2>3 DEF Picked, Embeds
    <2>5. ASSUME NEW i \in 1 .. n + 1, NEW j \in 1 .. n + 1, i < j PROVE h[i] < h[j]
      <3>1. i \in 1 .. n
        BY <1>1, <2>5
      <3>2. CASE j = n + 1
        BY <1>1, <2>2, <3>1, <3>2
      <3>3. CASE j \in 1 .. n
        BY <1>2, <2>2, <2>5, <3>1, <3>3 DEF Embeds
      <3> QED BY <2>3, <3>2, <3>3
    <2>6. ASSUME NEW i \in 1 .. k, s[i] \in T PROVE Has(q, s[i])
      <3>1. CASE i = k
        <4>1. n + 1 \in 1 .. n + 1
          BY <1>1
        <4> QED BY <2>1, <3>1, <4>1 DEF Has
      <3>2. CASE i # k
        <4>1. i \in 1 .. k - 1
          BY <1>1, <3>2
        <4>2. PICK j \in 1 .. n : r[j] = s[i]
          BY <2>6, <4>1 DEF Picked, Has
        <4> QED BY <2>1, <2>2, <4>2 DEF Has
      <3> QED BY <3>1, <3>2
    <2>7. Embeds(h, q, s, k)
      <3> HIDE DEF n
      <3> QED BY <2>1, <2>2, <2>4, <2>5 DEF Embeds
    <2>8. Picked(q, s, T, k)
      <3> HIDE DEF n
      <3> QED BY <2>1, <2>4, <2>6, <2>7 DEF Picked
    <2> QED BY <1>4, <2>1, <2>8 DEF q
<1> QED BY <1>3, <1>4

LEMMA OnlyPicks ==
    ASSUME NEW X, NEW s \in Seq(X), NEW T
    PROVE  Only(s, T) \in Seq(X) /\ Picked(Only(s, T), s, T, Len(s))
<1>1. PICK f : OnlyBy(f, s, T) /\ Only(s, T) = f[Len(s)]
    BY OnlyRuns
<1>2. Len(s) \in Nat
    BY LenProperties
<1> DEFINE B == {k \in 0 .. Len(s) : f[k] \in Seq(X) /\ Picked(f[k], s, T, k)}
<1>3. 0 \in B
    <2> DEFINE e == <<>>
               g == [j \in 1 .. 0 |-> 0]
    <2>1. f[0] = e /\ e \in Seq(X) /\ Len(e) = 0 /\ g \in [1 .. 0 -> 1 .. 0] /\ 0 \in 0 .. Len(s)
      BY <1>1, <1>2 DEF OnlyBy
    <2>2. \A j \in 1 .. 0 : FALSE
      OBVIOUS
    <2> HIDE DEF e, g
    <2>3. Embeds(g, e, s, 0)
      BY <2>1, <2>2 DEF Embeds
    <2>4. Picked(e, s, T, 0)
      BY <2>1, <2>2, <2>3 DEF Picked
    <2> QED BY <2>1, <2>4
<1>4. ASSUME NEW k \in 1 .. Len(s), k - 1 \in B PROVE k \in B
    <2>1. f[k] = IF s[k] \in T THEN Append(f[k - 1], s[k]) ELSE f[k - 1]
      BY <1>1 DEF OnlyBy
    <2>2. f[k - 1] \in Seq(X) /\ Picked(f[k - 1], s, T, k - 1)
      BY <1>4
    <2>3. f[k] \in Seq(X) /\ Picked(f[k], s, T, k)
      BY <2>1, <2>2, PickNext
    <2> QED BY <1>2, <2>3
<1>5. Len(s) \in B
    <2>1. \A k \in 1 .. Len(s) : k - 1 \in B => k \in B
      BY <1>4
    <2>2. Len(s) \in 0 .. Len(s)
      BY <1>2
    <2> HIDE DEF B
    <2> QED BY <1>2, <1>3, <2>1, <2>2, Steps
<1> QED BY <1>1, <1>5

\* s has the elements of T, in increasing order.
Lists(s, T) ==
    /\ s \in Seq(Nat)
    /\ \A i, j \in 1 .. Len(s) : i < j => s[i] < s[j]
    /\ \A j \in 1 .. Len(s) : s[j] \in T
    /\ \A t \in T : Has(s, t)

LEMMA OnlyLists ==
    ASSUME NEW n \in Nat, NEW T \in SUBSET (1 .. n)
    PROVE  Lists(Only([i \in 1 .. n |-> i], T), T)
<1> DEFINE s == [i \in 1 .. n |-> i]
           r == Only(s, T)
<1>1. s \in Seq(Nat) /\ Len(s) = n /\ \A i \in 1 .. n : s[i] = i
    OBVIOUS
<1> HIDE DEF s
<1>2. r \in Seq(Nat) /\ Picked(r, s, T, n)
    BY <1>1, OnlyPicks
<1> HIDE DEF r
<1>3. PICK g : Embeds(g, r, s, n)
    BY <1>2 DEF Picked
<1>4. Len(r) \in Nat /\ \A j \in 1 .. Len(r) : g[j] \in 1 .. n /\ r[j] = g[j]
    BY <1>1, <1>2, <1>3, LenProperties DEF Embeds
<1>5. \A i, j \in 1 .. Len(r) : i < j => r[i] < r[j]
    BY <1>3, <1>4 DEF Embeds
<1>6. \A t \in T : Has(r, t)
    BY <1>1, <1>2 DEF Picked
<1>7. Lists(r, T)
    BY <1>2, <1>5, <1>6 DEF Lists, Picked
<1> QED BY <1>7 DEF r, s

\* The order of a list in increasing order tells the order of its places.
LEMMA ListsOrder ==
    ASSUME NEW s, NEW T, Lists(s, T)
    PROVE  /\ Len(s) \in Nat /\ DOMAIN s = 1 .. Len(s) /\ \A i \in 1 .. Len(s) : s[i] \in Nat
           /\ \A i, j \in 1 .. Len(s) : s[i] < s[j] => i < j
           /\ \A i, j \in 1 .. Len(s) : s[i] = s[j] => i = j
<1>1. Len(s) \in Nat /\ DOMAIN s = 1 .. Len(s) /\ \A i \in 1 .. Len(s) : s[i] \in Nat
    BY ElementOfSeq, LenProperties DEF Lists
<1>2. ASSUME NEW i \in 1 .. Len(s), NEW j \in 1 .. Len(s)
      PROVE  (s[i] < s[j] => i < j) /\ (s[i] = s[j] => i = j)
    <2>1. i \in Nat /\ j \in Nat /\ s[i] \in Nat /\ s[j] \in Nat
      BY <1>1
    <2>2. (i < j => s[i] < s[j]) /\ (j < i => s[j] < s[i])
      BY DEF Lists
    <2> QED BY <2>1, <2>2
<1> QED BY <1>1, <1>2

\* Of two lists, the elements at k are in the order of those in T.
LEMMA ListsStep ==
    ASSUME NEW r, NEW s, NEW T, Lists(r, T), Lists(s, T), NEW k \in 1 .. Len(r),
           \A j \in 1 .. k - 1 : j \in 1 .. Len(s) => r[j] = s[j]
    PROVE  k \in 1 .. Len(s) /\ s[k] <= r[k]
<1>1. /\ Len(r) \in Nat /\ \A i \in 1 .. Len(r) : r[i] \in Nat
      /\ Len(s) \in Nat /\ \A i \in 1 .. Len(s) : s[i] \in Nat
    BY ListsOrder
<1>2. PICK j \in 1 .. Len(s) : s[j] = r[k]
    BY DEF Lists, Has
<1>3. ~(j < k)
    <2> SUFFICES ASSUME j < k PROVE FALSE
      OBVIOUS
    <2>1. j \in 1 .. k - 1 /\ j \in 1 .. Len(r)
      BY <1>1
    <2>2. r[j] = r[k] /\ j # k
      BY <1>1, <1>2, <2>1
    <2> QED BY <2>1, <2>2, ListsOrder
<1>4. k \in 1 .. Len(s) /\ (k < j \/ k = j)
    BY <1>1, <1>3
<1>5. k < j => s[k] < s[j]
    BY <1>4 DEF Lists
<1> QED BY <1>1, <1>2, <1>4, <1>5

LEMMA ListsUnique ==
    ASSUME NEW r, NEW s, NEW T, Lists(r, T), Lists(s, T)
    PROVE  r = s
<1>1. /\ Len(r) \in Nat /\ \A i \in 1 .. Len(r) : r[i] \in Nat
      /\ Len(s) \in Nat /\ \A i \in 1 .. Len(s) : s[i] \in Nat
    BY ListsOrder
<1> DEFINE B == {k \in 0 .. Len(r) : \A j \in 1 .. k : j \in 1 .. Len(s) /\ r[j] = s[j]}
<1>2. 0 \in B
    BY <1>1
<1>3. ASSUME NEW k \in 1 .. Len(r), k - 1 \in B PROVE k \in B
    <2>1. \A j \in 1 .. k - 1 : j \in 1 .. Len(s) /\ r[j] = s[j]
      BY <1>3
    <2>2. k \in 1 .. Len(s) /\ s[k] <= r[k]
      BY <2>1, ListsStep
    <2>3. r[k] <= s[k]
      BY <2>1, <2>2, ListsStep
    <2>4. r[k] = s[k]
      BY <1>1, <2>2, <2>3
    <2>5. \A j \in 1 .. k : j \in 1 .. k - 1 \/ j = k
      BY <1>1
    <2> QED BY <1>1, <2>1, <2>2, <2>4, <2>5
<1>4. Len(r) \in B
    <2>1. \A k \in 1 .. Len(r) : k - 1 \in B => k \in B
      BY <1>3
    <2>2. Len(r) \in 0 .. Len(r)
      BY <1>1
    <2> HIDE DEF B
    <2> QED BY <1>1, <1>2, <2>1, <2>2, Steps
<1>5. \A j \in 1 .. Len(r) : j \in 1 .. Len(s) /\ r[j] = s[j]
    BY <1>4
<1>6. Len(r) = Len(s)
    <2> SUFFICES ASSUME Len(r) # Len(s) PROVE FALSE
      OBVIOUS
    <2> DEFINE k == Len(r) + 1
    <2>1. k \in 1 .. Len(s) /\ k - 1 = Len(r) /\ k \notin 1 .. Len(r)
      <3>1. Len(r) <= Len(s)
        <4>1. Len(r) = 0 \/ Len(r) \in 1 .. Len(r)
          BY <1>1
        <4> QED BY <1>1, <1>5, <4>1
      <3> QED BY <1>1, <3>1
    <2> HIDE DEF k
    <2>2. \A j \in 1 .. k - 1 : j \in 1 .. Len(r) => s[j] = r[j]
      BY <1>5
    <2>3. k \in 1 .. Len(r)
      BY <2>1, <2>2, ListsStep
    <2> QED BY <2>1, <2>3
<1>7. r \in Seq(Nat) /\ s \in Seq(Nat)
    BY DEF Lists
<1> QED BY <1>5, <1>6, <1>7, SeqEqual

-----------------------------------------------------------------------------
(* Rows that are swapped, and the sort.                                    *)

\* q is r with the rows of w swapped.
Swaps(q, r, w, n) ==
    /\ q[w[1]] = r[w[2]] /\ q[w[2]] = r[w[1]]
    /\ \A i \in 1 .. n : i # w[1] /\ i # w[2] => q[i] = r[i]

LEMMA SwapMoves ==
    ASSUME NEW n \in Nat, NEW Y, NEW r \in [1 .. n -> Y], NEW w \in (1 .. n) \X (1 .. n)
    PROVE  Swapped(r, w) \in [1 .. n -> Y] /\ Swaps(Swapped(r, w), r, w, n)
BY DEF Swapped, Swaps

ReorderedBy(f, rows, swaps, S) ==
    /\ f[0] = rows
    /\ \A k \in 1 .. Len(swaps) : f[k] = Swapped(f[k - 1], swaps[k])
    /\ \A k \in 0 .. Len(swaps) : f[k] \in S
    /\ Reordered(rows, swaps) = f[Len(swaps)]

LEMMA ReorderRuns ==
    ASSUME NEW n \in Nat, NEW Y, NEW rows \in [1 .. n -> Y], NEW swaps \in Seq((1 .. n) \X (1 .. n))
    PROVE  \E f : ReorderedBy(f, rows, swaps, [1 .. n -> Y])
<1> DEFINE m == Len(swaps)
           G(f) == f = [k \in 0 .. m |-> IF k = 0 THEN rows ELSE Swapped(f[k - 1], swaps[k])]
           X == [1 .. n -> Y]
           st == [k \in 1 .. m |-> [x \in X |-> Swapped(x, swaps[k])]]
           c == CHOOSE f : G(f)
<1>1. m \in Nat /\ \A k \in 1 .. m : swaps[k] \in (1 .. n) \X (1 .. n)
    BY ElementOfSeq, LenProperties
<1>2. Reordered(rows, swaps) = c[m]
    BY DEF Reordered
<1>3. \A k \in 1 .. m : \A x \in X : Swapped(x, swaps[k]) \in X
    BY <1>1, SwapMoves
<1>4. PICK f : Runs(f, m, rows, st, X)
    <2>1. \A k \in 1 .. m : \A x \in X : st[k][x] \in X
      BY <1>3
    <2> HIDE DEF st, m, X
    <2> QED BY <1>1, <2>1, Recursion DEF X
<1>5. f = [k \in 0 .. m |-> IF k = 0 THEN rows ELSE st[k][f[k - 1]]] /\ \A k \in 0 .. m : f[k] \in X
    BY <1>4 DEF Runs
<1>6. G(f)
    <2>1. ASSUME NEW k \in 0 .. m, k # 0 PROVE st[k][f[k - 1]] = Swapped(f[k - 1], swaps[k])
      <3>1. k - 1 \in 0 .. m /\ k \in 1 .. m
        BY <1>1, <2>1
      <3>2. f[k - 1] \in X
        BY <1>5, <3>1
      <3> HIDE DEF X
      <3> QED BY <3>1, <3>2
    <2> HIDE DEF st, m
    <2> QED BY <1>5, <2>1
<1>7. G(c)
    <2> HIDE DEF G
    <2> QED BY <1>6
<1> HIDE DEF c
<1>8. c[0] = rows /\ \A k \in 1 .. m : c[k] = Swapped(c[k - 1], swaps[k])
    <2>1. \A k \in 1 .. m : k \in 0 .. m /\ k # 0
      BY <1>1
    <2>2. 0 \in 0 .. m
      BY <1>1
    <2> HIDE DEF m
    <2> QED BY <1>7, <2>1, <2>2
<1>9. \A k \in 0 .. m : c[k] \in X
    <2> DEFINE B == {k \in 0 .. m : c[k] \in X}
    <2>1. 0 \in B
      BY <1>1, <1>8
    <2>2. \A k \in 1 .. m : k - 1 \in B => k \in B
      <3> HIDE DEF X
      <3>1. \A k \in 1 .. m : k \in 0 .. m
        BY <1>1
      <3> QED BY <1>3, <1>8, <3>1
    <2>3. \A k \in 0 .. m : k \in B
      <3> HIDE DEF B
      <3> QED BY <1>1, <2>1, <2>2, Steps
    <2> QED BY <2>3
<1>10. ReorderedBy(c, rows, swaps, X)
    <2> HIDE DEF X
    <2> QED BY <1>2, <1>8, <1>9 DEF ReorderedBy
<1> QED BY <1>10

LEMMA ReorderNone ==
    ASSUME NEW n \in Nat, NEW Y, NEW rows \in [1 .. n -> Y]
    PROVE  Reordered(rows, <<>>) = rows
<1> DEFINE e == <<>>
<1>1. e \in Seq((1 .. n) \X (1 .. n)) /\ Len(e) = 0
    OBVIOUS
<1> HIDE DEF e
<1>2. PICK f : ReorderedBy(f, rows, e, [1 .. n -> Y])
    BY <1>1, ReorderRuns
<1>3. Reordered(rows, e) = rows
    BY <1>1, <1>2 DEF ReorderedBy
<1> QED BY <1>3 DEF e

\* One more swap is made after the others.
LEMMA ReorderNext ==
    ASSUME NEW n \in Nat, NEW Y, NEW rows \in [1 .. n -> Y], NEW swaps \in Seq((1 .. n) \X (1 .. n)),
           NEW w \in (1 .. n) \X (1 .. n)
    PROVE  Reordered(rows, Append(swaps, w)) = Swapped(Reordered(rows, swaps), w)
<1> DEFINE q == Append(swaps, w)
           m == Len(swaps)
<1>1. m \in Nat /\ q \in Seq((1 .. n) \X (1 .. n)) /\ Len(q) = m + 1 /\ q[m + 1] = w /\ \A k \in 1 .. m : q[k] = swaps[k]
    BY LenProperties, AppendProperties
<1> HIDE DEF q
<1>2. PICK f : ReorderedBy(f, rows, swaps, [1 .. n -> Y])
    BY ReorderRuns
<1>3. PICK g : ReorderedBy(g, rows, q, [1 .. n -> Y])
    BY <1>1, ReorderRuns
<1> DEFINE B == {k \in 0 .. m : g[k] = f[k]}
<1>4. 0 \in B
    BY <1>1, <1>2, <1>3 DEF ReorderedBy
<1>5. ASSUME NEW k \in 1 .. m, k - 1 \in B PROVE k \in B
    <2>1. k \in 1 .. Len(q) /\ k \in 0 .. m
      BY <1>1
    <2>2. g[k] = Swapped(g[k - 1], q[k]) /\ f[k] = Swapped(f[k - 1], swaps[k])
      BY <1>2, <1>3, <2>1 DEF ReorderedBy
    <2> QED BY <1>1, <1>5, <2>1, <2>2
<1>6. g[m] = f[m]
    <2>1. \A k \in 1 .. m : k - 1 \in B => k \in B
      BY <1>5
    <2>2. m \in 0 .. m
      BY <1>1
    <2>3. m \in B
      <3> HIDE DEF B, m
      <3> QED BY <1>1, <1>4, <2>1, <2>2, Steps
    <2> QED BY <2>3
<1>7. m + 1 \in 1 .. Len(q) /\ (m + 1) - 1 = m
    BY <1>1
<1>8. g[m + 1] = Swapped(g[m], w)
    BY <1>1, <1>3, <1>7 DEF ReorderedBy
<1>9. Reordered(rows, q) = Swapped(Reordered(rows, swaps), w)
    BY <1>1, <1>2, <1>3, <1>6, <1>8 DEF ReorderedBy
<1> QED BY <1>9 DEF q

\* What the sort swaps at i.
SortStep(x, i, n) ==
    LET j == CHOOSE k \in i .. n : \A l \in i .. n : x.ids[k] <= x.ids[l]
    IN  IF j = i THEN x ELSE [ids |-> Swapped(x.ids, <<i, j>>), swaps |-> Append(x.swaps, <<i, j>>)]

Sortable(n) == [ids : [1 .. n -> Nat], swaps : Seq((1 .. n) \X (1 .. n))]

\* The step finds the least entry and swaps.
SortsAt(x, y, i, j, n) ==
    /\ j \in i .. n /\ \A l \in i .. n : x.ids[j] <= x.ids[l]
    /\ IF j = i THEN y = x
       ELSE y = [ids |-> Swapped(x.ids, <<i, j>>), swaps |-> Append(x.swaps, <<i, j>>)]
    /\ y \in Sortable(n)

LEMMA SortStepFinds ==
    ASSUME NEW n \in Nat, NEW x \in Sortable(n), NEW i \in 1 .. n
    PROVE  \E j : SortsAt(x, SortStep(x, i, n), i, j, n)
<1> DEFINE V == {x.ids[l] : l \in i .. n}
           j == CHOOSE k \in i .. n : \A l \in i .. n : x.ids[k] <= x.ids[l]
           y == SortStep(x, i, n)
<1>1. x.ids \in [1 .. n -> Nat] /\ x.swaps \in Seq((1 .. n) \X (1 .. n))
    BY DEF Sortable
<1>2. i \in i .. n /\ i .. n \subseteq 1 .. n
    OBVIOUS
<1>3. V \in SUBSET Nat /\ V # {}
    BY <1>1, <1>2
<1>4. \E k \in i .. n : \A l \in i .. n : x.ids[k] <= x.ids[l]
    <2>1. Min(V) \in V /\ \A v \in V : Min(V) <= v
      <3> HIDE DEF V
      <3> QED BY <1>3, MinExists
    <2>2. PICK k \in i .. n : x.ids[k] = Min(V)
      BY <2>1
    <2>3. \A l \in i .. n : x.ids[l] \in V
      OBVIOUS
    <2> HIDE DEF V
    <2> QED BY <2>1, <2>2, <2>3
<1>5. j \in i .. n /\ \A l \in i .. n : x.ids[j] <= x.ids[l]
    BY <1>4
<1>6. y = IF j = i THEN x ELSE [ids |-> Swapped(x.ids, <<i, j>>), swaps |-> Append(x.swaps, <<i, j>>)]
    BY DEF SortStep
<1> HIDE DEF j, y
<1>7. y \in Sortable(n)
    <2>1. CASE j = i
      BY <1>6, <2>1
    <2>2. CASE j # i
      <3> DEFINE w == <<i, j>>
      <3>1. w \in (1 .. n) \X (1 .. n)
        BY <1>2, <1>5
      <3>2. y = [ids |-> Swapped(x.ids, w), swaps |-> Append(x.swaps, w)]
        BY <1>6, <2>2
      <3> HIDE DEF w
      <3>3. Swapped(x.ids, w) \in [1 .. n -> Nat] /\ Append(x.swaps, w) \in Seq((1 .. n) \X (1 .. n))
        BY <1>1, <3>1, SwapMoves, AppendProperties
      <3> QED BY <3>2, <3>3 DEF Sortable
    <2> QED BY <2>1, <2>2
<1>8. SortsAt(x, y, i, j, n)
    BY <1>5, <1>6, <1>7 DEF SortsAt
<1> QED BY <1>8 DEF y

SortedBy(f, ids, n) ==
    /\ f[0] = [ids |-> ids, swaps |-> <<>>]
    /\ \A k \in 1 .. n : f[k] = SortStep(f[k - 1], k, n)
    /\ Sorted(ids) = f[n]

LEMMA SortRuns ==
    ASSUME NEW n \in Nat, NEW ids \in Seq(Nat), Len(ids) = n
    PROVE  [ids |-> ids, swaps |-> <<>>] \in Sortable(n) /\ \E f : SortedBy(f, ids, n)
<1> DEFINE a == [ids |-> ids, swaps |-> <<>>]
           G(f) == f = [k \in 0 .. n |-> IF k = 0 THEN a ELSE SortStep(f[k - 1], k, n)]
           X == Sortable(n)
           st == [k \in 1 .. n |-> [x \in X |-> SortStep(x, k, n)]]
           c == CHOOSE f : G(f)
<1>1. a \in X
    <2>1. ids \in [1 .. n -> Nat] /\ <<>> \in Seq((1 .. n) \X (1 .. n))
      BY LenProperties, ElementOfSeq
    <2> QED BY <2>1 DEF Sortable
<1>2. Sorted(ids) = c[n]
    BY DEF Sorted, SortStep
<1>3. \A k \in 1 .. n : \A x \in X : SortStep(x, k, n) \in X
    BY SortStepFinds DEF SortsAt
<1>4. PICK f : Runs(f, n, a, st, X)
    <2>1. \A k \in 1 .. n : \A x \in X : st[k][x] \in X
      BY <1>3
    <2> HIDE DEF st, a, X
    <2> QED BY <1>1, <2>1, Recursion
<1>5. f = [k \in 0 .. n |-> IF k = 0 THEN a ELSE st[k][f[k - 1]]] /\ \A k \in 0 .. n : f[k] \in X
    BY <1>4 DEF Runs
<1>6. G(f)
    <2>1. ASSUME NEW k \in 0 .. n, k # 0 PROVE st[k][f[k - 1]] = SortStep(f[k - 1], k, n)
      <3>1. k - 1 \in 0 .. n /\ k \in 1 .. n
        BY <2>1
      <3>2. f[k - 1] \in X
        BY <1>5, <3>1
      <3> HIDE DEF X
      <3> QED BY <3>1, <3>2
    <2> HIDE DEF st, a
    <2> QED BY <1>5, <2>1
<1>7. G(c)
    <2> HIDE DEF G
    <2> QED BY <1>6
<1> HIDE DEF c
<1>8. c[0] = a /\ \A k \in 1 .. n : c[k] = SortStep(c[k - 1], k, n)
    <2>1. \A k \in 1 .. n : k \in 0 .. n /\ k # 0
      OBVIOUS
    <2>2. 0 \in 0 .. n
      OBVIOUS
    <2> HIDE DEF a
    <2> QED BY <1>7, <2>1, <2>2
<1>9. SortedBy(c, ids, n)
    <2> HIDE DEF a
    <2>1. c[0] = a
      BY <1>8
    <2> QED BY <1>2, <1>8, <2>1 DEF SortedBy, a
<1> QED BY <1>1, <1>9

\* The first k entries are in their places.
Sorting(x, ids, n, k) ==
    /\ x \in Sortable(n)
    /\ Reordered(ids, x.swaps) = x.ids
    /\ \A i, j \in 1 .. n : i # j => x.ids[i] # x.ids[j]
    /\ \A i \in 1 .. n : \E j \in 1 .. n : x.ids[i] = ids[j]
    /\ \A i \in 1 .. n : \E j \in 1 .. n : ids[i] = x.ids[j]
    /\ \A i \in 1 .. k, j \in 1 .. n : i < j => x.ids[i] < x.ids[j]

LEMMA SortingNext ==
    ASSUME NEW n \in Nat, NEW ids \in [1 .. n -> Nat], NEW k \in 1 .. n, NEW x, Sorting(x, ids, n, k - 1)
    PROVE  Sorting(SortStep(x, k, n), ids, n, k)
<1> DEFINE y == SortStep(x, k, n)
<1>1. x \in Sortable(n) /\ x.ids \in [1 .. n -> Nat] /\ x.swaps \in Seq((1 .. n) \X (1 .. n))
    BY DEF Sorting, Sortable
<1>2. PICK j : SortsAt(x, y, k, j, n)
    BY <1>1, SortStepFinds
<1> HIDE DEF y
<1>3. j \in k .. n /\ j \in 1 .. n /\ y \in Sortable(n) /\ \A l \in k .. n : x.ids[j] <= x.ids[l]
    BY <1>2 DEF SortsAt
<1>4. \A i \in 1 .. k : i = k \/ i \in 1 .. k - 1
    OBVIOUS
<1>5. \A l \in 1 .. n : l # j /\ k <= l => x.ids[j] < x.ids[l]
    <2>1. ASSUME NEW l \in 1 .. n, l # j, k <= l PROVE x.ids[j] < x.ids[l]
      <3>1. x.ids[j] <= x.ids[l] /\ x.ids[j] # x.ids[l] /\ x.ids[j] \in Nat /\ x.ids[l] \in Nat
        <4>1. l \in k .. n
          BY <2>1
        <4> QED BY <1>1, <1>3, <2>1, <4>1 DEF Sorting
      <3> QED BY <3>1
    <2> QED BY <2>1
<1>6. CASE j = k
    <2>1. y = x
      BY <1>2, <1>6 DEF SortsAt
    <2>2. ASSUME NEW i \in 1 .. k, NEW l \in 1 .. n, i < l PROVE x.ids[i] < x.ids[l]
      <3>1. CASE i = k
        <4>1. l # j /\ k <= l
          BY <1>6, <2>2, <3>1
        <4> QED BY <1>5, <1>6, <3>1, <4>1
      <3>2. CASE i \in 1 .. k - 1
        BY <2>2, <3>2 DEF Sorting
      <3> QED BY <1>4, <3>1, <3>2
    <2>3. Sorting(x, ids, n, k)
      BY <2>2 DEF Sorting
    <2> QED BY <2>1, <2>3 DEF y
<1>7. CASE j # k
    <2> DEFINE w == <<k, j>>
    <2>1. w \in (1 .. n) \X (1 .. n) /\ w[1] = k /\ w[2] = j
      BY <1>3
    <2>2. y.ids = Swapped(x.ids, w) /\ y.swaps = Append(x.swaps, w)
      BY <1>2, <1>7 DEF SortsAt
    <2> HIDE DEF w
    <2>3. /\ y.ids \in [1 .. n -> Nat] /\ y.ids[k] = x.ids[j] /\ y.ids[j] = x.ids[k]
          /\ \A i \in 1 .. n : i # k /\ i # j => y.ids[i] = x.ids[i]
      <3> DEFINE r == x.ids
                 N == Nat
      <3>1. r \in [1 .. n -> N]
        BY <1>1
      <3> HIDE DEF r, N
      <3>2. Swapped(r, w) \in [1 .. n -> N] /\ Swaps(Swapped(r, w), r, w, n)
        <4>1. w \in (1 .. n) \X (1 .. n)
          BY <2>1
        <4> QED BY <3>1, <4>1, SwapMoves
      <3>3. y.ids = Swapped(r, w) /\ r = x.ids
        BY <2>2 DEF r
      <3> QED BY <2>1, <3>2, <3>3 DEF N, Swaps
    <2>4. Reordered(ids, y.swaps) = y.ids
      <3>1. Reordered(ids, y.swaps) = Swapped(Reordered(ids, x.swaps), w)
        <4> DEFINE s == x.swaps
        <4>1. s \in Seq((1 .. n) \X (1 .. n))
          BY <1>1
        <4> HIDE DEF s
        <4>2. Reordered(ids, Append(s, w)) = Swapped(Reordered(ids, s), w)
          BY <2>1, <4>1, ReorderNext
        <4> QED BY <2>2, <4>2 DEF s
      <3> QED BY <2>2, <3>1 DEF Sorting
    <2>5. ASSUME NEW i \in 1 .. n, NEW l \in 1 .. n, i # l PROVE y.ids[i] # y.ids[l]
      <3> DEFINE t == [u \in 1 .. n |-> IF u = k THEN j ELSE IF u = j THEN k ELSE u]
      <3>1. t[i] \in 1 .. n /\ t[l] \in 1 .. n /\ t[i] # t[l]
        BY <1>3, <2>5
      <3>2. y.ids[i] = x.ids[t[i]] /\ y.ids[l] = x.ids[t[l]]
        BY <1>3, <2>3
      <3>3. \A a, b \in 1 .. n : a # b => x.ids[a] # x.ids[b]
        BY DEF Sorting
      <3> HIDE DEF t
      <3> QED BY <3>1, <3>2, <3>3
    <2>6. ASSUME NEW i \in 1 .. n PROVE \E l \in 1 .. n : y.ids[i] = ids[l]
      <3>1. \E l \in 1 .. n : y.ids[i] = x.ids[l]
        BY <1>3, <2>3
      <3> QED BY <3>1 DEF Sorting
    <2>7. ASSUME NEW i \in 1 .. n PROVE \E l \in 1 .. n : ids[i] = y.ids[l]
      <3>1. PICK l \in 1 .. n : ids[i] = x.ids[l]
        BY DEF Sorting
      <3> QED BY <1>3, <2>3, <3>1
    <2>8. ASSUME NEW i \in 1 .. k, NEW l \in 1 .. n, i < l PROVE y.ids[i] < y.ids[l]
      <3>1. CASE i = k
        <4>1. CASE l = j
          BY <1>3, <1>5, <1>7, <2>3, <3>1, <4>1
        <4>2. CASE l # j
          <5>1. k <= l /\ l # k
            BY <2>8, <3>1
          <5>2. y.ids[l] = x.ids[l]
            BY <2>3, <4>2, <5>1
          <5> QED BY <1>5, <2>3, <3>1, <4>2, <5>1, <5>2
        <4> QED BY <4>1, <4>2
      <3>2. CASE i \in 1 .. k - 1
        <4>1. i \in 1 .. n /\ i # k /\ i # j /\ i < k /\ i < j
          BY <1>3, <3>2
        <4>2. y.ids[i] = x.ids[i] /\ \A u \in 1 .. n : i < u => x.ids[i] < x.ids[u]
          BY <2>3, <3>2, <4>1 DEF Sorting
        <4> QED BY <1>3, <2>3, <2>8, <4>1, <4>2
      <3> QED BY <1>4, <3>1, <3>2
    <2>9. Sorting(y, ids, n, k)
      BY <1>3, <2>4, <2>5, <2>6, <2>7, <2>8 DEF Sorting
    <2> QED BY <2>9 DEF y
<1> QED BY <1>6, <1>7

\* The sort puts a list without repetition in increasing order, and notes how.
LEMMA SortSorts ==
    ASSUME NEW ids \in Seq(Nat), NEW T, Unrepeated(ids),
           \A i \in 1 .. Len(ids) : ids[i] \in T, \A t \in T : Has(ids, t)
    PROVE  /\ Lists(Sorted(ids).ids, T) /\ Len(Sorted(ids).ids) = Len(ids)
           /\ Sorted(ids).swaps \in Seq((1 .. Len(ids)) \X (1 .. Len(ids)))
           /\ Reordered(ids, Sorted(ids).swaps) = Sorted(ids).ids
<1> DEFINE n == Len(ids)
<1>1. n \in Nat /\ ids \in [1 .. n -> Nat]
    BY LenProperties, ElementOfSeq
<1>2. PICK f : SortedBy(f, ids, n)
    BY <1>1, SortRuns
<1> DEFINE B == {k \in 0 .. n : Sorting(f[k], ids, n, k)}
<1>3. 0 \in B
    <2>1. f[0] \in Sortable(n) /\ f[0].ids = ids /\ f[0].swaps = <<>>
      BY <1>1, <1>2, SortRuns DEF SortedBy
    <2>2. Reordered(ids, <<>>) = ids
      BY <1>1, ReorderNone
    <2>3. \A i, j \in 1 .. n : i # j => ids[i] # ids[j]
      BY DEF Unrepeated
    <2>4. Reordered(ids, f[0].swaps) = f[0].ids
      BY <2>1, <2>2
    <2> HIDE DEF n
    <2>5. \A i \in 1 .. 0 : FALSE
      OBVIOUS
    <2>6. Sorting(f[0], ids, n, 0)
      BY <2>1, <2>3, <2>4, <2>5 DEF Sorting
    <2> QED BY <1>1, <2>6
<1>4. ASSUME NEW k \in 1 .. n, k - 1 \in B PROVE k \in B
    <2>1. f[k] = SortStep(f[k - 1], k, n)
      BY <1>2 DEF SortedBy
    <2>2. Sorting(f[k - 1], ids, n, k - 1)
      BY <1>4
    <2>3. Sorting(f[k], ids, n, k)
      BY <1>1, <2>1, <2>2, SortingNext
    <2> QED BY <1>1, <2>3
<1>5. Sorting(Sorted(ids), ids, n, n)
    <2>1. \A k \in 1 .. n : k - 1 \in B => k \in B
      BY <1>4
    <2>2. n \in 0 .. n
      BY <1>1
    <2>3. n \in B
      <3> HIDE DEF B, n
      <3> QED BY <1>1, <1>3, <2>1, <2>2, Steps
    <2> QED BY <1>2, <2>3 DEF SortedBy
<1> DEFINE r == Sorted(ids)
<1> HIDE DEF r
<1>6. /\ r.ids \in [1 .. n -> Nat] /\ r.swaps \in Seq((1 .. n) \X (1 .. n))
      /\ Reordered(ids, r.swaps) = r.ids
    BY <1>5 DEF Sorting, Sortable, r
<1>7. r.ids \in Seq(Nat) /\ Len(r.ids) = n
    <2> HIDE DEF n
    <2> QED BY <1>1, <1>6, FunctionSeq
<1>8. Lists(r.ids, T)
    <2>1. \A i, j \in 1 .. n : i < j => r.ids[i] < r.ids[j]
      BY <1>5 DEF Sorting, r
    <2>2. \A j \in 1 .. n : r.ids[j] \in T
      BY <1>5 DEF Sorting, r
    <2>3. ASSUME NEW t \in T PROVE Has(r.ids, t)
      <3>1. PICK i \in 1 .. n : ids[i] = t
        BY DEF Has
      <3>2. PICK j \in 1 .. n : ids[i] = r.ids[j]
        BY <1>5, <3>1 DEF Sorting, r
      <3> QED BY <1>7, <3>1, <3>2 DEF Has
    <2> QED BY <1>7, <2>1, <2>2, <2>3 DEF Lists
<1> QED BY <1>6, <1>7, <1>8 DEF r

-----------------------------------------------------------------------------
(* Batches, and what a split has to be.                                    *)

Token   == [ids : Seq(SeqId), pos : Nat, out : BOOLEAN]
Batches == {b \in Seq(Token) : \A i \in 1 .. Len(b) : b[i].ids # <<>>}

LEMMA BatchParts ==
    ASSUME NEW b \in Batches
    PROVE  /\ Len(b) \in Nat /\ DOMAIN b = 1 .. Len(b)
           /\ \A i \in 1 .. Len(b) : /\ b[i].ids \in Seq(SeqId) /\ b[i].pos \in Nat /\ b[i].out \in BOOLEAN
                                     /\ Len(b[i].ids) \in Nat /\ 1 \in 1 .. Len(b[i].ids)
                                     /\ b[i].ids[1] \in Seqs(b, i) /\ Seqs(b, i) \subseteq SeqId
<1>1. b \in Seq(Token) /\ Len(b) \in Nat /\ DOMAIN b = 1 .. Len(b)
    BY LenProperties DEF Batches
<1>2. ASSUME NEW i \in 1 .. Len(b)
      PROVE  /\ b[i].ids \in Seq(SeqId) /\ b[i].pos \in Nat /\ b[i].out \in BOOLEAN
             /\ Len(b[i].ids) \in Nat /\ 1 \in 1 .. Len(b[i].ids)
             /\ b[i].ids[1] \in Seqs(b, i) /\ Seqs(b, i) \subseteq SeqId
    <2>1. b[i] \in Token
      BY <1>1, ElementOfSeq
    <2>2. b[i].ids \in Seq(SeqId) /\ b[i].pos \in Nat /\ b[i].out \in BOOLEAN
      BY <2>1 DEF Token
    <2> DEFINE d == b[i].ids
    <2>3. d # <<>> /\ d \in Seq(SeqId)
      BY <2>2 DEF Batches
    <2> HIDE DEF d
    <2>4. Len(d) \in Nat \ {0} /\ DOMAIN d = 1 .. Len(d) /\ \A j \in 1 .. Len(d) : d[j] \in SeqId
      BY <2>3, EmptySeq, LenProperties, ElementOfSeq
    <2>5. Range(d) \subseteq SeqId /\ 1 \in DOMAIN d /\ d[1] \in Range(d)
      BY <2>4 DEF Range
    <2> QED BY <2>2, <2>4, <2>5 DEF Seqs, d
<1> QED BY <1>1, <1>2

Marks == /\ batch \in Batches
         /\ used \in [DOMAIN batch -> BOOLEAN]
         /\ config.nUbatch \in Nat /\ config.nUbatch > 0

LEMMA MarksParts ==
    ASSUME Marks
    PROVE  /\ Len(batch) \in Nat /\ DOMAIN batch = 1 .. Len(batch)
           /\ \A i \in 1 .. Len(batch) : used[i] \in BOOLEAN
BY BatchParts DEF Marks

Ubatch == [idxs : Seq(Nat), nSeqs : Nat, equal : BOOLEAN]

\* The tokens of u are unused, and u has them once.
Fresh(u) ==
    /\ u \in Ubatch
    /\ Unrepeated(u.idxs)
    /\ \A x \in 1 .. Len(u.idxs) : u.idxs[x] \in 1 .. Len(batch) /\ ~used[u.idxs[x]]

Shares(b, i, j) == Seqs(b, i) \cap Seqs(b, j) # {}

\* Unused tokens that share a sequence with one of u come before it.
Behind(u, x, j) == \E y \in 1 .. Len(u.idxs) : y < x /\ u.idxs[y] = j
Ordered(u) ==
    \A x \in 1 .. Len(u.idxs), j \in 1 .. Len(batch) :
      j < u.idxs[x] /\ Shares(batch, j, u.idxs[x]) /\ ~used[j] => Behind(u, x, j)

\* As in UbatchesWellFormed.
WellFormed(u, b, most) ==
    /\ Len(u.idxs) <= most
    /\ u.equal =>
         LET k == Len(u.idxs) \div u.nSeqs
             Set(i) == (i - 1) \div k
         IN  /\ k * u.nSeqs = Len(u.idxs)
             /\ \A i, j \in DOMAIN u.idxs :
                  IF Set(i) = Set(j) THEN Seqs(b, u.idxs[i]) = Seqs(b, u.idxs[j])
                  ELSE Seqs(b, u.idxs[i]) \cap Seqs(b, u.idxs[j]) = {}

\* blk tells the block of a place.
BlocksOf(u, k, blk) ==
    /\ Len(u.idxs) \div u.nSeqs = k /\ k * u.nSeqs = Len(u.idxs)
    /\ \A i \in DOMAIN u.idxs : (i - 1) \div k = blk[i]
SetsOf(u, b, blk) ==
    \A i, j \in DOMAIN u.idxs :
       /\ blk[i] = blk[j] => Seqs(b, u.idxs[i]) = Seqs(b, u.idxs[j])
       /\ blk[i] # blk[j] => Seqs(b, u.idxs[i]) \cap Seqs(b, u.idxs[j]) = {}

LEMMA BlocksWellFormed ==
    ASSUME NEW u, NEW b, NEW most, NEW k, NEW blk,
           Len(u.idxs) <= most, BlocksOf(u, k, blk), SetsOf(u, b, blk)
    PROVE  WellFormed(u, b, most)
<1> DEFINE Set(i) == (i - 1) \div k
<1>1. \A i \in DOMAIN u.idxs : Set(i) = blk[i]
    BY DEF BlocksOf
<1> HIDE DEF Set
<1>2. \A i, j \in DOMAIN u.idxs :
        IF Set(i) = Set(j) THEN Seqs(b, u.idxs[i]) = Seqs(b, u.idxs[j])
        ELSE Seqs(b, u.idxs[i]) \cap Seqs(b, u.idxs[j]) = {}
    BY <1>1 DEF SetsOf
<1>3. Len(u.idxs) \div u.nSeqs = k /\ k * u.nSeqs = Len(u.idxs)
    BY DEF BlocksOf
<1> QED BY <1>2, <1>3 DEF WellFormed, Set

LEMMA InOrderLists ==
    ASSUME Marks, NEW T \in SUBSET (1 .. Len(batch))
    PROVE  Lists(InOrder(T), T)
BY MarksParts, OnlyLists DEF InOrder

-----------------------------------------------------------------------------
(* split_simple().                                                         *)

LEMMA SimpleSplit ==
    ASSUME Marks
    PROVE  Fresh(SplitSimple) /\ Ordered(SplitSimple) /\ WellFormed(SplitSimple, batch, config.nUbatch)
<1> DEFINE U == {i \in DOMAIN batch : ~used[i]}
           s == InOrder(U)
           K == {config.nUbatch, Len(s)}
           k == Min(K)
           q == SubSeq(s, 1, k)
           u == SplitSimple
<1>1. U \in SUBSET (1 .. Len(batch)) /\ \A i \in 1 .. Len(batch) : i \in U <=> ~used[i]
    BY MarksParts
<1>2. Lists(s, U)
    <2> HIDE DEF U
    <2> QED BY <1>1, InOrderLists
<1> HIDE DEF s
<1>3. Len(s) \in Nat /\ s \in Seq(Nat) /\ \A x \in 1 .. Len(s) : s[x] \in U
    BY <1>2, ListsOrder DEF Lists
<1>4. k \in Nat /\ k <= config.nUbatch /\ k <= Len(s)
    <2>1. K \in SUBSET Nat /\ K # {}
      BY <1>3 DEF Marks
    <2>2. k \in K /\ \A y \in K : k <= y
      <3> HIDE DEF K
      <3> QED BY <2>1, MinExists
    <2> QED BY <2>1, <2>2
<1> HIDE DEF k
<1>5. q \in Seq(Nat) /\ Len(q) = k /\ \A x \in 1 .. k : q[x] = s[x]
    <2>1. \A x \in 1 .. k : s[x] \in Nat
      BY <1>3, <1>4, ElementOfSeq
    <2> QED BY <1>3, <1>4, <2>1, SubSeqProperties
<1> HIDE DEF q
<1>6. u = [idxs |-> q, nSeqs |-> k, equal |-> FALSE]
    BY DEF SplitSimple, Tokens, q, k, s
<1> HIDE DEF u
<1>7. \A x \in 1 .. k : x \in 1 .. Len(s) /\ q[x] \in U
    <2>1. \A x \in 1 .. k : x \in 1 .. Len(s)
      BY <1>3, <1>4
    <2> HIDE DEF U
    <2> QED BY <1>3, <1>5, <2>1
<1>8. Fresh(u)
    <2>1. Unrepeated(q)
      BY <1>2, <1>5, <1>7, ListsOrder DEF Unrepeated
    <2> HIDE DEF U
    <2> QED BY <1>1, <1>4, <1>5, <1>6, <1>7, <2>1 DEF Fresh, Ubatch
<1>9. Ordered(u)
    <2>1. ASSUME NEW x \in 1 .. k, NEW j \in 1 .. Len(batch), j < q[x], ~used[j]
          PROVE  \E y \in 1 .. k : y < x /\ q[y] = j
      <3>1. PICK y \in 1 .. Len(s) : s[y] = j
        BY <1>1, <1>2, <2>1 DEF Lists, Has
      <3>2. y < x
        BY <1>2, <1>5, <1>7, <2>1, <3>1, ListsOrder
      <3>3. y \in 1 .. k
        BY <1>3, <1>4, <3>1, <3>2
      <3> QED BY <1>5, <3>1, <3>2, <3>3
    <2> QED BY <1>5, <1>6, <2>1 DEF Ordered, Behind
<1>10. WellFormed(u, batch, config.nUbatch)
    BY <1>4, <1>5, <1>6 DEF WellFormed
<1> QED BY <1>8, <1>9, <1>10 DEF u

-----------------------------------------------------------------------------
(* split_seq().                                                            *)

Singles(b) == \A i \in DOMAIN b : Len(b[i].ids) = 1

LEMMA SingleSets ==
    ASSUME NEW b \in Batches, Singles(b), NEW i \in 1 .. Len(b), NEW j \in 1 .. Len(b)
    PROVE  /\ Shares(b, i, j) <=> Seqs(b, i) = Seqs(b, j)
           /\ Seqs(b, i) \subseteq Seqs(b, j) <=> Seqs(b, i) = Seqs(b, j)
<1>1. ASSUME NEW k \in 1 .. Len(b) PROVE Seqs(b, k) = {b[k].ids[1]}
    <2>1. b[k].ids \in Seq(SeqId) /\ Len(b[k].ids) = 1
      BY BatchParts DEF Singles
    <2>2. DOMAIN b[k].ids = 1 .. 1
      BY <2>1, LenProperties
    <2>3. 1 .. 1 = {1}
      OBVIOUS
    <2> QED BY <2>2, <2>3 DEF Seqs, Range
<1>2. Seqs(b, i) = {b[i].ids[1]} /\ Seqs(b, j) = {b[j].ids[1]}
    BY <1>1
<1> QED BY <1>2 DEF Shares

MayFollow(x, i) ==
    /\ ~used[i] /\ Len(x) < config.nUbatch
    /\ x # <<>> => Seqs(batch, i) \subseteq Seqs(batch, x[Len(x)])

SeqBy(f) ==
    /\ f[0] = <<>>
    /\ \A i \in 1 .. Len(batch) : f[i] = IF MayFollow(f[i - 1], i) THEN Append(f[i - 1], i) ELSE f[i - 1]
    /\ SplitSeq = Tokens(f[Len(batch)], 1, TRUE)

LEMMA SeqRuns ==
    ASSUME Marks
    PROVE  \E f : SeqBy(f)
<1> DEFINE n == Len(batch)
           a == <<>>
           G(f) == f = [i \in 0 .. n |-> IF i = 0 THEN a
                                         ELSE IF MayFollow(f[i - 1], i) THEN Append(f[i - 1], i) ELSE f[i - 1]]
           X == Seq(Nat)
           st == [i \in 1 .. n |-> [x \in X |-> IF MayFollow(x, i) THEN Append(x, i) ELSE x]]
           c == CHOOSE f : G(f)
<1>1. n \in Nat /\ a \in X
    BY MarksParts
<1>2. SplitSeq = Tokens(c[n], 1, TRUE)
    BY DEF SplitSeq, MayFollow
<1>3. \A i \in 1 .. n : \A x \in X : st[i][x] \in X
    BY <1>1, AppendProperties
<1>4. PICK f : Runs(f, n, a, st, X)
    <2> HIDE DEF st, a, X, n
    <2> QED BY <1>1, <1>3, Recursion
<1>5. f = [i \in 0 .. n |-> IF i = 0 THEN a ELSE st[i][f[i - 1]]] /\ \A i \in 0 .. n : f[i] \in X
    BY <1>4 DEF Runs
<1>6. G(f)
    <2>1. ASSUME NEW i \in 0 .. n, i # 0
          PROVE  st[i][f[i - 1]] = IF MayFollow(f[i - 1], i) THEN Append(f[i - 1], i) ELSE f[i - 1]
      <3>1. i - 1 \in 0 .. n /\ i \in 1 .. n
        BY <1>1, <2>1
      <3>2. f[i - 1] \in X
        BY <1>5, <3>1
      <3> HIDE DEF X
      <3> QED BY <3>1, <3>2
    <2> HIDE DEF st, a, n
    <2> QED BY <1>5, <2>1
<1>7. G(c)
    <2> HIDE DEF G
    <2> QED BY <1>6
<1> HIDE DEF c
<1>8. c[0] = a /\ \A i \in 1 .. n : c[i] = IF MayFollow(c[i - 1], i) THEN Append(c[i - 1], i) ELSE c[i - 1]
    <2>1. \A i \in 1 .. n : i \in 0 .. n /\ i # 0
      BY <1>1
    <2>2. 0 \in 0 .. n
      BY <1>1
    <2> HIDE DEF a, n
    <2> QED BY <1>7, <2>1, <2>2
<1>9. SeqBy(c)
    BY <1>2, <1>8 DEF SeqBy
<1> QED BY <1>9

\* Tokens taken from 1 .. i.
SeqTaken(x, i) ==
    /\ x \in Seq(Nat) /\ Len(x) <= config.nUbatch
    /\ \A k \in 1 .. Len(x) : x[k] \in 1 .. i /\ ~used[x[k]]
    /\ \A k, l \in 1 .. Len(x) : k < l => x[k] < x[l]

LEMMA SeqTakes ==
    ASSUME Marks, NEW i \in 1 .. Len(batch), NEW x, SeqTaken(x, i - 1)
    PROVE  /\ ~MayFollow(x, i) => SeqTaken(x, i)
           /\ MayFollow(x, i) => SeqTaken(Append(x, i), i)
<1>1. i \in Nat /\ x \in Seq(Nat) /\ Len(x) \in Nat /\ config.nUbatch \in Nat
    BY MarksParts, LenProperties DEF SeqTaken, Marks
<1>2. \A k \in 1 .. Len(x) : x[k] \in 1 .. i - 1 /\ x[k] \in 1 .. i /\ x[k] < i /\ ~used[x[k]]
    BY <1>1 DEF SeqTaken
<1>3. ASSUME MayFollow(x, i) PROVE SeqTaken(Append(x, i), i)
    <2> DEFINE y == Append(x, i)
               n == Len(x)
    <2>1. /\ y \in Seq(Nat) /\ Len(y) = n + 1 /\ y[n + 1] = i /\ \A k \in 1 .. n : y[k] = x[k]
      BY <1>1, AppendProperties
    <2> HIDE DEF y
    <2>2. \A k \in 1 .. n + 1 : k = n + 1 \/ k \in 1 .. n
      BY <1>1
    <2>3. ~used[i] /\ n < config.nUbatch
      BY <1>3 DEF MayFollow
    <2>4. ASSUME NEW k \in 1 .. n + 1, NEW l \in 1 .. n + 1, k < l PROVE y[k] < y[l]
      <3>1. k \in 1 .. n
        BY <1>1, <2>4
      <3>2. CASE l = n + 1
        BY <1>2, <2>1, <3>1, <3>2
      <3>3. CASE l \in 1 .. n
        BY <2>1, <2>4, <3>1, <3>3 DEF SeqTaken
      <3> QED BY <2>2, <3>2, <3>3
    <2>5. ASSUME NEW k \in 1 .. n + 1 PROVE y[k] \in 1 .. i /\ ~used[y[k]]
      <3>1. CASE k = n + 1
        BY <1>1, <2>1, <2>3, <3>1
      <3>2. CASE k \in 1 .. n
        BY <1>2, <2>1, <3>2
      <3> QED BY <2>2, <3>1, <3>2
    <2>6. Len(y) <= config.nUbatch
      BY <1>1, <2>1, <2>3
    <2>7. SeqTaken(y, i)
      <3> HIDE DEF n
      <3> QED BY <2>1, <2>4, <2>5, <2>6 DEF SeqTaken
    <2> QED BY <2>7 DEF y
<1>4. SeqTaken(x, i)
    BY <1>2 DEF SeqTaken
<1> QED BY <1>3, <1>4

\* With one sequence each, the tokens taken are of the same sequence, and all of it are taken in turn.
SeqWhole(x, i) ==
    /\ Len(x) = 0 => \A j \in 1 .. i : used[j]
    /\ \A k, l \in 1 .. Len(x) : Seqs(batch, x[k]) = Seqs(batch, x[l])
    /\ \A k \in 1 .. Len(x), j \in 1 .. i :
         ~used[j] /\ Seqs(batch, j) = Seqs(batch, x[k]) =>
           /\ j < x[k] => \E l \in 1 .. Len(x) : l < k /\ x[l] = j
           /\ Len(x) < config.nUbatch => Has(x, j)

LEMMA SeqWholeNext ==
    ASSUME Marks, Singles(batch), NEW i \in 1 .. Len(batch), NEW x, SeqTaken(x, i - 1), SeqWhole(x, i - 1)
    PROVE  /\ ~MayFollow(x, i) => SeqWhole(x, i)
           /\ MayFollow(x, i) => SeqWhole(Append(x, i), i)
<1>1. /\ i \in Nat /\ x \in Seq(Nat) /\ Len(x) \in Nat /\ config.nUbatch \in Nat /\ config.nUbatch > 0
      /\ Len(batch) \in Nat /\ batch \in Batches /\ (x = <<>> <=> Len(x) = 0)
    BY MarksParts, LenProperties, EmptySeq DEF SeqTaken, Marks
<1>2. \A k \in 1 .. Len(x) : x[k] \in 1 .. i - 1 /\ x[k] \in 1 .. Len(batch) /\ x[k] < i /\ ~used[x[k]]
    BY <1>1 DEF SeqTaken
<1>3. \A j \in 1 .. i : j = i \/ (j \in 1 .. i - 1 /\ j < i)
    BY <1>1
<1>4. Len(x) > 0 => Len(x) \in 1 .. Len(x)
    BY <1>1
<1>5. Len(x) > 0 => (Seqs(batch, i) \subseteq Seqs(batch, x[Len(x)]) <=> Seqs(batch, i) = Seqs(batch, x[Len(x)]))
    BY <1>1, <1>2, <1>4, SingleSets
<1>6. \A k \in 1 .. Len(x) : Seqs(batch, x[k]) = Seqs(batch, x[Len(x)])
    BY <1>1, <1>4 DEF SeqWhole
<1>7. ASSUME ~MayFollow(x, i) PROVE SeqWhole(x, i)
    <2>1. Len(x) = 0 => \A j \in 1 .. i : used[j]
      <3>1. Len(x) = 0 => used[i]
        BY <1>1, <1>7, MarksParts DEF MayFollow
      <3> QED BY <1>3, <3>1 DEF SeqWhole
    <2>2. ASSUME NEW k \in 1 .. Len(x), ~used[i], Seqs(batch, i) = Seqs(batch, x[k])
          PROVE  ~(i < x[k]) /\ ~(Len(x) < config.nUbatch)
      <3>1. ~(i < x[k]) /\ Len(x) > 0
        BY <1>1, <1>2
      <3>2. Seqs(batch, i) \subseteq Seqs(batch, x[Len(x)])
        BY <1>5, <1>6, <2>2, <3>1
      <3> QED BY <1>7, <2>2, <3>1, <3>2 DEF MayFollow
    <2>3. ASSUME NEW k \in 1 .. Len(x), NEW j \in 1 .. i, ~used[j], Seqs(batch, j) = Seqs(batch, x[k])
          PROVE  /\ j < x[k] => \E l \in 1 .. Len(x) : l < k /\ x[l] = j
                 /\ Len(x) < config.nUbatch => Has(x, j)
      <3>1. CASE j = i
        BY <2>2, <2>3, <3>1
      <3>2. CASE j \in 1 .. i - 1
        BY <2>3, <3>2 DEF SeqWhole
      <3> QED BY <1>3, <3>1, <3>2
    <2> QED BY <2>1, <2>3 DEF SeqWhole
<1>8. ASSUME MayFollow(x, i) PROVE SeqWhole(Append(x, i), i)
    <2> DEFINE y == Append(x, i)
               n == Len(x)
    <2>1. /\ y \in Seq(Nat) /\ Len(y) = n + 1 /\ y[n + 1] = i /\ \A k \in 1 .. n : y[k] = x[k]
      BY <1>1, AppendProperties
    <2> HIDE DEF y
    <2>2. \A k \in 1 .. n + 1 : k = n + 1 \/ (k \in 1 .. n /\ k < n + 1)
      BY <1>1
    <2>3. ~used[i] /\ n < config.nUbatch /\ n + 1 \in 1 .. n + 1 /\ Len(y) # 0
      BY <1>1, <1>8, <2>1 DEF MayFollow
    <2>4. n > 0 => Seqs(batch, i) = Seqs(batch, x[n])
      BY <1>1, <1>5, <1>8 DEF MayFollow
    <2>5. \A k \in 1 .. n + 1 : Seqs(batch, y[k]) = Seqs(batch, i)
      <3>1. \A k \in 1 .. n : n > 0
        BY <1>1
      <3> QED BY <1>6, <2>1, <2>2, <2>4, <3>1
    <2>6. ASSUME NEW j \in 1 .. i - 1, ~used[j], Seqs(batch, j) = Seqs(batch, i) PROVE \E l \in 1 .. n : y[l] = j
      <3>1. n > 0
        BY <1>1, <2>6 DEF SeqWhole
      <3>2. Seqs(batch, j) = Seqs(batch, x[n]) /\ n \in 1 .. n
        BY <1>4, <2>4, <2>6, <3>1
      <3>3. Has(x, j)
        BY <2>3, <2>6, <3>2 DEF SeqWhole
      <3> QED BY <2>1, <3>3 DEF Has
    <2>7. ASSUME NEW k \in 1 .. n + 1, NEW j \in 1 .. i, ~used[j], Seqs(batch, j) = Seqs(batch, y[k])
          PROVE  /\ j < y[k] => \E l \in 1 .. n + 1 : l < k /\ y[l] = j
                 /\ Has(y, j)
      <3>1. Has(y, j)
        <4>1. CASE j = i
          BY <2>1, <2>3, <4>1 DEF Has
        <4>2. CASE j \in 1 .. i - 1
          <5>1. PICK l \in 1 .. n : y[l] = j
            BY <2>5, <2>6, <2>7, <4>2
          <5>2. l \in 1 .. n + 1
            BY <1>1
          <5> QED BY <2>1, <5>1, <5>2 DEF Has
        <4> QED BY <1>3, <4>1, <4>2
      <3>2. ASSUME j < y[k] PROVE \E l \in 1 .. n + 1 : l < k /\ y[l] = j
        <4>1. CASE k = n + 1
          <5>1. j \in 1 .. i - 1
            BY <1>1, <2>1, <3>2, <4>1
          <5>2. PICK l \in 1 .. n : y[l] = j
            BY <2>5, <2>6, <2>7, <5>1
          <5>3. l \in 1 .. n + 1 /\ l < k
            BY <1>1, <4>1
          <5> QED BY <5>2, <5>3
        <4>2. CASE k \in 1 .. n
          <5>1. j \in 1 .. i - 1 /\ y[k] = x[k]
            <6>1. y[k] = x[k]
              BY <2>1, <4>2
            <6>2. x[k] \in Nat /\ x[k] < i
              BY <1>2, <4>2
            <6> HIDE DEF y, n
            <6>3. j < x[k] /\ j \in Nat
              BY <3>2, <6>1
            <6> QED BY <1>1, <6>1, <6>2, <6>3
          <5>2. PICK l \in 1 .. n : l < k /\ x[l] = j
            BY <2>7, <3>2, <4>2, <5>1 DEF SeqWhole
          <5>3. l \in 1 .. n + 1
            BY <1>1
          <5> QED BY <2>1, <5>2, <5>3
        <4> QED BY <2>2, <4>1, <4>2
      <3> QED BY <3>1, <3>2
    <2>8. SeqWhole(y, i)
      <3>1. \A k, l \in 1 .. n + 1 : Seqs(batch, y[k]) = Seqs(batch, y[l])
        BY <2>5
      <3> HIDE DEF n
      <3> QED BY <2>1, <2>3, <2>7, <3>1 DEF SeqWhole
    <2> QED BY <2>8 DEF y
<1> QED BY <1>7, <1>8

LEMMA SeqTakenAll ==
    ASSUME Marks
    PROVE  \E x : /\ SplitSeq = Tokens(x, 1, TRUE)
                  /\ SeqTaken(x, Len(batch))
                  /\ Singles(batch) => SeqWhole(x, Len(batch))
<1>1. PICK f : SeqBy(f)
    BY SeqRuns
<1> DEFINE n == Len(batch)
           B == {i \in 0 .. n : SeqTaken(f[i], i) /\ (Singles(batch) => SeqWhole(f[i], i))}
<1>2. n \in Nat /\ config.nUbatch \in Nat
    BY MarksParts DEF Marks
<1>3. 0 \in B
    <2> DEFINE e == <<>>
    <2>1. f[0] = e /\ e \in Seq(Nat) /\ Len(e) = 0
      BY <1>1 DEF SeqBy
    <2>2. \A j \in 1 .. 0 : FALSE
      OBVIOUS
    <2> HIDE DEF e
    <2>3. SeqTaken(e, 0)
      BY <1>2, <2>1, <2>2 DEF SeqTaken, Marks
    <2>4. SeqWhole(e, 0)
      BY <2>1, <2>2 DEF SeqWhole
    <2> QED BY <1>2, <2>1, <2>3, <2>4
<1>4. ASSUME NEW i \in 1 .. n, i - 1 \in B PROVE i \in B
    <2>1. SeqTaken(f[i - 1], i - 1) /\ (Singles(batch) => SeqWhole(f[i - 1], i - 1))
      BY <1>4
    <2>2. f[i] = IF MayFollow(f[i - 1], i) THEN Append(f[i - 1], i) ELSE f[i - 1]
      BY <1>1 DEF SeqBy
    <2>3. SeqTaken(f[i], i)
      BY <2>1, <2>2, SeqTakes
    <2>4. Singles(batch) => SeqWhole(f[i], i)
      BY <2>1, <2>2, SeqWholeNext
    <2> QED BY <1>2, <2>3, <2>4
<1>5. n \in B
    <2>1. \A i \in 1 .. n : i - 1 \in B => i \in B
      BY <1>4
    <2>2. n \in 0 .. n
      BY <1>2
    <2> HIDE DEF B, n
    <2> QED BY <1>2, <1>3, <2>1, <2>2, Steps
<1> QED BY <1>1, <1>5 DEF SeqBy

LEMMA SeqSplit ==
    ASSUME Marks
    PROVE  /\ Fresh(SplitSeq)
           /\ Singles(batch) => Ordered(SplitSeq) /\ WellFormed(SplitSeq, batch, config.nUbatch)
<1> DEFINE u == SplitSeq
<1>1. PICK x : /\ u = Tokens(x, 1, TRUE)
               /\ SeqTaken(x, Len(batch))
               /\ Singles(batch) => SeqWhole(x, Len(batch))
    BY SeqTakenAll
<1> HIDE DEF u
<1>2. u = [idxs |-> x, nSeqs |-> 1, equal |-> TRUE]
    BY <1>1 DEF Tokens
<1>3. /\ x \in Seq(Nat) /\ Len(x) \in Nat /\ DOMAIN x = 1 .. Len(x) /\ Len(batch) \in Nat /\ batch \in Batches
      /\ \A k \in 1 .. Len(x) : x[k] \in 1 .. Len(batch) /\ x[k] \in Nat /\ ~used[x[k]]
    BY <1>1, MarksParts, LenProperties DEF SeqTaken, Marks
<1>4. Fresh(u)
    <2>1. ASSUME NEW k \in 1 .. Len(x), NEW l \in 1 .. Len(x), k # l PROVE x[k] # x[l]
      <3>1. k < l \/ l < k
        BY <1>3, <2>1
      <3>2. x[k] < x[l] \/ x[l] < x[k]
        BY <1>1, <3>1 DEF SeqTaken
      <3> QED BY <1>3, <3>2
    <2>2. Unrepeated(x)
      BY <2>1 DEF Unrepeated
    <2> QED BY <1>2, <1>3, <2>2 DEF Fresh, Ubatch
<1>5. ASSUME Singles(batch) PROVE Ordered(u)
    <2>1. ASSUME NEW k \in 1 .. Len(x), NEW j \in 1 .. Len(batch), j < x[k], Shares(batch, j, x[k]), ~used[j]
          PROVE  \E l \in 1 .. Len(x) : l < k /\ x[l] = j
      <3>1. Seqs(batch, j) = Seqs(batch, x[k])
        BY <1>3, <1>5, <2>1, SingleSets
      <3> QED BY <1>1, <1>5, <2>1, <3>1 DEF SeqWhole
    <2> QED BY <1>2, <2>1 DEF Ordered, Behind
<1>6. ASSUME Singles(batch) PROVE WellFormed(u, batch, config.nUbatch)
    <2>1. \A i, j \in 1 .. Len(x) : Seqs(batch, x[i]) = Seqs(batch, x[j])
      BY <1>1, <1>6 DEF SeqWhole
    <2>2. Len(x) \div 1 = Len(x) /\ Len(x) * 1 = Len(x) /\ \A i \in 1 .. Len(x) : (i - 1) \div Len(x) = 0
      BY <1>3, OneBlock
    <2>3. Len(x) <= config.nUbatch
      BY <1>1 DEF SeqTaken
    <2> DEFINE blk == [i \in 1 .. Len(x) |-> 0]
    <2>4. \A i \in 1 .. Len(x) : blk[i] = 0
      OBVIOUS
    <2> HIDE DEF blk
    <2>5. u.idxs = x /\ u.nSeqs = 1
      BY <1>2
    <2>6. SetsOf(u, batch, blk)
      BY <1>3, <2>1, <2>4, <2>5 DEF SetsOf
    <2>7. BlocksOf(u, Len(x), blk)
      BY <1>3, <2>2, <2>4, <2>5 DEF BlocksOf
    <2>8. Len(u.idxs) <= config.nUbatch
      BY <2>3, <2>5
    <2> QED BY <2>6, <2>7, <2>8, BlocksWellFormed
<1> QED BY <1>4, <1>5, <1>6 DEF u

-----------------------------------------------------------------------------
(* split_equal(): the sequence sets.                                       *)

Decreasing(b) == \A i, j \in DOMAIN b : i < j /\ Shares(b, i, j) => Seqs(b, j) \subseteq Seqs(b, i)

Joined(x, i, how) == IF MayJoin(x, i, how)
                     THEN [sets |-> Append(x.sets, Seqs(batch, i)), last |-> batch[i].ids[1]]
                     ELSE x

SetsBy(f, how) ==
    /\ f[0] = [sets |-> <<>>, last |-> -1]
    /\ \A i \in 1 .. Len(batch) : f[i] = Joined(f[i - 1], i, how)
    /\ SequenceSets(how) = f[Len(batch)].sets

Joinable == [sets : Seq(SUBSET SeqId), last : Int]

LEMMA JoinedType ==
    ASSUME Marks, NEW how, NEW i \in 1 .. Len(batch), NEW x \in Joinable
    PROVE  Joined(x, i, how) \in Joinable
<1> DEFINE S == Seqs(batch, i)
           t == batch[i].ids[1]
<1>1. S \in SUBSET SeqId /\ t \in S
    BY BatchParts DEF Marks
<1>2. t \in Int
    BY <1>1 DEF SeqId
<1>3. x.sets \in Seq(SUBSET SeqId)
    BY DEF Joinable
<1> HIDE DEF S, t
<1>4. Append(x.sets, S) \in Seq(SUBSET SeqId)
    BY <1>1, <1>3, AppendProperties
<1>5. [sets |-> Append(x.sets, S), last |-> t] \in Joinable
    BY <1>2, <1>4 DEF Joinable
<1> QED BY <1>5 DEF Joined, S, t

LEMMA SetsRun ==
    ASSUME Marks, NEW how
    PROVE  \E f : SetsBy(f, how)
<1> DEFINE n == Len(batch)
           a == [sets |-> <<>>, last |-> -1]
           G(f) == f = [i \in 0 .. n |-> IF i = 0 THEN a ELSE Joined(f[i - 1], i, how)]
           X == Joinable
           st == [i \in 1 .. n |-> [x \in X |-> Joined(x, i, how)]]
           c == CHOOSE f : G(f)
<1>1. n \in Nat /\ a \in X
    BY MarksParts DEF Joinable
<1>2. SequenceSets(how) = c[n].sets
    BY DEF SequenceSets, Joined
<1>3. \A i \in 1 .. n : \A x \in X : st[i][x] \in X
    BY JoinedType
<1>4. PICK f : Runs(f, n, a, st, X)
    <2> HIDE DEF st, a, X, n
    <2> QED BY <1>1, <1>3, Recursion
<1>5. f = [i \in 0 .. n |-> IF i = 0 THEN a ELSE st[i][f[i - 1]]] /\ \A i \in 0 .. n : f[i] \in X
    BY <1>4 DEF Runs
<1>6. G(f)
    <2>1. ASSUME NEW i \in 0 .. n, i # 0 PROVE st[i][f[i - 1]] = Joined(f[i - 1], i, how)
      <3>1. i - 1 \in 0 .. n /\ i \in 1 .. n
        BY <1>1, <2>1
      <3>2. f[i - 1] \in X
        BY <1>5, <3>1
      <3> HIDE DEF X
      <3> QED BY <3>1, <3>2
    <2> HIDE DEF st, a, n
    <2> QED BY <1>5, <2>1
<1>7. G(c)
    <2> HIDE DEF G
    <2> QED BY <1>6
<1> HIDE DEF c
<1>8. c[0] = a /\ \A i \in 1 .. n : c[i] = Joined(c[i - 1], i, how)
    <2>1. \A i \in 1 .. n : i \in 0 .. n /\ i # 0
      BY <1>1
    <2>2. 0 \in 0 .. n
      BY <1>1
    <2> HIDE DEF a, n
    <2> QED BY <1>7, <2>1, <2>2
<1>9. SetsBy(c, how)
    BY <1>2, <1>8 DEF SetsBy
<1> QED BY <1>9

\* The sets so far are those of unused tokens, and share nothing.
SetsTaken(x, i) ==
    /\ x \in Joinable
    /\ \A a \in 1 .. Len(x.sets) : \E g \in 1 .. i : ~used[g] /\ x.sets[a] = Seqs(batch, g)
    /\ \A a, b \in 1 .. Len(x.sets) : a # b => x.sets[a] \cap x.sets[b] = {}

LEMMA SetsTake ==
    ASSUME Marks, NEW how, NEW i \in 1 .. Len(batch), NEW x, SetsTaken(x, i - 1)
    PROVE  SetsTaken(Joined(x, i, how), i)
<1>1. i \in Nat /\ x.sets \in Seq(SUBSET SeqId) /\ Len(x.sets) \in Nat
    BY MarksParts, LenProperties DEF SetsTaken, Joinable
<1>2. CASE ~MayJoin(x, i, how)
    <2>1. Joined(x, i, how) = x
      BY <1>2 DEF Joined
    <2>2. \A a \in 1 .. Len(x.sets) : \E g \in 1 .. i : ~used[g] /\ x.sets[a] = Seqs(batch, g)
      <3>1. 1 .. i - 1 \subseteq 1 .. i
        BY <1>1
      <3> QED BY <3>1 DEF SetsTaken
    <2> QED BY <2>1, <2>2 DEF SetsTaken
<1>3. CASE MayJoin(x, i, how)
    <2> DEFINE y == Joined(x, i, how)
               n == Len(x.sets)
               S == Seqs(batch, i)
    <2>1. y.sets = Append(x.sets, S)
      BY <1>3 DEF Joined
    <2>2. y \in Joinable
      BY JoinedType DEF SetsTaken
    <2>3. S \in SUBSET SeqId
      BY BatchParts DEF Marks
    <2> HIDE DEF y, S
    <2>4. Len(y.sets) = n + 1 /\ y.sets[n + 1] = S /\ \A a \in 1 .. n : y.sets[a] = x.sets[a]
      BY <1>1, <2>1, <2>3, AppendProperties
    <2>5. \A a \in 1 .. n + 1 : a = n + 1 \/ a \in 1 .. n
      BY <1>1
    <2>6. ~used[i] /\ \A a \in 1 .. n : x.sets[a] \cap S = {}
      <3>1. \A a \in 1 .. n : x.sets[a] \in Range(x.sets)
        BY <1>1, LenProperties DEF Range
      <3> QED BY <1>3, <3>1 DEF MayJoin, S
    <2>7. ASSUME NEW a \in 1 .. n + 1 PROVE \E g \in 1 .. i : ~used[g] /\ y.sets[a] = Seqs(batch, g)
      <3>1. CASE a = n + 1
        BY <1>1, <2>4, <2>6, <3>1 DEF S
      <3>2. CASE a \in 1 .. n
        <4>1. 1 .. i - 1 \subseteq 1 .. i
          BY <1>1
        <4> QED BY <2>4, <3>2, <4>1 DEF SetsTaken
      <3> QED BY <2>5, <3>1, <3>2
    <2>8. ASSUME NEW a \in 1 .. n + 1, NEW b \in 1 .. n + 1, a # b PROVE y.sets[a] \cap y.sets[b] = {}
      <3>1. CASE a \in 1 .. n /\ b \in 1 .. n
        BY <2>4, <2>8, <3>1 DEF SetsTaken
      <3>2. CASE a = n + 1 /\ b \in 1 .. n
        BY <2>4, <2>6, <3>2
      <3>3. CASE a \in 1 .. n /\ b = n + 1
        BY <2>4, <2>6, <3>3
      <3> QED BY <2>5, <2>8, <3>1, <3>2, <3>3
    <2>9. SetsTaken(y, i)
      <3> HIDE DEF n
      <3> QED BY <2>2, <2>4, <2>7, <2>8 DEF SetsTaken
    <2> QED BY <2>9 DEF y
<1> QED BY <1>2, <1>3

\* Each set is that of a token that shares nothing with the unused ones before it, and all have their set.
Leads(S, g) == S = Seqs(batch, g) /\ \A j \in 1 .. g - 1 : ~used[j] => Seqs(batch, j) \cap S = {}
Contained(j, s) == \E a \in 1 .. Len(s) : Seqs(batch, j) \subseteq s[a]
SetsFirst(x, i) ==
    /\ \A a \in 1 .. Len(x.sets) : \E g \in 1 .. i : ~used[g] /\ Leads(x.sets[a], g)
    /\ \A j \in 1 .. i : ~used[j] => Len(x.sets) > config.nUbatch \/ Contained(j, x.sets)

LEMMA SetsFirstNext ==
    ASSUME Marks, Decreasing(batch), NEW how, how # "sequential", NEW i \in 1 .. Len(batch), NEW x,
           SetsTaken(x, i - 1), SetsFirst(x, i - 1)
    PROVE  SetsFirst(Joined(x, i, how), i)
<1> DEFINE n == Len(x.sets)
           S == Seqs(batch, i)
<1>1. /\ i \in Nat /\ x.sets \in Seq(SUBSET SeqId) /\ n \in Nat /\ Len(batch) \in Nat
      /\ DOMAIN batch = 1 .. Len(batch) /\ config.nUbatch \in Nat
    BY MarksParts, LenProperties DEF SetsTaken, Joinable, Marks
<1>2. \A j \in 1 .. i : j = i \/ (j \in 1 .. i - 1 /\ j < i)
    BY <1>1
<1>3. 1 .. i - 1 \subseteq 1 .. i /\ i \in 1 .. i
    BY <1>1
<1>4. DOMAIN x.sets = 1 .. n /\ Range(x.sets) = {x.sets[a] : a \in 1 .. n}
    BY <1>1, LenProperties DEF Range
<1>5. CASE ~MayJoin(x, i, how)
    <2>1. Joined(x, i, how) = x
      BY <1>5 DEF Joined
    <2>2. ASSUME ~used[i] PROVE n > config.nUbatch \/ Contained(i, x.sets)
      <3>1. CASE n <= config.nUbatch
        <4>1. PICK a \in 1 .. n : x.sets[a] \cap S # {}
          BY <1>4, <1>5, <2>2, <3>1 DEF MayJoin
        <4>2. PICK g \in 1 .. i - 1 : x.sets[a] = Seqs(batch, g)
          BY <4>1 DEF SetsTaken
        <4>3. g \in DOMAIN batch /\ i \in DOMAIN batch /\ g < i /\ Shares(batch, g, i)
          BY <1>1, <4>1, <4>2 DEF Shares
        <4>4. S \subseteq x.sets[a]
          BY <4>2, <4>3 DEF Decreasing
        <4> QED BY <4>1, <4>4 DEF Contained
      <3>2. CASE ~(n <= config.nUbatch)
        BY <1>1, <3>2
      <3> QED BY <3>1, <3>2
    <2>3. SetsFirst(x, i)
      BY <1>2, <1>3, <2>2 DEF SetsFirst
    <2> QED BY <2>1, <2>3
<1>6. CASE MayJoin(x, i, how)
    <2> DEFINE y == Joined(x, i, how)
    <2>1. y.sets = Append(x.sets, S)
      BY <1>6 DEF Joined
    <2>2. S \in SUBSET SeqId
      BY BatchParts DEF Marks
    <2>3. ~used[i] /\ n <= config.nUbatch /\ \A a \in 1 .. n : x.sets[a] \cap S = {}
      BY <1>4, <1>6 DEF MayJoin
    <2> HIDE DEF y, S
    <2>4. Len(y.sets) = n + 1 /\ y.sets[n + 1] = S /\ \A a \in 1 .. n : y.sets[a] = x.sets[a]
      BY <1>1, <2>1, <2>2, AppendProperties
    <2>5. \A a \in 1 .. n + 1 : a = n + 1 \/ a \in 1 .. n
      BY <1>1
    <2>6. n + 1 \in 1 .. n + 1 /\ \A a \in 1 .. n : a \in 1 .. n + 1
      BY <1>1
    <2>7. Leads(S, i)
      <3>1. ASSUME NEW j \in 1 .. i - 1, ~used[j] PROVE Seqs(batch, j) \cap S = {}
        <4>1. Contained(j, x.sets)
          BY <1>1, <2>3, <3>1 DEF SetsFirst
        <4>2. PICK a \in 1 .. n : Seqs(batch, j) \subseteq x.sets[a]
          BY <4>1 DEF Contained
        <4> QED BY <2>3, <4>2
      <3> QED BY <3>1 DEF Leads, S
    <2>8. ASSUME NEW a \in 1 .. n + 1 PROVE \E g \in 1 .. i : ~used[g] /\ Leads(y.sets[a], g)
      <3>1. CASE a = n + 1
        BY <1>3, <2>3, <2>4, <2>7, <3>1
      <3>2. CASE a \in 1 .. n
        BY <1>3, <2>4, <3>2 DEF SetsFirst
      <3> QED BY <2>5, <3>1, <3>2
    <2>9. ASSUME NEW j \in 1 .. i, ~used[j] PROVE Contained(j, y.sets)
      <3>1. CASE j = i
        BY <2>4, <2>6, <3>1 DEF Contained, S
      <3>2. CASE j \in 1 .. i - 1
        <4>1. Contained(j, x.sets)
          BY <1>1, <2>3, <2>9, <3>2 DEF SetsFirst
        <4>2. PICK a \in 1 .. n : Seqs(batch, j) \subseteq x.sets[a]
          BY <4>1 DEF Contained
        <4> QED BY <2>4, <2>6, <4>2 DEF Contained
      <3> QED BY <1>2, <3>1, <3>2
    <2>10. SetsFirst(y, i)
      <3> HIDE DEF n
      <3> QED BY <2>4, <2>8, <2>9 DEF SetsFirst
    <2> QED BY <2>10 DEF y
<1> QED BY <1>5, <1>6

LEMMA SetsOfAll ==
    ASSUME Marks, NEW how
    PROVE  \E x : /\ SequenceSets(how) = x.sets
                  /\ SetsTaken(x, Len(batch))
                  /\ Decreasing(batch) /\ how # "sequential" => SetsFirst(x, Len(batch))
<1>1. PICK f : SetsBy(f, how)
    BY SetsRun
<1> DEFINE n == Len(batch)
           D == Decreasing(batch) /\ how # "sequential"
           B == {i \in 0 .. n : SetsTaken(f[i], i) /\ (D => SetsFirst(f[i], i))}
<1>2. n \in Nat
    BY MarksParts
<1>3. 0 \in B
    <2> DEFINE e == <<>>
               a == [sets |-> e, last |-> -1]
    <2>1. f[0] = a
      BY <1>1 DEF SetsBy
    <2>2. e \in Seq(SUBSET SeqId) /\ Len(e) = 0
      OBVIOUS
    <2>3. a \in Joinable /\ a.sets = e
      BY <2>2 DEF Joinable
    <2>4. \A j \in 1 .. 0 : FALSE
      OBVIOUS
    <2> HIDE DEF e, a
    <2>5. SetsTaken(a, 0) /\ SetsFirst(a, 0)
      BY <2>2, <2>3, <2>4 DEF SetsTaken, SetsFirst
    <2> QED BY <1>2, <2>1, <2>5
<1>4. ASSUME NEW i \in 1 .. n, i - 1 \in B PROVE i \in B
    <2>1. SetsTaken(f[i - 1], i - 1) /\ (D => SetsFirst(f[i - 1], i - 1))
      BY <1>4
    <2>2. f[i] = Joined(f[i - 1], i, how)
      BY <1>1 DEF SetsBy
    <2>3. SetsTaken(f[i], i)
      BY <2>1, <2>2, SetsTake
    <2>4. D => SetsFirst(f[i], i)
      BY <2>1, <2>2, SetsFirstNext
    <2> QED BY <1>2, <2>3, <2>4
<1>5. n \in B
    <2>1. \A i \in 1 .. n : i - 1 \in B => i \in B
      BY <1>4
    <2>2. n \in 0 .. n
      BY <1>2
    <2> HIDE DEF B, n
    <2> QED BY <1>2, <1>3, <2>1, <2>2, Steps
<1> QED BY <1>1, <1>5 DEF SetsBy

-----------------------------------------------------------------------------
(* split_equal(): as many tokens of each set.                              *)

\* q has the first k entries of L[1], then those of L[2], and so on.
Place1(k, x) == ((x - 1) \div k) + 1
Place2(k, x) == ((x - 1) % k) + 1
Laid(q, n, k, L) ==
    /\ q \in Seq(Nat) /\ Len(q) = n * k
    /\ \A x \in 1 .. n * k : q[x] = L[Place1(k, x)][Place2(k, x)]

\* The places of q and those in the lists.
LEMMA Placed ==
    ASSUME NEW n \in Nat, n > 0, NEW k \in Nat, k > 0
    PROVE  /\ n * k \in Nat
           /\ \A x \in 1 .. n * k : Place1(k, x) \in 1 .. n /\ Place2(k, x) \in 1 .. k
           /\ \A x, y \in 1 .. n * k : Place1(k, x) = Place1(k, y) /\ Place2(k, x) = Place2(k, y) => x = y
           /\ \A x, y \in 1 .. n * k : Place1(k, x) = Place1(k, y) /\ Place2(k, x) < Place2(k, y) => x < y
           /\ \A a \in 1 .. n, r \in 1 .. k : \E x \in 1 .. n * k : Place1(k, x) = a /\ Place2(k, x) = r
<1>1. n * k \in Nat
    BY BlockCount
<1>2. ASSUME NEW x \in 1 .. n * k
      PROVE  Place1(k, x) \in 1 .. n /\ Place2(k, x) \in 1 .. k /\ x = k * (Place1(k, x) - 1) + Place2(k, x)
    <2> DEFINE p == (x - 1) \div k
               r == (x - 1) % k
    <2>1. p \in 0 .. n - 1 /\ r \in 0 .. k - 1 /\ x = k * p + r + 1
      BY BlockOf
    <2> HIDE DEF p, r
    <2>2. p + 1 \in 1 .. n /\ r + 1 \in 1 .. k /\ (p + 1) - 1 = p /\ x = k * p + (r + 1)
      BY <2>1
    <2>3. Place1(k, x) = p + 1 /\ Place2(k, x) = r + 1
      BY DEF Place1, Place2, p, r
    <2> QED BY <2>2, <2>3
<1>3. ASSUME NEW x \in 1 .. n * k, NEW y \in 1 .. n * k, Place1(k, x) = Place1(k, y)
      PROVE  /\ Place2(k, x) = Place2(k, y) => x = y
             /\ Place2(k, x) < Place2(k, y) => x < y
    <2> DEFINE m == k * (Place1(k, x) - 1)
    <2>1. m = k * (Place1(k, y) - 1) /\ m \in Int
      <3>1. Place1(k, x) - 1 \in Int
        BY <1>2
      <3> QED BY <1>3, <3>1
    <2> HIDE DEF m
    <2>2. x = m + Place2(k, x) /\ y = m + Place2(k, y) /\ Place2(k, x) \in Nat /\ Place2(k, y) \in Nat
      BY <1>2, <2>1 DEF m
    <2> QED BY <2>1, <2>2
<1>4. ASSUME NEW a \in 1 .. n, NEW r \in 1 .. k
      PROVE  \E x \in 1 .. n * k : Place1(k, x) = a /\ Place2(k, x) = r
    <2> DEFINE b == a - 1
               o == r - 1
               x == k * b + o + 1
    <2>1. b \in 0 .. n - 1 /\ o \in 0 .. k - 1 /\ b + 1 = a /\ o + 1 = r
      OBVIOUS
    <2> HIDE DEF b, o
    <2>2. x \in 1 .. n * k /\ (x - 1) \div k = b /\ (x - 1) % k = o
      BY <2>1, InBlock
    <2> HIDE DEF x
    <2> QED BY <2>1, <2>2 DEF Place1, Place2
<1> QED BY <1>1, <1>2, <1>3, <1>4

\* The m entries of q are in the sets T of their blocks, and earlier entries of these come before.
LaidOf(q, m, k, T) ==
    /\ Unrepeated(q)
    /\ \A x \in 1 .. m : q[x] \in T[Place1(k, x)]
    /\ \A x \in 1 .. m : \A j \in T[Place1(k, x)] :
         j < q[x] => \E y \in 1 .. m : y < x /\ q[y] = j

LEMMA EqualLaid ==
    ASSUME NEW n \in Nat, n > 0, NEW k \in Nat, k > 0, NEW L, NEW T, NEW q, Laid(q, n, k, L),
           \A a \in 1 .. n : Lists(L[a], T[a]) /\ k <= Len(L[a]),
           \A a, b \in 1 .. n : a # b => T[a] \cap T[b] = {}
    PROVE  LaidOf(q, n * k, k, T)
<1>1. /\ n * k \in Nat
      /\ \A x \in 1 .. n * k : Place1(k, x) \in 1 .. n /\ Place2(k, x) \in 1 .. k
      /\ \A x, y \in 1 .. n * k : Place1(k, x) = Place1(k, y) /\ Place2(k, x) = Place2(k, y) => x = y
      /\ \A x, y \in 1 .. n * k : Place1(k, x) = Place1(k, y) /\ Place2(k, x) < Place2(k, y) => x < y
    BY Placed
<1>2. \A a \in 1 .. n, r \in 1 .. k : \E x \in 1 .. n * k : Place1(k, x) = a /\ Place2(k, x) = r
    BY Placed
<1> DEFINE m == n * k
<1>3. Len(q) = m /\ \A x \in 1 .. m : q[x] = L[Place1(k, x)][Place2(k, x)]
    BY DEF Laid
<1> HIDE DEF m
<1>4. ASSUME NEW a \in 1 .. n, NEW r \in 1 .. k PROVE r \in 1 .. Len(L[a]) /\ L[a][r] \in T[a]
    <2>1. Len(L[a]) \in Nat
      BY ListsOrder
    <2>2. r \in 1 .. Len(L[a])
      BY <2>1
    <2> QED BY <2>2 DEF Lists
<1>5. ASSUME NEW x \in 1 .. m PROVE Place1(k, x) \in 1 .. n /\ Place2(k, x) \in 1 .. k /\ q[x] \in T[Place1(k, x)]
    BY <1>1, <1>3, <1>4 DEF m
<1>6. ASSUME NEW x \in 1 .. m, NEW y \in 1 .. m, x # y PROVE q[x] # q[y]
    <2> DEFINE a == Place1(k, x)
               r == Place2(k, x)
               s == Place2(k, y)
    <2>1. CASE a # Place1(k, y)
      BY <1>5, <2>1
    <2>2. CASE a = Place1(k, y)
      <3>1. r # s /\ a \in 1 .. n /\ r \in 1 .. Len(L[a]) /\ s \in 1 .. Len(L[a])
        BY <1>1, <1>4, <1>5, <1>6, <2>2 DEF m
      <3>2. q[x] = L[a][r] /\ q[y] = L[a][s]
        BY <1>3, <2>2
      <3> HIDE DEF a, r, s
      <3> QED BY <3>1, <3>2, ListsOrder
    <2> QED BY <2>1, <2>2
<1>7. ASSUME NEW x \in 1 .. m, NEW j \in T[Place1(k, x)], j < q[x]
      PROVE  \E y \in 1 .. m : y < x /\ q[y] = j
    <2> DEFINE a == Place1(k, x)
               r == Place2(k, x)
    <2>1. a \in 1 .. n /\ r \in 1 .. k /\ r \in 1 .. Len(L[a]) /\ q[x] = L[a][r]
      BY <1>3, <1>4, <1>5
    <2>2. PICK s \in 1 .. Len(L[a]) : L[a][s] = j
      BY <2>1 DEF Lists, Has
    <2>3. s < r
      <3> HIDE DEF a, r
      <3> QED BY <1>7, <2>1, <2>2, ListsOrder
    <2>4. s \in 1 .. k
      <3>1. Len(L[a]) \in Nat
        BY <2>1, ListsOrder
      <3> QED BY <2>1, <2>3, <3>1
    <2>5. PICK y \in 1 .. m : Place1(k, y) = a /\ Place2(k, y) = s
      BY <1>2, <2>1, <2>4 DEF m
    <2>6. y < x
      BY <1>1, <2>3, <2>5 DEF m
    <2>7. q[y] = j
      BY <1>3, <2>2, <2>5
    <2> QED BY <2>6, <2>7
<1>8. Unrepeated(q)
    BY <1>3, <1>6 DEF Unrepeated
<1> QED BY <1>5, <1>7, <1>8 DEF m, LaidOf

LEMMA MaxOne ==
    ASSUME NEW m \in Nat
    PROVE  Max({1, m}) \in Nat /\ Max({1, m}) >= 1 /\ (m >= 1 => Max({1, m}) = m)
<1> DEFINE S == {1, m}
<1>1. S \in SUBSET (0 .. m + 1) /\ S # {} /\ m + 1 \in Nat
    OBVIOUS
<1>2. Max(S) \in S /\ \A x \in S : Max(S) >= x
    <2> HIDE DEF S
    <2> QED BY <1>1, MaxExists
<1> QED BY <1>2

\* u has k tokens of each of the sets s; L has all that are unused.
Unused(S) == {i \in 1 .. Len(batch) : ~used[i] /\ Seqs(batch, i) = S}
EqualOf(u, s, k, L) ==
    /\ u = [idxs |-> u.idxs, nSeqs |-> Len(s), equal |-> TRUE]
    /\ k \in Nat /\ k > 0
    /\ Laid(u.idxs, Len(s), k, L)
    /\ Len(s) <= config.nUbatch => k <= config.nUbatch \div Len(s)
    /\ \A a \in 1 .. Len(s) : Lists(L[a], Unused(s[a])) /\ k <= Len(L[a])

LEMMA EqualIs ==
    ASSUME Marks, NEW how, NEW x, SequenceSets(how) = x.sets, SetsTaken(x, Len(batch)),
           Len(x.sets) # 0, ~(how = "sequential" /\ Coupled(batch) # {})
    PROVE  \E k, L : EqualOf(SplitEqual(how), x.sets, k, L)
<1> DEFINE s     == x.sets
           n     == Len(s)
           Of(S) == InOrder({i \in DOMAIN batch : ~used[i] /\ Seqs(batch, i) = S})
           d     == config.nUbatch \div n
           M     == Max({1, d})
           Ls    == {Len(Of(S)) : S \in Range(s)}
           k     == Min(Ls \cup {M})
           L     == [a \in 1 .. n |-> Of(s[a])]
           q     == [y \in 1 .. n * k |-> Of(s[((y - 1) \div k) + 1])[((y - 1) % k) + 1]]
           u     == SplitEqual(how)
<1>1. /\ n \in Nat /\ n > 0 /\ s \in Seq(SUBSET SeqId) /\ DOMAIN s = 1 .. n
      /\ \A a \in 1 .. n : \E g \in 1 .. Len(batch) : ~used[g] /\ s[a] = Seqs(batch, g)
    BY LenProperties DEF SetsTaken, Joinable
<1>2. u = [idxs |-> q, nSeqs |-> n, equal |-> TRUE]
    BY <1>1 DEF SplitEqual, Tokens
<1>3. ASSUME NEW a \in 1 .. n
      PROVE  /\ Lists(Of(s[a]), Unused(s[a])) /\ Len(Of(s[a])) \in Nat /\ Len(Of(s[a])) > 0
             /\ Of(s[a]) \in Seq(Nat)
    <2>1. DOMAIN batch = 1 .. Len(batch)
      BY MarksParts
    <2>2. Lists(Of(s[a]), Unused(s[a]))
      BY <2>1, InOrderLists DEF Unused
    <2> DEFINE l == Of(s[a])
    <2> HIDE DEF l
    <2>3. Len(l) \in Nat /\ l \in Seq(Nat)
      BY <2>2, ListsOrder DEF l, Lists
    <2>4. PICK g \in 1 .. Len(batch) : ~used[g] /\ s[a] = Seqs(batch, g)
      BY <1>1
    <2>5. Has(l, g)
      BY <2>2, <2>4 DEF Lists, Unused, l
    <2>6. Len(l) > 0
      BY <2>3, <2>5 DEF Has
    <2> QED BY <2>2, <2>3, <2>6 DEF l
<1>4. /\ d \in Nat /\ (n <= config.nUbatch => d >= 1)
      /\ M \in Nat /\ M >= 1 /\ (d >= 1 => M = d)
    <2>1. config.nUbatch \in Nat
      BY DEF Marks
    <2>2. d \in Nat /\ (n <= config.nUbatch => d >= 1)
      <3> DEFINE m == config.nUbatch
      <3>1. m \in Nat
        BY <2>1
      <3> HIDE DEF m, n
      <3>2. m \div n \in Nat /\ (n <= m => m \div n >= 1)
        BY <1>1, <3>1, Quotient
      <3> QED BY <3>2 DEF m
    <2> HIDE DEF d
    <2> QED BY <2>2, MaxOne
<1> HIDE DEF M
<1>5. k \in Nat /\ k > 0 /\ k <= M /\ \A a \in 1 .. n : k <= Len(Of(s[a]))
    <2> HIDE DEF Of
    <2>1. \A l \in Ls : l \in Nat /\ l > 0
      BY <1>1, <1>3 DEF Range
    <2>2. \A a \in 1 .. n : Len(Of(s[a])) \in Ls
      BY <1>1 DEF Range
    <2> DEFINE K == Ls \cup {M}
    <2>3. K \in SUBSET Nat /\ K # {} /\ M \in K /\ \A l \in K : l > 0
      BY <1>4, <2>1
    <2>4. \A a \in 1 .. n : Len(Of(s[a])) \in K
      BY <2>2
    <2> HIDE DEF K, n
    <2>5. Min(K) \in K /\ \A l \in K : Min(K) <= l
      BY <2>3, MinExists
    <2>6. Min(K) \in Nat /\ Min(K) > 0 /\ Min(K) <= M /\ \A a \in 1 .. n : Min(K) <= Len(Of(s[a]))
      BY <2>3, <2>4, <2>5
    <2> QED BY <2>6 DEF K
<1> HIDE DEF k
<1>6. \A a \in 1 .. n : L[a] = Of(s[a])
    OBVIOUS
<1>7. Laid(q, n, k, L)
    <2>1. \A y \in 1 .. n * k : q[y] = Of(s[Place1(k, y)])[Place2(k, y)]
      BY DEF Place1, Place2
    <2>2. n * k \in Nat /\ \A y \in 1 .. n * k : Place1(k, y) \in 1 .. n /\ Place2(k, y) \in 1 .. k
      BY <1>1, <1>5, Placed
    <2>3. \A y \in 1 .. n * k : q[y] = L[Place1(k, y)][Place2(k, y)]
      BY <1>6, <2>1, <2>2
    <2>4. ASSUME NEW a \in 1 .. n, NEW r \in 1 .. k PROVE L[a][r] \in Nat
      <3> DEFINE l == Of(s[a])
      <3>1. l \in Seq(Nat) /\ Len(l) \in Nat /\ k <= Len(l)
        BY <1>3, <1>5
      <3>2. l = L[a]
        BY <1>6
      <3> HIDE DEF l
      <3>3. r \in 1 .. Len(l)
        BY <1>5, <3>1
      <3>4. l[r] \in Nat
        BY <3>1, <3>3, ElementOfSeq
      <3> QED BY <3>2, <3>4
    <2> HIDE DEF L
    <2> DEFINE m == n * k
    <2>5. \A y \in 1 .. m : q[y] \in Nat
      BY <2>2, <2>3, <2>4
    <2>6. q = [y \in 1 .. m |-> q[y]]
      OBVIOUS
    <2> HIDE DEF m, q
    <2>7. q \in [1 .. m -> Nat]
      BY <2>5, <2>6
    <2>8. q \in Seq(Nat) /\ Len(q) = m
      BY <2>2, <2>7, FunctionSeq DEF m
    <2> QED BY <2>3, <2>8 DEF Laid, m
<1> HIDE DEF q, u
<1>8. n <= config.nUbatch => k <= d
    BY <1>4, <1>5
<1>9. \A a \in 1 .. n : Lists(L[a], Unused(s[a])) /\ k <= Len(L[a])
    BY <1>3, <1>5, <1>6
<1>10. u.idxs = q
    BY <1>2
<1> HIDE DEF L
<1>11. EqualOf(u, s, k, L)
    <2> HIDE DEF s
    <2> QED BY <1>2, <1>5, <1>7, <1>8, <1>9, <1>10 DEF EqualOf
<1> QED BY <1>11 DEF u

LEMMA NothingFine ==
    ASSUME Marks
    PROVE  Fresh(Nothing) /\ Ordered(Nothing) /\ WellFormed(Nothing, batch, config.nUbatch)
<1> DEFINE e == <<>>
<1>1. Nothing = [idxs |-> e, nSeqs |-> 0, equal |-> FALSE]
    BY DEF Nothing, Tokens
<1>2. e \in Seq(Nat) /\ Len(e) = 0
    OBVIOUS
<1> HIDE DEF e
<1>3. \A x \in 1 .. 0 : FALSE
    OBVIOUS
<1>4. Unrepeated(e)
    BY <1>2, <1>3 DEF Unrepeated
<1>5. Fresh(Nothing)
    BY <1>1, <1>2, <1>3, <1>4 DEF Fresh, Ubatch
<1>6. Ordered(Nothing)
    BY <1>1, <1>2, <1>3 DEF Ordered
<1>7. WellFormed(Nothing, batch, config.nUbatch)
    BY <1>1, <1>2 DEF WellFormed, Marks
<1> QED BY <1>5, <1>6, <1>7

\* Sets that share nothing are no more than the sequences.
LEMMA SetCount ==
    ASSUME NEW s \in Seq(SUBSET SeqId), \A a \in 1 .. Len(s) : s[a] # {},
           \A a, b \in 1 .. Len(s) : a # b => s[a] \cap s[b] = {}
    PROVE  Len(s) <= NSeq
<1> DEFINE n == Len(s)
           A == 1 .. n
           g == [a \in A |-> CHOOSE t \in s[a] : TRUE]
<1>1. n \in Nat /\ NSeq \in Nat /\ NSeq > 0 /\ \A a \in A : s[a] \in SUBSET SeqId
    BY SizeAssumption, LenProperties, ElementOfSeq
<1>2. \A a \in A : g[a] \in s[a] /\ g[a] \in SeqId
    BY <1>1
<1>3. g \in Injection(A, SeqId)
    <2>1. g \in [A -> SeqId]
      BY <1>2
    <2>2. \A a, b \in A : a # b => g[a] # g[b]
      BY <1>2
    <2> HIDE DEF g, A
    <2> QED BY <2>1, <2>2 DEF Injection, IsInjective
<1>4. IsFiniteSet(SeqId) /\ Cardinality(SeqId) = NSeq
    <2> DEFINE m == NSeq - 1
    <2>1. m \in Int /\ ~(0 > m) /\ m - 0 + 1 = NSeq
      BY <1>1
    <2>2. SeqId = 0 .. m
      BY DEF SeqId
    <2> HIDE DEF m
    <2> QED BY <2>1, <2>2, FS_Interval
<1>5. Cardinality(A) = n
    <2>1. ~(1 > n) => n - 1 + 1 = n
      BY <1>1
    <2>2. (1 > n) => n = 0
      BY <1>1
    <2>3. n \in Int /\ 1 \in Int /\ A = 1 .. n
      BY <1>1
    <2> HIDE DEF n, A
    <2>4. Cardinality(1 .. n) = IF 1 > n THEN 0 ELSE n - 1 + 1
      BY <2>3, FS_Interval
    <2> QED BY <2>1, <2>2, <2>3, <2>4
<1> HIDE DEF g, A
<1>6. Cardinality(A) <= Cardinality(SeqId)
    BY <1>3, <1>4, FS_Injection
<1> QED BY <1>4, <1>5, <1>6

LEMMA Uncoupled ==
    ASSUME NEW b \in Batches, Coupled(b) = {}
    PROVE  Singles(b)
<1>1. ASSUME NEW i \in DOMAIN b, Len(b[i].ids) # 1 PROVE FALSE
    <2>1. Len(b[i].ids) \in Nat /\ 1 \in 1 .. Len(b[i].ids)
      BY BatchParts
    <2>2. 2 \in 2 .. Len(b[i].ids)
      <3> DEFINE l == Len(b[i].ids)
      <3>1. l \in Nat /\ l >= 1 /\ l # 1
        BY <1>1, <2>1
      <3> HIDE DEF l
      <3>2. 2 \in 2 .. l
        BY <3>1
      <3> QED BY <3>2 DEF l
    <2>3. <<b[i].ids[1], b[i].ids[2]>> \in Coupled(b)
      BY <2>2 DEF Coupled
    <2> QED BY <2>3
<1> QED BY <1>1 DEF Singles

LEMMA EqualSplit ==
    ASSUME Marks, NEW how
    PROVE  /\ Fresh(SplitEqual(how))
           /\ Decreasing(batch) => Ordered(SplitEqual(how))
           /\ NSeq <= config.nUbatch => WellFormed(SplitEqual(how), batch, config.nUbatch)
<1>1. PICK x : /\ SequenceSets(how) = x.sets
               /\ SetsTaken(x, Len(batch))
               /\ Decreasing(batch) /\ how # "sequential" => SetsFirst(x, Len(batch))
    BY SetsOfAll
<1>2. CASE Len(x.sets) = 0 \/ (how = "sequential" /\ Coupled(batch) # {})
    <2>1. SplitEqual(how) = Nothing
      BY <1>1, <1>2 DEF SplitEqual
    <2> QED BY <2>1, NothingFine
<1>3. CASE ~(Len(x.sets) = 0 \/ (how = "sequential" /\ Coupled(batch) # {}))
    <2> DEFINE u == SplitEqual(how)
               s == x.sets
               n == Len(s)
    <2>1. PICK k, L : EqualOf(u, s, k, L)
      BY <1>1, <1>3, EqualIs
    <2> HIDE DEF u
    <2>2. /\ n \in Nat /\ n > 0 /\ s \in Seq(SUBSET SeqId)
          /\ Len(batch) \in Nat /\ batch \in Batches
          /\ \A a \in 1 .. n : \E g \in 1 .. Len(batch) : s[a] = Seqs(batch, g)
          /\ \A a, b \in 1 .. n : a # b => s[a] \cap s[b] = {}
      BY <1>1, <1>3, MarksParts, LenProperties DEF SetsTaken, Joinable, Marks
    <2>3. ASSUME NEW a \in 1 .. n PROVE s[a] # {}
      <3>1. PICK g \in 1 .. Len(batch) : s[a] = Seqs(batch, g)
        BY <2>2
      <3>2. batch[g].ids[1] \in Seqs(batch, g)
        BY <2>2, BatchParts
      <3> QED BY <3>1, <3>2
    <2> DEFINE q == u.idxs
               m == n * k
               T == [a \in 1 .. n |-> Unused(s[a])]
    <2>4. /\ k \in Nat /\ k > 0 /\ Laid(q, n, k, L)
          /\ \A a \in 1 .. n : Lists(L[a], T[a]) /\ k <= Len(L[a])
          /\ u = [idxs |-> q, nSeqs |-> n, equal |-> TRUE]
      BY <2>1 DEF EqualOf
    <2>5. \A a, b \in 1 .. n : a # b => T[a] \cap T[b] = {}
      BY <2>2, <2>3 DEF Unused
    <2>6. /\ Unrepeated(q)
          /\ \A y \in 1 .. m : q[y] \in T[Place1(k, y)]
          /\ \A y \in 1 .. m : \A j \in T[Place1(k, y)] : j < q[y] => \E z \in 1 .. m : z < y /\ q[z] = j
      <3> HIDE DEF T, n, s, q
      <3>1. LaidOf(q, n * k, k, T)
        BY <2>2, <2>4, <2>5, EqualLaid
      <3> QED BY <3>1 DEF LaidOf
    <2>7. m \in Nat /\ \A y \in 1 .. m : Place1(k, y) \in 1 .. n
      BY <2>2, <2>4, Placed
    <2>8. q \in Seq(Nat) /\ Len(q) = m /\ DOMAIN q = 1 .. m
      <3>1. q \in Seq(Nat) /\ Len(q) = m
        BY <2>4 DEF Laid
      <3> QED BY <3>1, LenProperties
    <2> HIDE DEF m
    <2>9. ASSUME NEW y \in 1 .. m
          PROVE  /\ q[y] \in 1 .. Len(batch) /\ ~used[q[y]]
                 /\ Place1(k, y) \in 1 .. n /\ Seqs(batch, q[y]) = s[Place1(k, y)]
      <3>1. q[y] \in Unused(s[Place1(k, y)])
        BY <2>6, <2>7
      <3> QED BY <2>7, <3>1 DEF Unused
    <2>10. Fresh(u)
      <3>1. u.idxs = q /\ u \in Ubatch
        <4> HIDE DEF q, n
        <4> QED BY <2>2, <2>4, <2>8 DEF Ubatch
      <3> QED BY <2>6, <2>8, <2>9, <3>1 DEF Fresh
    <2>11. ASSUME Decreasing(batch) PROVE Ordered(u)
      <3>1. ASSUME NEW y \in 1 .. m, NEW j \in 1 .. Len(batch), j < q[y], Shares(batch, j, q[y]), ~used[j]
            PROVE  Seqs(batch, j) = Seqs(batch, q[y])
        <4>1. CASE how = "sequential"
          <5>1. Singles(batch)
            BY <1>3, <2>2, <4>1, Uncoupled
          <5> QED BY <2>2, <2>9, <3>1, <5>1, SingleSets
        <4>2. CASE how # "sequential"
          <5> DEFINE a == Place1(k, y)
          <5>1. a \in 1 .. n /\ s[a] = Seqs(batch, q[y])
            BY <2>9
          <5>2. PICK g \in 1 .. Len(batch) : ~used[g] /\ Leads(s[a], g)
            BY <1>1, <2>11, <4>2, <5>1 DEF SetsFirst
          <5>3. ~(j < g)
            <6> SUFFICES ASSUME j < g PROVE FALSE
              OBVIOUS
            <6>1. j \in 1 .. g - 1
              BY <2>2
            <6> QED BY <3>1, <5>1, <5>2, <6>1 DEF Leads, Shares
          <5>4. s[a] = Seqs(batch, g)
            BY <5>2 DEF Leads
          <5>5. DOMAIN batch = 1 .. Len(batch)
            BY MarksParts
          <5>6. Seqs(batch, q[y]) \subseteq Seqs(batch, j)
            BY <2>9, <2>11, <3>1, <5>5 DEF Decreasing
          <5>7. CASE g = j
            BY <5>1, <5>4, <5>7
          <5>8. CASE g # j
            <6>1. g < j
              BY <2>2, <5>3, <5>8
            <6>2. Shares(batch, g, j)
              BY <3>1, <5>1, <5>4 DEF Shares
            <6>3. Seqs(batch, j) \subseteq Seqs(batch, g)
              BY <2>11, <5>5, <6>1, <6>2 DEF Decreasing
            <6> QED BY <5>1, <5>4, <5>6, <6>3
          <5> QED BY <5>7, <5>8
        <4> QED BY <4>1, <4>2
      <3>2. ASSUME NEW y \in 1 .. m, NEW j \in 1 .. Len(batch), j < q[y], Shares(batch, j, q[y]), ~used[j]
            PROVE  \E z \in 1 .. m : z < y /\ q[z] = j
        <4>1. Seqs(batch, j) = s[Place1(k, y)] /\ Place1(k, y) \in 1 .. n
          BY <2>9, <3>1, <3>2
        <4>2. j \in T[Place1(k, y)]
          BY <3>2, <4>1 DEF Unused
        <4> QED BY <2>6, <3>2, <4>2
      <3>3. u.idxs = q
        OBVIOUS
      <3> HIDE DEF q
      <3> QED BY <2>8, <3>2, <3>3 DEF Ordered, Behind
    <2>12. ASSUME NSeq <= config.nUbatch PROVE WellFormed(u, batch, config.nUbatch)
      <3>1. config.nUbatch \in Nat /\ NSeq \in Nat
        BY SizeAssumption DEF Marks
      <3>2. n <= config.nUbatch
        <4>1. n <= NSeq
          BY <2>2, <2>3, SetCount
        <4> QED BY <2>2, <2>12, <3>1, <4>1
      <3>3. m <= config.nUbatch
        <4>1. k <= config.nUbatch \div n
          BY <2>1, <3>2 DEF EqualOf
        <4> DEFINE c == config.nUbatch
        <4>2. c \in Nat /\ n <= c /\ k <= c \div n
          BY <3>1, <3>2, <4>1
        <4> HIDE DEF c, n
        <4>3. n * k <= c
          BY <2>2, <2>4, <4>2, BlocksFit
        <4> QED BY <4>3 DEF c, m, n
      <3> DEFINE blk == [y \in 1 .. m |-> (y - 1) \div k]
      <3>4. \A y \in 1 .. m : blk[y] = (y - 1) \div k
        OBVIOUS
      <3>5. BlocksOf(u, k, blk)
        <4>1. m \div n = k /\ k * n = m
          BY <2>2, <2>4, BlockCount DEF m
        <4>2. u.idxs = q /\ u.nSeqs = n
          BY <2>4
        <4> HIDE DEF blk, q, n
        <4> QED BY <2>8, <3>4, <4>1, <4>2 DEF BlocksOf
      <3>6. ASSUME NEW y \in 1 .. m, NEW z \in 1 .. m
            PROVE  /\ blk[y] = blk[z] => Seqs(batch, q[y]) = Seqs(batch, q[z])
                   /\ blk[y] # blk[z] => Seqs(batch, q[y]) \cap Seqs(batch, q[z]) = {}
        <4>1. Place1(k, y) = blk[y] + 1 /\ Place1(k, z) = blk[z] + 1
          BY <3>4 DEF Place1
        <4>2. blk[y] \in Int /\ blk[z] \in Int
          <5>1. (y - 1) \div k \in Int /\ (z - 1) \div k \in Int
            BY <2>4
          <5> QED BY <3>4, <5>1
        <4>3. blk[y] = blk[z] <=> Place1(k, y) = Place1(k, z)
          <5> HIDE DEF blk
          <5> QED BY <4>1, <4>2
        <4> HIDE DEF blk
        <4> QED BY <2>2, <2>9, <4>3
      <3>7. SetsOf(u, batch, blk)
        <4>1. u.idxs = q
          OBVIOUS
        <4> HIDE DEF blk, q
        <4> QED BY <2>8, <3>6, <4>1 DEF SetsOf
      <3>8. Len(u.idxs) <= config.nUbatch
        BY <2>8, <3>3
      <3> HIDE DEF blk
      <3> QED BY <3>5, <3>7, <3>8, BlocksWellFormed
    <2> QED BY <2>10, <2>11, <2>12 DEF u
<1> QED BY <1>2, <1>3

-----------------------------------------------------------------------------
(* Any split.                                                              *)

LEMMA SplitFresh ==
    ASSUME Marks, NEW how
    PROVE  Fresh(Split(how))
BY SimpleSplit, SeqSplit, EqualSplit DEF Split

LEMMA SplitSound ==
    ASSUME Marks, NEW how, Decreasing(batch), how = "seq" => Singles(batch), NSeq <= config.nUbatch
    PROVE  Ordered(Split(how)) /\ WellFormed(Split(how), batch, config.nUbatch)
BY SimpleSplit, SeqSplit, EqualSplit DEF Split

-----------------------------------------------------------------------------
(* init(): the batch.                                                      *)

Memories == [SeqId -> SUBSET (0 .. MaxPos)]

LEMMA NextPos ==
    ASSUME NEW m \in Memories, NEW s \in SeqId
    PROVE  PosMax(m, s) + 1 \in Nat
<1>1. m[s] \in SUBSET (0 .. MaxPos) /\ MaxPos \in Nat
    BY SizeAssumption DEF Memories
<1>2. CASE m[s] = {}
    BY <1>2 DEF PosMax
<1>3. CASE m[s] # {}
    <2>1. Max(m[s]) \in m[s]
      BY <1>1, <1>3, MaxExists
    <2> QED BY <1>1, <1>3, <2>1 DEF PosMax
<1> QED BY <1>2, <1>3

\* The positions that the sequences go on from.
PosAfter(ids, i, p) == [s \in SeqId |-> IF s \in Range(ids[i]) THEN p[ids[i][1]] + 1 ELSE p[s]]

\* Lists of sequences that callers pass.
IdLists == {ids \in Seq(Seq(SeqId)) : \A i \in 1 .. Len(ids) : ids[i] # <<>>}

LEMMA FirstId ==
    ASSUME NEW ids \in IdLists, NEW i \in 1 .. Len(ids)
    PROVE  ids[i] \in Seq(SeqId) /\ ids[i] # <<>> /\ ids[i][1] \in SeqId
<1> DEFINE d == ids[i]
<1>1. d \in Seq(SeqId) /\ d # <<>>
    BY ElementOfSeq DEF IdLists
<1> HIDE DEF d
<1>2. 1 \in 1 .. Len(d)
    BY <1>1, EmptySeq
<1>3. d[1] \in SeqId
    BY <1>1, <1>2, ElementOfSeq
<1> QED BY <1>1, <1>3 DEF d

LEMMA AutoPosType ==
    ASSUME NEW m \in Memories, NEW ids \in IdLists
    PROVE  \A i \in 1 .. Len(ids) : AutoPos(ids, m)[i] \in Nat
<1> DEFINE n == Len(ids)
           a == [s \in SeqId |-> PosMax(m, s) + 1]
           G(f) == f = [i \in 0 .. n |-> IF i = 0 THEN a ELSE PosAfter(ids, i, f[i - 1])]
           X == [SeqId -> Nat]
           st == [i \in 1 .. n |-> [x \in X |-> PosAfter(ids, i, x)]]
           c == CHOOSE f : G(f)
<1>1. n \in Nat
    BY LenProperties DEF IdLists
<1>2. AutoPos(ids, m) = [i \in 1 .. n |-> c[i - 1][ids[i][1]]]
    BY DEF AutoPos, PosAfter
<1>3. a \in X
    BY NextPos
<1>4. ASSUME NEW i \in 1 .. n, NEW x \in X PROVE PosAfter(ids, i, x) \in X
    <2>1. ids[i][1] \in SeqId
      BY FirstId
    <2>2. x[ids[i][1]] + 1 \in Nat
      BY <2>1
    <2> QED BY <2>2 DEF PosAfter
<1>5. PICK f : Runs(f, n, a, st, X)
    <2>1. \A i \in 1 .. n : \A x \in X : st[i][x] \in X
      BY <1>4
    <2> HIDE DEF st, a, X, n
    <2> QED BY <1>1, <1>3, <2>1, Recursion
<1>6. f = [i \in 0 .. n |-> IF i = 0 THEN a ELSE st[i][f[i - 1]]] /\ \A i \in 0 .. n : f[i] \in X
    BY <1>5 DEF Runs
<1>7. G(f)
    <2>1. ASSUME NEW i \in 0 .. n, i # 0 PROVE st[i][f[i - 1]] = PosAfter(ids, i, f[i - 1])
      <3>1. i - 1 \in 0 .. n /\ i \in 1 .. n
        BY <1>1, <2>1
      <3>2. f[i - 1] \in X
        BY <1>6, <3>1
      <3> HIDE DEF X
      <3> QED BY <3>1, <3>2
    <2> HIDE DEF st, a, n
    <2> QED BY <1>6, <2>1
<1>8. G(c)
    <2> HIDE DEF G
    <2> QED BY <1>7
<1> HIDE DEF c
<1>9. c[0] = a /\ \A i \in 1 .. n : c[i] = PosAfter(ids, i, c[i - 1])
    <2>1. \A i \in 1 .. n : i \in 0 .. n /\ i # 0
      BY <1>1
    <2>2. 0 \in 0 .. n
      BY <1>1
    <2> HIDE DEF a, n
    <2> QED BY <1>8, <2>1, <2>2
<1> DEFINE B == {i \in 0 .. n : c[i] \in X}
<1>10. \A i \in 0 .. n : i \in B
    <2>1. 0 \in B
      BY <1>1, <1>3, <1>9
    <2>2. \A i \in 1 .. n : i - 1 \in B => i \in B
      <3> HIDE DEF X
      <3>1. \A i \in 1 .. n : i \in 0 .. n
        BY <1>1
      <3> QED BY <1>4, <1>9, <3>1
    <2> HIDE DEF B, n
    <2> QED BY <1>1, <2>1, <2>2, Steps
<1>11. ASSUME NEW i \in 1 .. n PROVE c[i - 1][ids[i][1]] \in Nat
    <2>1. i - 1 \in 0 .. n
      BY <1>1
    <2>2. c[i - 1] \in [SeqId -> Nat]
      BY <1>10, <2>1
    <2>3. ids[i][1] \in SeqId
      BY FirstId
    <2> QED BY <2>2, <2>3
<1> HIDE DEF n
<1> QED BY <1>2, <1>11 DEF n

LEMMA FilledType ==
    ASSUME NEW m \in Memories, NEW in \in Inputs
    PROVE  Filled(in, m) \in Batches
<1> DEFINE n == Len(in.ids)
           p == IF in.pos = <<>> THEN AutoPos(in.ids, m) ELSE in.pos
           o == [i \in 1 .. n |-> IF in.out = <<>> THEN i = n ELSE in.out[i]]
           b == Filled(in, m)
<1>1. /\ in.ids \in Seq(Seq(SeqId) \ {<<>>}) \ {<<>>}
      /\ in.pos \in Seq(Nat) /\ Len(in.pos) \in {0, n}
      /\ in.out \in Seq(BOOLEAN) /\ Len(in.out) \in {0, n}
    BY InputAssumption
<1>2. n \in Nat /\ \A i \in 1 .. n : in.ids[i] \in Seq(SeqId) \ {<<>>}
    <2>1. in.ids \in Seq(Seq(SeqId) \ {<<>>})
      BY <1>1
    <2> QED BY <2>1, LenProperties, ElementOfSeq
<1>3. in.ids \in IdLists
    <2>1. in.ids \in Seq(Seq(SeqId))
      <3>1. in.ids \in Seq(Seq(SeqId) \ {<<>>}) /\ Seq(SeqId) \ {<<>>} \subseteq Seq(SeqId)
        BY <1>1
      <3> QED BY <3>1, SeqMonotonic
    <2> QED BY <1>2, <2>1 DEF IdLists
<1>4. ASSUME NEW i \in 1 .. n PROVE p[i] \in Nat
    <2>1. CASE in.pos = <<>>
      BY <1>3, <2>1, AutoPosType
    <2>2. CASE in.pos # <<>>
      <3> DEFINE q == in.pos
      <3>1. q \in Seq(Nat) /\ q # <<>> /\ Len(q) \in {0, n}
        BY <1>1, <2>2
      <3> HIDE DEF q
      <3>2. Len(q) = n
        BY <3>1, EmptySeq
      <3>3. q[i] \in Nat
        BY <3>1, <3>2, ElementOfSeq
      <3> QED BY <2>2, <3>3 DEF q
    <2> QED BY <2>1, <2>2
<1>5. ASSUME NEW i \in 1 .. n PROVE o[i] \in BOOLEAN
    <2>1. CASE in.out = <<>>
      BY <2>1
    <2>2. CASE in.out # <<>>
      <3> DEFINE q == in.out
      <3>1. q \in Seq(BOOLEAN) /\ q # <<>> /\ Len(q) \in {0, n}
        BY <1>1, <2>2
      <3> HIDE DEF q
      <3>2. Len(q) = n
        BY <3>1, EmptySeq
      <3>3. q[i] \in BOOLEAN
        BY <3>1, <3>2, ElementOfSeq
      <3> QED BY <2>2, <3>3 DEF q
    <2> QED BY <2>1, <2>2
<1>6. b = [i \in 1 .. n |-> [ids |-> in.ids[i], pos |-> p[i], out |-> o[i]]]
    BY DEF Filled
<1> HIDE DEF p, o, b, n
<1>7. ASSUME NEW i \in 1 .. n
      PROVE  b[i] = [ids |-> in.ids[i], pos |-> p[i], out |-> o[i]] /\ b[i] \in Token /\ b[i].ids # <<>>
    <2>1. b[i] = [ids |-> in.ids[i], pos |-> p[i], out |-> o[i]]
      BY <1>6
    <2>2. in.ids[i] \in Seq(SeqId) /\ in.ids[i] # <<>>
      BY <1>2
    <2> QED BY <1>4, <1>5, <2>1, <2>2 DEF Token
<1>8. b \in [1 .. n -> Token]
    BY <1>6, <1>7
<1>9. b \in Seq(Token) /\ Len(b) = n
    BY <1>2, <1>8, FunctionSeq
<1>10. b \in Batches
    BY <1>7, <1>9 DEF Batches
<1> QED BY <1>10 DEF b

-----------------------------------------------------------------------------
(* The tokens in ubatches, and their outputs, for any callers.             *)

\* The ubatches have the used tokens, each in one place.
Apart(ub) ==
    \A k, l \in 1 .. Len(ub) : \A x \in 1 .. Len(ub[k].idxs), y \in 1 .. Len(ub[l].idxs) :
      ub[k].idxs[x] = ub[l].idxs[y] => k = l /\ x = y

Contains(ub, i) == \E k \in 1 .. Len(ub) : Has(ub[k].idxs, i)

Marked(b, us, ub) ==
    /\ b \in Batches /\ us \in [DOMAIN b -> BOOLEAN] /\ ub \in Seq(Ubatch)
    /\ \A k \in 1 .. Len(ub) : \A x \in 1 .. Len(ub[k].idxs) :
         ub[k].idxs[x] \in 1 .. Len(b) /\ us[ub[k].idxs[x]]
    /\ \A i \in 1 .. Len(b) : us[i] => Contains(ub, i)
    /\ Apart(ub)

LEMMA MarkedParts ==
    ASSUME NEW b, NEW us, NEW ub, Marked(b, us, ub)
    PROVE  /\ Len(b) \in Nat /\ DOMAIN b = 1 .. Len(b) /\ Len(ub) \in Nat /\ DOMAIN ub = 1 .. Len(ub)
           /\ \A k \in 1 .. Len(ub) : /\ ub[k] \in Ubatch /\ ub[k].idxs \in Seq(Nat) /\ Len(ub[k].idxs) \in Nat
                                      /\ DOMAIN ub[k].idxs = 1 .. Len(ub[k].idxs)
<1>1. Len(b) \in Nat /\ DOMAIN b = 1 .. Len(b)
    BY BatchParts DEF Marked
<1>2. Len(ub) \in Nat /\ DOMAIN ub = 1 .. Len(ub)
    BY LenProperties DEF Marked
<1>3. ASSUME NEW k \in 1 .. Len(ub)
      PROVE  /\ ub[k] \in Ubatch /\ ub[k].idxs \in Seq(Nat) /\ Len(ub[k].idxs) \in Nat
             /\ DOMAIN ub[k].idxs = 1 .. Len(ub[k].idxs)
    <2>1. ub[k] \in Ubatch
      BY ElementOfSeq DEF Marked
    <2>2. ub[k].idxs \in Seq(Nat)
      BY <2>1 DEF Ubatch
    <2> QED BY <2>1, <2>2, LenProperties
<1> QED BY <1>1, <1>2, <1>3

\* The marks and ubatches after u.
Marking(u) == [i \in DOMAIN batch |-> used[i] \/ i \in Range(u.idxs)]

LEMMA MarkingParts ==
    ASSUME Marked(batch, used, ubatches), NEW u, Fresh(u)
    PROVE  /\ Marking(u) \in [DOMAIN batch -> BOOLEAN]
           /\ \A i \in 1 .. Len(batch) : Marking(u)[i] <=> used[i] \/ Has(u.idxs, i)
           /\ u.idxs \in Seq(Nat) /\ Len(u.idxs) \in Nat /\ DOMAIN u.idxs = 1 .. Len(u.idxs)
           /\ Len(Append(ubatches, u)) = Len(ubatches) + 1 /\ Append(ubatches, u) \in Seq(Ubatch)
           /\ Append(ubatches, u)[Len(ubatches) + 1] = u
           /\ \A k \in 1 .. Len(ubatches) : Append(ubatches, u)[k] = ubatches[k]
<1>1. u \in Ubatch /\ u.idxs \in Seq(Nat)
    BY DEF Fresh, Ubatch
<1>2. Len(u.idxs) \in Nat /\ DOMAIN u.idxs = 1 .. Len(u.idxs)
    BY <1>1, LenProperties
<1>3. \A i : i \in Range(u.idxs) <=> Has(u.idxs, i)
    BY <1>2 DEF Range, Has
<1>4. DOMAIN batch = 1 .. Len(batch)
    BY MarkedParts
<1>5. Marking(u) \in [DOMAIN batch -> BOOLEAN]
    BY DEF Marking, Marked
<1>6. \A i \in 1 .. Len(batch) : Marking(u)[i] <=> used[i] \/ Has(u.idxs, i)
    BY <1>3, <1>4 DEF Marking
<1>7. /\ Len(Append(ubatches, u)) = Len(ubatches) + 1 /\ Append(ubatches, u) \in Seq(Ubatch)
      /\ Append(ubatches, u)[Len(ubatches) + 1] = u
      /\ \A k \in 1 .. Len(ubatches) : Append(ubatches, u)[k] = ubatches[k]
    BY <1>1, AppendProperties DEF Marked
<1> QED BY <1>1, <1>2, <1>5, <1>6, <1>7

LEMMA AddMarked ==
    ASSUME Marked(batch, used, ubatches), NEW u, Fresh(u)
    PROVE  Marked(batch, Marking(u), Append(ubatches, u))
<1> DEFINE us == Marking(u)
           ub == Append(ubatches, u)
           n  == Len(ubatches)
           m  == Len(u.idxs)
<1>1. /\ us \in [DOMAIN batch -> BOOLEAN]
      /\ \A i \in 1 .. Len(batch) : us[i] <=> used[i] \/ Has(u.idxs, i)
      /\ m \in Nat
      /\ Len(ub) = n + 1 /\ ub \in Seq(Ubatch) /\ ub[n + 1] = u /\ \A k \in 1 .. n : ub[k] = ubatches[k]
    BY MarkingParts
<1>2. n \in Nat
    BY MarkedParts
<1> HIDE DEF us, ub
<1>3. \A k \in 1 .. n + 1 : k = n + 1 \/ k \in 1 .. n
    BY <1>2
<1>4. n + 1 \in 1 .. n + 1 /\ \A k \in 1 .. n : k \in 1 .. n + 1
    BY <1>2
<1>5. \A x \in 1 .. m : u.idxs[x] \in 1 .. Len(batch) /\ ~used[u.idxs[x]] /\ Has(u.idxs, u.idxs[x])
    BY DEF Fresh, Has
<1>6. ASSUME NEW k \in 1 .. n + 1, NEW x \in 1 .. Len(ub[k].idxs)
      PROVE  ub[k].idxs[x] \in 1 .. Len(batch) /\ us[ub[k].idxs[x]]
    <2>1. CASE k = n + 1
      BY <1>1, <1>5, <1>6, <2>1
    <2>2. CASE k \in 1 .. n
      BY <1>1, <1>6, <2>2 DEF Marked
    <2> QED BY <1>3, <2>1, <2>2
<1>7. ASSUME NEW i \in 1 .. Len(batch), us[i] PROVE Contains(ub, i)
    <2>1. CASE used[i]
      <3>1. PICK k \in 1 .. n : Has(ubatches[k].idxs, i)
        BY <2>1 DEF Marked, Contains
      <3> QED BY <1>1, <1>4, <3>1 DEF Contains
    <2>2. CASE Has(u.idxs, i)
      BY <1>1, <1>4, <2>2 DEF Contains
    <2> QED BY <1>1, <1>7, <2>1, <2>2
<1>8. ASSUME NEW k \in 1 .. n + 1, NEW l \in 1 .. n + 1,
             NEW x \in 1 .. Len(ub[k].idxs), NEW y \in 1 .. Len(ub[l].idxs), ub[k].idxs[x] = ub[l].idxs[y]
      PROVE  k = l /\ x = y
    <2>1. CASE k \in 1 .. n /\ l \in 1 .. n
      <3>1. ub[k] = ubatches[k] /\ ub[l] = ubatches[l]
        BY <1>1, <2>1
      <3>2. /\ x \in 1 .. Len(ubatches[k].idxs) /\ y \in 1 .. Len(ubatches[l].idxs)
            /\ ubatches[k].idxs[x] = ubatches[l].idxs[y]
        BY <1>8, <3>1
      <3>3. \A a, c \in 1 .. n : \A v \in 1 .. Len(ubatches[a].idxs), w \in 1 .. Len(ubatches[c].idxs) :
              ubatches[a].idxs[v] = ubatches[c].idxs[w] => a = c /\ v = w
        BY DEF Marked, Apart
      <3> HIDE DEF n
      <3> QED BY <2>1, <3>2, <3>3
    <2>2. CASE k = n + 1 /\ l = n + 1
      <3>1. ub[k] = u /\ ub[l] = u /\ k = l
        BY <1>1, <2>2
      <3>2. x \in 1 .. Len(u.idxs) /\ y \in 1 .. Len(u.idxs) /\ u.idxs[x] = u.idxs[y]
        BY <1>8, <3>1
      <3>3. Unrepeated(u.idxs)
        BY DEF Fresh
      <3>4. x = y
        BY <3>2, <3>3 DEF Unrepeated
      <3> QED BY <3>1, <3>4
    <2>3. CASE k = n + 1 /\ l \in 1 .. n
      <3>1. ~used[ub[k].idxs[x]] /\ used[ub[l].idxs[y]]
        BY <1>1, <1>5, <2>3 DEF Marked
      <3> QED BY <1>8, <3>1
    <2>4. CASE k \in 1 .. n /\ l = n + 1
      <3>1. used[ub[k].idxs[x]] /\ ~used[ub[l].idxs[y]]
        BY <1>1, <1>5, <2>4 DEF Marked
      <3> QED BY <1>8, <3>1
    <2> QED BY <1>3, <2>1, <2>2, <2>3, <2>4
<1>9. Apart(ub)
    <2> HIDE DEF n
    <2> QED BY <1>1, <1>8 DEF Apart
<1>10. Marked(batch, us, ub)
    <2> HIDE DEF n
    <2> QED BY <1>1, <1>6, <1>7, <1>9 DEF Marked
<1> QED BY <1>10 DEF us, ub

\* ids has the used tokens with outputs.
Outs(b) == {i \in DOMAIN b : b[i].out}
Gathered(b, us, ids) ==
    /\ ids \in Seq(Nat) /\ Unrepeated(ids)
    /\ \A j \in 1 .. Len(ids) : ids[j] \in Outs(b) /\ us[ids[j]]
    /\ \A i \in Outs(b) : us[i] => Has(ids, i)

LEMMA AddGathered ==
    ASSUME Marked(batch, used, ubatches), NEW u, Fresh(u), Gathered(batch, used, outIds)
    PROVE  Gathered(batch, Marking(u), outIds \o WithOutput(u.idxs))
<1> DEFINE p   == WithOutput(u.idxs)
           us  == Marking(u)
           ids == outIds \o p
           n   == Len(outIds)
           O   == Outs(batch)
<1>1. /\ \A i \in 1 .. Len(batch) : us[i] <=> used[i] \/ Has(u.idxs, i)
      /\ u.idxs \in Seq(Nat) /\ Len(u.idxs) \in Nat
    BY MarkingParts
<1> HIDE DEF us
<1>2. p = Only(u.idxs, O)
    BY DEF WithOutput, Outs
<1> HIDE DEF p
<1>3. p \in Seq(Nat) /\ Picked(p, u.idxs, O, Len(u.idxs))
    BY <1>1, <1>2, OnlyPicks
<1>4. PICK g : Embeds(g, p, u.idxs, Len(u.idxs))
    BY <1>3 DEF Picked
<1> DEFINE m == Len(p)
<1>5. n \in Nat /\ m \in Nat /\ outIds \in Seq(Nat) /\ O \subseteq 1 .. Len(batch)
    <2>1. DOMAIN batch = 1 .. Len(batch)
      BY MarkedParts
    <2> QED BY <1>3, <2>1, LenProperties DEF Gathered, Outs
<1>6. ids \in Seq(Nat) /\ Len(ids) = n + m /\ \A i \in 1 .. n + m : ids[i] = IF i <= n THEN outIds[i] ELSE p[i - n]
    BY <1>3, <1>5, ConcatProperties
<1> HIDE DEF ids
<1>7. ASSUME NEW j \in 1 .. m PROVE p[j] \in O /\ us[p[j]] /\ ~used[p[j]] /\ g[j] \in 1 .. Len(u.idxs) /\ p[j] = u.idxs[g[j]]
    <2>1. p[j] \in O /\ g[j] \in 1 .. Len(u.idxs) /\ p[j] = u.idxs[g[j]]
      BY <1>3, <1>4 DEF Picked, Embeds
    <2>2. Has(u.idxs, p[j]) /\ ~used[p[j]]
      BY <2>1 DEF Has, Fresh
    <2> QED BY <1>1, <1>5, <2>1, <2>2
<1>8. ASSUME NEW i \in 1 .. m, NEW j \in 1 .. m, i # j PROVE p[i] # p[j]
    <2>1. i < j \/ j < i
      BY <1>5, <1>8
    <2>2. g[i] < g[j] \/ g[j] < g[i]
      BY <1>4, <2>1 DEF Embeds
    <2>3. g[i] # g[j]
      BY <1>1, <1>7, <2>2
    <2>4. Unrepeated(u.idxs)
      BY DEF Fresh
    <2>5. u.idxs[g[i]] # u.idxs[g[j]]
      BY <1>7, <2>3, <2>4 DEF Unrepeated
    <2> QED BY <1>7, <2>5
<1>9. ASSUME NEW i \in 1 .. n + m
      PROVE  (i \in 1 .. n /\ ids[i] = outIds[i]) \/ (i - n \in 1 .. m /\ ~(i <= n) /\ ids[i] = p[i - n])
    BY <1>5, <1>6
<1>10. ASSUME NEW i \in 1 .. n PROVE outIds[i] \in O /\ used[outIds[i]] /\ us[outIds[i]]
    <2>1. outIds[i] \in O /\ used[outIds[i]]
      BY DEF Gathered
    <2> QED BY <1>1, <1>5, <2>1
<1>11. ASSUME NEW i \in 1 .. n + m, NEW j \in 1 .. n + m, i # j PROVE ids[i] # ids[j]
    <2>1. CASE i \in 1 .. n /\ ids[i] = outIds[i] /\ j \in 1 .. n /\ ids[j] = outIds[j]
      BY <1>11, <2>1 DEF Gathered, Unrepeated
    <2>2. CASE i \in 1 .. n /\ ids[i] = outIds[i] /\ j - n \in 1 .. m /\ ids[j] = p[j - n]
      BY <1>7, <1>10, <2>2
    <2>3. CASE i - n \in 1 .. m /\ ids[i] = p[i - n] /\ j \in 1 .. n /\ ids[j] = outIds[j]
      BY <1>7, <1>10, <2>3
    <2>4. CASE i - n \in 1 .. m /\ ids[i] = p[i - n] /\ j - n \in 1 .. m /\ ids[j] = p[j - n]
      <3>1. i - n # j - n
        BY <1>5, <1>11
      <3> QED BY <1>8, <2>4, <3>1
    <2> QED BY <1>9, <2>1, <2>2, <2>3, <2>4
<1>12. Unrepeated(ids)
    BY <1>6, <1>11 DEF Unrepeated
<1>13. \A j \in 1 .. Len(ids) : ids[j] \in O /\ us[ids[j]]
    <2>1. ASSUME NEW j \in 1 .. n + m PROVE ids[j] \in O /\ us[ids[j]]
      <3>1. CASE j \in 1 .. n /\ ids[j] = outIds[j]
        BY <1>10, <3>1
      <3>2. CASE j - n \in 1 .. m /\ ids[j] = p[j - n]
        BY <1>7, <3>2
      <3> QED BY <1>9, <3>1, <3>2
    <2> QED BY <1>6, <2>1
<1>14. ASSUME NEW i \in O, us[i] PROVE Has(ids, i)
    <2>1. CASE used[i]
      <3>1. PICK j \in 1 .. n : outIds[j] = i
        BY <2>1 DEF Gathered, Has
      <3>2. j \in 1 .. n + m /\ j <= n
        BY <1>5
      <3> QED BY <1>6, <3>1, <3>2 DEF Has
    <2>2. CASE Has(u.idxs, i)
      <3>1. Has(p, i)
        BY <1>3, <2>2 DEF Picked, Has
      <3>2. PICK j \in 1 .. m : p[j] = i
        BY <3>1 DEF Has
      <3>3. n + j \in 1 .. n + m /\ ~(n + j <= n) /\ (n + j) - n = j
        BY <1>5
      <3>4. ids[n + j] = i
        BY <1>6, <3>2, <3>3
      <3> QED BY <1>6, <3>3, <3>4 DEF Has
    <2>3. i \in 1 .. Len(batch)
      BY <1>5
    <2> QED BY <1>1, <1>14, <2>1, <2>2, <2>3
<1>15. Gathered(batch, us, ids)
    <2> HIDE DEF O
    <2> QED BY <1>6, <1>12, <1>13, <1>14 DEF Gathered, O
<1> QED BY <1>15 DEF us, ids, p

-----------------------------------------------------------------------------
(* The rows of the output buffer, ubatch by ubatch.                        *)

Collected(r, b, ub) ==
    /\ r[0] = <<>>
    /\ \A k \in 1 .. Len(ub) : r[k] = r[k - 1] \o Only(ub[k].idxs, Outs(b))

\* ids has the outputs of all ubatches, and rows those of the first k.
Rowed(b, ub, ids, rows, k) == \E r : Collected(r, b, ub) /\ ids = r[Len(ub)] /\ rows = r[k]

LEMMA RowedNone ==
    ASSUME NEW b
    PROVE  Rowed(b, <<>>, <<>>, <<>>, 0)
<1> DEFINE e == <<>>
           r == [k \in {0} |-> e]
<1>1. Len(e) = 0 /\ r[0] = e
    OBVIOUS
<1>2. e = <<>>
    OBVIOUS
<1> HIDE DEF e, r
<1>3. Collected(r, b, e)
    BY <1>1, <1>2 DEF Collected
<1>4. Rowed(b, e, e, e, 0)
    BY <1>1, <1>3 DEF Rowed
<1> QED BY <1>2, <1>4

LEMMA RowedAdd ==
    ASSUME NEW b, NEW ub \in Seq(Ubatch), NEW u \in Ubatch, NEW ids, NEW rows, Rowed(b, ub, ids, rows, 0)
    PROVE  Rowed(b, Append(ub, u), ids \o Only(u.idxs, Outs(b)), rows, 0)
<1> DEFINE n == Len(ub)
           q == Append(ub, u)
           x == ids \o Only(u.idxs, Outs(b))
<1>1. PICK r : Collected(r, b, ub) /\ ids = r[n] /\ rows = r[0]
    BY DEF Rowed
<1>2. n \in Nat /\ Len(q) = n + 1 /\ q[n + 1] = u /\ \A k \in 1 .. n : q[k] = ub[k]
    BY AppendProperties, LenProperties
<1> DEFINE z == [k \in 0 .. n + 1 |-> IF k <= n THEN r[k] ELSE x]
<1>3. /\ \A k \in 1 .. n : k - 1 \in 0 .. n + 1 /\ k - 1 <= n /\ k \in 0 .. n + 1 /\ k <= n
      /\ 0 \in 0 .. n + 1 /\ 0 <= n /\ n + 1 \in 0 .. n + 1 /\ ~(n + 1 <= n) /\ n \in 0 .. n + 1 /\ n <= n
      /\ (n + 1) - 1 = n /\ \A k \in 1 .. n + 1 : k \in 1 .. n \/ k = n + 1
    BY <1>2
<1>4. z[0] = r[0] /\ z[n + 1] = x /\ z[n] = r[n] /\ \A k \in 1 .. n : z[k] = r[k] /\ z[k - 1] = r[k - 1]
    <2> HIDE DEF x, n
    <2> QED BY <1>3
<1> HIDE DEF z, q
<1>5. ASSUME NEW k \in 1 .. n + 1 PROVE z[k] = z[k - 1] \o Only(q[k].idxs, Outs(b))
    <2>1. CASE k \in 1 .. n
      BY <1>1, <1>2, <1>4, <2>1 DEF Collected
    <2>2. CASE k = n + 1
      <3>1. z[k - 1] = ids /\ q[k] = u
        BY <1>1, <1>2, <1>3, <1>4, <2>2
      <3> QED BY <1>4, <2>2, <3>1
    <2> QED BY <1>3, <2>1, <2>2
<1>6. Collected(z, b, q)
    BY <1>1, <1>2, <1>4, <1>5 DEF Collected
<1>7. Rowed(b, q, x, rows, 0)
    <2> HIDE DEF x
    <2> QED BY <1>1, <1>2, <1>4, <1>6 DEF Rowed
<1> QED BY <1>7 DEF q

LEMMA RowedNext ==
    ASSUME NEW b, NEW ub, Len(ub) \in Nat, NEW ids, NEW rows,
           NEW k \in 1 .. Len(ub), Rowed(b, ub, ids, rows, k - 1)
    PROVE  Rowed(b, ub, ids, rows \o Only(ub[k].idxs, Outs(b)), k)
BY DEF Rowed, Collected

-----------------------------------------------------------------------------
(* What holds of a call, whatever callers pass.                            *)

\* The batch and what is known of it.
BatchInv ==
    /\ config \in [kind : Kinds, nUbatch : NUbatches]
    /\ pc \in {"idle", "split", "compute", "done"}
    /\ Marked(batch, used, ubatches)
    /\ \A i \in 1 .. Len(batch) : batch[i].pos <= MaxPos
    /\ Gathered(batch, used, outIds)
    /\ mem \in Memories /\ computed \in Memories

IsOutput(o) ==
    o = [rows |-> o.rows, dense |-> o.dense, ids |-> o.ids, n |-> o.n, swaps |-> o.swaps, ok |-> o.ok]

\* The outputs are those of the batch, and the swaps put them in its order.
Known ==
    /\ Lists(outIds, Outs(batch))
    /\ out.rows \in Seq(Nat) /\ Len(out.rows) = Len(outIds) /\ out.n = Len(outIds)
    /\ out.swaps \in Seq((1 .. Len(outIds)) \X (1 .. Len(outIds)))
    /\ Reordered(out.rows, out.swaps) = outIds
    /\ out.ids = RowOf(outIds)

RowsInv ==
    /\ IsOutput(out)
    /\ pc \in {"idle", "split"} => out = NoOutput
    /\ pc \in {"split", "compute"} =>
         next \in 1 .. Len(ubatches) + 1 /\ Rowed(batch, ubatches, outIds, out.rows, next - 1)
    /\ pc = "split" => next = 1
    /\ pc = "compute" => \A i \in 1 .. Len(batch) : used[i]
    /\ pc # "done" => out.ok = FALSE
    /\ out.ok = FALSE => out.swaps = <<>>
    /\ out.ok # FALSE => Known

CallInv == BatchInv /\ RowsInv

LEMMA NUbatchType ==
    ASSUME BatchInv
    PROVE  Marks
<1>1. config.nUbatch \in NUbatches
    BY DEF BatchInv
<1>2. config.nUbatch \in Nat /\ config.nUbatch > 0
    <2>1. config.nUbatch \in Nat \ {0}
      BY <1>1, SizeAssumption
    <2> QED BY <2>1
<1> QED BY <1>2 DEF Marks, BatchInv, Marked

LEMMA NoTokens ==
    /\ Marked(<<>>, <<>>, <<>>)
    /\ Gathered(<<>>, <<>>, <<>>)
<1> DEFINE e == <<>>
<1>1. e \in Seq(Token) /\ e \in Seq(Nat) /\ e \in Seq(Ubatch) /\ Len(e) = 0 /\ 1 .. Len(e) = {} /\ DOMAIN e = {}
    OBVIOUS
<1>2. e \in [DOMAIN e -> BOOLEAN]
    OBVIOUS
<1> HIDE DEF e
<1>3. Marked(e, e, e)
    BY <1>1, <1>2 DEF Marked, Batches, Apart
<1>4. Gathered(e, e, e)
    BY <1>1 DEF Gathered, Unrepeated, Outs
<1> QED BY <1>3, <1>4 DEF e

\* A split begins with no ubatch.
LEMMA Unmarked ==
    ASSUME NEW b \in Batches
    PROVE  /\ Marked(b, [i \in DOMAIN b |-> FALSE], <<>>)
           /\ Gathered(b, [i \in DOMAIN b |-> FALSE], <<>>)
<1> DEFINE e == <<>>
           us == [i \in DOMAIN b |-> FALSE]
<1>1. e \in Seq(Nat) /\ e \in Seq(Ubatch) /\ Len(e) = 0 /\ 1 .. Len(e) = {}
    OBVIOUS
<1>2. us \in [DOMAIN b -> BOOLEAN] /\ \A i \in DOMAIN b : ~us[i]
    OBVIOUS
<1>3. DOMAIN b = 1 .. Len(b)
    BY BatchParts
<1> HIDE DEF e, us
<1>4. Marked(b, us, e)
    BY <1>1, <1>2, <1>3 DEF Marked, Apart
<1>5. Gathered(b, us, e)
    BY <1>1, <1>2 DEF Gathered, Unrepeated, Outs
<1> QED BY <1>4, <1>5 DEF e, us

LEMMA InitInv ==
    ASSUME Init
    PROVE  CallInv
<1>1. mem \in Memories /\ computed \in Memories
    BY DEF Init, Memories
<1>2. Len(batch) = 0 /\ batch = <<>>
    BY DEF Init
<1>3. \A i \in 1 .. Len(batch) : batch[i].pos <= MaxPos
    BY <1>2
<1>4. BatchInv
    BY <1>1, <1>3, NoTokens DEF Init, BatchInv
<1>5. IsOutput(NoOutput) /\ NoOutput.ok = FALSE /\ NoOutput.swaps = <<>>
    BY DEF IsOutput, NoOutput
<1>6. RowsInv
    BY <1>5 DEF Init, RowsInv
<1> QED BY <1>4, <1>6 DEF CallInv

LEMMA SubmitInv ==
    ASSUME CallInv, NEW in \in Inputs, Submit(in)
    PROVE  CallInv'
<1> DEFINE b == Filled(in, mem)
<1>1. b \in Batches
    BY FilledType DEF CallInv, BatchInv
<1> HIDE DEF b
<1>2. Marked(b, [i \in DOMAIN b |-> FALSE], <<>>) /\ Gathered(b, [i \in DOMAIN b |-> FALSE], <<>>)
    BY <1>1, Unmarked
<1>3. /\ batch' = b /\ used' = [i \in DOMAIN b |-> FALSE] /\ ubatches' = <<>> /\ outIds' = <<>>
      /\ next' = 1 /\ pc' = "split" /\ config' = config /\ mem' = mem /\ computed' = computed
      /\ \A i \in DOMAIN b : b[i].pos <= MaxPos
    BY DEF Submit, Reset, b
<1>4. BatchInv'
    BY <1>1, <1>2, <1>3, BatchParts DEF CallInv, BatchInv
<1>5. out' = NoOutput
    BY DEF Submit, CallInv, RowsInv, NoOutput
<1>6. IsOutput(out') /\ out'.ok = FALSE /\ out'.swaps = <<>> /\ out'.rows = <<>>
    BY <1>5 DEF IsOutput, NoOutput
<1>7. 1 \in 1 .. Len(ubatches') + 1 /\ 1 - 1 = 0
    BY <1>3
<1>8. Rowed(batch', ubatches', outIds', out'.rows, 0)
    BY <1>3, <1>6, RowedNone
<1>9. RowsInv'
    BY <1>3, <1>5, <1>6, <1>7, <1>8 DEF RowsInv
<1> QED BY <1>4, <1>9 DEF CallInv

LEMMA AddUbatchInv ==
    ASSUME CallInv, AddUbatch
    PROVE  CallInv'
<1> DEFINE u == Split(Head(plan))
<1>1. Fresh(u)
    BY NUbatchType, SplitFresh DEF CallInv
<1> HIDE DEF u
<1>2. /\ pc = "split" /\ ubatches' = Append(ubatches, u) /\ used' = Marking(u)
      /\ outIds' = outIds \o WithOutput(u.idxs)
      /\ UNCHANGED <<config, pc, plan, batch, next, mem, computed, out>>
    BY DEF AddUbatch, u, Marking
<1>3. Marked(batch, used, ubatches) /\ Gathered(batch, used, outIds)
    BY DEF CallInv, BatchInv
<1>4. Marked(batch, Marking(u), Append(ubatches, u)) /\ Gathered(batch, Marking(u), outIds \o WithOutput(u.idxs))
    BY <1>1, <1>3, AddMarked, AddGathered
<1>5. BatchInv'
    BY <1>2, <1>4 DEF CallInv, BatchInv
<1>6. next = 1 /\ out = NoOutput /\ Rowed(batch, ubatches, outIds, out.rows, 0)
    <2>1. next = 1 /\ next - 1 = 0
      BY <1>2 DEF CallInv, RowsInv
    <2> QED BY <1>2, <2>1 DEF CallInv, RowsInv
<1>7. u \in Ubatch /\ ubatches \in Seq(Ubatch)
    BY <1>1, <1>3 DEF Fresh, Marked
<1>8. Rowed(batch, Append(ubatches, u), outIds \o WithOutput(u.idxs), out.rows, 0)
    BY <1>6, <1>7, RowedAdd DEF WithOutput, Outs
<1>9. Len(ubatches') \in Nat
    BY <1>2, <1>7, AppendProperties, LenProperties
<1>10. next' \in 1 .. Len(ubatches') + 1 /\ next' - 1 = 0
    BY <1>2, <1>6, <1>9
<1>11. RowsInv'
    BY <1>2, <1>6, <1>8, <1>10 DEF CallInv, RowsInv
<1> QED BY <1>5, <1>11 DEF CallInv

LEMMA PlaceInv ==
    ASSUME CallInv, Place
    PROVE  CallInv'
<1>1. /\ pc = "split" /\ pc' = "compute" /\ \A i \in DOMAIN batch : used[i]
      /\ UNCHANGED <<config, plan, batch, used, ubatches, outIds, next, mem, computed>>
    BY DEF Place, SplitDone
<1>2. BatchInv'
    BY <1>1 DEF CallInv, BatchInv
<1>3. out = NoOutput /\ out' = [out EXCEPT !.rows = <<>>, !.dense = <<>>, !.n = 0, !.ids = [i \in DOMAIN batch |-> 0]]
    BY <1>1 DEF Place, CallInv, RowsInv
<1>4. IsOutput(out') /\ out'.rows = out.rows /\ out'.ok = FALSE /\ out'.swaps = <<>>
    BY <1>3 DEF IsOutput, NoOutput
<1>5. next \in 1 .. Len(ubatches) + 1 /\ Rowed(batch, ubatches, outIds, out.rows, next - 1)
    BY <1>1 DEF CallInv, RowsInv
<1>6. DOMAIN batch = 1 .. Len(batch)
    BY MarkedParts DEF CallInv, BatchInv
<1>7. RowsInv'
    BY <1>1, <1>4, <1>5, <1>6 DEF RowsInv
<1> QED BY <1>2, <1>7 DEF CallInv

LEMMA TryNextInv ==
    ASSUME CallInv, TryNext
    PROVE  CallInv'
<1>1. pc = "split" /\ UNCHANGED <<config, batch, next, mem, computed, out>>
    BY DEF TryNext, SplitDone
<1>2. out = NoOutput /\ next = 1
    BY <1>1 DEF CallInv, RowsInv
<1>3. IsOutput(out) /\ out.ok = FALSE /\ out.swaps = <<>> /\ out.rows = <<>>
    BY <1>2 DEF IsOutput, NoOutput
<1>4. CASE Len(plan) > 1
  <2>1. used' = [i \in DOMAIN batch |-> FALSE] /\ ubatches' = <<>> /\ outIds' = <<>> /\ pc' = pc
    BY <1>4 DEF TryNext, Reset
  <2>2. /\ Marked(batch, [i \in DOMAIN batch |-> FALSE], <<>>)
        /\ Gathered(batch, [i \in DOMAIN batch |-> FALSE], <<>>)
    BY Unmarked DEF CallInv, BatchInv, Marked
  <2>3. BatchInv'
    BY <1>1, <2>1, <2>2 DEF CallInv, BatchInv
  <2>4. 1 \in 1 .. Len(ubatches') + 1 /\ 1 - 1 = 0
    BY <2>1
  <2>5. Rowed(batch', ubatches', outIds', out.rows, 0)
    BY <1>3, <2>1, RowedNone
  <2>6. RowsInv'
    BY <1>1, <1>2, <1>3, <2>1, <2>4, <2>5 DEF RowsInv
  <2> QED BY <2>3, <2>6 DEF CallInv
<1>5. CASE ~(Len(plan) > 1)
  <2>1. pc' = "done" /\ UNCHANGED <<used, ubatches, outIds>>
    BY <1>5 DEF TryNext
  <2>2. BatchInv'
    BY <1>1, <2>1 DEF CallInv, BatchInv
  <2>3. RowsInv'
    BY <1>1, <1>3, <2>1 DEF RowsInv
  <2> QED BY <2>2, <2>3 DEF CallInv
<1> QED BY <1>4, <1>5

\* Positions of the batch are positions of the memory.
LEMMA AddedType ==
    ASSUME BatchInv, NEW m \in Memories, NEW k \in 1 .. Len(ubatches)
    PROVE  /\ Added(m, ubatches[k].idxs) \in Memories
           /\ \A i \in Range(ubatches[k].idxs) : i \in 1 .. Len(batch) /\ batch[i].pos \in 0 .. MaxPos
<1> DEFINE q == ubatches[k].idxs
           P(s) == {batch[i].pos : i \in {j \in Range(q) : s \in Seqs(batch, j)}}
<1>1. DOMAIN q = 1 .. Len(q)
    BY MarkedParts DEF BatchInv
<1>2. \A i \in Range(q) : i \in 1 .. Len(batch)
    BY <1>1 DEF Range, BatchInv, Marked
<1>3. \A i \in 1 .. Len(batch) : batch[i].pos \in Nat
    BY BatchParts DEF BatchInv, Marked
<1>4. \A i \in 1 .. Len(batch) : batch[i].pos \in 0 .. MaxPos
    BY <1>3, SizeAssumption DEF BatchInv
<1> HIDE DEF q
<1>5. \A s \in SeqId : P(s) \subseteq 0 .. MaxPos
    BY <1>2, <1>4
<1>6. \A s \in SeqId : m[s] \subseteq 0 .. MaxPos
    BY DEF Memories
<1>7. Added(m, q) = [s \in SeqId |-> m[s] \cup P(s)]
    BY DEF Added
<1> HIDE DEF P
<1>8. Added(m, q) \in Memories
    BY <1>5, <1>6, <1>7 DEF Memories
<1> QED BY <1>2, <1>4, <1>8 DEF q

LEMMA TakenBackType ==
    ASSUME NEW m \in Memories, NEW q
    PROVE  TakenBack(m, q) \in Memories
BY DEF TakenBack, Memories

LEMMA ComputeInv ==
    ASSUME CallInv, Compute
    PROVE  CallInv'
<1> DEFINE q == ubatches[next].idxs
<1>1. /\ pc = "compute" /\ next <= Len(ubatches) /\ next' = next + 1
      /\ mem' = Added(mem, q) /\ computed' = Added(computed, q)
      /\ UNCHANGED <<config, pc, plan, batch, used, ubatches, outIds>>
    BY DEF Compute
<1>2. out' = [out EXCEPT !.rows = out.rows \o WithOutput(q), !.dense = out.dense \o q]
    BY DEF Compute
<1>3. /\ next \in 1 .. Len(ubatches) + 1 /\ Rowed(batch, ubatches, outIds, out.rows, next - 1)
      /\ IsOutput(out) /\ out.ok = FALSE /\ out.swaps = <<>> /\ \A i \in 1 .. Len(batch) : used[i]
    BY <1>1 DEF CallInv, RowsInv
<1>4. Len(ubatches) \in Nat /\ next \in 1 .. Len(ubatches)
    <2>1. Len(ubatches) \in Nat
      BY MarkedParts DEF CallInv, BatchInv
    <2> QED BY <1>1, <1>3, <2>1
<1>5. mem' \in Memories /\ computed' \in Memories
    BY <1>1, <1>4, AddedType DEF CallInv, BatchInv
<1>6. BatchInv'
    BY <1>1, <1>5 DEF CallInv, BatchInv
<1> HIDE DEF q
<1>7. IsOutput(out') /\ out'.rows = out.rows \o WithOutput(q) /\ out'.ok = FALSE /\ out'.swaps = <<>>
    BY <1>2, <1>3 DEF IsOutput
<1>8. Rowed(batch, ubatches, outIds, out.rows \o WithOutput(q), next)
    BY <1>3, <1>4, RowedNext DEF q, WithOutput, Outs
<1>9. next' \in 1 .. Len(ubatches) + 1 /\ next' - 1 = next
    BY <1>1, <1>4
<1>10. RowsInv'
    BY <1>1, <1>3, <1>7, <1>8, <1>9 DEF RowsInv
<1> QED BY <1>6, <1>10 DEF CallInv

LEMMA ComputeFailsInv ==
    ASSUME CallInv, ComputeFails
    PROVE  CallInv'
<1> DEFINE q == ubatches[next].idxs
<1>1. /\ pc = "compute" /\ next <= Len(ubatches) /\ pc' = "done"
      /\ mem' = TakenBack(Added(mem, q), q)
      /\ UNCHANGED <<config, plan, batch, used, ubatches, outIds, next, computed>>
    BY DEF ComputeFails
<1>2. out' = [out EXCEPT !.n = Len(WithOutput(q))]
    BY DEF ComputeFails
<1>3. next \in 1 .. Len(ubatches) + 1 /\ IsOutput(out) /\ out.ok = FALSE /\ out.swaps = <<>>
    BY <1>1 DEF CallInv, RowsInv
<1>4. Len(ubatches) \in Nat /\ next \in 1 .. Len(ubatches)
    <2>1. Len(ubatches) \in Nat
      BY MarkedParts DEF CallInv, BatchInv
    <2> QED BY <1>1, <1>3, <2>1
<1>5. mem' \in Memories
    BY <1>1, <1>4, AddedType, TakenBackType DEF CallInv, BatchInv
<1>6. BatchInv'
    BY <1>1, <1>5 DEF CallInv, BatchInv
<1>7. IsOutput(out') /\ out'.ok = FALSE /\ out'.swaps = <<>>
    BY <1>2, <1>3 DEF IsOutput
<1>8. RowsInv'
    BY <1>1, <1>7 DEF RowsInv
<1> QED BY <1>6, <1>8 DEF CallInv

\* Once all tokens are used, the outputs in order are those that were gathered.
LEMMA ListsGathered ==
    ASSUME NEW b, NEW us, NEW ids, NEW s, Gathered(b, us, ids), Lists(s, Outs(b)), \A i \in Outs(b) : us[i]
    PROVE  Gathered(b, us, s)
<1>1. Len(s) \in Nat /\ \A i \in 1 .. Len(s) : s[i] \in Nat
    BY LenProperties, ElementOfSeq DEF Lists
<1>2. ASSUME NEW i \in 1 .. Len(s), NEW j \in 1 .. Len(s), i # j PROVE s[i] # s[j]
    <2>1. i < j \/ j < i
      BY <1>1, <1>2
    <2>2. s[i] < s[j] \/ s[j] < s[i]
      BY <2>1 DEF Lists
    <2> QED BY <1>1, <2>2
<1> QED BY <1>2 DEF Gathered, Lists, Unrepeated

LEMMA FinishInv ==
    ASSUME CallInv, Finish
    PROVE  CallInv'
<1> DEFINE s == Sorted(outIds).ids
           w == Sorted(outIds).swaps
           n == Len(outIds)
           P == (1 .. n) \X (1 .. n)
<1>1. /\ pc = "compute" /\ ~(next <= Len(ubatches)) /\ pc' = "done" /\ outIds' = s
      /\ UNCHANGED <<config, plan, batch, used, ubatches, next, mem, computed>>
    <2>1. pc = "compute" /\ next > Len(ubatches) /\ next \in 1 .. Len(ubatches) + 1 /\ Len(ubatches) \in Nat
      BY MarkedParts DEF Finish, CallInv, BatchInv, RowsInv
    <2>2. ~(next <= Len(ubatches))
      BY <2>1
    <2> QED BY <2>2 DEF Finish
<1>2. out' = [out EXCEPT !.n = n, !.ids = RowOf(s), !.swaps = w, !.ok = TRUE]
    BY DEF Finish
<1>3. /\ next \in 1 .. Len(ubatches) + 1 /\ Rowed(batch, ubatches, outIds, out.rows, next - 1)
      /\ IsOutput(out) /\ \A i \in 1 .. Len(batch) : used[i]
    BY <1>1 DEF CallInv, RowsInv
<1>4. Len(ubatches) \in Nat /\ DOMAIN batch = 1 .. Len(batch)
    BY MarkedParts DEF CallInv, BatchInv
<1>5. next - 1 = Len(ubatches)
    BY <1>1, <1>3, <1>4
<1>6. out.rows = outIds
    BY <1>3, <1>5 DEF Rowed
<1>7. Gathered(batch, used, outIds)
    BY DEF CallInv, BatchInv
<1>8. \A i \in Outs(batch) : used[i]
    BY <1>3, <1>4 DEF Outs
<1>9. /\ outIds \in Seq(Nat) /\ Unrepeated(outIds)
      /\ \A j \in 1 .. Len(outIds) : outIds[j] \in Outs(batch)
      /\ \A i \in Outs(batch) : Has(outIds, i)
    BY <1>7, <1>8 DEF Gathered
<1>10. Lists(s, Outs(batch)) /\ Len(s) = n /\ w \in Seq(P) /\ Reordered(outIds, w) = s
    <2> DEFINE T == Outs(batch)
    <2>1. /\ \A j \in 1 .. Len(outIds) : outIds[j] \in T
          /\ \A i \in T : Has(outIds, i)
      BY <1>9
    <2> HIDE DEF T
    <2>2. Lists(s, T) /\ Len(s) = n /\ w \in Seq(P) /\ Reordered(outIds, w) = s
      BY <1>9, <2>1, SortSorts
    <2> QED BY <2>2 DEF T
<1>11. Gathered(batch, used, s)
    BY <1>7, <1>8, <1>10, ListsGathered
<1>12. BatchInv'
    BY <1>1, <1>11 DEF CallInv, BatchInv
<1> HIDE DEF s, w, n, P
<1>13. IsOutput(out') /\ out'.rows = outIds /\ out'.n = n /\ out'.ids = RowOf(s) /\ out'.swaps = w /\ out'.ok # FALSE
    BY <1>2, <1>3, <1>6 DEF IsOutput
<1>15. out'.ids = RowOf(outIds)'
    BY <1>1, <1>13 DEF RowOf
<1>16. Known'
    <2>1. Len(outIds') = n /\ batch' = batch /\ outIds' = s
      BY <1>1, <1>10
    <2>2. Outs(batch') = Outs(batch)
      BY <2>1
    <2>3. Lists(outIds', Outs(batch'))
      BY <1>10, <2>1, <2>2
    <2>4. out'.rows \in Seq(Nat) /\ Len(out'.rows) = Len(outIds') /\ out'.n = Len(outIds')
      BY <1>9, <1>13, <2>1 DEF n
    <2>5. out'.swaps \in Seq((1 .. Len(outIds')) \X (1 .. Len(outIds')))
      BY <1>10, <1>13, <2>1 DEF P
    <2>6. Reordered(out'.rows, out'.swaps) = outIds'
      BY <1>10, <1>13, <2>1
    <2> QED BY <1>15, <2>3, <2>4, <2>5, <2>6 DEF Known
<1>17. RowsInv'
    BY <1>1, <1>13, <1>16 DEF RowsInv
<1> QED BY <1>12, <1>17 DEF CallInv

LEMMA ReorderInv ==
    ASSUME CallInv, Reorder
    PROVE  CallInv'
<1>1. /\ pc = "done" /\ out.swaps # <<>>
      /\ UNCHANGED <<config, pc, plan, batch, used, ubatches, outIds, next, mem, computed>>
    BY DEF Reorder
<1>2. out.ok # FALSE /\ Known /\ IsOutput(out)
    BY <1>1 DEF CallInv, RowsInv
<1> DEFINE d == Reordered(out.dense, out.swaps)
           n == Len(outIds)
           e == <<>>
           P == (1 .. n) \X (1 .. n)
<1>3. out' = [out EXCEPT !.rows = outIds, !.dense = d, !.swaps = e]
    BY <1>2 DEF Reorder, Known
<1> HIDE DEF d
<1>4. e \in Seq(P) /\ e = <<>>
    OBVIOUS
<1>5. n \in Nat /\ outIds \in [1 .. n -> Nat] /\ outIds \in Seq(Nat)
    BY <1>2, LenProperties, ElementOfSeq DEF Known, Lists
<1>6. Reordered(outIds, e) = outIds
    BY <1>5, ReorderNone
<1> HIDE DEF e, n, P
<1>7. /\ IsOutput(out') /\ out'.rows = outIds /\ out'.n = out.n /\ out'.ids = out.ids
      /\ out'.swaps = e /\ out'.ok = out.ok
    BY <1>2, <1>3 DEF IsOutput
<1>8. out'.ids = RowOf(outIds)'
    BY <1>1, <1>2, <1>7 DEF RowOf, Known
<1>9. Known'
    <2>1. outIds' = outIds /\ batch' = batch
      BY <1>1
    <2>2. Lists(outIds', Outs(batch')) /\ out'.n = Len(outIds')
      BY <1>2, <1>7, <2>1 DEF Known
    <2>3. out'.rows \in Seq(Nat) /\ Len(out'.rows) = Len(outIds')
      BY <1>5, <1>7, <2>1
    <2>4. out'.swaps \in Seq((1 .. Len(outIds')) \X (1 .. Len(outIds')))
      BY <1>4, <1>7, <2>1 DEF n, P
    <2>5. Reordered(out'.rows, out'.swaps) = outIds'
      BY <1>6, <1>7, <2>1
    <2> QED BY <1>8, <2>2, <2>3, <2>4, <2>5 DEF Known
<1>10. BatchInv'
    BY <1>1 DEF CallInv, BatchInv
<1>11. RowsInv'
    BY <1>1, <1>2, <1>4, <1>7, <1>9 DEF RowsInv
<1> QED BY <1>10, <1>11 DEF CallInv

LEMMA ReturnInv ==
    ASSUME CallInv, Return
    PROVE  CallInv'
<1>1. /\ pc' = "idle" /\ batch' = <<>> /\ used' = <<>> /\ ubatches' = <<>> /\ outIds' = <<>> /\ next' = 1
      /\ out' = NoOutput /\ UNCHANGED <<config, mem, computed>>
    BY DEF Return
<1>2. Len(batch') = 0
    BY <1>1
<1>3. \A i \in 1 .. Len(batch') : batch'[i].pos <= MaxPos
    BY <1>2
<1>4. BatchInv'
    BY <1>1, <1>3, NoTokens DEF CallInv, BatchInv
<1>5. IsOutput(NoOutput) /\ NoOutput.ok = FALSE /\ NoOutput.swaps = <<>>
    BY DEF IsOutput, NoOutput
<1>6. RowsInv'
    BY <1>1, <1>5 DEF RowsInv
<1> QED BY <1>4, <1>6 DEF CallInv

LEMMA SeqRmInv ==
    ASSUME CallInv, NEW s \in SeqId, NEW p0 \in 0 .. MaxPos, SeqRm(s, p0)
    PROVE  CallInv'
<1>1. /\ mem' = [mem EXCEPT ![s] = {p \in mem[s] : p < p0}]
      /\ computed' = [computed EXCEPT ![s] = {p \in computed[s] : p < p0}]
      /\ UNCHANGED <<config, pc, plan, batch, used, ubatches, outIds, next, out>>
    BY DEF SeqRm
<1>2. mem' \in Memories /\ computed' \in Memories
    BY <1>1 DEF CallInv, BatchInv, Memories
<1>3. BatchInv'
    BY <1>1, <1>2 DEF CallInv, BatchInv
<1>4. Known => Known'
    BY <1>1 DEF Known, RowOf
<1>5. RowsInv'
    BY <1>1, <1>4 DEF CallInv, RowsInv
<1> QED BY <1>3, <1>5 DEF CallInv

LEMMA NextInv ==
    ASSUME CallInv, [Next]_vars
    PROVE  CallInv'
<1>1. CASE Next
    BY <1>1, SubmitInv, AddUbatchInv, PlaceInv, TryNextInv, ComputeInv, ComputeFailsInv, FinishInv, ReorderInv,
       ReturnInv, SeqRmInv DEF Next
<1>2. CASE UNCHANGED vars
  <2>1. UNCHANGED <<config, pc, plan, batch, used, ubatches, outIds, next, mem, computed, out>>
    BY <1>2 DEF vars
  <2>2. Known => Known'
    BY <2>1 DEF Known, RowOf
  <2> QED BY <2>1, <2>2 DEF CallInv, BatchInv, RowsInv
<1> QED BY <1>1, <1>2

LEMMA CallAlways == Spec => []CallInv
<1>1. Init => CallInv
    BY InitInv
<1>2. CallInv /\ [Next]_vars => CallInv'
    BY NextInv
<1> QED BY <1>1, <1>2, PTL DEF Spec

\* The row of a token with output, and none for the others.
LEMMA RowOfParts ==
    ASSUME Known, BatchInv
    PROVE  \A i \in DOMAIN batch :
             IF i \in Outs(batch) THEN RowOf(outIds)[i] \in 1 .. Len(outIds) /\ outIds[RowOf(outIds)[i]] = i
                                  ELSE RowOf(outIds)[i] = 0
<1> DEFINE R == RowOf(outIds)
<1>1. DOMAIN outIds = 1 .. Len(outIds)
    BY LenProperties DEF Known, Lists
<1>2. \A i : i \in Range(outIds) <=> Has(outIds, i)
    BY <1>1 DEF Range, Has
<1>3. ASSUME NEW i \in DOMAIN batch PROVE i \in Outs(batch) <=> Has(outIds, i)
    BY DEF Known, Lists, Has
<1>4. ASSUME NEW i \in DOMAIN batch, Has(outIds, i)
      PROVE  R[i] \in 1 .. Len(outIds) /\ outIds[R[i]] = i
    <2>1. R[i] = CHOOSE j \in DOMAIN outIds : outIds[j] = i
      BY <1>2, <1>4 DEF RowOf
    <2>2. \E j \in DOMAIN outIds : outIds[j] = i
      BY <1>1, <1>4 DEF Has
    <2> QED BY <1>1, <2>1, <2>2
<1>5. ASSUME NEW i \in DOMAIN batch, ~Has(outIds, i) PROVE R[i] = 0
    BY <1>2, <1>5 DEF RowOf
<1> QED BY <1>3, <1>4, <1>5

(* Marks, rows and swaps fit the batch that is decoded, and positions stay    *)
(* within the memory, whatever callers pass and in whatever order they read   *)
(* outputs and decode.                                                        *)
THEOREM TypeCorrect == Spec => []TypeOK
<1>1. CallInv => TypeOK
  <2> SUFFICES ASSUME CallInv PROVE TypeOK
    OBVIOUS
  <2>1. BatchInv /\ RowsInv /\ Marked(batch, used, ubatches)
    BY DEF CallInv, BatchInv
  <2>2. /\ DOMAIN batch = 1 .. Len(batch) /\ DOMAIN ubatches = 1 .. Len(ubatches)
        /\ \A k \in 1 .. Len(ubatches) : DOMAIN ubatches[k].idxs = 1 .. Len(ubatches[k].idxs)
    BY <2>1, MarkedParts
  <2>3. pc \in {"idle", "split", "compute", "done"} /\ mem \in Memories /\ computed \in Memories
    BY <2>1 DEF BatchInv
  <2>4. used \in [DOMAIN batch -> BOOLEAN]
    BY <2>1 DEF Marked
  <2>5. \A i \in DOMAIN ubatches : Range(ubatches[i].idxs) \subseteq DOMAIN batch
    BY <2>1, <2>2 DEF Marked, Range
  <2>6. Range(outIds) \subseteq DOMAIN batch
    <3>1. Gathered(batch, used, outIds)
      BY <2>1 DEF BatchInv
    <3>2. DOMAIN outIds = 1 .. Len(outIds)
      BY <3>1, LenProperties DEF Gathered
    <3> QED BY <3>1, <3>2 DEF Gathered, Range, Outs
  <2>7. Range(out.swaps) \subseteq (1 .. out.n) \X (1 .. out.n)
    <3>1. CASE out.ok = FALSE
      <4>1. out.swaps = <<>>
        BY <2>1, <3>1 DEF RowsInv
      <4> QED BY <4>1 DEF Range
    <3>2. CASE out.ok # FALSE
      <4> DEFINE P == (1 .. Len(outIds)) \X (1 .. Len(outIds))
      <4>1. out.swaps \in Seq(P) /\ P = (1 .. out.n) \X (1 .. out.n)
        BY <2>1, <3>2 DEF RowsInv, Known
      <4> HIDE DEF P
      <4>2. \A i \in DOMAIN out.swaps : out.swaps[i] \in P
        BY <4>1, LenProperties, ElementOfSeq
      <4> QED BY <4>1, <4>2 DEF Range
    <3> QED BY <3>1, <3>2
  <2>8. ASSUME out.ok # FALSE
        PROVE  out.n = Len(out.rows) /\ out.n = Len(outIds) /\ Range(out.ids) \subseteq 0 .. out.n
    <3>1. Known
      BY <2>1, <2>8 DEF RowsInv
    <3>2. out.n = Len(outIds) /\ out.n = Len(out.rows) /\ out.ids = RowOf(outIds) /\ Len(outIds) \in Nat
      BY <3>1, LenProperties DEF Known, Lists
    <3>3. \A i \in DOMAIN batch : RowOf(outIds)[i] \in 0 .. Len(outIds)
      BY <2>1, <3>1, <3>2, RowOfParts
    <3>4. DOMAIN RowOf(outIds) = DOMAIN batch
      BY DEF RowOf
    <3> QED BY <3>2, <3>3, <3>4 DEF Range
  <2> QED BY <2>3, <2>4, <2>5, <2>6, <2>7, <2>8 DEF TypeOK, Memories
<1> QED BY <1>1, CallAlways, PTL

(* After a call that succeeded, a token's output is read from the row that    *)
(* was computed for it and the rows are in the order of the batch, for any    *)
(* batches, splits and reads before this one: the swaps that decode() notes   *)
(* undo what the splits did to the order, and reading makes each only once.   *)
THEOREM ReadsTheRightRows == Spec => []OutputsInPlace
<1>1. CallInv => OutputsInPlace
  <2> SUFFICES ASSUME CallInv, out.ok # FALSE
               PROVE  /\ \A i \in DOMAIN batch :
                           IF batch[i].out THEN out.ids[i] # 0 /\ Reordered(out.rows, out.swaps)[out.ids[i]] = i
                                           ELSE out.ids[i] = 0
                      /\ Reordered(out.rows, out.swaps) = InOrder({i \in DOMAIN batch : batch[i].out})
    BY DEF OutputsInPlace
  <2>1. Known /\ BatchInv
    BY DEF CallInv, RowsInv
  <2>2. Reordered(out.rows, out.swaps) = outIds /\ out.ids = RowOf(outIds) /\ Lists(outIds, Outs(batch))
    BY <2>1 DEF Known
  <2>3. \A i \in DOMAIN batch :
          IF batch[i].out THEN out.ids[i] # 0 /\ Reordered(out.rows, out.swaps)[out.ids[i]] = i
                          ELSE out.ids[i] = 0
    <3>1. ASSUME NEW i \in DOMAIN batch, i \in Outs(batch) PROVE out.ids[i] # 0 /\ outIds[out.ids[i]] = i
      BY <2>1, <2>2, <3>1, RowOfParts
    <3>2. ASSUME NEW i \in DOMAIN batch, i \notin Outs(batch) PROVE out.ids[i] = 0
      BY <2>1, <2>2, <3>2, RowOfParts
    <3> QED BY <2>2, <3>1, <3>2 DEF Outs
  <2>4. Reordered(out.rows, out.swaps) = InOrder({i \in DOMAIN batch : batch[i].out})
    <3> DEFINE T == Outs(batch)
    <3>1. T \in SUBSET (1 .. Len(batch))
      BY <2>1, MarkedParts DEF BatchInv, Outs
    <3>2. Marks
      BY <2>1, NUbatchType
    <3> HIDE DEF T
    <3>3. Lists(InOrder(T), T)
      BY <3>1, <3>2, InOrderLists
    <3>4. outIds = InOrder(T)
      BY <2>2, <3>3, ListsUnique DEF T
    <3> QED BY <2>2, <3>4 DEF T, Outs
  <2> QED BY <2>3, <2>4
<1> QED BY <1>1, CallAlways, PTL

-----------------------------------------------------------------------------
(* What holds besides, if callers do their duties.                         *)

AllDuties       == Duties = DutyNames
RoomForAllSeqs  == \A n \in NUbatches : NSeq <= n

\* The batch is as callers have to give it.
BatchDuty ==
    /\ \A i, j \in 1 .. Len(batch) : i < j /\ Shares(batch, i, j) =>
         batch[i].pos < batch[j].pos /\ Seqs(batch, j) \subseteq Seqs(batch, i)
    /\ config.kind = "rollback" => Singles(batch)

PlanInv ==
    pc = "split" => \/ plan \in {<<"simple">>, <<"sequential">>, <<"simple", "equal">>, <<"equal">>}
                    \/ plan = <<"seq">> /\ config.kind = "rollback"

\* Used tokens come before unused ones that share a sequence.
Downward(b, us) ==
    \A i, j \in 1 .. Len(b) : i < j /\ Shares(b, i, j) /\ us[j] => us[i]

\* Tokens that share a sequence are in their order.
InTurn(b, ub) ==
    \A k, l \in 1 .. Len(ub) : \A x \in 1 .. Len(ub[k].idxs), y \in 1 .. Len(ub[l].idxs) :
      /\ k < l \/ (k = l /\ x < y)
      /\ Shares(b, ub[k].idxs[x], ub[l].idxs[y])
      => ub[k].idxs[x] < ub[l].idxs[y]

AllWellFormed(b, ub, most) == \A k \in 1 .. Len(ub) : WellFormed(ub[k], b, most)

OrderInv == Downward(batch, used) /\ InTurn(batch, ubatches) /\ AllWellFormed(batch, ubatches, config.nUbatch)

LEMMA SharesBack ==
    ASSUME NEW b, NEW i, NEW j, Shares(b, i, j)
    PROVE  Shares(b, j, i)
BY DEF Shares

LEMMA OrderNone ==
    ASSUME NEW b \in Batches, NEW most
    PROVE  Downward(b, [i \in DOMAIN b |-> FALSE]) /\ InTurn(b, <<>>) /\ AllWellFormed(b, <<>>, most)
<1> DEFINE e == <<>>
           us == [i \in DOMAIN b |-> FALSE]
<1>1. Len(e) = 0 /\ 1 .. Len(e) = {}
    OBVIOUS
<1> HIDE DEF e
<1>2. InTurn(b, e) /\ AllWellFormed(b, e, most)
    BY <1>1 DEF InTurn, AllWellFormed
<1>3. Downward(b, us)
    BY BatchParts DEF Downward
<1> QED BY <1>2, <1>3 DEF e

LEMMA AddDownward ==
    ASSUME Marked(batch, used, ubatches), Downward(batch, used), NEW u, Fresh(u), Ordered(u)
    PROVE  Downward(batch, Marking(u))
<1> DEFINE us == Marking(u)
<1>1. \A i \in 1 .. Len(batch) : us[i] <=> used[i] \/ Has(u.idxs, i)
    BY MarkingParts
<1> HIDE DEF us
<1>2. ASSUME NEW i \in 1 .. Len(batch), NEW j \in 1 .. Len(batch), i < j, Shares(batch, i, j), us[j]
      PROVE  us[i]
    <2>1. CASE used[j]
      BY <1>1, <1>2, <2>1 DEF Downward
    <2>2. CASE Has(u.idxs, j) /\ ~used[i]
      <3>1. PICK x \in 1 .. Len(u.idxs) : u.idxs[x] = j
        BY <2>2 DEF Has
      <3>2. Behind(u, x, i)
        BY <1>2, <2>2, <3>1 DEF Ordered
      <3> QED BY <1>1, <3>2 DEF Behind, Has
    <2>3. CASE used[i]
      BY <1>1, <2>3
    <2> QED BY <1>1, <1>2, <2>1, <2>2, <2>3
<1> QED BY <1>2 DEF Downward, us

LEMMA AddInTurn ==
    ASSUME Marked(batch, used, ubatches), Downward(batch, used), InTurn(batch, ubatches),
           NEW u, Fresh(u), Ordered(u)
    PROVE  InTurn(batch, Append(ubatches, u))
<1> DEFINE ub == Append(ubatches, u)
           n  == Len(ubatches)
<1>1. Len(ub) = n + 1 /\ ub[n + 1] = u /\ \A k \in 1 .. n : ub[k] = ubatches[k]
    BY MarkingParts
<1>2. n \in Nat /\ Len(u.idxs) \in Nat /\ Len(batch) \in Nat
    BY MarkingParts, MarkedParts
<1> HIDE DEF ub, n
<1>3. \A x \in 1 .. Len(u.idxs) : u.idxs[x] \in 1 .. Len(batch) /\ ~used[u.idxs[x]]
    BY DEF Fresh
<1>4. \A k \in 1 .. n : \A x \in 1 .. Len(ub[k].idxs) : ub[k].idxs[x] \in 1 .. Len(batch) /\ used[ub[k].idxs[x]]
    BY <1>1 DEF Marked, n
<1>5. ASSUME NEW k \in 1 .. n + 1, NEW l \in 1 .. n + 1,
             NEW x \in 1 .. Len(ub[k].idxs), NEW y \in 1 .. Len(ub[l].idxs),
             k < l \/ (k = l /\ x < y), Shares(batch, ub[k].idxs[x], ub[l].idxs[y])
      PROVE  ub[k].idxs[x] < ub[l].idxs[y]
    <2> DEFINE p == ub[k].idxs[x]
               q == ub[l].idxs[y]
    <2>1. CASE k \in 1 .. n /\ l \in 1 .. n
      <3>1. ub[k] = ubatches[k] /\ ub[l] = ubatches[l]
        BY <1>1, <2>1
      <3>2. x \in 1 .. Len(ubatches[k].idxs) /\ y \in 1 .. Len(ubatches[l].idxs)
        BY <3>1
      <3>3. Shares(batch, ubatches[k].idxs[x], ubatches[l].idxs[y])
        BY <1>5, <3>1
      <3>4. ubatches[k].idxs[x] < ubatches[l].idxs[y]
        BY <1>5, <2>1, <3>2, <3>3 DEF InTurn, n
      <3> QED BY <3>1, <3>4
    <2>2. CASE k \in 1 .. n /\ l = n + 1
      <3>1. p \in 1 .. Len(batch) /\ used[p] /\ q \in 1 .. Len(batch) /\ ~used[q]
        BY <1>1, <1>3, <1>4, <2>2
      <3>2. Shares(batch, q, p)
        BY <1>5, SharesBack
      <3> HIDE DEF p, q
      <3>3. ~(q < p) /\ p # q
        BY <3>1, <3>2 DEF Downward
      <3>4. p < q
        BY <1>2, <3>1, <3>3
      <3> QED BY <3>4 DEF p, q
    <2>3. CASE k = n + 1 /\ l = n + 1
      <3>1. ub[k] = u /\ ub[l] = u /\ x < y
        BY <1>1, <1>2, <1>5, <2>3
      <3>2. x \in 1 .. Len(u.idxs) /\ y \in 1 .. Len(u.idxs) /\ p = u.idxs[x] /\ q = u.idxs[y]
        BY <3>1
      <3>3. p \in 1 .. Len(batch) /\ q \in 1 .. Len(batch) /\ ~used[q]
        BY <1>3, <3>2
      <3>4. Shares(batch, q, p)
        BY <1>5, SharesBack
      <3> HIDE DEF p, q
      <3>5. \A z \in 1 .. Len(u.idxs) : z # y => u.idxs[z] # q
        BY <3>2 DEF Fresh, Unrepeated
      <3>6. ~Behind(u, x, q)
        <4>1. \A z \in 1 .. Len(u.idxs) : z < x => z # y
          BY <1>2, <3>1, <3>2
        <4> QED BY <3>5, <4>1 DEF Behind
      <3>7. ~(q < p)
        BY <3>2, <3>3, <3>4, <3>6 DEF Ordered
      <3>8. p # q
        BY <1>2, <3>1, <3>2, <3>5
      <3>9. p < q
        BY <1>2, <3>3, <3>7, <3>8
      <3> QED BY <3>9 DEF p, q
    <2>4. ~(k = n + 1 /\ l \in 1 .. n) /\ (k = n + 1 \/ k \in 1 .. n) /\ (l = n + 1 \/ l \in 1 .. n)
      BY <1>2, <1>5
    <2> QED BY <2>1, <2>2, <2>3, <2>4
<1> QED BY <1>1, <1>5 DEF InTurn, ub

LEMMA AddWellFormed ==
    ASSUME NEW most, Marked(batch, used, ubatches), AllWellFormed(batch, ubatches, most),
           NEW u, Fresh(u), WellFormed(u, batch, most)
    PROVE  AllWellFormed(batch, Append(ubatches, u), most)
<1> DEFINE ub == Append(ubatches, u)
           n  == Len(ubatches)
<1>1. Len(ub) = n + 1 /\ ub[n + 1] = u /\ \A k \in 1 .. n : ub[k] = ubatches[k]
    BY MarkingParts
<1>2. n \in Nat
    BY MarkedParts
<1> HIDE DEF ub, n
<1>3. ASSUME NEW k \in 1 .. n + 1 PROVE WellFormed(ub[k], batch, most)
    <2>1. CASE k = n + 1
      BY <1>1, <2>1
    <2>2. CASE k \in 1 .. n
      BY <1>1, <2>2 DEF AllWellFormed, n
    <2> QED BY <1>2, <2>1, <2>2
<1> QED BY <1>1, <1>3 DEF AllWellFormed, ub

\* The part of DutyInv that is about a split.
OrderlyInv == PlanInv /\ BatchDuty /\ OrderInv

LEMMA InitOrderly ==
    ASSUME Init
    PROVE  OrderlyInv
<1> DEFINE e == <<>>
<1>1. /\ pc = "idle" /\ batch = e /\ used = e /\ ubatches = e
      /\ Len(e) = 0 /\ 1 .. Len(e) = {} /\ DOMAIN e = {}
    BY DEF Init
<1> HIDE DEF e
<1> QED BY <1>1 DEF OrderlyInv, PlanInv, BatchDuty, Singles, OrderInv, Downward, InTurn, AllWellFormed

\* init() leaves to callers what Heeded() says.
LEMMA HeededDuty ==
    ASSUME AllDuties, NEW b, DOMAIN b = 1 .. Len(b), Heeded(b)
    PROVE  /\ \A i, j \in 1 .. Len(b) : i < j /\ Shares(b, i, j) =>
                b[i].pos < b[j].pos /\ Seqs(b, j) \subseteq Seqs(b, i)
           /\ config.kind = "rollback" => Singles(b)
<1>1. "increasing" \in Duties /\ "shrinking" \in Duties /\ "single" \in Duties
    BY DEF AllDuties, DutyNames
<1> QED BY <1>1 DEF Heeded, Shares, Singles

LEMMA SubmitOrderly ==
    ASSUME AllDuties, CallInv, NEW in \in Inputs, Submit(in)
    PROVE  OrderlyInv'
<1> DEFINE b == Filled(in, mem)
<1>1. b \in Batches
    BY FilledType DEF CallInv, BatchInv
<1> HIDE DEF b
<1>2. /\ batch' = b /\ used' = [i \in DOMAIN b |-> FALSE] /\ ubatches' = <<>>
      /\ pc' = "split" /\ config' = config /\ plan' = Splits[config.kind] /\ Heeded(b)
    BY DEF Submit, Reset, b
<1>3. config.kind \in {"unified", "streams", "iswa", "hybrid", "rollback"}
    <2>1. config.kind \in Kinds
      BY DEF CallInv, BatchInv
    <2> QED BY <2>1, KindAssumption DEF Splits
<1>4. PlanInv'
    <2>1. CASE config.kind = "rollback"
      BY <1>2, <2>1 DEF PlanInv, Splits
    <2>2. CASE config.kind = "unified"
      BY <1>2, <2>2 DEF PlanInv, Splits
    <2>3. CASE config.kind = "streams"
      BY <1>2, <2>3 DEF PlanInv, Splits
    <2>4. CASE config.kind = "iswa"
      BY <1>2, <2>4 DEF PlanInv, Splits
    <2>5. CASE config.kind = "hybrid"
      BY <1>2, <2>5 DEF PlanInv, Splits
    <2> QED BY <1>3, <2>1, <2>2, <2>3, <2>4, <2>5
<1>5. DOMAIN b = 1 .. Len(b)
    BY <1>1, BatchParts
<1>6. BatchDuty'
    BY <1>2, <1>5, HeededDuty DEF BatchDuty
<1>7. OrderInv'
    BY <1>1, <1>2, OrderNone DEF OrderInv
<1> QED BY <1>4, <1>6, <1>7 DEF OrderlyInv

LEMMA Decreases ==
    ASSUME BatchDuty, BatchInv
    PROVE  Decreasing(batch)
BY MarkedParts DEF BatchDuty, BatchInv, Decreasing

LEMMA AddUbatchOrderly ==
    ASSUME RoomForAllSeqs, CallInv, OrderlyInv, AddUbatch
    PROVE  OrderlyInv'
<1> DEFINE u == Split(Head(plan))
<1>1. pc = "split" /\ BatchInv /\ Marked(batch, used, ubatches) /\ Marks
    BY NUbatchType DEF AddUbatch, CallInv, BatchInv
<1>2. Head(plan) = "seq" => Singles(batch)
    <2>1. CASE plan = <<"seq">> /\ config.kind = "rollback"
      BY <2>1 DEF OrderlyInv, BatchDuty
    <2>2. CASE plan \in {<<"simple">>, <<"sequential">>, <<"simple", "equal">>, <<"equal">>}
      BY <2>2
    <2> QED BY <1>1, <2>1, <2>2 DEF OrderlyInv, PlanInv
<1>3. NSeq <= config.nUbatch
    BY <1>1 DEF RoomForAllSeqs, BatchInv
<1>4. Decreasing(batch)
    BY <1>1, Decreases DEF OrderlyInv
<1>5. Fresh(u) /\ Ordered(u) /\ WellFormed(u, batch, config.nUbatch)
    <2> DEFINE how == Head(plan)
    <2>1. how = "seq" => Singles(batch)
      BY <1>2
    <2> HIDE DEF how
    <2>2. Fresh(Split(how)) /\ Ordered(Split(how)) /\ WellFormed(Split(how), batch, config.nUbatch)
      BY <1>1, <1>3, <1>4, <2>1, SplitFresh, SplitSound
    <2> QED BY <2>2 DEF how
<1> HIDE DEF u
<1>6. /\ ubatches' = Append(ubatches, u) /\ used' = Marking(u)
      /\ UNCHANGED <<config, pc, plan, batch>>
    BY DEF AddUbatch, u, Marking
<1>7. Downward(batch, used) /\ InTurn(batch, ubatches) /\ AllWellFormed(batch, ubatches, config.nUbatch)
    BY DEF OrderlyInv, OrderInv
<1>8. Downward(batch, Marking(u)) /\ InTurn(batch, Append(ubatches, u))
    BY <1>1, <1>5, <1>7, AddDownward, AddInTurn
<1>9. AllWellFormed(batch, Append(ubatches, u), config.nUbatch)
    BY <1>1, <1>5, <1>7, AddWellFormed
<1>10. OrderInv'
    BY <1>6, <1>8, <1>9 DEF OrderInv
<1>11. PlanInv' /\ BatchDuty'
    BY <1>6 DEF OrderlyInv, PlanInv, BatchDuty
<1> QED BY <1>10, <1>11 DEF OrderlyInv

LEMMA TryNextOrderly ==
    ASSUME CallInv, OrderlyInv, TryNext
    PROVE  OrderlyInv'
<1>1. pc = "split" /\ UNCHANGED <<config, batch>>
    BY DEF TryNext, SplitDone
<1>2. BatchDuty'
    BY <1>1 DEF OrderlyInv, BatchDuty
<1>3. batch \in Batches
    BY DEF CallInv, BatchInv, Marked
<1>4. CASE Len(plan) > 1
  <2>1. used' = [i \in DOMAIN batch |-> FALSE] /\ ubatches' = <<>> /\ plan' = Tail(plan) /\ pc' = pc
    BY <1>4 DEF TryNext, Reset
  <2>2. OrderInv'
    BY <1>1, <1>3, <2>1, OrderNone DEF OrderInv
  <2>3. plan = <<"simple", "equal">>
    <3>1. plan \in {<<"simple">>, <<"sequential">>, <<"simple", "equal">>, <<"equal">>} \/ plan = <<"seq">>
      BY <1>1 DEF OrderlyInv, PlanInv
    <3>2. \A s : plan = <<s>> => ~(Len(plan) > 1)
      OBVIOUS
    <3>3. plan # <<"simple">> /\ plan # <<"sequential">> /\ plan # <<"equal">> /\ plan # <<"seq">>
      BY <1>4, <3>2
    <3> QED BY <3>1, <3>3
  <2>4. Tail(plan) = <<"equal">>
    BY <2>3
  <2>5. PlanInv'
    BY <1>1, <2>1, <2>4 DEF PlanInv
  <2> QED BY <1>2, <2>2, <2>5 DEF OrderlyInv
<1>5. CASE ~(Len(plan) > 1)
  <2>1. pc' = "done" /\ UNCHANGED <<used, ubatches>>
    BY <1>5 DEF TryNext
  <2> QED BY <1>1, <1>2, <2>1 DEF OrderlyInv, PlanInv, OrderInv
<1> QED BY <1>4, <1>5

LEMMA ReturnOrderly ==
    ASSUME Return
    PROVE  OrderlyInv'
<1> DEFINE e == <<>>
<1>1. /\ pc' = "idle" /\ batch' = e /\ used' = e /\ ubatches' = e
      /\ Len(e) = 0 /\ 1 .. Len(e) = {} /\ DOMAIN e = {}
    BY DEF Return
<1> HIDE DEF e
<1> QED BY <1>1 DEF OrderlyInv, PlanInv, BatchDuty, Singles, OrderInv, Downward, InTurn, AllWellFormed

LEMMA OthersOrderly ==
    ASSUME OrderlyInv, UNCHANGED <<config, plan, batch, used, ubatches>>, pc' = pc \/ pc' # "split"
    PROVE  OrderlyInv'
BY DEF OrderlyInv, PlanInv, BatchDuty, OrderInv

LEMMA NextOrderly ==
    ASSUME AllDuties, RoomForAllSeqs, CallInv, OrderlyInv, [Next]_vars
    PROVE  OrderlyInv'
<1>1. ASSUME NEW in \in Inputs, Submit(in) PROVE OrderlyInv'
    BY <1>1, SubmitOrderly
<1>2. CASE AddUbatch
    BY <1>2, AddUbatchOrderly
<1>3. CASE TryNext
    BY <1>3, TryNextOrderly
<1>4. CASE Return
    BY <1>4, ReturnOrderly
<1>5. CASE Place
    BY <1>5, OthersOrderly DEF Place
<1>6. CASE Compute
    BY <1>6, OthersOrderly DEF Compute
<1>7. CASE ComputeFails
    BY <1>7, OthersOrderly DEF ComputeFails
<1>8. CASE Finish
    BY <1>8, OthersOrderly DEF Finish
<1>9. CASE Reorder
    BY <1>9, OthersOrderly DEF Reorder
<1>10. ASSUME NEW s \in SeqId, NEW p0 \in 0 .. MaxPos, SeqRm(s, p0) PROVE OrderlyInv'
    BY <1>10, OthersOrderly DEF SeqRm
<1>11. CASE UNCHANGED vars
    BY <1>11, OthersOrderly DEF vars
<1> QED BY <1>1, <1>2, <1>3, <1>4, <1>5, <1>6, <1>7, <1>8, <1>9, <1>10, <1>11 DEF Next

LEMMA PlaceParts ==
    ASSUME Marked(batch, used, ubatches), NEW p \in Places
    PROVE  \E k \in 1 .. Len(ubatches) : \E x \in 1 .. Len(ubatches[k].idxs) :
             p = <<k, x>> /\ p[1] = k /\ p[2] = x /\ TokenAt(p) = ubatches[k].idxs[x]
<1>1. PICK k \in DOMAIN ubatches : p \in {<<k, x>> : x \in DOMAIN ubatches[k].idxs}
    BY DEF Places
<1>2. PICK x \in DOMAIN ubatches[k].idxs : p = <<k, x>>
    BY <1>1
<1>3. k \in 1 .. Len(ubatches) /\ x \in 1 .. Len(ubatches[k].idxs)
    BY MarkedParts
<1>4. p[1] = k /\ p[2] = x
    BY <1>2
<1> QED BY <1>2, <1>3, <1>4 DEF TokenAt

LEMMA SoundSplit ==
    ASSUME CallInv, OrderlyInv
    PROVE  SplitIsSound
<1>1. BatchInv /\ RowsInv /\ Marked(batch, used, ubatches) /\ BatchDuty
    BY DEF CallInv, BatchInv, OrderlyInv
<1>2. /\ DOMAIN batch = 1 .. Len(batch) /\ DOMAIN ubatches = 1 .. Len(ubatches)
      /\ \A k \in 1 .. Len(ubatches) : DOMAIN ubatches[k].idxs = 1 .. Len(ubatches[k].idxs)
    BY <1>1, MarkedParts
<1>3. ASSUME NEW p \in Places PROVE TokenAt(p) \in DOMAIN batch
    BY <1>1, <1>2, PlaceParts DEF Marked
<1>4. ASSUME pc = "compute", NEW i \in DOMAIN batch PROVE \E p \in Places : TokenAt(p) = i
    <2>1. Contains(ubatches, i)
      BY <1>1, <1>2, <1>4 DEF RowsInv, Marked
    <2>2. PICK k \in 1 .. Len(ubatches) : Has(ubatches[k].idxs, i)
      BY <2>1 DEF Contains
    <2>3. PICK x \in 1 .. Len(ubatches[k].idxs) : ubatches[k].idxs[x] = i
      BY <2>2 DEF Has
    <2> DEFINE p == <<k, x>>
    <2>4. p \in Places
      BY <1>2 DEF Places
    <2>5. TokenAt(p) = i
      BY <2>3 DEF TokenAt
    <2> QED BY <2>4, <2>5
<1>5. ASSUME NEW p \in Places, NEW q \in Places, Before(p, q)
      PROVE  /\ TokenAt(p) # TokenAt(q)
             /\ Seqs(batch, TokenAt(p)) \cap Seqs(batch, TokenAt(q)) # {}
                  => batch[TokenAt(p)].pos < batch[TokenAt(q)].pos
    <2>1. PICK k \in 1 .. Len(ubatches) : \E x \in 1 .. Len(ubatches[k].idxs) :
             p = <<k, x>> /\ p[1] = k /\ p[2] = x /\ TokenAt(p) = ubatches[k].idxs[x]
      BY <1>1, PlaceParts
    <2>2. PICK x \in 1 .. Len(ubatches[k].idxs) : p[1] = k /\ p[2] = x /\ TokenAt(p) = ubatches[k].idxs[x]
      BY <2>1
    <2>3. PICK l \in 1 .. Len(ubatches) : \E y \in 1 .. Len(ubatches[l].idxs) :
             q = <<l, y>> /\ q[1] = l /\ q[2] = y /\ TokenAt(q) = ubatches[l].idxs[y]
      BY <1>1, PlaceParts
    <2>4. PICK y \in 1 .. Len(ubatches[l].idxs) : q[1] = l /\ q[2] = y /\ TokenAt(q) = ubatches[l].idxs[y]
      BY <2>3
    <2>5. k < l \/ (k = l /\ x < y)
      BY <1>5, <2>2, <2>4 DEF Before
    <2>6. Len(ubatches) \in Nat /\ Len(ubatches[k].idxs) \in Nat
      BY <1>1, MarkedParts
    <2>7. ~(k = l /\ x = y)
      BY <2>5, <2>6
    <2>8. Apart(ubatches)
      BY <1>1 DEF Marked
    <2>9. ubatches[k].idxs[x] # ubatches[l].idxs[y]
      BY <2>7, <2>8 DEF Apart
    <2>10. ASSUME Shares(batch, TokenAt(p), TokenAt(q)) PROVE batch[TokenAt(p)].pos < batch[TokenAt(q)].pos
      <3> DEFINE i == TokenAt(p)
                 j == TokenAt(q)
      <3>1. i \in 1 .. Len(batch) /\ j \in 1 .. Len(batch)
        BY <1>2, <1>3
      <3>2. InTurn(batch, ubatches)
        BY DEF OrderlyInv, OrderInv
      <3>3. Shares(batch, ubatches[k].idxs[x], ubatches[l].idxs[y])
        BY <2>2, <2>4, <2>10
      <3>4. ubatches[k].idxs[x] < ubatches[l].idxs[y]
        BY <2>5, <3>2, <3>3 DEF InTurn
      <3>5. i < j
        BY <2>2, <2>4, <3>4
      <3> HIDE DEF i, j
      <3>6. Shares(batch, i, j)
        BY <2>10 DEF i, j
      <3>7. batch[i].pos < batch[j].pos
        BY <1>1, <3>1, <3>5, <3>6 DEF BatchDuty
      <3> QED BY <3>7 DEF i, j
    <2> QED BY <2>2, <2>4, <2>9, <2>10 DEF Shares
<1>6. SplitKeepsOrder
    <2>1. ASSUME pc = "compute" PROVE {TokenAt(p) : p \in Places} = DOMAIN batch
      BY <1>3, <1>4, <2>1
    <2> QED BY <1>5, <2>1 DEF SplitKeepsOrder
<1>7. UbatchesWellFormed
    <2>1. ASSUME NEW k \in 1 .. Len(ubatches) PROVE WellFormed(ubatches[k], batch, config.nUbatch)
      BY DEF OrderlyInv, OrderInv, AllWellFormed
    <2>2. ASSUME NEW u \in Range(ubatches) PROVE WellFormed(u, batch, config.nUbatch)
      BY <1>2, <2>1 DEF Range
    <2> QED BY <2>2 DEF WellFormed, UbatchesWellFormed
<1> QED BY <1>6, <1>7 DEF SplitIsSound

LEMMA OrderlyAlways ==
    ASSUME AllDuties, RoomForAllSeqs
    PROVE  Spec => [](CallInv /\ OrderlyInv)
<1>1. Init => CallInv /\ OrderlyInv
    BY InitInv, InitOrderly
<1>2. (CallInv /\ OrderlyInv) /\ [Next]_vars => (CallInv /\ OrderlyInv)'
    BY NextInv, NextOrderly
<1> QED BY <1>1, <1>2, PTL DEF Spec

(* Whatever the memory asks for and however often it asks for another split,  *)
(* a token is in one ubatch and none is computed before one that it attends   *)
(* to; ubatches are not too large, and the sequence sets of those for         *)
(* several streams are of one size and share nothing: if callers do their     *)
(* duties and n_ubatch has room for a token of each sequence.                 *)
THEOREM SplitsAreSound ==
    ASSUME AllDuties, RoomForAllSeqs
    PROVE  Spec => []SplitIsSound
<1>1. CallInv /\ OrderlyInv => SplitIsSound
    BY SoundSplit
<1> QED BY <1>1, OrderlyAlways, PTL

-----------------------------------------------------------------------------
(* The memory while the ubatches are computed.                             *)

Convex(S) == \A a, c \in S : \A q \in Nat : a < q /\ q < c => q \in S

\* i is not in the first k ubatches.
Pending(ub, k, i) == \A l \in 1 .. k : ~Has(ub[l].idxs, i)
Expected(b, ub, k, s) == {i \in 1 .. Len(b) : s \in Seqs(b, i) /\ Pending(ub, k, i)}

\* What is expected goes on where the memory ends.
Ahead(b, ub, m, k) ==
    \A s \in SeqId : \A i \in Expected(b, ub, k, s) : \A q \in m[s] : q < b[i].pos
Reached(b, ub, m, k, s) == m[s] \cup {b[i].pos : i \in Expected(b, ub, k, s)}
NoGaps(b, ub, m, k) == \A s \in SeqId : Convex(Reached(b, ub, m, k, s))

MemInv ==
    /\ mem = computed
    /\ \A s \in SeqId : Convex(mem[s])
    /\ pc \in {"split", "compute"} =>
         Ahead(batch, ubatches, mem, next - 1) /\ NoGaps(batch, ubatches, mem, next - 1)

LEMMA ExpectedAll ==
    ASSUME NEW b, NEW ub, NEW s
    PROVE  Expected(b, ub, 0, s) = {i \in 1 .. Len(b) : s \in Seqs(b, i)}
BY DEF Expected, Pending

\* As long as no ubatch is computed, it does not matter which there are.
LEMMA AnyUbatches ==
    ASSUME NEW b, NEW ub, NEW ub2, NEW m, Ahead(b, ub, m, 0), NoGaps(b, ub, m, 0)
    PROVE  Ahead(b, ub2, m, 0) /\ NoGaps(b, ub2, m, 0)
<1>1. \A s : Expected(b, ub, 0, s) = Expected(b, ub2, 0, s)
    BY ExpectedAll
<1> QED BY <1>1 DEF Ahead, NoGaps, Reached

\* A set of so many positions has all between its ends.
LEMMA Fills ==
    ASSUME NEW n \in Nat, NEW S \in SUBSET (0 .. n), S # {}, Max(S) - Min(S) + 1 <= Cardinality(S)
    PROVE  S = Min(S) .. Max(S)
<1> DEFINE a == Min(S)
           c == Max(S)
<1>1. a \in S /\ c \in S /\ \A x \in S : a <= x /\ x <= c
    <2>1. a \in S /\ \A x \in S : a <= x
      BY MinExists
    <2>2. c \in S /\ \A x \in S : c >= x
      BY MaxExists
    <2> QED BY <2>1, <2>2
<1> HIDE DEF a, c
<1>2. a \in Nat /\ c \in Nat /\ a <= c
    <2>1. a \in 0 .. n /\ c \in 0 .. n /\ a <= c
      BY <1>1
    <2> QED BY <2>1
<1>3. S \in SUBSET (a .. c)
    <2>1. \A x \in S : x \in 0 .. n /\ a <= x /\ x <= c
      BY <1>1
    <2> QED BY <1>2, <2>1
<1>4. IsFiniteSet(a .. c) /\ Cardinality(a .. c) = c - a + 1
    BY <1>2, FS_Interval
<1>5. Cardinality(S) <= Cardinality(a .. c) /\ (Cardinality(a .. c) = Cardinality(S) => a .. c = S)
    BY <1>3, <1>4, FS_Subset
<1>6. Cardinality(S) \in Nat
    BY <1>3, <1>4, FS_Subset, FS_CardinalityType
<1>7. c - a + 1 <= Cardinality(S)
    BY DEF a, c
<1>8. Cardinality(a .. c) = Cardinality(S)
    BY <1>2, <1>4, <1>5, <1>6, <1>7
<1> QED BY <1>5, <1>8 DEF a, c

\* What init() accepts follows the memory without a gap.
LEMMA AcceptedFollows ==
    ASSUME NEW b \in Batches, NEW m \in Memories, Accepted(b, m), NEW s \in SeqId, Convex(m[s]),
           \A i \in 1 .. Len(b) : b[i].pos <= MaxPos
    PROVE  /\ \A p \in Positions(b, s) : \A q \in m[s] : q < p
           /\ Convex(m[s] \cup Positions(b, s))
<1> DEFINE P == Positions(b, s)
           M == m[s]
<1>1. M \in SUBSET (0 .. MaxPos) /\ MaxPos \in Nat
    BY SizeAssumption DEF Memories
<1>2. P \in SUBSET (0 .. MaxPos)
    <2>1. DOMAIN b = 1 .. Len(b) /\ \A i \in 1 .. Len(b) : b[i].pos \in Nat
      BY BatchParts
    <2>2. \A i \in DOMAIN b : b[i].pos \in 0 .. MaxPos
      BY <1>1, <2>1
    <2> QED BY <2>2 DEF Positions
<1>3. P # {} => (M # {} => Min(P) = Max(M) + 1) /\ Max(P) - Min(P) + 1 <= Cardinality(P)
    BY DEF Accepted, PosMax
<1>4. Convex(M)
    OBVIOUS
<1> HIDE DEF P, M
<1>5. CASE P = {}
  <2>1. M \cup P = M
    BY <1>5
  <2> QED BY <1>4, <1>5, <2>1 DEF P, M
<1>6. CASE P # {}
  <2>1. P = Min(P) .. Max(P)
    BY <1>1, <1>2, <1>3, <1>6, Fills
  <2>2. Min(P) \in P /\ Max(P) \in P
    <3>1. P \in SUBSET Nat
      BY <1>2
    <3>2. Min(P) \in P
      BY <1>6, <3>1, MinExists
    <3>3. Max(P) \in P
      BY <1>1, <1>2, <1>6, MaxExists
    <3> QED BY <3>2, <3>3
  <2> DEFINE a == Min(P)
             c == Max(P)
  <2>3. a \in Nat /\ c \in Nat /\ P = a .. c /\ a <= c
    <3>1. a \in 0 .. MaxPos /\ c \in 0 .. MaxPos /\ P = a .. c
      BY <1>2, <2>1, <2>2
    <3> QED BY <2>2, <3>1
  <2>4. CASE M = {}
    <3>1. M \cup P = a .. c
      BY <2>3, <2>4
    <3> HIDE DEF a, c
    <3>2. Convex(a .. c)
      BY <2>3 DEF Convex
    <3> QED BY <2>4, <3>1, <3>2 DEF P, M
  <2>5. CASE M # {}
    <3> DEFINE d == Max(M)
    <3>1. a = d + 1 /\ d \in M /\ \A x \in M : x <= d /\ x \in Nat
      <4>1. d \in M /\ \A x \in M : d >= x
        BY <1>1, <2>5, MaxExists
      <4>2. a = d + 1
        BY <1>3, <1>6, <2>5
      <4> QED BY <1>1, <4>1, <4>2
    <3> HIDE DEF a, c, d
    <3>2. \A p \in P : \A q \in M : q < p
      BY <2>3, <3>1
    <3>3. ASSUME NEW x \in M \cup P, NEW y \in M \cup P, NEW q \in Nat, x < q, q < y PROVE q \in M \cup P
      <4>1. CASE x \in M /\ y \in M
        BY <1>4, <3>3, <4>1 DEF Convex
      <4>2. CASE y \in P /\ q >= a
        <5>1. q \in a .. c
          BY <2>3, <3>3, <4>2
        <5> QED BY <2>3, <5>1
      <4>3. CASE x \in M /\ q < a
        <5>1. q = d \/ q < d
          BY <2>3, <3>1, <4>3
        <5>2. CASE q = d
          BY <3>1, <5>2
        <5>3. CASE q < d
          BY <1>4, <3>1, <3>3, <4>3, <5>3 DEF Convex
        <5> QED BY <5>1, <5>2, <5>3
      <4>4. CASE x \in P /\ y \in M
        <5>1. y < x
          BY <3>2, <4>4
        <5>2. x \in Nat /\ y \in Nat
          BY <2>3, <3>1, <4>4
        <5> QED BY <3>3, <5>1, <5>2
      <4>5. CASE x \in P /\ q < a
        BY <2>3, <3>3, <4>5
      <4>6. q >= a \/ q < a
        BY <2>3
      <4> QED BY <3>3, <4>1, <4>2, <4>3, <4>4, <4>5, <4>6
    <3>4. Convex(M \cup P)
      BY <3>3 DEF Convex
    <3> QED BY <3>2, <3>4 DEF P, M
  <2> QED BY <2>4, <2>5
<1> QED BY <1>5, <1>6

LEMMA SubmitMem ==
    ASSUME CallInv, MemInv, NEW in \in Inputs, Submit(in)
    PROVE  MemInv'
<1> DEFINE b == Filled(in, mem)
           e == <<>>
<1>1. b \in Batches /\ mem \in Memories
    BY FilledType DEF CallInv, BatchInv
<1>2. /\ batch' = b /\ ubatches' = e /\ next' = 1 /\ mem' = mem /\ computed' = computed
      /\ Accepted(b, mem) /\ \A i \in DOMAIN b : b[i].pos <= MaxPos
    BY DEF Submit, Reset
<1> HIDE DEF b, e
<1>3. DOMAIN b = 1 .. Len(b)
    BY <1>1, BatchParts
<1>4. ASSUME NEW s \in SeqId
      PROVE  /\ \A i \in Expected(b, e, 0, s) : \A q \in mem[s] : q < b[i].pos
             /\ Convex(Reached(b, e, mem, 0, s))
    <2>1. Positions(b, s) = {b[i].pos : i \in Expected(b, e, 0, s)}
      BY <1>3, ExpectedAll DEF Positions
    <2>2. Convex(mem[s])
      BY DEF MemInv
    <2>3. /\ \A p \in Positions(b, s) : \A q \in mem[s] : q < p
          /\ Convex(mem[s] \cup Positions(b, s))
      BY <1>1, <1>2, <1>3, <2>2, AcceptedFollows
    <2> QED BY <2>1, <2>3 DEF Reached
<1>5. Ahead(b, e, mem, 0) /\ NoGaps(b, e, mem, 0)
    BY <1>4 DEF Ahead, NoGaps
<1>6. next' - 1 = 0
    BY <1>2
<1> QED BY <1>2, <1>5, <1>6 DEF MemInv

LEMMA AddUbatchMem ==
    ASSUME CallInv, MemInv, pc = "split", UNCHANGED <<batch, next, mem, computed>>
    PROVE  MemInv'
<1>1. next = 1 /\ next - 1 = 0
    BY DEF CallInv, RowsInv
<1> DEFINE k == next - 1
<1>2. Ahead(batch, ubatches, mem, k) /\ NoGaps(batch, ubatches, mem, k)
    BY DEF MemInv
<1>3. Ahead(batch, ubatches', mem, 0) /\ NoGaps(batch, ubatches', mem, 0)
    <2> DEFINE ub2 == ubatches'
    <2>1. Ahead(batch, ubatches, mem, 0) /\ NoGaps(batch, ubatches, mem, 0)
      BY <1>1, <1>2
    <2> HIDE DEF ub2
    <2>2. Ahead(batch, ub2, mem, 0) /\ NoGaps(batch, ub2, mem, 0)
      BY <2>1, AnyUbatches
    <2> QED BY <2>2 DEF ub2
<1>4. next' - 1 = 0
    BY <1>1
<1> QED BY <1>3, <1>4 DEF MemInv

\* Tokens of a sequence that a ubatch has, and those that are left.
OfSeq(q, s) == {i \in Range(q) : s \in Seqs(batch, i)}

LEMMA Expects ==
    ASSUME CallInv, OrderlyInv, pc = "compute", next <= Len(ubatches), NEW s \in SeqId
    PROVE  /\ Expected(batch, ubatches, next - 1, s)
                = OfSeq(ubatches[next].idxs, s) \cup Expected(batch, ubatches, next, s)
           /\ \A i \in OfSeq(ubatches[next].idxs, s) : \A j \in Expected(batch, ubatches, next, s) :
                batch[i].pos < batch[j].pos
<1> DEFINE q == ubatches[next].idxs
           A == Expected(batch, ubatches, next - 1, s)
           B == Expected(batch, ubatches, next, s)
           C == OfSeq(q, s)
<1>1. BatchInv /\ RowsInv /\ Marked(batch, used, ubatches) /\ BatchDuty /\ InTurn(batch, ubatches) /\ Apart(ubatches)
    BY DEF CallInv, BatchInv, OrderlyInv, OrderInv, Marked
<1>2. /\ Len(batch) \in Nat /\ Len(ubatches) \in Nat
      /\ \A k \in 1 .. Len(ubatches) : DOMAIN ubatches[k].idxs = 1 .. Len(ubatches[k].idxs)
    BY <1>1, MarkedParts
<1>3. next \in 1 .. Len(ubatches) /\ \A l : l \in 1 .. next <=> l \in 1 .. next - 1 \/ l = next
    <2>1. next \in 1 .. Len(ubatches) + 1
      BY <1>1 DEF RowsInv
    <2> QED BY <1>2, <2>1
<1>4. \A i : i \in Range(q) <=> Has(q, i)
    BY <1>2, <1>3 DEF Range, Has
<1>5. ASSUME NEW i, Has(q, i)
      PROVE  i \in 1 .. Len(batch) /\ Pending(ubatches, next - 1, i)
    <2>1. PICK x \in 1 .. Len(q) : q[x] = i
      BY <1>5 DEF Has
    <2>2. i \in 1 .. Len(batch)
      BY <1>1, <1>3, <2>1 DEF Marked
    <2>3. ASSUME NEW l \in 1 .. next - 1, Has(ubatches[l].idxs, i) PROVE FALSE
      <3>1. PICK y \in 1 .. Len(ubatches[l].idxs) : ubatches[l].idxs[y] = i
        BY <2>3 DEF Has
      <3>2. l \in 1 .. Len(ubatches) /\ l # next
        BY <1>2, <1>3
      <3> QED BY <1>1, <1>3, <2>1, <3>1, <3>2 DEF Apart
    <2> QED BY <2>2, <2>3 DEF Pending
<1>6. \A i : Pending(ubatches, next, i) <=> Pending(ubatches, next - 1, i) /\ ~Has(q, i)
    BY <1>3 DEF Pending
<1>7. A = C \cup B
    <2>1. ASSUME NEW i \in A PROVE i \in C \cup B
      BY <1>4, <1>6 DEF Expected, OfSeq
    <2>2. ASSUME NEW i \in C PROVE i \in A
      BY <1>4, <1>5 DEF Expected, OfSeq
    <2>3. ASSUME NEW i \in B PROVE i \in A
      BY <1>6 DEF Expected
    <2> HIDE DEF A, B, C
    <2> QED BY <2>1, <2>2, <2>3
<1>8. ASSUME NEW i \in C, NEW j \in B PROVE batch[i].pos < batch[j].pos
    <2>1. Has(q, i) /\ s \in Seqs(batch, i)
      BY <1>4 DEF OfSeq
    <2>2. PICK x \in 1 .. Len(q) : q[x] = i
      BY <2>1 DEF Has
    <2>3. j \in 1 .. Len(batch) /\ s \in Seqs(batch, j) /\ Pending(ubatches, next, j)
      BY DEF Expected
    <2>4. Contains(ubatches, j)
      BY <1>1, <2>3 DEF RowsInv, Marked
    <2>5. PICK l \in 1 .. Len(ubatches) : Has(ubatches[l].idxs, j)
      BY <2>4 DEF Contains
    <2>6. ~(l \in 1 .. next)
      BY <2>3, <2>5 DEF Pending
    <2>7. next < l
      BY <1>2, <1>3, <2>5, <2>6
    <2>8. PICK y \in 1 .. Len(ubatches[l].idxs) : ubatches[l].idxs[y] = j
      BY <2>5 DEF Has
    <2>9. Shares(batch, i, j)
      BY <2>1, <2>3 DEF Shares
    <2>10. i < j
      <3>1. Shares(batch, ubatches[next].idxs[x], ubatches[l].idxs[y])
        BY <2>2, <2>8, <2>9
      <3>2. ubatches[next].idxs[x] < ubatches[l].idxs[y]
        BY <1>1, <1>3, <2>5, <2>7, <3>1 DEF InTurn
      <3> QED BY <2>2, <2>8, <3>2
    <2>11. i \in 1 .. Len(batch)
      BY <1>5, <2>1
    <2> HIDE DEF q
    <2> QED BY <1>1, <2>3, <2>9, <2>10, <2>11 DEF BatchDuty
<1> QED BY <1>7, <1>8

LEMMA AddedIs ==
    ASSUME NEW m, NEW q, NEW s \in SeqId
    PROVE  Added(m, q)[s] = m[s] \cup {batch[i].pos : i \in OfSeq(q, s)}
BY DEF Added, OfSeq

LEMMA ComputeMem ==
    ASSUME CallInv, OrderlyInv, MemInv, Compute
    PROVE  MemInv'
<1> DEFINE q == ubatches[next].idxs
           m == Added(mem, q)
<1>1. /\ pc = "compute" /\ next <= Len(ubatches) /\ next' = next + 1
      /\ mem' = m /\ computed' = Added(computed, q)
      /\ UNCHANGED <<config, pc, plan, batch, used, ubatches, outIds>>
    BY DEF Compute
<1>2. /\ mem = computed /\ \A s \in SeqId : Convex(mem[s])
      /\ Ahead(batch, ubatches, mem, next - 1) /\ NoGaps(batch, ubatches, mem, next - 1)
    BY <1>1 DEF MemInv
<1>3. mem' = computed'
    BY <1>1, <1>2
<1>4. next' - 1 = next
    <2>1. next \in 1 .. Len(ubatches) + 1 /\ Len(ubatches) \in Nat
      BY <1>1, MarkedParts DEF CallInv, BatchInv, RowsInv
    <2> QED BY <1>1, <2>1
<1> HIDE DEF m
<1>5. ASSUME NEW s \in SeqId
      PROVE  /\ \A j \in Expected(batch, ubatches, next, s) : \A p \in m[s] : p < batch[j].pos
             /\ Convex(Reached(batch, ubatches, m, next, s))
             /\ Convex(m[s])
    <2> DEFINE A == Expected(batch, ubatches, next - 1, s)
               B == Expected(batch, ubatches, next, s)
               C == OfSeq(q, s)
               R == Reached(batch, ubatches, m, next, s)
               M == m[s]
    <2>1. A = C \cup B /\ \A i \in C : \A j \in B : batch[i].pos < batch[j].pos
      BY <1>1, Expects
    <2>2. M = mem[s] \cup {batch[i].pos : i \in C}
      BY AddedIs DEF m
    <2>3. \A i \in A : \A p \in mem[s] : p < batch[i].pos
      BY <1>2 DEF Ahead
    <2>4. Convex(mem[s] \cup {batch[i].pos : i \in A})
      BY <1>2 DEF NoGaps, Reached
    <2>5. R = M \cup {batch[i].pos : i \in B}
      BY DEF Reached
    <2>6. B \subseteq 1 .. Len(batch) /\ \A j \in 1 .. Len(batch) : batch[j].pos \in Nat
      BY MarkedParts, BatchParts DEF Expected, CallInv, BatchInv, Marked
    <2>7. M \subseteq Nat
      <3>1. next \in 1 .. Len(ubatches)
        BY <1>1, MarkedParts DEF CallInv, BatchInv, RowsInv
      <3>2. m \in Memories
        BY <3>1, AddedType DEF m, CallInv, BatchInv
      <3>3. m[s] \subseteq 0 .. MaxPos
        BY <3>2 DEF Memories
      <3> QED BY <3>3, SizeAssumption
    <2> HIDE DEF A, B, C, M, R
    <2>8. \A j \in B : \A p \in M : p < batch[j].pos
      BY <2>1, <2>2, <2>3
    <2>9. R = mem[s] \cup {batch[i].pos : i \in A}
      BY <2>1, <2>2, <2>5
    <2>10. Convex(R)
      BY <2>4, <2>9
    <2>11. ASSUME NEW a \in M, NEW c \in M, NEW p \in Nat, a < p, p < c PROVE p \in M
      <3>1. p \in R
        BY <2>5, <2>10, <2>11 DEF Convex
      <3>2. ASSUME NEW j \in B, p = batch[j].pos PROVE FALSE
        <4>1. c < p
          BY <2>8, <3>2
        <4>2. c \in Nat
          BY <2>7
        <4> QED BY <2>11, <4>1, <4>2
      <3> QED BY <2>5, <3>1, <3>2
    <2>12. Convex(M)
      BY <2>11 DEF Convex
    <2> QED BY <2>8, <2>10, <2>12 DEF B, M, R
<1>6. Ahead(batch, ubatches, m, next) /\ NoGaps(batch, ubatches, m, next)
    BY <1>5 DEF Ahead, NoGaps
<1> QED BY <1>1, <1>3, <1>4, <1>5, <1>6 DEF MemInv

\* A token with one sequence has its first and no other.
LEMMA OneSeq ==
    ASSUME BatchInv, NEW i \in 1 .. Len(batch), Len(batch[i].ids) = 1, NEW s
    PROVE  batch[i].ids[1] = s <=> s \in Seqs(batch, i)
<1> DEFINE d == batch[i].ids
<1>1. d \in Seq(SeqId) /\ Len(d) = 1
    BY BatchParts DEF BatchInv, Marked
<1> HIDE DEF d
<1>2. DOMAIN d = {1}
    BY <1>1, LenProperties
<1>3. Range(d) = {d[1]}
    BY <1>2 DEF Range
<1> QED BY <1>3 DEF Seqs, d

LEMMA ComputeFailsMem ==
    ASSUME AllDuties, CallInv, OrderlyInv, MemInv, ComputeFails
    PROVE  MemInv'
<1> DEFINE q == ubatches[next].idxs
           m == Added(mem, q)
<1>1. /\ pc = "compute" /\ next <= Len(ubatches) /\ pc' = "done"
      /\ mem' = TakenBack(m, q) /\ computed' = computed /\ \A i \in Range(q) : Len(batch[i].ids) = 1
    <2>1. "alone" \in Duties
      BY DEF AllDuties, DutyNames
    <2> QED BY <2>1 DEF ComputeFails
<1>2. /\ mem = computed /\ \A s \in SeqId : Convex(mem[s])
      /\ Ahead(batch, ubatches, mem, next - 1)
    BY <1>1 DEF MemInv
<1>3. next \in 1 .. Len(ubatches)
    BY <1>1, MarkedParts DEF CallInv, BatchInv, RowsInv
<1>4. \A i \in Range(q) : i \in 1 .. Len(batch) /\ batch[i].pos \in 0 .. MaxPos
    BY <1>3, AddedType DEF CallInv, BatchInv
<1>5. mem \in Memories /\ \A s \in SeqId : mem[s] \subseteq 0 .. MaxPos
    BY DEF CallInv, BatchInv, Memories
<1>6. ASSUME NEW s \in SeqId PROVE TakenBack(m, q)[s] = mem[s]
    <2> DEFINE P == {batch[i].pos : i \in OfSeq(q, s)}
               T == {batch[i].pos : i \in {j \in Range(q) : batch[j].ids[1] = s}}
    <2>1. {j \in Range(q) : batch[j].ids[1] = s} = OfSeq(q, s)
      BY <1>1, <1>4, OneSeq DEF OfSeq, CallInv
    <2>2. T = P
      BY <2>1
    <2>3. m[s] = mem[s] \cup P
      BY AddedIs
    <2>4. TakenBack(m, q)[s] = IF T = {} THEN m[s] ELSE {x \in m[s] : x < Min(T)}
      BY DEF TakenBack
    <2>5. P \in SUBSET Nat
      BY <1>4 DEF OfSeq
    <2>6. \A p \in P : \A x \in mem[s] : x < p
      <3>1. OfSeq(q, s) \subseteq Expected(batch, ubatches, next - 1, s)
        BY <1>1, Expects
      <3> QED BY <1>2, <3>1 DEF Ahead
    <2> HIDE DEF P, T, m
    <2>7. CASE P = {}
      BY <2>2, <2>3, <2>4, <2>7
    <2>8. CASE P # {}
      <3>1. Min(P) \in P /\ \A p \in P : Min(P) <= p
        BY <2>5, <2>8, MinExists
      <3>2. \A x \in mem[s] : x < Min(P)
        BY <2>6, <3>1
      <3> DEFINE a == Min(P)
      <3>3. a \in Nat /\ \A p \in P : p \in Nat /\ a <= p
        BY <2>5, <3>1
      <3>4. \A p \in P : ~(p < a)
        BY <3>3
      <3>5. \A x \in mem[s] : x < a
        BY <3>2
      <3> HIDE DEF a
      <3>6. {x \in m[s] : x < a} = mem[s]
        BY <2>3, <3>4, <3>5
      <3> QED BY <2>2, <2>4, <2>8, <3>6 DEF a
    <2> QED BY <2>7, <2>8
<1>7. TakenBack(m, q) = mem
    <2>1. TakenBack(m, q) = [s \in SeqId |-> TakenBack(m, q)[s]]
      BY DEF TakenBack
    <2>2. mem = [s \in SeqId |-> mem[s]]
      BY <1>5 DEF Memories
    <2> HIDE DEF m, q
    <2> QED BY <1>6, <2>1, <2>2
<1> QED BY <1>1, <1>2, <1>7 DEF MemInv

LEMMA SeqRmMem ==
    ASSUME CallInv, MemInv, NEW s \in SeqId, NEW p0 \in 0 .. MaxPos, SeqRm(s, p0)
    PROVE  MemInv'
<1>1. /\ mem' = [mem EXCEPT ![s] = {p \in mem[s] : p < p0}]
      /\ computed' = [computed EXCEPT ![s] = {p \in computed[s] : p < p0}]
      /\ pc = "idle" /\ pc' = pc
    BY DEF SeqRm
<1>2. mem \in Memories /\ mem = computed
    BY DEF CallInv, BatchInv, MemInv
<1>3. mem' = computed'
    BY <1>1, <1>2
<1>4. ASSUME NEW t \in SeqId PROVE Convex(mem'[t])
    <2>1. Convex(mem[t]) /\ mem[t] \subseteq 0 .. MaxPos /\ p0 \in Nat
      BY <1>2, SizeAssumption DEF MemInv, Memories
    <2>2. mem'[t] = IF t = s THEN {p \in mem[t] : p < p0} ELSE mem[t]
      BY <1>1, <1>2 DEF Memories
    <2> DEFINE M == mem[t]
    <2> HIDE DEF M
    <2>3. Convex({p \in M : p < p0})
      <3>1. M \subseteq Nat /\ Convex(M)
        BY <2>1 DEF M
      <3> QED BY <2>1, <3>1 DEF Convex
    <2> QED BY <2>1, <2>2, <2>3 DEF M
<1> QED BY <1>1, <1>3, <1>4 DEF MemInv

LEMMA OthersMem ==
    ASSUME MemInv, UNCHANGED <<mem, computed>>,
           pc' \in {"idle", "done"} \/ UNCHANGED <<pc, batch, ubatches, next>>
    PROVE  MemInv'
<1>1. CASE pc' \in {"idle", "done"}
    BY <1>1 DEF MemInv
<1>2. CASE UNCHANGED <<pc, batch, ubatches, next>>
    BY <1>2 DEF MemInv
<1> QED BY <1>1, <1>2

LEMMA NextMem ==
    ASSUME AllDuties, CallInv, OrderlyInv, MemInv, [Next]_vars
    PROVE  MemInv'
<1>1. ASSUME NEW in \in Inputs, Submit(in) PROVE MemInv'
    BY <1>1, SubmitMem
<1>2. CASE AddUbatch
    BY <1>2, AddUbatchMem DEF AddUbatch
<1>3. CASE TryNext
  <2>1. pc = "split" /\ UNCHANGED <<batch, next, mem, computed>>
    BY <1>3 DEF TryNext, SplitDone
  <2> QED BY <2>1, AddUbatchMem
<1>4. CASE Place
  <2>1. pc = "split" /\ UNCHANGED <<batch, next, mem, computed>>
    BY <1>4 DEF Place, SplitDone
  <2> QED BY <2>1, AddUbatchMem
<1>5. CASE Compute
    BY <1>5, ComputeMem
<1>6. CASE ComputeFails
    BY <1>6, ComputeFailsMem
<1>7. CASE Finish
    BY <1>7, OthersMem DEF Finish
<1>8. CASE Reorder
    BY <1>8, OthersMem DEF Reorder
<1>9. CASE Return
    BY <1>9, OthersMem DEF Return
<1>10. ASSUME NEW s \in SeqId, NEW p0 \in 0 .. MaxPos, SeqRm(s, p0) PROVE MemInv'
    BY <1>10, SeqRmMem
<1>11. CASE UNCHANGED vars
    BY <1>11, OthersMem DEF vars
<1> QED BY <1>1, <1>2, <1>3, <1>4, <1>5, <1>6, <1>7, <1>8, <1>9, <1>10, <1>11 DEF Next

LEMMA ComputedAlways ==
    ASSUME AllDuties, RoomForAllSeqs
    PROVE  Spec => [](CallInv /\ MemInv)
<1>1. Init => MemInv
    BY DEF Init, MemInv, Convex
<1>2. Init => CallInv /\ OrderlyInv
    BY InitInv, InitOrderly
<1>3. (CallInv /\ OrderlyInv /\ MemInv) /\ [Next]_vars => (CallInv /\ OrderlyInv /\ MemInv)'
    BY NextInv, NextOrderly, NextMem
<1> QED BY <1>1, <1>2, <1>3, PTL DEF Spec

(* A ubatch that fails in the middle of a batch leaves the memory with the    *)
(* positions of those before it, without gaps: for any batches, splits and    *)
(* removals, if callers do their duties (of which one is that tokens have one *)
(* sequence where computing may fail).                                        *)
THEOREM MemoryIsWhatWasComputed ==
    ASSUME AllDuties, RoomForAllSeqs
    PROVE  Spec => []MemoryIsComputed
<1>1. CallInv /\ MemInv => MemoryIsComputed
  <2> SUFFICES ASSUME CallInv, MemInv, NEW s \in SeqId, mem[s] # {}
               PROVE  mem = computed /\ mem[s] = Min(mem[s]) .. Max(mem[s])
    BY DEF MemoryIsComputed, MemInv
  <2>1. mem = computed /\ Convex(mem[s]) /\ mem[s] \in SUBSET (0 .. MaxPos) /\ MaxPos \in Nat
    BY SizeAssumption DEF CallInv, BatchInv, MemInv, Memories
  <2> DEFINE M == mem[s]
             a == Min(M)
             c == Max(M)
  <2>2. a \in M /\ \A x \in M : a <= x
    <3>1. M \in SUBSET Nat /\ M # {}
      BY <2>1
    <3> HIDE DEF M
    <3> QED BY <3>1, MinExists
  <2>3. c \in M /\ \A x \in M : c >= x
    BY <2>1, MaxExists
  <2>4. Convex(M) /\ M \subseteq Nat
    BY <2>1
  <2> HIDE DEF M, a, c
  <2>5. \A x \in M : x \in Nat /\ a <= x /\ x <= c
    BY <2>2, <2>3, <2>4
  <2>6. ASSUME NEW x \in a .. c PROVE x \in M
    <3>1. a \in Nat /\ c \in Nat
      BY <2>2, <2>3, <2>4
    <3>2. x \in Nat /\ (x = a \/ x = c \/ (a < x /\ x < c))
      BY <3>1
    <3> QED BY <2>2, <2>3, <2>4, <3>2 DEF Convex
  <2>7. M = a .. c
    <3>1. a \in Nat /\ c \in Nat
      BY <2>2, <2>3, <2>4
    <3>2. \A x \in M : x \in a .. c
      BY <2>5, <3>1
    <3> QED BY <2>6, <3>2
  <2> QED BY <2>1, <2>7 DEF M, a, c
<1> QED BY <1>1, ComputedAlways, PTL
=============================================================================
