--------------------------- MODULE KVCells_proofs ---------------------------
(***************************************************************************)
(* The indexes of the cells agree with the cells, for any number of cells, *)
(* sequences and positions.                                                *)
(*                                                                         *)
(* Every method but set() changes one cell.  The counts are right after it *)
(* because each sequence that leaves a position is counted down there and  *)
(* each that takes one is counted up: LEMMA OneCell.  set() replaces some  *)
(* cells and leaves the rest: LEMMA TwoParts.                              *)
(***************************************************************************)
EXTENDS KVCells, FiniteSetTheorems, TLAPS

Index == [SeqId -> [Positions -> Int]]

(* one, if a cell with position q and sequences ss holds position p of s *)
One(ss, q, s, p) == IF s \in ss /\ q = p THEN 1 ELSE 0

(* what a caller of cp() holds is as clean as the cells were *)
SavedClean == \A i \in DOMAIN saved : saved[i].pos = Free => saved[i].seq = {}

Inv == TypeOK /\ UsedAgrees /\ SeqPosAgrees /\ FreeCellsClean /\ ShiftsAnnounced /\ SavedClean

(***************************************************************************)
(* Counting.                                                               *)
(***************************************************************************)
\* Some of finitely many cells hold a position: their number is a number.
LEMMA HoldingFinite ==
    ASSUME NEW I \in SUBSET Cell, NEW ps, NEW sq, NEW s, NEW p
    PROVE  /\ IsFiniteSet(Holding(I, ps, sq, s, p))
           /\ Cardinality(Holding(I, ps, sq, s, p)) \in Nat
<1>1. IsFiniteSet(Cell) /\ Holding(I, ps, sq, s, p) \in SUBSET Cell
    BY CellAssumption DEF Holding
<1>2. IsFiniteSet(Holding(I, ps, sq, s, p))
    BY <1>1, FS_Subset
<1> QED BY <1>2, FS_CardinalityType

\* When one cell changes, the number of holders changes by that cell only.
LEMMA CountAfter ==
    ASSUME NEW i \in Cell, NEW ps, NEW sq, NEW qs, NEW tq, NEW s, NEW p,
           \A j \in Cell \ {i} : qs[j] = ps[j] /\ tq[j] = sq[j]
    PROVE  Cardinality(Holding(Cell, qs, tq, s, p))
             = Cardinality(Holding(Cell, ps, sq, s, p)) - One(sq[i], ps[i], s, p) + One(tq[i], qs[i], s, p)
<1> DEFINE old  == Holding(Cell, ps, sq, s, p)
           rest == old \ {i}
           new  == Holding(Cell, qs, tq, s, p)
<1>1. IsFiniteSet(old) /\ Cardinality(old) \in Nat
    BY HoldingFinite
<1>2. i \in old <=> s \in sq[i] /\ ps[i] = p
    BY DEF Holding
<1>3. IsFiniteSet(rest) /\ Cardinality(rest) = Cardinality(old) - One(sq[i], ps[i], s, p)
  <2>1. /\ IsFiniteSet(rest)
        /\ Cardinality(rest) = IF i \in old THEN Cardinality(old) - 1 ELSE Cardinality(old)
    <3> HIDE DEF old
    <3> QED BY <1>1, FS_RemoveElement
  <2>2. One(sq[i], ps[i], s, p) = IF i \in old THEN 1 ELSE 0
    <3> HIDE DEF old
    <3> QED BY <1>2 DEF One
  <2> HIDE DEF old, rest
  <2> QED BY <2>1, <2>2, <1>1
<1>4. CASE s \in tq[i] /\ qs[i] = p
  <2>1. new = rest \cup {i}
    BY <1>4 DEF Holding
  <2>2. Cardinality(new) = Cardinality(rest) + 1
    BY <2>1, <1>3, FS_AddElement
  <2> QED BY <2>2, <1>3, <1>4 DEF One
<1>5. CASE ~(s \in tq[i] /\ qs[i] = p)
  <2>1. new = rest
    BY <1>5 DEF Holding
  <2>2. Cardinality(old) - One(sq[i], ps[i], s, p) \in Int
    BY <1>1 DEF One
  <2> QED BY <2>1, <2>2, <1>3, <1>5 DEF One
<1> QED BY <1>4, <1>5

\* The counts stay right when the index follows the change of one cell.
LEMMA OneCell ==
    ASSUME TypeOK, SeqPosAgrees, NEW i \in Cell,
           \A j \in Cell \ {i} : pos'[j] = pos[j] /\ seq'[j] = seq[j],
           seqPos' \in Index,
           \A s \in SeqId, p \in Positions :
             seqPos'[s][p] = seqPos[s][p] - One(seq[i], pos[i], s, p) + One(seq'[i], pos'[i], s, p)
    PROVE  SeqPosAgrees' /\ seqPos' \in [SeqId -> [Positions -> Nat]]
<1>1. SeqPosAgrees'
  <2> SUFFICES ASSUME NEW s \in SeqId, NEW p \in Positions
               PROVE  seqPos'[s][p] = Cardinality(Holding(Cell, pos', seq', s, p))
    BY DEF SeqPosAgrees
  <2>1. seqPos[s][p] = Cardinality(Holding(Cell, pos, seq, s, p))
    BY DEF SeqPosAgrees
  <2>2. Cardinality(Holding(Cell, pos', seq', s, p))
          = Cardinality(Holding(Cell, pos, seq, s, p)) - One(seq[i], pos[i], s, p)
              + One(seq'[i], pos'[i], s, p)
    BY CountAfter
  <2> QED BY <2>1, <2>2
<1>2. \A s \in SeqId, p \in Positions : seqPos'[s][p] \in Nat
  <2> TAKE s \in SeqId, p \in Positions
  <2>1. seqPos'[s][p] = Cardinality(Holding(Cell, pos', seq', s, p))
    BY <1>1 DEF SeqPosAgrees
  <2> QED BY <2>1, HoldingFinite
<1> QED BY <1>1, <1>2 DEF Index

\* What counting down does to the index.
LEMMA DecCounts ==
    ASSUME NEW sp \in Index, NEW ss, NEW q
    PROVE  /\ Dec(sp, ss, q) \in Index
           /\ \A s \in SeqId, p \in Positions : Dec(sp, ss, q)[s][p] = sp[s][p] - One(ss, q, s, p)
<1>1. \A s \in SeqId : sp[s] \in [Positions -> Int]
    BY DEF Index
<1>2. \A s \in SeqId : [sp[s] EXCEPT ![q] = @ - 1] \in [Positions -> Int]
  <2> TAKE s \in SeqId
  <2>1. q \in Positions => sp[s][q] - 1 \in Int
    BY <1>1
  <2> QED BY <1>1, <2>1
<1>3. Dec(sp, ss, q) \in Index
    BY <1>1, <1>2 DEF Dec, Index
<1>4. ASSUME NEW s \in SeqId, NEW p \in Positions
      PROVE  Dec(sp, ss, q)[s][p] = sp[s][p] - One(ss, q, s, p)
  <2>1. sp[s] \in [Positions -> Int] /\ sp[s][p] \in Int
    BY <1>1
  <2>2. Dec(sp, ss, q)[s] = IF s \in ss THEN [sp[s] EXCEPT ![q] = @ - 1] ELSE sp[s]
    BY DEF Dec
  <2> QED BY <2>1, <2>2 DEF One
<1> QED BY <1>3, <1>4

\* What counting up does to it.
LEMMA IncCounts ==
    ASSUME NEW sp \in Index, NEW ss, NEW q
    PROVE  /\ Inc(sp, ss, q) \in Index
           /\ \A s \in SeqId, p \in Positions : Inc(sp, ss, q)[s][p] = sp[s][p] + One(ss, q, s, p)
<1>1. \A s \in SeqId : sp[s] \in [Positions -> Int]
    BY DEF Index
<1>2. \A s \in SeqId : [sp[s] EXCEPT ![q] = @ + 1] \in [Positions -> Int]
  <2> TAKE s \in SeqId
  <2>1. q \in Positions => sp[s][q] + 1 \in Int
    BY <1>1
  <2> QED BY <1>1, <2>1
<1>3. Inc(sp, ss, q) \in Index
    BY <1>1, <1>2 DEF Inc, Index
<1>4. ASSUME NEW s \in SeqId, NEW p \in Positions
      PROVE  Inc(sp, ss, q)[s][p] = sp[s][p] + One(ss, q, s, p)
  <2>1. sp[s] \in [Positions -> Int] /\ sp[s][p] \in Int
    BY <1>1
  <2>2. Inc(sp, ss, q)[s] = IF s \in ss THEN [sp[s] EXCEPT ![q] = @ + 1] ELSE sp[s]
    BY DEF Inc
  <2> QED BY <2>1, <2>2 DEF One
<1> QED BY <1>3, <1>4

\* Division makes no position larger.
LEMMA Quotient == ASSUME NEW x \in Nat, NEW d \in Nat \ {0} PROVE x \div d \in 0 .. x
<1> DEFINE q == x \div d
<1>1. q \in Int /\ d * q <= x /\ x < d * q + d
    OBVIOUS
<1> HIDE DEF q
<1>2. q >= 0
    BY <1>1
<1>3. q <= d * q
    BY <1>1, <1>2
<1> QED BY <1>1, <1>2, <1>3 DEF q

\* The index can be counted in.
LEMMA IndexType == TypeOK => seqPos \in Index
BY DEF TypeOK, Index

\* A position is an integer.
LEMMA PositionType == TypeOK => \A i \in Cell : pos[i] \in Int /\ (pos[i] # Free => pos[i] \in Positions)
BY BoundAssumption DEF TypeOK, Positions, Free

(***************************************************************************)
(* Each method.                                                            *)
(***************************************************************************)
\* The invariant after a method that changes one cell and counts as it should.
LEMMA OneCellStep ==
    ASSUME Inv, NEW i \in Cell,
           pos' \in [Cell -> Positions \cup {Free}], shift' \in [Cell -> Int],
           seq' \in [Cell -> SUBSET SeqId], hasShift' \in BOOLEAN,
           base' \in [Cell -> Positions \cup {Free}], UNCHANGED saved,
           \A j \in Cell \ {i} : pos'[j] = pos[j] /\ seq'[j] = seq[j] /\ shift'[j] = shift[j],
           used' = IF pos'[i] = Free THEN used \ {i} ELSE used \cup {i},
           pos'[i] = Free => seq'[i] = {} /\ shift'[i] = 0,
           hasShift' \/ (hasShift' = hasShift /\ (shift[i] = 0 => shift'[i] = 0)),
           seqPos' \in Index,
           \A s \in SeqId, p \in Positions :
             seqPos'[s][p] = seqPos[s][p] - One(seq[i], pos[i], s, p) + One(seq'[i], pos'[i], s, p)
    PROVE  Inv'
<1>1. SeqPosAgrees' /\ seqPos' \in [SeqId -> [Positions -> Nat]]
    BY OneCell DEF Inv
<1>2. UsedAgrees'
    BY DEF Inv, UsedAgrees, TypeOK
<1>3. TypeOK'
    BY <1>1, <1>2 DEF Inv, TypeOK, UsedAgrees
<1>4. FreeCellsClean'
    BY DEF Inv, FreeCellsClean
<1>5. ShiftsAnnounced'
    BY DEF Inv, ShiftsAnnounced
<1>6. SavedClean'
    BY DEF Inv, SavedClean
<1> QED BY <1>1, <1>2, <1>3, <1>4, <1>5, <1>6 DEF Inv

\* A cell that is emptied, its sequences counted down.
LEMMA EmptyStep ==
    ASSUME Inv, NEW i \in Cell, pos[i] # Free, Empty(i), seqPos' = Dec(seqPos, seq[i], pos[i]),
           hasShift' \in BOOLEAN, hasShift' \/ hasShift' = hasShift, UNCHANGED saved
    PROVE  Inv'
<1>1. /\ pos' \in [Cell -> Positions \cup {Free}] /\ shift' \in [Cell -> Int]
      /\ seq' \in [Cell -> SUBSET SeqId] /\ base' \in [Cell -> Positions \cup {Free}]
      /\ used' = used \ {i}
    BY DEF Inv, TypeOK, Empty
<1>2. /\ pos'[i] = Free /\ seq'[i] = {} /\ shift'[i] = 0
      /\ \A j \in Cell \ {i} : pos'[j] = pos[j] /\ seq'[j] = seq[j] /\ shift'[j] = shift[j]
    BY DEF Inv, TypeOK, Empty
<1>3. /\ seqPos' \in Index
      /\ \A s \in SeqId, p \in Positions : seqPos'[s][p] = seqPos[s][p] - One(seq[i], pos[i], s, p)
    BY IndexType, DecCounts DEF Inv
<1>4. \A s \in SeqId, p \in Positions :
        /\ seqPos[s][p] \in Int /\ One(seq[i], pos[i], s, p) \in Int
        /\ One(seq'[i], pos'[i], s, p) = 0
    BY <1>2, IndexType DEF Inv, Index, One
<1>5. \A s \in SeqId, p \in Positions :
        seqPos'[s][p] = seqPos[s][p] - One(seq[i], pos[i], s, p) + One(seq'[i], pos'[i], s, p)
    BY <1>3, <1>4
<1> QED BY <1>1, <1>2, <1>3, <1>5, OneCellStep

\* A cell that keeps its place and its shift while its sequences change.
LEMMA SeqStep ==
    ASSUME Inv, NEW i \in Cell, NEW ss \in SUBSET SeqId, pos[i] # Free,
           seq' = [seq EXCEPT ![i] = ss], seqPos' \in Index,
           \A s \in SeqId, p \in Positions :
             seqPos'[s][p] = seqPos[s][p] - One(seq[i], pos[i], s, p) + One(ss, pos[i], s, p),
           UNCHANGED <<pos, shift, used, base, hasShift, saved>>
    PROVE  Inv'
<1>1. /\ seq' \in [Cell -> SUBSET SeqId] /\ seq'[i] = ss
      /\ \A j \in Cell \ {i} : seq'[j] = seq[j]
    BY DEF Inv, TypeOK
<1>2. used' = used \cup {i} /\ pos'[i] # Free
    BY DEF Inv, UsedAgrees
<1>3. /\ pos' \in [Cell -> Positions \cup {Free}] /\ shift' \in [Cell -> Int]
      /\ base' \in [Cell -> Positions \cup {Free}] /\ hasShift' \in BOOLEAN
    BY DEF Inv, TypeOK
<1> QED BY <1>1, <1>2, <1>3, OneCellStep

LEMMA SeqRmStep == ASSUME Inv, NEW i \in Cell, NEW s \in SeqId, SeqRm(i, s) PROVE Inv'
<1>1. seqPos \in Index /\ pos[i] # Free /\ s \in seq[i] /\ seqPos' = Dec(seqPos, {s}, pos[i])
    BY IndexType DEF Inv, SeqRm
<1>2. CASE seq[i] = {s}
    BY <1>1, <1>2, EmptyStep DEF SeqRm, Inv, TypeOK
<1>3. CASE seq[i] # {s}
  <2>1. /\ seqPos' \in Index
        /\ \A t \in SeqId, p \in Positions : seqPos'[t][p] = seqPos[t][p] - One({s}, pos[i], t, p)
    BY <1>1, DecCounts
  <2>2. \A t \in SeqId, p \in Positions :
          /\ seqPos[t][p] \in Int
          /\ One({s}, pos[i], t, p) = One(seq[i], pos[i], t, p) - One(seq[i] \ {s}, pos[i], t, p)
    BY <1>1 DEF One, Index
  <2>3. \A t \in SeqId, p \in Positions :
          seqPos'[t][p] = seqPos[t][p] - One(seq[i], pos[i], t, p) + One(seq[i] \ {s}, pos[i], t, p)
    BY <2>1, <2>2 DEF One
  <2>4. seq[i] \ {s} \in SUBSET SeqId /\ seq' = [seq EXCEPT ![i] = seq[i] \ {s}]
    BY <1>3 DEF Inv, TypeOK, SeqRm
  <2>5. UNCHANGED <<pos, shift, used, base, hasShift, saved>>
    BY <1>3 DEF SeqRm
  <2> QED BY <1>1, <2>1, <2>3, <2>4, <2>5, SeqStep
<1> QED BY <1>2, <1>3

LEMMA SeqKeepStep == ASSUME Inv, NEW i \in Cell, NEW s \in SeqId, SeqKeep(i, s) PROVE Inv'
<1>1. seqPos \in Index /\ pos[i] # Free
    BY IndexType DEF Inv, SeqKeep, FreeCellsClean
<1>2. CASE s \notin seq[i]
    BY <1>1, <1>2, EmptyStep DEF SeqKeep, Inv, TypeOK
<1>3. CASE s \in seq[i]
  <2> DEFINE less == Dec(seqPos, seq[i], pos[i])
  <2>1. seqPos' = Inc(less, {s}, pos[i])
    BY <1>3 DEF SeqKeep
  <2>2. /\ less \in Index
        /\ \A t \in SeqId, p \in Positions : less[t][p] = seqPos[t][p] - One(seq[i], pos[i], t, p)
    BY <1>1, DecCounts
  <2> HIDE DEF less
  <2>3. /\ seqPos' \in Index
        /\ \A t \in SeqId, p \in Positions : seqPos'[t][p] = less[t][p] + One({s}, pos[i], t, p)
    BY <2>1, <2>2, IncCounts
  <2>4. \A t \in SeqId, p \in Positions :
          seqPos'[t][p] = seqPos[t][p] - One(seq[i], pos[i], t, p) + One({s}, pos[i], t, p)
    BY <2>2, <2>3
  <2>5. {s} \in SUBSET SeqId /\ seq' = [seq EXCEPT ![i] = {s}]
    BY <1>3 DEF SeqKeep
  <2>6. UNCHANGED <<pos, shift, used, base, hasShift, saved>>
    BY <1>3 DEF SeqKeep
  <2> QED BY <1>1, <2>3, <2>4, <2>5, <2>6, SeqStep
<1> QED BY <1>2, <1>3

LEMMA SeqAddStep == ASSUME Inv, NEW i \in Cell, NEW s \in SeqId, SeqAdd(i, s) PROVE Inv'
<1>1. /\ seqPos \in Index /\ pos[i] # Free /\ s \notin seq[i]
      /\ seqPos' = Inc(seqPos, {s}, pos[i]) /\ seq' = [seq EXCEPT ![i] = seq[i] \cup {s}]
      /\ UNCHANGED <<pos, shift, used, base, hasShift, saved>>
    BY IndexType DEF Inv, SeqAdd, TypeOK
<1>2. /\ seqPos' \in Index
      /\ \A t \in SeqId, p \in Positions : seqPos'[t][p] = seqPos[t][p] + One({s}, pos[i], t, p)
    BY <1>1, IncCounts
<1>3. \A t \in SeqId, p \in Positions :
        /\ seqPos[t][p] \in Int
        /\ One({s}, pos[i], t, p) = One(seq[i] \cup {s}, pos[i], t, p) - One(seq[i], pos[i], t, p)
    BY <1>1 DEF One, Index
<1>4. \A t \in SeqId, p \in Positions :
        seqPos'[t][p] = seqPos[t][p] - One(seq[i], pos[i], t, p) + One(seq[i] \cup {s}, pos[i], t, p)
    BY <1>2, <1>3 DEF One
<1>5. seq[i] \cup {s} \in SUBSET SeqId
    BY DEF Inv, TypeOK
<1> QED BY <1>1, <1>2, <1>4, <1>5, SeqStep

LEMMA PosSetStep == ASSUME Inv, NEW i \in Cell, NEW p \in Positions, PosSet(i, p) PROVE Inv'
<1>1. /\ pos[i] = Free /\ seq[i] = {} /\ shift[i] = 0 /\ p # Free
      /\ pos' = [pos EXCEPT ![i] = p] /\ base' = [base EXCEPT ![i] = p] /\ used' = used \cup {i}
      /\ UNCHANGED <<shift, seq, seqPos, hasShift, saved>>
    BY BoundAssumption DEF Inv, PosSet, FreeCellsClean, Positions, Free
<1>2. /\ pos' \in [Cell -> Positions \cup {Free}] /\ base' \in [Cell -> Positions \cup {Free}]
      /\ shift' \in [Cell -> Int] /\ seq' \in [Cell -> SUBSET SeqId] /\ hasShift' \in BOOLEAN
    BY <1>1 DEF Inv, TypeOK
<1>3. pos'[i] = p /\ seq'[i] = {} /\ \A j \in Cell \ {i} : pos'[j] = pos[j]
    BY <1>1 DEF Inv, TypeOK
<1>4. seqPos' \in Index /\ \A s \in SeqId, q \in Positions : seqPos[s][q] \in Int
    BY <1>1, IndexType DEF Inv, Index
<1>5. \A s \in SeqId, q \in Positions :
        seqPos'[s][q] = seqPos[s][q] - One(seq[i], pos[i], s, q) + One(seq'[i], pos'[i], s, q)
    BY <1>1, <1>3, <1>4 DEF One
<1> QED BY <1>1, <1>2, <1>3, <1>4, <1>5, OneCellStep

\* A cell that moves to another position with all its sequences.
LEMMA MoveStep ==
    ASSUME Inv, NEW i \in Cell, NEW p \in Positions, NEW h \in Int, pos[i] # Free,
           seqPos' = Inc(Dec(seqPos, seq[i], pos[i]), seq[i], p),
           pos' = [pos EXCEPT ![i] = p], shift' = [shift EXCEPT ![i] = h], hasShift' = TRUE,
           UNCHANGED <<seq, used, base, saved>>
    PROVE  Inv'
<1> DEFINE less == Dec(seqPos, seq[i], pos[i])
<1>1. /\ less \in Index
      /\ \A t \in SeqId, q \in Positions : less[t][q] = seqPos[t][q] - One(seq[i], pos[i], t, q)
    BY IndexType, DecCounts DEF Inv
<1> HIDE DEF less
<1>2. /\ seqPos' \in Index
      /\ \A t \in SeqId, q \in Positions : seqPos'[t][q] = less[t][q] + One(seq[i], p, t, q)
  <2>1. seqPos' = Inc(less, seq[i], p)
    BY DEF less
  <2> QED BY <2>1, <1>1, IncCounts
<1>3. /\ pos' \in [Cell -> Positions \cup {Free}] /\ shift' \in [Cell -> Int]
      /\ pos'[i] = p /\ p # Free
      /\ \A j \in Cell \ {i} : pos'[j] = pos[j] /\ shift'[j] = shift[j]
    BY BoundAssumption DEF Inv, TypeOK, Positions, Free
<1>4. \A t \in SeqId, q \in Positions :
        seqPos'[t][q] = seqPos[t][q] - One(seq[i], pos[i], t, q) + One(seq'[i], pos'[i], t, q)
    BY <1>1, <1>2, <1>3
<1>5. used' = used \cup {i}
    BY DEF Inv, UsedAgrees
<1> QED BY <1>2, <1>3, <1>4, <1>5, OneCellStep DEF Inv, TypeOK

LEMMA PosAddStep == ASSUME Inv, NEW i \in Cell, NEW d \in Deltas, PosAdd(i, d) PROVE Inv'
<1>1. pos[i] # Free /\ hasShift' = TRUE /\ UNCHANGED saved /\ d \in Int /\ pos[i] \in Int
      /\ shift[i] \in Int
    BY BoundAssumption, PositionType DEF Inv, PosAdd, TypeOK
<1>2. CASE pos[i] + d < 0
    BY <1>1, <1>2, EmptyStep DEF PosAdd
<1>3. CASE ~(pos[i] + d < 0)
  <2>1. pos[i] + d \in Positions /\ shift[i] + d \in Int
    BY <1>1, <1>3, BoundAssumption DEF PosAdd, Positions
  <2>2. /\ pos' = [pos EXCEPT ![i] = pos[i] + d] /\ shift' = [shift EXCEPT ![i] = shift[i] + d]
        /\ seqPos' = Inc(Dec(seqPos, seq[i], pos[i]), seq[i], pos[i] + d)
        /\ UNCHANGED <<seq, used, base>>
    BY <1>3 DEF PosAdd, Inv, TypeOK
  <2> QED BY <1>1, <2>1, <2>2, MoveStep
<1> QED BY <1>2, <1>3

LEMMA PosDivStep == ASSUME Inv, NEW i \in Cell, NEW d \in Divisors, PosDiv(i, d) PROVE Inv'
<1> DEFINE p == pos[i] \div d
<1>1. pos[i] # Free /\ pos[i] \in Positions /\ d \in Nat \ {0} /\ shift[i] \in Int
    BY BoundAssumption, PositionType DEF Inv, PosDiv, TypeOK
<1>2. p \in Positions
  <2>1. pos[i] \in Nat /\ pos[i] <= MaxPos /\ MaxPos \in Nat
    BY <1>1, BoundAssumption DEF Positions
  <2>2. p \in 0 .. pos[i]
    BY <1>1, <2>1, Quotient
  <2> QED BY <2>1, <2>2 DEF Positions
<1>3. shift[i] + (pos[i] - p) \in Int
    BY <1>1, <1>2 DEF Positions
<1>4. /\ pos' = [pos EXCEPT ![i] = p] /\ shift' = [shift EXCEPT ![i] = shift[i] + (pos[i] - p)]
      /\ seqPos' = Inc(Dec(seqPos, seq[i], pos[i]), seq[i], p) /\ hasShift' = TRUE
      /\ UNCHANGED <<seq, used, base, saved>>
    BY DEF PosDiv, Inv, TypeOK
<1> HIDE DEF p
<1> QED BY <1>1, <1>2, <1>3, <1>4, MoveStep

LEMMA ResetShiftStep == ASSUME Inv, ResetShift PROVE Inv'
<1>1. UNCHANGED <<pos, seq, used, seqPos, saved>> /\ shift' = [i \in Cell |-> 0] /\ hasShift' = FALSE
      /\ base' = [i \in Cell |-> pos[i]]
    BY DEF ResetShift
<1>2. TypeOK'
  <2>1. shift' \in [Cell -> Int]
    BY DEF ResetShift
  <2>2. hasShift' \in BOOLEAN
    BY DEF ResetShift
  <2>3. base' \in [Cell -> Positions \cup {Free}]
    BY <1>1 DEF Inv, TypeOK
  <2> QED BY <1>1, <2>1, <2>2, <2>3 DEF Inv, TypeOK
<1>3. SeqPosAgrees'
    BY <1>1 DEF Inv, SeqPosAgrees, Holding
<1> QED BY <1>1, <1>2, <1>3 DEF Inv, UsedAgrees, FreeCellsClean, ShiftsAnnounced, SavedClean

\* No cell holds anything, and no count is above 0.
LEMMA NothingHeld ==
    ASSUME NEW s, NEW p \in Positions
    PROVE  Cardinality(Holding(Cell, [i \in Cell |-> Free], [i \in Cell |-> {}], s, p)) = 0
<1>1. Holding(Cell, [i \in Cell |-> Free], [i \in Cell |-> {}], s, p) = {}
    BY DEF Holding
<1> QED BY <1>1, FS_EmptySet

LEMMA ResetStep == ASSUME Inv, Reset PROVE Inv'
<1>1. TypeOK'
  <2>1. seqPos' \in [SeqId -> [Positions -> Nat]]
    BY DEF Reset
  <2>2. seq' \in [Cell -> SUBSET SeqId] /\ shift' \in [Cell -> Int]
    BY DEF Reset
  <2> QED BY <2>1, <2>2 DEF Inv, TypeOK, Reset
<1>2. SeqPosAgrees'
  <2> SUFFICES ASSUME NEW s \in SeqId, NEW p \in Positions
               PROVE  seqPos'[s][p] = Cardinality(Holding(Cell, pos', seq', s, p))
    BY DEF SeqPosAgrees
  <2>1. seqPos'[s][p] = 0 /\ pos' = [i \in Cell |-> Free] /\ seq' = [i \in Cell |-> {}]
    BY DEF Reset
  <2> QED BY <2>1, NothingHeld
<1> QED BY <1>1, <1>2 DEF Inv, Reset, UsedAgrees, FreeCellsClean, ShiftsAnnounced, SavedClean

LEMMA InitStep == Init => Inv
<1> SUFFICES ASSUME Init PROVE Inv
    OBVIOUS
<1>1. TypeOK
  <2>1. seqPos \in [SeqId -> [Positions -> Nat]]
    BY DEF Init
  <2>2. seq \in [Cell -> SUBSET SeqId] /\ shift \in [Cell -> Int]
    BY DEF Init
  <2>3. DOMAIN saved = {} /\ saved \in [DOMAIN saved -> Saved]
    BY DEF Init
  <2> QED BY <2>1, <2>2, <2>3 DEF TypeOK, Init
<1>2. SeqPosAgrees
  <2> SUFFICES ASSUME NEW s \in SeqId, NEW p \in Positions
               PROVE  seqPos[s][p] = Cardinality(Holding(Cell, pos, seq, s, p))
    BY DEF SeqPosAgrees
  <2>1. seqPos[s][p] = 0 /\ pos = [i \in Cell |-> Free] /\ seq = [i \in Cell |-> {}]
    BY DEF Init
  <2> QED BY <2>1, NothingHeld
<1> QED BY <1>1, <1>2 DEF Inv, Init, UsedAgrees, FreeCellsClean, ShiftsAnnounced, SavedClean

LEMMA CpStep == ASSUME Inv, NEW I \in SUBSET Cell, Cp(I) PROVE Inv'
<1>1. saved' = [i \in I |-> [pos |-> pos[i], seq |-> seq[i]]]
      /\ UNCHANGED <<pos, shift, seq, used, seqPos, hasShift, base>>
    BY DEF Cp
<1>2. DOMAIN saved' = I /\ saved' \in [I -> Saved]
    BY <1>1 DEF Inv, TypeOK, Saved
<1>3. TypeOK'
    BY <1>1, <1>2 DEF Inv, TypeOK
<1>4. SavedClean'
    BY <1>1, <1>2 DEF Inv, SavedClean, FreeCellsClean
<1>5. SeqPosAgrees'
    BY <1>1 DEF Inv, SeqPosAgrees, Holding
<1> QED BY <1>1, <1>3, <1>4, <1>5 DEF Inv, UsedAgrees, FreeCellsClean, ShiftsAnnounced

\* Those of all cells that hold a position are those of some and of the others.
LEMMA TwoParts ==
    ASSUME NEW I \in SUBSET Cell, NEW ps, NEW sq, NEW s, NEW p
    PROVE  Cardinality(Holding(Cell, ps, sq, s, p))
             = Cardinality(Holding(I, ps, sq, s, p)) + Cardinality(Holding(Cell \ I, ps, sq, s, p))
<1> DEFINE A == Holding(I, ps, sq, s, p)
           B == Holding(Cell \ I, ps, sq, s, p)
<1>1. Holding(Cell, ps, sq, s, p) = A \cup B /\ A \cap B = {}
    BY DEF Holding
<1>2. /\ IsFiniteSet(A) /\ Cardinality(A) \in Nat
      /\ IsFiniteSet(B) /\ Cardinality(B) \in Nat
    BY HoldingFinite
<1>3. Cardinality(A \cup B) = Cardinality(A) + Cardinality(B) - Cardinality(A \cap B)
    BY <1>2, FS_Union
<1>4. Cardinality(A \cap B) = 0
    BY <1>1, FS_EmptySet
<1> HIDE DEF A, B
<1>5. Cardinality(A \cup B) = Cardinality(A) + Cardinality(B)
    BY <1>2, <1>3, <1>4
<1> QED BY <1>1, <1>5 DEF A, B

LEMMA SetStep == ASSUME Inv, Set PROVE Inv'
<1> DEFINE I == DOMAIN saved
<1>1. I \in SUBSET Cell /\ \A i \in I : saved[i] \in Saved /\ shift[i] = 0
    BY DEF Inv, TypeOK, Set
<1>2. /\ pos' = [i \in Cell |-> IF i \in I THEN saved[i].pos ELSE pos[i]]
      /\ seq' = [i \in Cell |-> IF i \in I THEN saved[i].seq ELSE seq[i]]
      /\ base' = [i \in Cell |-> IF i \in I THEN saved[i].pos ELSE base[i]]
      /\ used' = (used \ {i \in I : pos[i] # Free /\ saved[i].pos = Free})
                    \cup {i \in I : pos[i] = Free /\ saved[i].pos # Free}
      /\ seqPos' = [s \in SeqId |-> [p \in Positions |->
                      seqPos[s][p] - Cardinality(Holding(I, pos, seq, s, p))
                                   + Cardinality(Holding(I, pos', seq', s, p))]]
      /\ UNCHANGED <<shift, hasShift, saved>>
    BY DEF Set
<1> HIDE DEF I
<1>3. SeqPosAgrees'
  <2> SUFFICES ASSUME NEW s \in SeqId, NEW p \in Positions
               PROVE  seqPos'[s][p] = Cardinality(Holding(Cell, pos', seq', s, p))
    BY DEF SeqPosAgrees
  <2>1. seqPos'[s][p] = seqPos[s][p] - Cardinality(Holding(I, pos, seq, s, p))
                                     + Cardinality(Holding(I, pos', seq', s, p))
    BY <1>2
  <2>2. seqPos[s][p] = Cardinality(Holding(I, pos, seq, s, p))
                         + Cardinality(Holding(Cell \ I, pos, seq, s, p))
    BY <1>1, TwoParts DEF Inv, SeqPosAgrees
  <2>3. Cardinality(Holding(Cell, pos', seq', s, p)) = Cardinality(Holding(I, pos', seq', s, p))
                         + Cardinality(Holding(Cell \ I, pos', seq', s, p))
    BY <1>1, TwoParts
  <2>4. Holding(Cell \ I, pos', seq', s, p) = Holding(Cell \ I, pos, seq, s, p)
    BY <1>2 DEF Holding
  <2>5. /\ Cardinality(Holding(I, pos, seq, s, p)) \in Nat
        /\ Cardinality(Holding(I, pos', seq', s, p)) \in Nat
        /\ Cardinality(Holding(Cell \ I, pos, seq, s, p)) \in Nat
    BY <1>1, HoldingFinite
  <2> QED BY <2>1, <2>2, <2>3, <2>4, <2>5
<1>4. seqPos' \in [SeqId -> [Positions -> Nat]]
  <2>1. \A s \in SeqId, p \in Positions : seqPos'[s][p] \in Nat
    BY <1>3, HoldingFinite DEF SeqPosAgrees
  <2>2. \A s \in SeqId : seqPos'[s] = [p \in Positions |-> seqPos'[s][p]]
    BY <1>2
  <2>3. seqPos' = [s \in SeqId |-> seqPos'[s]]
    BY <1>2
  <2> QED BY <2>1, <2>2, <2>3
<1>5. /\ pos' \in [Cell -> Positions \cup {Free}] /\ base' \in [Cell -> Positions \cup {Free}]
      /\ seq' \in [Cell -> SUBSET SeqId]
    BY <1>1, <1>2 DEF Inv, TypeOK, Saved
<1>6. UsedAgrees'
    BY <1>1, <1>2 DEF Inv, UsedAgrees, TypeOK
<1>7. TypeOK'
    BY <1>2, <1>4, <1>5, <1>6 DEF Inv, TypeOK, UsedAgrees
<1>8. FreeCellsClean'
  <2> SUFFICES ASSUME NEW i \in Cell, pos'[i] = Free PROVE seq'[i] = {} /\ shift'[i] = 0
    BY DEF FreeCellsClean
  <2>1. CASE i \in I
    BY <2>1, <1>1, <1>2 DEF Inv, SavedClean, I
  <2>2. CASE i \notin I
    BY <2>2, <1>2 DEF Inv, FreeCellsClean
  <2> QED BY <2>1, <2>2
<1>9. ShiftsAnnounced' /\ SavedClean'
    BY <1>2 DEF Inv, ShiftsAnnounced, SavedClean
<1> QED BY <1>3, <1>6, <1>7, <1>8, <1>9 DEF Inv

\* A step that changes nothing.
LEMMA StutterStep == ASSUME Inv, UNCHANGED vars PROVE Inv'
BY DEF Inv, vars, TypeOK, UsedAgrees, SeqPosAgrees, Holding, FreeCellsClean, ShiftsAnnounced, SavedClean

LEMMA InvStep == Inv /\ [Next]_vars => Inv'
<1> SUFFICES ASSUME Inv, [Next]_vars PROVE Inv'
    OBVIOUS
<1>1. ASSUME NEW i \in Cell, Rm(i) PROVE Inv'
    BY <1>1, EmptyStep DEF Rm, Inv, TypeOK
<1>2. ASSUME NEW i \in Cell, NEW s \in SeqId, SeqRm(i, s) \/ SeqKeep(i, s) \/ SeqAdd(i, s) PROVE Inv'
    BY <1>2, SeqRmStep, SeqKeepStep, SeqAddStep
<1>3. ASSUME NEW i \in Cell, NEW p \in Positions, PosSet(i, p) PROVE Inv'
    BY <1>3, PosSetStep
<1>4. ASSUME NEW i \in Cell, NEW d \in Deltas, PosAdd(i, d) PROVE Inv'
    BY <1>4, PosAddStep
<1>5. ASSUME NEW i \in Cell, NEW d \in Divisors, PosDiv(i, d) PROVE Inv'
    BY <1>5, PosDivStep
<1>6. ASSUME NEW I \in SUBSET Cell, Cp(I) PROVE Inv'
    BY <1>6, CpStep
<1>7. CASE ResetShift \/ Reset \/ Set
    BY <1>7, ResetShiftStep, ResetStep, SetStep
<1>8. CASE UNCHANGED vars
    BY <1>8, StutterStep
<1> QED BY <1>1, <1>2, <1>3, <1>4, <1>5, <1>6, <1>7, <1>8 DEF Next

(***************************************************************************)
(* The theorems.                                                           *)
(***************************************************************************)
LEMMA InvAlways == Spec => []Inv
BY InitStep, InvStep, PTL DEF Spec

\* For any number of cells and sequences: no count is ever negative, no set of
\* sequences holds a stranger, whatever methods are called in which order.
THEOREM TypeCorrect == Spec => []TypeOK
<1>1. Inv => TypeOK
    BY DEF Inv
<1> QED BY <1>1, InvAlways, PTL

\* The two indexes, used and seq_pos, always say what the arrays say: what
\* find_slot(), seq_pos_min() and seq_pos_max() read is never stale.
THEOREM IndexesAgree == Spec => []CountsAgree
<1>1. Inv => CountsAgree
    BY DEF Inv, CountsAgree
<1> QED BY <1>1, InvAlways, PTL

\* A free cell has nothing left of what it held, and no shift is pending that
\* is not announced: pos_set() and set() get the cells they assert.
THEOREM CellsClean == Spec => []NothingLeftBehind
<1>1. Inv => NothingLeftBehind
    BY DEF Inv, NothingLeftBehind
<1> QED BY <1>1, InvAlways, PTL

\* Without pos_div() the pending shift of a cell is always what separates its
\* position from the one its key is rotated for: pos_div() alone breaks this.
THEOREM ShiftsPending == ASSUME Divisors = {} PROVE Spec => []ShiftIsPending
<1>1. Init => ShiftIsPending
    BY DEF Init, ShiftIsPending
<1>2. Inv /\ ShiftIsPending /\ [Next]_vars => ShiftIsPending'
  <2> SUFFICES ASSUME Inv, ShiftIsPending, [Next]_vars, NEW j \in Cell, pos'[j] # Free
               PROVE  base'[j] + shift'[j] = pos'[j]
    BY DEF ShiftIsPending
  <2>1. /\ pos \in [Cell -> Positions \cup {Free}] /\ base \in [Cell -> Positions \cup {Free}]
        /\ shift \in [Cell -> Int] /\ seq \in [Cell -> SUBSET SeqId]
        /\ pos[j] \in Int /\ base[j] \in Int /\ shift[j] \in Int
        /\ pos[j] # Free => base[j] + shift[j] = pos[j]
        /\ pos[j] = Free => shift[j] = 0
    BY BoundAssumption DEF Inv, TypeOK, ShiftIsPending, FreeCellsClean, Positions, Free
  <2>2. ASSUME NEW i \in Cell, Empty(i) PROVE base'[j] + shift'[j] = pos'[j]
    BY <2>1, <2>2 DEF Empty
  <2>3. ASSUME NEW i \in Cell, NEW s \in SeqId, SeqRm(i, s) \/ SeqKeep(i, s) \/ SeqAdd(i, s)
        PROVE  base'[j] + shift'[j] = pos'[j]
    BY <2>1, <2>2, <2>3 DEF SeqRm, SeqKeep, SeqAdd
  <2>4. ASSUME NEW i \in Cell, NEW p \in Positions, PosSet(i, p) PROVE base'[j] + shift'[j] = pos'[j]
    BY <2>1, <2>4 DEF PosSet, Positions
  <2>5. ASSUME NEW i \in Cell, NEW d \in Deltas, PosAdd(i, d) PROVE base'[j] + shift'[j] = pos'[j]
    <3>1. d \in Int
      BY BoundAssumption
    <3>2. CASE pos[i] + d < 0
      BY <2>2, <2>5, <3>2 DEF PosAdd
    <3>3. CASE ~(pos[i] + d < 0)
      BY <2>1, <2>5, <3>1, <3>3 DEF PosAdd
    <3> QED BY <3>2, <3>3
  <2>6. CASE ResetShift \/ Reset
    BY <2>1, <2>6 DEF ResetShift, Reset
  <2>7. CASE Set
    <3>1. CASE j \in DOMAIN saved
      <4>1. saved[j].pos \in Int
        BY <3>1, BoundAssumption DEF Inv, TypeOK, Saved, Positions, Free
      <4>2. shift'[j] = 0 /\ base'[j] = saved[j].pos /\ pos'[j] = saved[j].pos
        BY <2>7, <3>1 DEF Set
      <4> QED BY <4>1, <4>2
    <3>2. CASE j \notin DOMAIN saved
      BY <2>1, <2>7, <3>2 DEF Set
    <3> QED BY <3>1, <3>2
  <2>8. ASSUME NEW I \in SUBSET Cell, Cp(I) PROVE base'[j] + shift'[j] = pos'[j]
    BY <2>1, <2>8 DEF Cp
  <2>9. CASE UNCHANGED vars
    BY <2>1, <2>9 DEF vars
  <2>10. ASSUME NEW i \in Cell, Rm(i) PROVE base'[j] + shift'[j] = pos'[j]
    BY <2>2, <2>10 DEF Rm
  <2> QED BY <2>3, <2>4, <2>5, <2>6, <2>7, <2>8, <2>9, <2>10 DEF Next
<1> QED BY <1>1, <1>2, InvAlways, PTL DEF Spec

=============================================================================
