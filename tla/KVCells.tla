------------------------------ MODULE KVCells ------------------------------
(***************************************************************************)
(* The cells of one stream of the KV cache: lhm_kv_cells.                  *)
(*                                                                         *)
(* A cell holds a position and the sequences that share it.  Beside the    *)
(* arrays the class keeps three indexes, each updated by every method on   *)
(* its own: the set of used cells, how often a position occurs in a        *)
(* sequence (its first and last key answer seq_pos_min and seq_pos_max),   *)
(* and whether a shift is pending.  One action is one method; its guard is *)
(* what the method asserts, which its callers have to see to.              *)
(***************************************************************************)
EXTENDS Integers, FiniteSets, FiniteSetsExt

CONSTANTS
  Cell,      \* the indexes of the cells
  SeqId,     \* 0 .. LHM_MAX_SEQ-1
  MaxPos,    \* bound: positions are 0 .. MaxPos
  MaxShift,  \* bound: pending shifts are -MaxShift .. MaxShift
  Deltas,    \* bound: what pos_add() is called with
  Divisors   \* bound: what pos_div() is called with

ASSUME CellAssumption  == IsFiniteSet(Cell)
ASSUME BoundAssumption == /\ MaxPos \in Nat
                          /\ MaxShift \in Nat
                          /\ Deltas \subseteq Int
                          /\ Divisors \subseteq Nat \ {0}

VARIABLES
  pos,       \* pos[i]: the position in cell i, or -1
  shift,     \* shift[i]: the shifts of pos[i] not yet applied to the K data
  seq,       \* seq[i]: the sequences that occupy cell i
  used,      \* the indexes of the cells with a position
  seqPos,    \* seqPos[s][p]: how many cells hold position p of sequence s
  hasShift,  \* a shift may be pending
  saved,     \* the copy of some cells that a caller of cp() holds
  base       \* base[i]: the position for which the K data of cell i is rotated

vars == <<pos, shift, seq, used, seqPos, hasShift, saved, base>>

Positions == 0 .. MaxPos
Free      == -1
Saved     == [pos : Positions \cup {Free}, seq : SUBSET SeqId]

(***************************************************************************)
(* The index seq_pos.                                                      *)
(***************************************************************************)
(* ss lose one occurrence of position p each *)
Dec(sp, ss, p) == [s \in SeqId |-> IF s \in ss THEN [sp[s] EXCEPT ![p] = @ - 1] ELSE sp[s]]
(* ss gain one *)
Inc(sp, ss, p) == [s \in SeqId |-> IF s \in ss THEN [sp[s] EXCEPT ![p] = @ + 1] ELSE sp[s]]

(* the cells of I that hold position p of sequence s, by the arrays ps and sq *)
Holding(I, ps, sq, s, p) == {i \in I : s \in sq[i] /\ ps[i] = p}

SeqPosMin(s) == LET P == {p \in Positions : seqPos[s][p] # 0}
                IN  IF P = {} THEN -1 ELSE Min(P)
SeqPosMax(s) == LET P == {p \in Positions : seqPos[s][p] # 0}
                IN  IF P = {} THEN -1 ELSE Max(P)

(***************************************************************************)
(* The methods.                                                            *)
(***************************************************************************)
Init ==
  /\ pos      = [i \in Cell |-> Free]
  /\ shift    = [i \in Cell |-> 0]
  /\ seq      = [i \in Cell |-> {}]
  /\ used     = {}
  /\ seqPos   = [s \in SeqId |-> [p \in Positions |-> 0]]
  /\ hasShift = FALSE
  /\ saved    = [i \in {} |-> [pos |-> Free, seq |-> {}]]
  /\ base     = [i \in Cell |-> Free]

(* cell i holds nothing any more *)
Empty(i) ==
  /\ pos'   = [pos EXCEPT ![i] = Free]
  /\ shift' = [shift EXCEPT ![i] = 0]
  /\ seq'   = [seq EXCEPT ![i] = {}]
  /\ used'  = used \ {i}
  /\ base'  = [base EXCEPT ![i] = Free]

Rm(i) ==
  /\ pos[i] # Free
  /\ seqPos' = Dec(seqPos, seq[i], pos[i])
  /\ Empty(i)
  /\ UNCHANGED <<hasShift, saved>>

(* the position is taken from every sequence of the index *)
SeqRmCountsAll(i, s) ==
  /\ pos[i] # Free
  /\ s \in seq[i]
  /\ seqPos' = Dec(seqPos, SeqId, pos[i])
  /\ IF seq[i] = {s}
     THEN Empty(i)
     ELSE /\ seq' = [seq EXCEPT ![i] = @ \ {s}]
          /\ UNCHANGED <<pos, shift, used, base>>
  /\ UNCHANGED <<hasShift, saved>>

SeqRm(i, s) ==
  /\ pos[i] # Free
  /\ s \in seq[i]
  /\ seqPos' = Dec(seqPos, {s}, pos[i])
  /\ IF seq[i] = {s}
     THEN Empty(i)
     ELSE /\ seq' = [seq EXCEPT ![i] = @ \ {s}]
          /\ UNCHANGED <<pos, shift, used, base>>
  /\ UNCHANGED <<hasShift, saved>>

(* only the position of s is taken out of the index, not those of the others *)
SeqKeepForgetsOthers(i, s) ==
  /\ seq[i] # {}
  /\ IF s \in seq[i]
     THEN /\ seq' = [seq EXCEPT ![i] = {s}]
          /\ UNCHANGED <<pos, shift, used, base, seqPos>>
     ELSE /\ seqPos' = Dec(seqPos, seq[i], pos[i])
          /\ Empty(i)
  /\ UNCHANGED <<hasShift, saved>>

SeqKeep(i, s) ==
  /\ seq[i] # {}
  /\ IF s \in seq[i]
     THEN /\ seqPos' = Inc(Dec(seqPos, seq[i], pos[i]), {s}, pos[i])
          /\ seq'    = [seq EXCEPT ![i] = {s}]
          /\ UNCHANGED <<pos, shift, used, base>>
     ELSE /\ seqPos' = Dec(seqPos, seq[i], pos[i])
          /\ Empty(i)
  /\ UNCHANGED <<hasShift, saved>>

SeqAdd(i, s) ==
  /\ pos[i] # Free
  /\ s \notin seq[i]
  /\ seqPos' = Inc(seqPos, {s}, pos[i])
  /\ seq'    = [seq EXCEPT ![i] = @ \cup {s}]
  /\ UNCHANGED <<pos, shift, used, hasShift, saved, base>>

PosSet(i, p) ==
  /\ pos[i] = Free
  /\ seq[i] = {}
  /\ pos'  = [pos EXCEPT ![i] = p]
  /\ used' = used \cup {i}
  /\ base' = [base EXCEPT ![i] = p]
  /\ UNCHANGED <<shift, seq, seqPos, hasShift, saved>>

(* a cell shifted below 0 is given up, but its shift is still pending *)
PosAddKeepsShift(i, d) ==
  /\ pos[i] # Free
  /\ pos[i] + d <= MaxPos
  /\ shift[i] + d \in -MaxShift .. MaxShift
  /\ hasShift' = TRUE
  /\ shift' = [shift EXCEPT ![i] = @ + d]
  /\ IF pos[i] + d < 0
     THEN /\ seqPos' = Dec(seqPos, seq[i], pos[i])
          /\ seq'    = [seq EXCEPT ![i] = {}]
          /\ pos'    = [pos EXCEPT ![i] = Free]
          /\ used'   = used \ {i}
          /\ base'   = [base EXCEPT ![i] = Free]
     ELSE /\ seqPos' = Inc(Dec(seqPos, seq[i], pos[i]), seq[i], pos[i] + d)
          /\ pos'    = [pos EXCEPT ![i] = @ + d]
          /\ UNCHANGED <<seq, used, base>>
  /\ UNCHANGED saved

PosAdd(i, d) ==
  /\ pos[i] # Free
  /\ pos[i] + d <= MaxPos                                    \* bound
  /\ shift[i] + d \in -MaxShift .. MaxShift                   \* bound
  /\ hasShift' = TRUE
  /\ IF pos[i] + d < 0
     THEN /\ seqPos' = Dec(seqPos, seq[i], pos[i])
          /\ Empty(i)
     ELSE /\ seqPos' = Inc(Dec(seqPos, seq[i], pos[i]), seq[i], pos[i] + d)
          /\ pos'    = [pos EXCEPT ![i] = @ + d]
          /\ shift'  = [shift EXCEPT ![i] = @ + d]
          /\ UNCHANGED <<seq, used, base>>
  /\ UNCHANGED saved

(* Where pos_add() adds new - old to the pending shift, this adds old - new. *)
PosDiv(i, d) ==
  LET p == pos[i] \div d
  IN  /\ pos[i] # Free
      /\ shift[i] + (pos[i] - p) <= MaxShift                  \* bound
      /\ seqPos'   = Inc(Dec(seqPos, seq[i], pos[i]), seq[i], p)
      /\ pos'      = [pos EXCEPT ![i] = p]
      /\ shift'    = [shift EXCEPT ![i] = @ + (pos[i] - p)]
      /\ hasShift' = TRUE
      /\ UNCHANGED <<seq, used, saved, base>>

(* called when the K data has been rotated by the shifts *)
ResetShift ==
  /\ hasShift' = FALSE
  /\ shift' = [i \in Cell |-> 0]
  /\ base'  = [i \in Cell |-> pos[i]]
  /\ UNCHANGED <<pos, seq, used, seqPos, saved>>

Reset ==
  /\ pos'      = [i \in Cell |-> Free]
  /\ shift'    = [i \in Cell |-> 0]
  /\ seq'      = [i \in Cell |-> {}]
  /\ used'     = {}
  /\ seqPos'   = [s \in SeqId |-> [p \in Positions |-> 0]]
  /\ hasShift' = FALSE
  /\ base'     = [i \in Cell |-> Free]
  /\ UNCHANGED saved

Cp(I) ==
  /\ \A i \in I : shift[i] = 0
  /\ saved' = [i \in I |-> [pos |-> pos[i], seq |-> seq[i]]]
  /\ UNCHANGED <<pos, shift, seq, used, seqPos, hasShift, base>>

(* Brings the copied cells back.  The loop leaves for each position of each *)
(* sequence what the other cells hold of it and what the copy holds of it.  *)
Set ==
  LET I == DOMAIN saved
  IN  /\ \A i \in I : shift[i] = 0
      /\ pos'  = [i \in Cell |-> IF i \in I THEN saved[i].pos ELSE pos[i]]
      /\ seq'  = [i \in Cell |-> IF i \in I THEN saved[i].seq ELSE seq[i]]
      /\ used' = (used \ {i \in I : pos[i] # Free /\ saved[i].pos = Free})
                   \cup {i \in I : pos[i] = Free /\ saved[i].pos # Free}
      /\ seqPos' = [s \in SeqId |-> [p \in Positions |->
                     seqPos[s][p] - Cardinality(Holding(I, pos, seq, s, p))
                                  + Cardinality(Holding(I, pos', seq', s, p))]]
      /\ base' = [i \in Cell |-> IF i \in I THEN saved[i].pos ELSE base[i]]
      /\ UNCHANGED <<shift, hasShift, saved>>

Next ==
  \/ \E i \in Cell :
       \/ Rm(i)
       \/ \E s \in SeqId : SeqRm(i, s) \/ SeqKeep(i, s) \/ SeqAdd(i, s)
       \/ \E p \in Positions : PosSet(i, p)
       \/ \E d \in Deltas : PosAdd(i, d)
       \/ \E d \in Divisors : PosDiv(i, d)
  \/ ResetShift
  \/ Reset
  \/ \E I \in SUBSET Cell : Cp(I)
  \/ Set

Spec == Init /\ [][Next]_vars

(***************************************************************************)
(* Properties.                                                             *)
(***************************************************************************)
(* The arrays and indexes have the shape the methods expect; no count is   *)
(* negative.                                                               *)
TypeOK ==
  /\ pos      \in [Cell -> Positions \cup {Free}]
  /\ shift    \in [Cell -> Int]
  /\ seq      \in [Cell -> SUBSET SeqId]
  /\ used     \in SUBSET Cell
  /\ seqPos   \in [SeqId -> [Positions -> Nat]]
  /\ hasShift \in BOOLEAN
  /\ DOMAIN saved \subseteq Cell
  /\ saved    \in [DOMAIN saved -> Saved]
  /\ base     \in [Cell -> Positions \cup {Free}]

(* The set of used cells is exactly the cells with a position: what        *)
(* find_slot() takes for the fill level, and the graph for the last cell   *)
(* to attend to, is so.                                                    *)
UsedAgrees == used = {i \in Cell : pos[i] # Free}

(* The counts agree with the arrays after any mixture of calls, cells      *)
(* shared by several sequences and positions that occur twice included:    *)
(* seq_pos_min() and seq_pos_max() never answer from a stale index.        *)
SeqPosAgrees ==
  \A s \in SeqId, p \in Positions :
    seqPos[s][p] = Cardinality(Holding(Cell, pos, seq, s, p))

(* A free cell belongs to no sequence and carries no shift: what pos_set() *)
(* and set() assert of the cell they are given.                            *)
FreeCellsClean == \A i \in Cell : pos[i] = Free => seq[i] = {} /\ shift[i] = 0

(* What used and seq_pos say is what the arrays say, whatever calls came    *)
(* in between.                                                             *)
CountsAgree == UsedAgrees /\ SeqPosAgrees

(* While no shift is announced none is pending, so an update that looks at *)
(* get_has_shift() only leaves no key rotated for an old position.         *)
ShiftsAnnounced == ~hasShift => \A i \in Cell : shift[i] = 0

(* Nothing of what a cell held before outlives it: neither a sequence nor  *)
(* a shift that the next update would not see.                             *)
NothingLeftBehind == FreeCellsClean /\ ShiftsAnnounced

(* "this array accumulates any applied shifts to the pos array since the   *)
(* last reset_shift() call": the K data of a cell, rotated by its shift,   *)
(* is right for the position the cell has.  pos_div() breaks it.           *)
ShiftIsPending == \A i \in Cell : pos[i] # Free => base[i] + shift[i] = pos[i]

=============================================================================
