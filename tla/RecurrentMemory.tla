--------------------------- MODULE RecurrentMemory ---------------------------
(***************************************************************************)
(* The memory of a recurrent model, lhm_memory_recurrent, and what the     *)
(* graph of a ubatch does with its rows (build_rs, the delta net).         *)
(*                                                                         *)
(* A sequence has one cell, its tail, and the row of that cell holds the   *)
(* state after all its tokens.  Sequences share a cell after a copy, until *)
(* one of them decodes.  find_slot() moves cells so that those of a ubatch *)
(* lie side by side: the cells move at once, the rows when the graph runs. *)
(* With n_rs_seq > 0 a row has snapshots from some tokens ago, in planes,  *)
(* and taking back the last tokens selects one of them.                    *)
(*                                                                         *)
(* A state is modelled by the tokens it was computed from; "hist" is what  *)
(* these ought to be.  prepare() tries the ubatches of a batch and brings  *)
(* the cells back, so a batch is its ubatches, one after the other.        *)
(***************************************************************************)
EXTENDS Integers, FiniteSets, FiniteSetsExt, SequencesExt

CONSTANTS
  NSeq,     \* n_seq_max, and the number of cells
  NRs,      \* the values of n_rs_seq to check
  Users,    \* bound: Users[n]: the sequences that are used when n_rs_seq = n,
  Savers,   \* bound: Savers[n]: those whose state is saved and restored,
  MaxLen,   \* bound: MaxLen[n]: the tokens that they have,
  MaxNew,   \* bound: MaxNew[n]: the tokens that a ubatch has of each of them
  Duties    \* what callers heed, some of {"rollback", "copy", "keep", "failure"}

ASSUME SizeAssumption  == NSeq \in Nat \ {0} /\ NRs \subseteq Nat /\ NRs # {}
ASSUME BoundAssumption == /\ Users \in [NRs -> SUBSET (0 .. NSeq - 1)]
                          /\ Savers \in [NRs -> SUBSET (0 .. NSeq - 1)]
                          /\ MaxLen \in [NRs -> Nat] /\ MaxNew \in [NRs -> Nat]
ASSUME DutyAssumption  == Duties \subseteq {"rollback", "copy", "keep", "failure"}

VARIABLES
  nrs,      \* n_rs_seq (never changes)
  mem,      \* the cells, the tail of each sequence, head, used, and rs_idx
  rows,     \* rows[p][i]: row i of plane p
  saved,    \* the state of a sequence that a caller saved
  hist,     \* hist[s]: the tokens of s
  fresh,    \* fresh[s]: the tokens that the caller of s may take back
  intact    \* no computation has failed since the last clear()

vars == <<nrs, mem, rows, saved, hist, fresh, intact>>

SeqId == 0 .. NSeq - 1
Idx   == 0 .. NSeq - 1

Empty  == [pos |-> -1, src |-> -1, seq |-> {}]
Zero   == <<>>                      \* the state before the first token
Junk   == <<-1>>                    \* a row that was written in part
NoSnap == [pos |-> -1, row |-> Zero, hist |-> <<>>]

NewMemory == [cells |-> [i \in Idx |-> Empty], tail |-> [s \in SeqId |-> -1],
              head |-> 0, used |-> 0, rs |-> [s \in SeqId |-> 0]]
Cleared(n) == [p \in 0 .. n |-> [i \in Idx |-> Zero]]

Used(cells) == {i \in Idx : cells[i].seq # {}}

Init ==
  /\ nrs \in NRs
  /\ mem = NewMemory
  /\ rows = Cleared(nrs)
  /\ saved = NoSnap
  /\ hist = [s \in SeqId |-> <<>>]
  /\ fresh = [s \in SeqId |-> 0]
  /\ intact = TRUE

Ready == "failure" \in Duties => intact

(***************************************************************************)
(* Operations on sequences.                                                *)
(***************************************************************************)
Clear(data) ==
  /\ mem' = NewMemory
  /\ rows' = IF data THEN Cleared(nrs) ELSE rows
  /\ hist' = [s \in SeqId |-> <<>>]
  /\ fresh' = [s \in SeqId |-> 0]
  /\ intact' = TRUE
  /\ UNCHANGED <<nrs, saved>>

(* The first cell that was freed becomes the head when it is below. *)
Lower(h, old, new) ==
  LET freed == Used(old) \ Used(new) IN IF freed # {} /\ Min(freed) < h THEN Min(freed) ELSE h

(* the cell is counted as free although others share it *)
LeaveUncounted(m, s) ==
  LET t == m.tail[s]
      alone == m.cells[t].seq = {s}
  IN  IF t < 0 THEN m
      ELSE [m EXCEPT !.cells[t] = IF alone THEN Empty ELSE [m.cells[t] EXCEPT !.seq = @ \ {s}],
                     !.tail[s] = -1,
                     !.used = @ - 1]

(* a sequence leaves its cell, which is empty when it was alone in it *)
Leave(m, s) ==
  LET t == m.tail[s]
      alone == m.cells[t].seq = {s}
  IN  IF t < 0 THEN m
      ELSE [m EXCEPT !.cells[t] = IF alone THEN Empty ELSE [m.cells[t] EXCEPT !.seq = @ \ {s}],
                     !.tail[s] = -1,
                     !.used = IF alone THEN @ - 1 ELSE @]

(* seq_rm(s, -1, -1) *)
RemoveAll(m, s) ==
  LET left == Leave(m, s)
  IN  [left EXCEPT !.rs[s] = 0, !.head = Lower(@, m.cells, left.cells)]

(* seq_rm(s, p0, -1), where a cell holds p0: a plane is selected, or it is refused *)
Taken(m, s, p0) ==
  LET n == m.cells[m.tail[s]].pos - (p0 - 1)
  IN  IF n <= nrs THEN [m EXCEPT !.rs[s] = n, !.cells[m.tail[s]].pos = p0 - 1] ELSE m

Upto(h, p0) == IF p0 < Len(h) THEN SubSeq(h, 1, p0) ELSE h

Holds(m, s, p0) == m.tail[s] >= 0 /\ 0 < p0 /\ p0 <= m.cells[m.tail[s]].pos

SeqRmAll(s) ==
  /\ Ready
  /\ mem' = RemoveAll(mem, s)
  /\ hist' = [hist EXCEPT ![s] = <<>>]
  /\ fresh' = [fresh EXCEPT ![s] = 0]
  /\ UNCHANGED <<nrs, rows, saved, intact>>

(* The last tokens of s.  A caller asks once, and for tokens of the last ubatch. *)
SeqRmLast(s, p0) ==
  /\ Ready
  /\ Holds(mem, s, p0)
  /\ LET n == Len(hist[s]) - p0
     IN  /\ "rollback" \in Duties => n <= fresh[s] \/ n > nrs
         /\ hist' = IF n <= nrs THEN [hist EXCEPT ![s] = Upto(@, p0)] ELSE hist
         /\ fresh' = IF n <= nrs THEN [fresh EXCEPT ![s] = 0] ELSE fresh
  /\ mem' = Taken(mem, s, p0)
  /\ UNCHANGED <<nrs, rows, saved, intact>>

(* t takes the place of s, whatever it had; the plane of s is not taken over *)
SeqCp(s, t) ==
  /\ Ready
  /\ s # t
  /\ "copy" \in Duties => mem.tail[t] < 0 /\ mem.rs[s] = 0
  /\ LET m  == Leave(mem, t)
         at == m.tail[s]
     IN  mem' = IF at < 0 THEN m ELSE [m EXCEPT !.cells[at].seq = @ \cup {t}, !.tail[t] = at]
  /\ hist' = [hist EXCEPT ![t] = hist[s]]
  /\ fresh' = [fresh EXCEPT ![s] = 0, ![t] = 0]
  /\ UNCHANGED <<nrs, rows, saved, intact>>

(* the planes of the others stay selected *)
SeqKeep(s) ==
  /\ Ready
  /\ "keep" \in Duties => \A t \in SeqId \ {s} : mem.rs[t] = 0
  /\ LET c == [i \in Idx |-> IF s \in mem.cells[i].seq THEN [mem.cells[i] EXCEPT !.seq = {s}]
                                                       ELSE Empty]
     IN  mem' = [mem EXCEPT !.cells = c,
                            !.tail = [t \in SeqId |-> IF t = s THEN @[t] ELSE -1],
                            !.used = @ - Cardinality(Used(mem.cells) \ Used(c)),
                            !.head = LET free == Idx \ Used(c)
                                     IN  IF free # {} /\ Min(free) < @ THEN Min(free) ELSE @]
  /\ hist' = [t \in SeqId |-> IF t = s THEN hist[t] ELSE <<>>]
  /\ fresh' = [t \in SeqId |-> IF t = s THEN fresh[t] ELSE 0]
  /\ UNCHANGED <<nrs, rows, saved, intact>>

(***************************************************************************)
(* find_slot(): cells for a ubatch with tokens of the sequences of S, in   *)
(* that order.                                                             *)
(***************************************************************************)
(* the first empty cell from i on, around the end *)
NextEmpty(cells, i) ==
  LET empty == Idx \ Used(cells)
      ahead == {j \in empty : j >= i}
  IN  IF empty = {} THEN -1 ELSE IF ahead # {} THEN Min(ahead) ELSE Min(empty)

(* s gets a cell of its own: one that it shares is left to the others.  The   *)
(* source of its state goes with it.                                          *)
Claim(f, s) ==
  LET t == f.m.tail[s]
      e == NextEmpty(f.m.cells, f.next)
  IN  IF t >= 0 /\ f.m.cells[t].seq = {s} THEN f
      ELSE [next |-> IF e + 1 < NSeq THEN e + 1 ELSE 0,
            ok   |-> f.ok /\ e >= 0 /\ \A u \in SeqId : f.m.tail[u] # e,
            m    |-> IF t < 0 THEN [f.m EXCEPT !.tail[s] = e]
                     ELSE [f.m EXCEPT !.tail[s] = e, !.cells[t].seq = @ \ {s},
                                      !.cells[e] = [f.m.cells[t] EXCEPT !.seq = {s}]]]

Claims(m, S, from) ==
  LET f[k \in 0 .. Len(S)] == IF k = 0 THEN [next |-> from, ok |-> TRUE, m |-> m]
                              ELSE Claim(f[k - 1], S[k])
  IN  f[Len(S)]

(* only one of the tails follows *)
SwapOneTail(m, a, b) ==
  [m EXCEPT !.cells[a] = m.cells[b], !.cells[b] = m.cells[a],
            !.tail = [s \in SeqId |-> IF @[s] = b THEN a ELSE @[s]]]

(* cells a and b change places, with their sources, their sequences and the tails *)
Swap(m, a, b) ==
  [m EXCEPT !.cells[a] = m.cells[b], !.cells[b] = m.cells[a],
            !.tail = [s \in SeqId |-> IF @[s] = a THEN b ELSE IF @[s] = b THEN a ELSE @[s]]]

(* the cells of S follow each other from lo on *)
Gather(m, S, lo) ==
  LET g[k \in 0 .. Len(S)] == IF k = 0 THEN m
                              ELSE Swap(g[k - 1], lo + k - 1, g[k - 1].tail[S[k]])
  IN  g[Len(S)]

(* the cells of the ubatch have the last position of their sequence *)
Placed(m, S, last, lo) ==
  [i \in Idx |-> IF i \in lo .. lo + Len(S) - 1
                 THEN [m.cells[i] EXCEPT !.pos = last[S[i - lo + 1]], !.seq = {S[i - lo + 1]}]
                 ELSE m.cells[i]]

(* The cells lo .. hi of c take part.  One without a source is cleared: src0   *)
(* is then a row z that no cell needs.                                         *)
Staged(m, c, lo, hi, ok) ==
  LET spare == {i \in lo .. hi : \A j \in Idx : c[j].src # i}
      z  == IF spare = {} THEN -1 ELSE Min(spare)
      c2 == [i \in Idx |-> IF i \in lo .. hi THEN [c[i] EXCEPT !.src = i] ELSE c[i]]
  IN  [lo |-> lo, hi |-> hi, z |-> z, ok |-> ok,
       src0 |-> [i \in lo .. hi |-> IF c[i].src < 0 THEN z ELSE c[i].src],
       m |-> [m EXCEPT !.cells = c2, !.head = lo, !.used = Cardinality(Used(c2))]]

(* last[s] is the position of the last token of s *)
FindSlot(m, S, last) ==
  LET from  == IF m.head > m.used + 2 * Len(S) THEN 0 ELSE m.head
      f     == Claims(m, S, from)
      tails == {f.m.tail[s] : s \in Range(S)}
      g     == Gather(f.m, S, Min(tails))
  IN  Staged(g, Placed(g, S, last, Min(tails)), Min(tails), Max(tails), f.ok)

(***************************************************************************)
(* The graph of the ubatch.                                                *)
(***************************************************************************)
(* s_copy(): the row that cell i takes its state from, in the plane of the    *)
(* first sequence of the cell, whose choice is used up                        *)
Plane(m, i)  == IF m.cells[i].seq = {} THEN 0 ELSE m.rs[Min(m.cells[i].seq)]
NotUsedUp(m, R) == m.rs
UsedUp(m, R) == [s \in SeqId |-> IF \E i \in R : m.cells[i].seq # {} /\ Min(m.cells[i].seq) = s
                                 THEN 0 ELSE m.rs[s]]

(* the sources of the cells as they are after find_slot(), not those it staged *)
FromCell(f, i) == rows[Plane(f.m, i)][f.m.cells[i].src]

(* build_rs(): row z is cleared, the cells of S give the states that the model *)
(* goes on from, and the other cells of the range get their states copied.     *)
From(f, i) == IF Plane(f.m, i) = 0 /\ f.src0[i] = f.z THEN Zero
              ELSE rows[Plane(f.m, i)][f.src0[i]]

(* After k tokens, plane p has the state from p tokens before the last.  With  *)
(* fewer tokens than planes, the rest is written for one part of the state.    *)
Computed(f, S, k) ==
  [p \in 0 .. nrs |-> [i \in Idx |->
     IF i \in f.lo .. f.lo + Len(S) - 1
     THEN IF p >= k THEN Junk
          ELSE From(f, i) \o [j \in 1 .. k - p |-> S[i - f.lo + 1]]
     ELSE IF p = 0 /\ i \in f.lo .. f.hi THEN From(f, i)
     ELSE IF p = 0 /\ i = f.z THEN Zero ELSE rows[p][i]]]

Positions(S, k) == [s \in Range(S) |-> Len(hist[s]) + k - 1]

(* The sequences of a ubatch: any, in order; one at a time with snapshots. *)
Ubatches == [n \in NRs |->
  {S \in UNION {[1 .. k -> Users[n]] : k \in 1 .. NSeq} :
     (\A i, j \in 1 .. Len(S) : i < j => S[i] < S[j]) /\ (n > 0 => Len(S) = 1)}]

Fits(S, k) == \A s \in Range(S) : Len(hist[s]) + k <= MaxLen[nrs] \* bound

(* One ubatch of a batch with k tokens of each sequence of S.  The tokens of a *)
(* sequence are modelled by its number.                                        *)
Decode(S, k) ==
  /\ Ready
  /\ Fits(S, k)
  /\ LET f == FindSlot(mem, S, Positions(S, k))
     IN  /\ mem' = [f.m EXCEPT !.rs = UsedUp(f.m, f.lo .. f.hi)]
         /\ rows' = Computed(f, S, k)
  /\ hist' = [s \in SeqId |-> IF s \in Range(S) THEN hist[s] \o [j \in 1 .. k |-> s] ELSE hist[s]]
  /\ fresh' = [s \in SeqId |-> IF s \in Range(S) THEN Min({k - 1, nrs}) ELSE fresh[s]]
  /\ UNCHANGED <<nrs, saved, intact>>

(* The positions of the failed ubatch are taken back; decode() does not look  *)
(* at whether that was done.                                                  *)
TakenBack(m, S) ==
  LET b[k \in 0 .. Len(S)] == IF k = 0 THEN m
                              ELSE IF hist[S[k]] = <<>> THEN RemoveAll(b[k - 1], S[k])
                              ELSE Taken(b[k - 1], S[k], Len(hist[S[k]]))
  IN  b[Len(S)]

(* The ubatch has its cells, and there is no memory for its graph, or the     *)
(* graph stops on the way.                                                    *)
DecodeFails(S, k, begun) ==
  /\ Ready
  /\ Fits(S, k)
  /\ LET f == FindSlot(mem, S, Positions(S, k))
         m == IF begun THEN [f.m EXCEPT !.rs = UsedUp(f.m, f.lo .. f.hi)] ELSE f.m
     IN  /\ mem' = TakenBack(m, S)
         /\ rows' = IF ~begun THEN rows
                    ELSE [p \in 0 .. nrs |-> [i \in Idx |->
                            IF i \in f.lo .. f.hi THEN Junk ELSE rows[p][i]]]
  /\ fresh' = [s \in SeqId |-> IF s \in Range(S) THEN 0 ELSE fresh[s]]
  /\ intact' = FALSE
  /\ UNCHANGED <<nrs, saved, hist>>

(***************************************************************************)
(* Saving and restoring a sequence.                                        *)
(***************************************************************************)
(* the row that state_write() writes *)
Row(s) == LET t == mem.tail[s]
              c == mem.cells[t]
          IN  rows[mem.rs[s]][IF c.src >= 0 THEN c.src ELSE t]

StateWrite(s) ==
  /\ Ready
  /\ saved' = IF mem.tail[s] < 0 THEN NoSnap
              ELSE [pos |-> mem.cells[mem.tail[s]].pos, row |-> Row(s), hist |-> hist[s]]
  /\ UNCHANGED <<nrs, mem, rows, hist, fresh, intact>>

(* The sequence is removed and gets a cell like a ubatch does. *)
StateRead(s) ==
  LET m == RemoveAll(mem, s)
      f == FindSlot(m, <<s>>, [u \in {s} |-> saved.pos])
  IN  /\ Ready
      /\ mem' = IF saved.pos < 0 THEN m ELSE f.m
      /\ rows' = IF saved.pos < 0 THEN rows ELSE [rows EXCEPT ![0][f.lo] = saved.row]
      /\ hist' = [hist EXCEPT ![s] = saved.hist]
      /\ fresh' = [fresh EXCEPT ![s] = 0]
      /\ UNCHANGED <<nrs, saved, intact>>

Next ==
  \/ \E data \in BOOLEAN : Clear(data)
  \/ \E s \in Users[nrs] : \/ SeqRmAll(s)
                           \/ SeqKeep(s)
                           \/ \E p0 \in 1 .. MaxLen[nrs] : SeqRmLast(s, p0)
                           \/ \E t \in Users[nrs] : SeqCp(s, t)
  \/ \E s \in Savers[nrs] : StateWrite(s) \/ StateRead(s)
  \/ \E S \in Ubatches[nrs], k \in 1 .. MaxNew[nrs] :
       \/ Decode(S, k)
       \/ \E begun \in BOOLEAN : DecodeFails(S, k, begun)

Spec == Init /\ [][Next]_vars

(***************************************************************************)
(* Properties.                                                             *)
(***************************************************************************)
(* Cells, tails, rows and the planes that are selected stay within what the   *)
(* memory has; the count of cells in use does not fall below zero.            *)
TypeOK ==
  /\ nrs \in NRs
  /\ mem.cells \in [Idx -> [pos : -1 .. MaxLen[nrs] - 1, src : -1 .. NSeq - 1, seq : SUBSET SeqId]]
  /\ mem.tail \in [SeqId -> -1 .. NSeq - 1]
  /\ mem.head \in Idx /\ mem.used \in 0 .. NSeq /\ mem.rs \in [SeqId -> 0 .. nrs]
  /\ \A p \in 0 .. nrs, i \in Idx : rows[p][i] \in Seq(SeqId \cup {-1})
  /\ fresh \in [SeqId -> 0 .. nrs] /\ intact \in BOOLEAN

(* What the check of the debug build in find_slot() and its assertions ask    *)
(* for: the tails say where the sequences are, the count of cells in use is   *)
(* right, and every ubatch finds as many empty cells as it needs and, for a   *)
(* sequence that begins, a row to clear that no state is taken from.          *)
CellsAgree ==
  /\ \A s \in SeqId, i \in Idx : s \in mem.cells[i].seq <=> mem.tail[s] = i
  /\ mem.used = Cardinality(Used(mem.cells))
  /\ \A S \in Ubatches[nrs] :
       LET f == FindSlot(mem, S, [s \in Range(S) |-> 0])
       IN  f.ok /\ \A i \in f.lo .. f.hi : f.src0[i] >= 0

(* The state of each sequence is that of its own tokens, whatever ubatches,   *)
(* copies, removals and restores of others moved its cell or used its row.    *)
RightStates ==
  \A s \in SeqId : IF mem.tail[s] < 0 THEN hist[s] = <<>>
                   ELSE /\ mem.cells[mem.tail[s]].pos = Len(hist[s]) - 1
                        /\ Row(s) = hist[s]

StateIsHistory == intact => RightStates

(* A failed decode leaves every sequence what earlier ubatches gave it, as    *)
(* lhm.h says of lhm_decode().                                                *)
ProcessedRemain == RightStates

=============================================================================
