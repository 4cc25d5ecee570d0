--------------------------- MODULE SequenceMemory ---------------------------
(***************************************************************************)
(* What the memory of a context promises its users (lhm.h, "Memory" and    *)
(* "State / sessions"): every sequence is a set of tokens at positions, an *)
(* operation on one sequence leaves the others alone, and a saved sequence *)
(* comes back as it was.  There are no cells, streams, heads or pending    *)
(* work here; KVCache is shown to implement this.                          *)
(* A range is [p0, p1); a negative end is open.                            *)
(***************************************************************************)
EXTENDS Integers, FiniteSetsExt

CONSTANTS
  SeqId,    \* the sequences
  MaxPos,   \* bound: positions are 0 .. MaxPos
  Tok,      \* what a position may hold
  Ranges,   \* bound: the <<p0, p1>> that callers use
  Deltas    \* bound: the shifts that callers use

VARIABLES
  mem,      \* mem[s]: the <<position, token>> pairs of sequence s
  snap,     \* the content of a sequence that a caller saved, or
  whole     \* the content of the whole memory that a caller saved

memVars == <<mem, snap, whole>>

Content == SUBSET ((0 .. MaxPos) \X Tok)
None    == [s \in SeqId |-> {}]

NextPos(c)          == IF c = {} THEN 0 ELSE Max({e[1] : e \in c}) + 1
Inside(c, lo, hi)   == {e \in c : (lo < 0 \/ lo <= e[1]) /\ (hi < 0 \/ e[1] < hi)}
Moved(c, lo, hi, d) == (c \ Inside(c, lo, hi))
                         \cup {e \in {<<x[1] + d, x[2]>> : x \in Inside(c, lo, hi)} : e[1] >= 0}

Init == mem = None /\ snap = {} /\ whole = None

Clear                 == mem' = None /\ UNCHANGED <<snap, whole>>
Remove(s, lo, hi)     == /\ mem' = [mem EXCEPT ![s] = @ \ Inside(@, lo, hi)]
                         /\ UNCHANGED <<snap, whole>>
RemoveAny(lo, hi)     == /\ mem' = [s \in SeqId |-> mem[s] \ Inside(mem[s], lo, hi)]
                         /\ UNCHANGED <<snap, whole>>
Copy(s, t, lo, hi)    == /\ mem' = [mem EXCEPT ![t] = @ \cup Inside(mem[s], lo, hi)]
                         /\ UNCHANGED <<snap, whole>>
Keep(s)               == /\ mem' = [t \in SeqId |-> IF t = s THEN mem[s] ELSE {}]
                         /\ UNCHANGED <<snap, whole>>
Shift(s, lo, hi, d)   == /\ mem' = [mem EXCEPT ![s] = Moved(@, lo, hi, d)]
                         /\ UNCHANGED <<snap, whole>>

(* one token for each sequence of S, at its next position *)
Append(S, tok) ==
  /\ mem' = [s \in SeqId |-> IF s \in S THEN mem[s] \cup {<<NextPos(mem[s]), tok[s]>>} ELSE mem[s]]
  /\ UNCHANGED <<snap, whole>>

Save(s)    == snap' = mem[s] /\ whole' = None /\ UNCHANGED mem
SaveAll    == whole' = mem /\ snap' = {} /\ UNCHANGED mem
RestoreAll == mem' = whole /\ UNCHANGED <<snap, whole>>

(* A sequence takes the saved content, or is empty when that does not fit. *)
Restore(s) ==
  /\ \/ mem' = [mem EXCEPT ![s] = snap]
     \/ mem' = [mem EXCEPT ![s] = {}]
  /\ UNCHANGED <<snap, whole>>

(* Work the users do not see: copies and shifts put off, trial placements. *)
Work == UNCHANGED memVars

Next ==
  \/ Work
  \/ \E S \in SUBSET SeqId : \E tok \in [S -> Tok] : Append(S, tok)
  \/ \E s \in SeqId : Keep(s) \/ Save(s) \/ Restore(s) \/ \E t \in SeqId : Copy(s, t, -1, -1)
  \/ Clear \/ SaveAll \/ RestoreAll
  \/ \E r \in Ranges :
       \/ RemoveAny(r[1], r[2])
       \/ \E s \in SeqId : \/ Remove(s, r[1], r[2])
                         \/ \E t \in SeqId : Copy(s, t, r[1], r[2])
                         \/ \E d \in Deltas : Shift(s, r[1], r[2], d)

Spec == Init /\ [][Next]_memVars

=============================================================================
