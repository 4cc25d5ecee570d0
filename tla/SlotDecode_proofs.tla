-------------------------- MODULE SlotDecode_proofs --------------------------
(***************************************************************************)
(* What a pass does to prompts, batch and cells, for any number of slots,  *)
(* any sizes and any prompts.                                              *)
(*                                                                         *)
(* The inductive invariant says of each slot where every position of its   *)
(* prompt is, in one cell or in one token of the batch still to be decoded *)
(* (ExactInv), and of each output that is still to be sampled from whose   *)
(* token gives it (DueInv, OutputInv, PendingInv).  A step of decode()     *)
(* moves tokens from the batch to the cells, where SameCells says what     *)
(* removing and sharing sequences leaves of the others.                    *)
(***************************************************************************)
EXTENDS SlotDecode, SequenceTheorems, FiniteSetTheorems, TLAPS

-----------------------------------------------------------------------------
(* The inductive invariant.                                                *)

\* The batch is empty between two passes, and sub-batches are cut off only when
\* it is complete.
SweepInv ==
    /\ IsFiniteSet(kv)
    /\ off <= Len(batch)
    /\ pc \in {"tasks", "prompt"} => off = 0
    /\ pc = "tasks" => batch = <<>>
    /\ pc = "prompt" => \A i \in DOMAIN batch :
           slot[batch[i].slot].state = "GENERATING" \/ batch[i].slot < cursor
    /\ pc \in {"tasks", "decode"} => cursor = 0

\* Idle slots have no parent and are none.  Children only wait, until they get the
\* state of a parent which is no child.
ParentsInv ==
    \A s \in Slots :
        /\ slot[s].state \in {"IDLE", "STARTED", "PROCESSING_PROMPT"} => slot[s].parent = NoParent
        /\ slot[s].parent \in Slots =>
               slot[slot[s].parent].parent = NoParent /\ ~Idle(slot[s].parent)

\* What a prompt still being processed holds is the beginning of its task.
PromptsInv ==
    \A s \in Slots : slot[s].state = "PROCESSING_PROMPT" =>
        slot[s].prompt = SubSeq(slot[s].task, 1, Len(slot[s].prompt))

Served(s) == slot[s].state \in {"DONE_PROMPT", "GENERATING"}

\* An output of the batch, at index i, that slot s has still to be sampled from.
Open(s, i) ==
    /\ i < Len(batch)
    /\ i >= IF pc = "post" /\ s < cursor THEN off + Len(SubBatch) ELSE off
    /\ pc # "tasks"

IsDue(s) == Open(s, slot[s].i_batch)

\* Between two samplings a slot waits for an output of the batch; between sampling
\* and the next pass it has a token and room for it.
HasNext(s) ==
    /\ slot[s].i_batch = -1 /\ slot[s].sampled \in Tokens
    /\ Len(slot[s].prompt) + 1 < NCtx /\ pc # "prompt"

DueInv ==
    \A s \in Slots :
        /\ slot[s].state = "DONE_PROMPT" => IsDue(s)
        /\ slot[s].state = "GENERATING" => IsDue(s) \/ HasNext(s)

\* Whose token gives the output: the slot itself or, for a child whose prompt is
\* done, the parent as long as it has not been released.
SharesOutput(s, p) ==
    \/ Idle(p)
    \/ /\ slot[p].parent = NoParent /\ slot[p].prompt = slot[s].prompt
       /\ \/ slot[p].state = "DONE_PROMPT" /\ slot[p].i_batch = slot[s].i_batch
          \/ slot[p].state = "GENERATING" /\ slot[p].i_batch = -1

OutputInv ==
    \A s \in Slots : Served(s) /\ IsDue(s) =>
        LET last == batch[slot[s].i_batch + 1] IN
        /\ last.output /\ last.pos = Len(slot[s].prompt) - 1
        /\ IF slot[s].state = "DONE_PROMPT" /\ IsChild(s)
           THEN SharesOutput(s, last.slot)
           ELSE last.slot = s

\* Tokens still to be decoded belong to slots that work; none comes after the
\* output of its slot.
PendingInv ==
    \A s \in Slots : \A i \in Pending(s) :
        /\ slot[s].state \in {"PROCESSING_PROMPT", "DONE_PROMPT", "GENERATING"}
        /\ Served(s) => i <= slot[s].i_batch + 1

\* Each position of the prompt is in one cell or in one token to be decoded.
At(s, p, token) == p < Len(slot[s].prompt) /\ token = slot[s].prompt[p + 1]

Exact(s) ==
    /\ \A c \in CellsOf(s) : At(s, c.pos, c.token)
    /\ \A c, d \in CellsOf(s) : c.pos = d.pos => c = d
    /\ \A i \in Pending(s) : At(s, batch[i].pos, batch[i].token)
    /\ \A i, j \in Pending(s) : batch[i].pos = batch[j].pos => i = j
    /\ \A c \in CellsOf(s), i \in Pending(s) : c.pos # batch[i].pos
    /\ \A k \in 0 .. Len(slot[s].prompt) - 1 :
           (\E c \in CellsOf(s) : c.pos = k) \/ (\E i \in Pending(s) : batch[i].pos = k)

ExactInv == \A s \in Slots : ~CopiedChild(s) => Exact(s)

Inv ==
    /\ TypeOK /\ SweepInv /\ ParentsInv /\ PromptsInv /\ DueInv /\ OutputInv
    /\ PendingInv /\ ExactInv

-----------------------------------------------------------------------------
(* The operators of the model.                                             *)

\* A set of naturals that is not empty has a least element.
LEMMA LeastExists ==
    ASSUME NEW S \in SUBSET Nat, S # {}
    PROVE  Least(S) \in S /\ \A x \in S : Least(S) <= x
<1> DEFINE R == {ss \in Nat \X Nat : ss[1] < ss[2]}
<1>1. IsWellFoundedOn(R, Nat)
    BY NatLessThanWellFounded DEF OpToRel
<1>2. PICK x \in S : \A y \in S : ~(<<y, x>> \in R)
    <2> HIDE DEF R
    <2> QED BY <1>1, WFMin
<1>3. ASSUME NEW y \in S PROVE x <= y
    <2>1. <<y, x>> \in Nat \X Nat /\ ~(<<y, x>> \in R)
      BY <1>2
    <2>2. ~(y < x)
      BY <2>1
    <2> QED BY <2>2
<1> QED BY <1>3 DEF Least

\* A bounded set of naturals that is not empty has a greatest element.
LEMMA GreatestExists ==
    ASSUME NEW S \in SUBSET Nat, S # {}, NEW n \in Nat, \A x \in S : x <= n
    PROVE  Greatest(S) \in S /\ \A x \in S : x <= Greatest(S)
<1> DEFINE T == {n - x : x \in S}
<1>1. T \in SUBSET Nat /\ T # {}
    <2>1. \A x \in S : n - x \in Nat
      OBVIOUS
    <2>2. T \subseteq Nat
      BY <2>1
    <2> QED BY <2>2
<1>2. Least(T) \in T /\ \A y \in T : Least(T) <= y
    <2> HIDE DEF T
    <2> QED BY <1>1, LeastExists
<1>3. PICK x \in S : Least(T) = n - x
    BY <1>2
<1>4. \A z \in S : z <= x
    <2> TAKE z \in S
    <2>1. n - z \in T
      OBVIOUS
    <2>2. n - x <= n - z
      BY <1>2, <1>3, <2>1
    <2> QED BY <2>2
<1> QED BY <1>4 DEF Greatest

\* The common prefix of two prompts is one of both.
LEMMA CommonPrefixType ==
    ASSUME NEW p \in Seq(Tokens), NEW q \in Seq(Tokens)
    PROVE  LET n == CommonPrefix(p, q) IN
           n \in Nat /\ n <= Len(p) /\ n <= Len(q) /\ SubSeq(p, 1, n) = SubSeq(q, 1, n)
<1> DEFINE S == {n \in 0 .. Len(p) : n <= Len(q) /\ SubSeq(p, 1, n) = SubSeq(q, 1, n)}
<1>1. Len(p) \in Nat /\ Len(q) \in Nat
    BY LenProperties
<1>0. CommonPrefix(p, q) = Greatest(S)
    BY DEF CommonPrefix
<1>2. SubSeq(p, 1, 0) = <<>> /\ SubSeq(q, 1, 0) = <<>>
    BY SubSeqProperties
<1>3. 0 \in S /\ S \subseteq Nat /\ \A x \in S : x <= Len(p)
    BY <1>1, <1>2
<1>4. Greatest(S) \in S
    <2> HIDE DEF S
    <2> QED BY <1>1, <1>3, GreatestExists
<1>5. CommonPrefix(p, q) \in S
    BY <1>0, <1>4
<1> QED BY <1>1, <1>5

\* A sub-batch is the next part of the batch.
LEMMA SubBatchType ==
    ASSUME NEW T, batch \in Seq(T), off \in Nat, off <= Len(batch), n_batch \in Nat
    PROVE  /\ Len(batch) \in Nat /\ DOMAIN batch = 1 .. Len(batch)
           /\ SubBatch \in Seq(T) /\ Len(SubBatch) \in Nat
           /\ off + Len(SubBatch) <= Len(batch) /\ Len(SubBatch) <= n_batch
           /\ off + Len(SubBatch) < Len(batch) => Len(SubBatch) = n_batch
           /\ DOMAIN SubBatch = 1 .. Len(SubBatch)
           /\ \A i \in 1 .. Len(SubBatch) : SubBatch[i] = batch[off + i]
<1>1. Len(batch) \in Nat /\ DOMAIN batch = 1 .. Len(batch)
    BY LenProperties
<1> DEFINE end == IF off + n_batch < Len(batch) THEN off + n_batch ELSE Len(batch)
<1>2. end \in Nat /\ off <= end /\ end <= Len(batch)
    BY <1>1
<1>3. SubBatch = SubSeq(batch, off + 1, end)
    BY DEF SubBatch
<1>4. SubBatch \in Seq(T) /\ Len(SubBatch) = end - off
    BY <1>1, <1>2, <1>3, SubSeqProperties
<1>5. \A i \in 1 .. end - off : SubBatch[i] = batch[off + i]
    BY <1>1, <1>2, <1>3
<1> QED BY <1>1, <1>2, <1>4, <1>5, LenProperties

\* The image of a finite set is finite and not larger; as large for an injection.
LEMMA ImageCardinality ==
    ASSUME NEW S, IsFiniteSet(S), NEW f, NEW T, T = {f[x] : x \in S}
    PROVE  /\ IsFiniteSet(T) /\ Cardinality(T) <= Cardinality(S)
           /\ (\A x, y \in S : f[x] = f[y] => x = y) => Cardinality(T) = Cardinality(S)
<1> DEFINE g == [x \in S |-> f[x]]
<1>1. g \in Surjection(S, T)
    BY DEF Surjection
<1>2. (\A x, y \in S : f[x] = f[y] => x = y) => g \in Injection(S, T)
    <2>1. g \in [S -> T] /\ \A x \in S : g[x] = f[x]
      OBVIOUS
    <2> HIDE DEF g
    <2> QED BY <2>1 DEF Injection, IsInjective
<1> HIDE DEF g
<1> QED BY <1>1, <1>2, FS_Surjection

CellsIn(cells, s) == {c \in cells : s \in c.seqs}

\* The cells of slot s, among other cells, hold the same tokens.
SameCells(K, L, s) ==
    \E f : /\ CellsIn(L, s) = {f[c] : c \in CellsIn(K, s)}
           /\ \A c \in CellsIn(K, s) : f[c].pos = c.pos /\ f[c].token = c.token

Removed(c, S, p0) == [c EXCEPT !.seqs = IF c.pos >= p0 THEN @ \ S ELSE @]

\* Removing sequences from a cell changes nothing else in it.
LEMMA RemovedCell ==
    ASSUME NEW c \in Cells, NEW S, NEW p0 \in Nat
    PROVE  /\ Removed(c, S, p0) \in Cells
           /\ Removed(c, S, p0).pos = c.pos /\ Removed(c, S, p0).token = c.token
           /\ Removed(c, S, p0).seqs = IF c.pos >= p0 THEN c.seqs \ S ELSE c.seqs
           /\ c.pos < p0 => Removed(c, S, p0) = c
<1> DEFINE seqs == IF c.pos >= p0 THEN c.seqs \ S ELSE c.seqs
<1>1. /\ c = [pos |-> c.pos, token |-> c.token, seqs |-> c.seqs]
      /\ c.pos \in Nat /\ c.token \in Tokens /\ c.seqs \in SUBSET Slots
    BY DEF Cells
<1>2. Removed(c, S, p0) = [pos |-> c.pos, token |-> c.token, seqs |-> seqs]
    <2>1. Removed(c, S, p0) = [c EXCEPT !.seqs = seqs]
      BY DEF Removed
    <2> HIDE DEF seqs
    <2> QED BY <1>1, <2>1
<1>3. seqs \in SUBSET Slots
    BY <1>1
<1> QED BY <1>1, <1>2, <1>3 DEF Cells

\* What seq_rm() leaves are the cells that still have a sequence.
LEMMA SeqRmCells ==
    ASSUME NEW K, NEW S, NEW p0
    PROVE  SeqRm(K, S, p0) = {c \in {Removed(d, S, p0) : d \in K} : c.seqs # {}}
BY DEF SeqRm, Removed

\* It never takes more cells.
LEMMA SeqRmType ==
    ASSUME NEW K \in SUBSET Cells, IsFiniteSet(K), NEW S, NEW p0 \in Nat
    PROVE  /\ SeqRm(K, S, p0) \in SUBSET Cells /\ IsFiniteSet(SeqRm(K, S, p0))
           /\ Cardinality(SeqRm(K, S, p0)) <= Cardinality(K)
<1> DEFINE f == [d \in K |-> Removed(d, S, p0)]
           T == {f[d] : d \in K}
<1>1. IsFiniteSet(T) /\ Cardinality(T) <= Cardinality(K)
    <2> HIDE DEF f
    <2> QED BY ImageCardinality
<1>2. SeqRm(K, S, p0) \in SUBSET T
    BY SeqRmCells
<1>3. T \subseteq Cells
    BY RemovedCell
<1>4. /\ IsFiniteSet(SeqRm(K, S, p0)) /\ Cardinality(SeqRm(K, S, p0)) <= Cardinality(T)
      /\ Cardinality(SeqRm(K, S, p0)) \in Nat /\ Cardinality(T) \in Nat
    BY <1>1, <1>2, FS_Subset, FS_CardinalityType
<1>5. Cardinality(K) \in Nat
    BY FS_CardinalityType
<1> QED BY <1>1, <1>2, <1>3, <1>4, <1>5

\* Other sequences keep what they hold.
LEMMA SeqRmOthers ==
    ASSUME NEW K \in SUBSET Cells, NEW S, NEW p0 \in Nat, NEW s, s \notin S
    PROVE  SameCells(K, SeqRm(K, S, p0), s)
<1> DEFINE f == [d \in K |-> Removed(d, S, p0)]
<1>1. \A d \in K : /\ f[d].pos = d.pos /\ f[d].token = d.token
                   /\ s \in f[d].seqs <=> s \in d.seqs
    <2> TAKE d \in K
    <2>1. d \in Cells /\ f[d] = Removed(d, S, p0)
      OBVIOUS
    <2> HIDE DEF f
    <2>2. /\ Removed(d, S, p0).pos = d.pos /\ Removed(d, S, p0).token = d.token
          /\ Removed(d, S, p0).seqs \in {d.seqs \ S, d.seqs}
      <3>1. /\ Removed(d, S, p0).pos = d.pos /\ Removed(d, S, p0).token = d.token
            /\ Removed(d, S, p0).seqs = IF d.pos >= p0 THEN d.seqs \ S ELSE d.seqs
        BY <2>1, RemovedCell
      <3> QED BY <3>1
    <2> QED BY <2>1, <2>2
<1>2. SeqRm(K, S, p0) = {c \in {f[d] : d \in K} : c.seqs # {}}
    BY SeqRmCells
<1> HIDE DEF f
<1>3. CellsIn(SeqRm(K, S, p0), s) = {f[d] : d \in CellsIn(K, s)}
    BY <1>1, <1>2 DEF CellsIn
<1> QED BY <1>1, <1>3 DEF SameCells, CellsIn

\* A sequence removed keeps its cells below the first position removed.
LEMMA SeqRmBelow ==
    ASSUME NEW K \in SUBSET Cells, NEW S, NEW p0 \in Nat, NEW s, s \in S
    PROVE  CellsIn(SeqRm(K, S, p0), s) = {c \in CellsIn(K, s) : c.pos < p0}
<1>1. \A d \in K : /\ Removed(d, S, p0).pos = d.pos /\ d.pos \in Nat
                   /\ s \in Removed(d, S, p0).seqs <=> s \in d.seqs /\ d.pos < p0
                   /\ d.pos < p0 => Removed(d, S, p0) = d
    <2> TAKE d \in K
    <2>1. d \in Cells /\ d.pos \in Nat /\ (d.pos >= p0 <=> ~(d.pos < p0))
      BY DEF Cells
    <2>2. /\ Removed(d, S, p0).pos = d.pos
          /\ Removed(d, S, p0).seqs = IF d.pos >= p0 THEN d.seqs \ S ELSE d.seqs
          /\ d.pos < p0 => Removed(d, S, p0) = d
      BY <2>1, RemovedCell
    <2> QED BY <2>1, <2>2
<1> QED BY <1>1, SeqRmCells DEF CellsIn

\* Removed from position 0, it has no cells.
LEMMA SeqRmAll ==
    ASSUME NEW K \in SUBSET Cells, NEW S, NEW s, s \in S
    PROVE  CellsIn(SeqRm(K, S, 0), s) = {}
<1>1. \A c \in CellsIn(K, s) : c.pos \in Nat
    BY DEF CellsIn, Cells
<1>2. 0 \in Nat
    OBVIOUS
<1>3. CellsIn(SeqRm(K, S, 0), s) = {c \in CellsIn(K, s) : c.pos < 0}
    BY <1>2, SeqRmBelow
<1> QED BY <1>1, <1>3

Children == UNION {WaitingChildren(p) : p \in DoneParents}
Shared(c) == [c EXCEPT !.seqs = @ \cup UNION {WaitingChildren(p) : p \in DoneParents \cap c.seqs}]

\* A shared cell holds the same token for more slots, all of them waiting.
LEMMA SharedCell ==
    ASSUME NEW c \in Cells
    PROVE  /\ Shared(c) \in Cells /\ Shared(c).pos = c.pos /\ Shared(c).token = c.token
           /\ \A s : s \notin Children => (s \in Shared(c).seqs <=> s \in c.seqs)
<1> DEFINE more == UNION {WaitingChildren(p) : p \in DoneParents \cap c.seqs}
<1>1. /\ c = [pos |-> c.pos, token |-> c.token, seqs |-> c.seqs]
      /\ c.pos \in Nat /\ c.token \in Tokens /\ c.seqs \in SUBSET Slots
    BY DEF Cells
<1>2. Shared(c) = [pos |-> c.pos, token |-> c.token, seqs |-> c.seqs \cup more]
    <2>1. Shared(c) = [c EXCEPT !.seqs = c.seqs \cup more]
      BY DEF Shared
    <2> HIDE DEF more
    <2> QED BY <1>1, <2>1
<1>3. more \subseteq Slots /\ more \subseteq Children
    BY DEF WaitingChildren, Children
<1> HIDE DEF more
<1> QED BY <1>1, <1>2, <1>3 DEF Cells

\* Handing prompts to children takes no cells ...
LEMMA CopyToChildrenType ==
    ASSUME NEW K \in SUBSET Cells, IsFiniteSet(K)
    PROVE  /\ CopyToChildren(K) \in SUBSET Cells /\ IsFiniteSet(CopyToChildren(K))
           /\ Cardinality(CopyToChildren(K)) <= Cardinality(K)
<1> DEFINE L == SeqRm(K, Children, 0)
           f == [c \in L |-> Shared(c)]
<1>1. /\ L \in SUBSET Cells /\ IsFiniteSet(L) /\ Cardinality(L) <= Cardinality(K)
      /\ Cardinality(L) \in Nat /\ Cardinality(K) \in Nat
    BY SeqRmType, FS_CardinalityType
<1>2. CopyToChildren(K) = {f[c] : c \in L}
    BY DEF CopyToChildren, Children, Shared
<1>3. CopyToChildren(K) \in SUBSET Cells
    BY <1>1, <1>2, SharedCell
<1> HIDE DEF L, f
<1>4. /\ IsFiniteSet(CopyToChildren(K)) /\ Cardinality(CopyToChildren(K)) <= Cardinality(L)
    BY <1>1, <1>2, ImageCardinality
<1>5. Cardinality(CopyToChildren(K)) \in Nat
    BY <1>4, FS_CardinalityType
<1> QED BY <1>1, <1>3, <1>4, <1>5

\* ... and leaves the slots alone that do not wait.
LEMMA CopyToChildrenOthers ==
    ASSUME NEW K \in SUBSET Cells, IsFiniteSet(K), NEW s, s \notin Children
    PROVE  SameCells(K, CopyToChildren(K), s)
<1> DEFINE L == SeqRm(K, Children, 0)
<1>0. 0 \in Nat
    OBVIOUS
<1>1. L \in SUBSET Cells /\ SameCells(K, L, s)
    BY <1>0, SeqRmType, SeqRmOthers
<1>2. CopyToChildren(K) = {Shared(c) : c \in L}
    BY DEF CopyToChildren, Children, Shared
<1> HIDE DEF L
<1>3. \A c \in L : /\ Shared(c).pos = c.pos /\ Shared(c).token = c.token
                   /\ s \in Shared(c).seqs <=> s \in c.seqs
    BY <1>1, SharedCell
<1>4. CellsIn(CopyToChildren(K), s) = {Shared(c) : c \in CellsIn(L, s)}
    BY <1>2, <1>3 DEF CellsIn
<1>5. PICK f : /\ CellsIn(L, s) = {f[c] : c \in CellsIn(K, s)}
               /\ \A c \in CellsIn(K, s) : f[c].pos = c.pos /\ f[c].token = c.token
    BY <1>1 DEF SameCells
<1> DEFINE g == [c \in CellsIn(K, s) |-> Shared(f[c])]
<1>6. CellsIn(CopyToChildren(K), s) = {g[c] : c \in CellsIn(K, s)}
    BY <1>4, <1>5
<1>7. \A c \in CellsIn(K, s) : f[c] \in L
    BY <1>5 DEF CellsIn
<1>8. \A c \in CellsIn(K, s) : g[c].pos = c.pos /\ g[c].token = c.token
    BY <1>3, <1>5, <1>7
<1> HIDE DEF g
<1> QED BY <1>6, <1>8 DEF SameCells

-----------------------------------------------------------------------------
(* What the handlers do to the records of the slots.                       *)

\* Slots are numbers, and no number stands for a slot and for none.
LEMMA SlotsType ==
    /\ NSlots \in Nat /\ NSlots > 0 /\ NBatch \in Nat /\ NBatch > 0
    /\ Slots \in SUBSET Nat /\ IsFiniteSet(Slots) /\ 0 \in Slots
    /\ \A s \in Slots : s < NSlots /\ s \in Int
    /\ NoParent \notin Slots /\ GoneParent \notin Slots /\ NoParent # GoneParent
BY SizesAssumption, FS_Interval DEF Slots, NoParent, GoneParent

\* A released slot has no task; a child loses its prompt.
LEMMA ReleasedRecord ==
    ASSUME NEW rec \in SlotRecord
    PROVE  LET r == ReleasedSlot(rec) IN
           /\ r \in SlotRecord /\ r.state = "IDLE" /\ r.task = <<>> /\ r.parent = NoParent
           /\ r.prompt = IF rec.parent = NoParent THEN rec.prompt ELSE <<>>
           /\ r.i_batch = -1 /\ r.sampled = NoToken
<1>1. /\ rec = [state |-> rec.state, task |-> rec.task, parent |-> rec.parent,
                prompt |-> rec.prompt, i_batch |-> rec.i_batch, sampled |-> rec.sampled]
      /\ rec.prompt \in Seq(Tokens)
    BY DEF SlotRecord
<1> DEFINE kept == IF rec.parent = NoParent THEN rec.prompt ELSE <<>>
<1>2. ReleasedSlot(rec) = [state |-> "IDLE", task |-> <<>>, parent |-> NoParent,
                           prompt |-> kept, i_batch |-> -1, sampled |-> NoToken]
    <2>1. ReleasedSlot(rec) = [rec EXCEPT !.state = "IDLE", !.task = <<>>, !.parent = NoParent,
                                          !.prompt = kept, !.i_batch = -1, !.sampled = NoToken]
      BY DEF ReleasedSlot
    <2> HIDE DEF kept
    <2> QED BY <1>1, <2>1
<1>3. kept \in Seq(Tokens) /\ <<>> \in Seq(Tokens)
    BY <1>1, EmptySeq
<1>4. "IDLE" \in States /\ -1 \in Int
    BY DEF States
<1> QED BY <1>2, <1>3, <1>4 DEF SlotRecord

\* A task makes a slot busy and leaves its prompt.
LEMMA OccupiedRecord ==
    ASSUME NEW rec \in SlotRecord, NEW task \in Seq(Tokens), NEW parent \in Slots \cup {NoParent}
    PROVE  LET r == Occupied(rec, task, parent) IN
           /\ r \in SlotRecord /\ r.task = task /\ r.parent = parent
           /\ r.state = IF parent = NoParent THEN "STARTED" ELSE "WAIT_OTHER"
           /\ r.prompt = rec.prompt /\ r.i_batch = rec.i_batch /\ r.sampled = rec.sampled
<1>1. /\ rec = [state |-> rec.state, task |-> rec.task, parent |-> rec.parent,
                prompt |-> rec.prompt, i_batch |-> rec.i_batch, sampled |-> rec.sampled]
      /\ rec.prompt \in Seq(Tokens) /\ rec.i_batch \in Int /\ rec.sampled \in Tokens \cup {NoToken}
    BY DEF SlotRecord
<1> DEFINE state == IF parent = NoParent THEN "STARTED" ELSE "WAIT_OTHER"
<1>2. Occupied(rec, task, parent) =
          [state |-> state, task |-> task, parent |-> parent, prompt |-> rec.prompt,
           i_batch |-> rec.i_batch, sampled |-> rec.sampled]
    <2>1. Occupied(rec, task, parent) =
              [rec EXCEPT !.state = state, !.task = task, !.parent = parent]
      BY DEF Occupied
    <2> HIDE DEF state
    <2> QED BY <1>1, <2>1
<1>3. state \in States
    BY DEF States
<1> QED BY <1>1, <1>2, <1>3 DEF SlotRecord

\* Releasing slot s changes the other slots only in that its children lose their
\* parent, and no cell of theirs.
LEMMA ReleaseEffect ==
    ASSUME TypeOK, IsFiniteSet(kv), NEW s \in Slots, ReleaseSlot(s)
    PROVE  /\ slot' \in [Slots -> SlotRecord]
           /\ slot'[s] = ReleasedSlot(slot[s])
           /\ \A u \in Slots \ {s} :
                 /\ slot'[u].state = slot[u].state /\ slot'[u].task = slot[u].task
                 /\ slot'[u].prompt = slot[u].prompt /\ slot'[u].i_batch = slot[u].i_batch
                 /\ slot'[u].sampled = slot[u].sampled
                 /\ slot'[u].parent = IF slot[u].parent = s THEN GoneParent ELSE slot[u].parent
           /\ kv' \in SUBSET Cells /\ IsFiniteSet(kv') /\ Cardinality(kv') <= NCells
           /\ \A u \in Slots \ {s} : SameCells(kv, kv', u)
           /\ IF IsChild(s) THEN CellsIn(kv', s) = {} ELSE kv' = kv
<1>1. /\ kv \in SUBSET Cells /\ Cardinality(kv) <= NCells /\ slot \in [Slots -> SlotRecord]
      /\ Cardinality(kv) \in Nat /\ NCells \in Nat /\ 0 \in Nat
    BY SizesAssumption, FS_CardinalityType DEF TypeOK
<1>2. \A u \in Slots : slot[u] \in SlotRecord /\ ReleasedSlot(slot[u]) \in SlotRecord
    BY <1>1, ReleasedRecord
<1>3. ASSUME NEW u \in Slots \ {s}
      PROVE  /\ slot'[u] \in SlotRecord
             /\ slot'[u].state = slot[u].state /\ slot'[u].task = slot[u].task
             /\ slot'[u].prompt = slot[u].prompt /\ slot'[u].i_batch = slot[u].i_batch
             /\ slot'[u].sampled = slot[u].sampled
             /\ slot'[u].parent = IF slot[u].parent = s THEN GoneParent ELSE slot[u].parent
    <2>1. slot'[u] = IF slot[u].parent = s THEN [slot[u] EXCEPT !.parent = GoneParent] ELSE slot[u]
      BY DEF ReleaseSlot
    <2>2. slot[u] \in SlotRecord
      BY <1>2
    <2> QED BY <2>1, <2>2 DEF SlotRecord
<1>4. slot'[s] = ReleasedSlot(slot[s])
    BY DEF ReleaseSlot
<1>5. slot' \in [Slots -> SlotRecord]
    <2>1. \A u \in Slots : slot'[u] \in SlotRecord
      BY <1>2, <1>3, <1>4
    <2> QED BY <2>1 DEF ReleaseSlot
<1>6. CASE IsChild(s)
    <2>1. kv' = SeqRm(kv, {s}, 0)
      BY <1>6 DEF ReleaseSlot
    <2>2. /\ kv' \in SUBSET Cells /\ IsFiniteSet(kv') /\ Cardinality(kv') <= Cardinality(kv)
          /\ Cardinality(kv') \in Nat
      BY <1>1, <2>1, SeqRmType, FS_CardinalityType
    <2>3. \A u \in Slots \ {s} : SameCells(kv, kv', u)
      BY <1>1, <2>1, SeqRmOthers
    <2>4. CellsIn(kv', s) = {}
      BY <1>1, <2>1, SeqRmAll
    <2> QED BY <1>1, <1>3, <1>4, <1>5, <1>6, <2>2, <2>3, <2>4
<1>7. CASE ~IsChild(s)
    <2>1. kv' = kv
      BY <1>7 DEF ReleaseSlot
    <2>2. \A u : SameCells(kv, kv, u)
      <3> TAKE u
      <3> DEFINE f == [c \in CellsIn(kv, u) |-> c]
      <3>1. CellsIn(kv, u) = {f[c] : c \in CellsIn(kv, u)}
        OBVIOUS
      <3>2. \A c \in CellsIn(kv, u) : f[c].pos = c.pos /\ f[c].token = c.token
        OBVIOUS
      <3> HIDE DEF f
      <3> QED BY <3>1, <3>2 DEF SameCells
    <2> QED BY <1>1, <1>3, <1>4, <1>5, <1>7, <2>1, <2>2
<1> QED BY <1>6, <1>7


-----------------------------------------------------------------------------
(* What is left of the batch.                                              *)

\* Pending tokens are tokens of the batch.
LEMMA PendingType ==
    ASSUME TypeOK, SweepInv
    PROVE  /\ FirstPending \in Nat /\ FirstPending >= 1
           /\ \A s : Pending(s) \subseteq DOMAIN batch
           /\ \A i \in DOMAIN batch : batch[i] \in BatchTokens /\ i \in Nat /\ i >= 1
<1>1. /\ batch \in Seq(BatchTokens) /\ off \in Nat /\ off <= Len(batch) /\ n_batch \in Nat
    BY SlotsType DEF TypeOK, SweepInv
<1>2. /\ Len(SubBatch) \in Nat /\ Len(batch) \in Nat /\ DOMAIN batch = 1 .. Len(batch)
    BY <1>1, SubBatchType
<1>3. FirstPending \in Nat /\ FirstPending >= 1
    BY <1>1, <1>2 DEF FirstPending
<1>4. \A i \in DOMAIN batch : batch[i] \in BatchTokens /\ i \in Nat /\ i >= 1
    BY <1>1, <1>2, ElementOfSeq
<1>5. \A s : Pending(s) \subseteq DOMAIN batch
    BY <1>2, <1>3 DEF Pending
<1> QED BY <1>3, <1>4, <1>5

\* An open output is one of a token of the batch.
LEMMA OpenInBatch ==
    ASSUME TypeOK, SweepInv, NEW s \in Slots, NEW i \in Int, Open(s, i)
    PROVE  /\ i \in Nat /\ i >= off /\ i + 1 \in DOMAIN batch
           /\ batch[i + 1] \in BatchTokens /\ batch[i + 1].slot \in Slots
<1>1. /\ batch \in Seq(BatchTokens) /\ off \in Nat /\ off <= Len(batch) /\ n_batch \in Nat
    BY SlotsType DEF TypeOK, SweepInv
<1>2. /\ Len(SubBatch) \in Nat /\ Len(batch) \in Nat /\ DOMAIN batch = 1 .. Len(batch)
    BY <1>1, SubBatchType
<1>3. i >= off /\ i < Len(batch)
    BY <1>1, <1>2 DEF Open
<1>4. i \in Nat /\ i + 1 \in DOMAIN batch
    BY <1>1, <1>2, <1>3
<1>5. batch[i + 1] \in BatchTokens
    BY <1>1, <1>4, ElementOfSeq, LenProperties
<1> QED BY <1>3, <1>4, <1>5 DEF BatchTokens

\* The cells and pending tokens of a slot still make up its prompt when both hold
\* what they held before.
LEMMA ExactFollows ==
    ASSUME NEW s, Exact(s), SameCells(kv, kv', s), slot'[s].prompt = slot[s].prompt,
           Pending(s)' = Pending(s), \A i \in Pending(s) : batch'[i] = batch[i]
    PROVE  Exact(s)'
<1>1. PICK f : /\ CellsOf(s)' = {f[c] : c \in CellsOf(s)}
               /\ \A c \in CellsOf(s) : f[c].pos = c.pos /\ f[c].token = c.token
    BY DEF SameCells, CellsIn, CellsOf
<1>2. \A p, token : At(s, p, token)' <=> At(s, p, token)
    BY DEF At
<1>3. \A c \in CellsOf(s)' : At(s, c.pos, c.token)'
    BY <1>1, <1>2 DEF Exact
<1>4. \A c, d \in CellsOf(s)' : c.pos = d.pos => c = d
    BY <1>1 DEF Exact
<1>5. \A i \in Pending(s)' : At(s, batch[i].pos, batch[i].token)'
    <2> TAKE i \in Pending(s)'
    <2>1. i \in Pending(s) /\ batch'[i] = batch[i] /\ At(s, batch[i].pos, batch[i].token)
      BY DEF Exact
    <2> QED BY <2>1 DEF At
<1>6. \A i, j \in Pending(s)' : batch'[i].pos = batch'[j].pos => i = j
    BY DEF Exact
<1>7. \A c \in CellsOf(s)', i \in Pending(s)' : c.pos # batch'[i].pos
    BY <1>1 DEF Exact
<1>8. \A k \in 0 .. Len(slot'[s].prompt) - 1 :
           (\E c \in CellsOf(s)' : c.pos = k) \/ (\E i \in Pending(s)' : batch'[i].pos = k)
    BY <1>1 DEF Exact
<1> QED BY <1>3, <1>4, <1>5, <1>6, <1>7, <1>8 DEF Exact

\* A slot that has no cells and no tokens may have an empty prompt.
LEMMA ExactEmpty ==
    ASSUME NEW s, CellsIn(kv', s) = {}, slot'[s].prompt = <<>>, Pending(s)' = {}
    PROVE  Exact(s)'
<1>1. CellsOf(s)' = {} /\ 0 .. Len(slot'[s].prompt) - 1 = {}
    BY DEF CellsIn, CellsOf
<1> QED BY <1>1 DEF Exact

\* A set of cells is the same as itself.
LEMMA SameCellsTrivial ==
    ASSUME NEW K, NEW s
    PROVE  SameCells(K, K, s)
<1> DEFINE f == [c \in CellsIn(K, s) |-> c]
<1>1. CellsIn(K, s) = {f[c] : c \in CellsIn(K, s)}
    OBVIOUS
<1>2. \A c \in CellsIn(K, s) : f[c].pos = c.pos /\ f[c].token = c.token
    OBVIOUS
<1> HIDE DEF f
<1> QED BY <1>1, <1>2 DEF SameCells

\* Until a sub-batch has been decoded the same tokens are pending and the same
\* outputs open, whatever its size.
LEMMA SameTokens ==
    ASSUME UNCHANGED <<batch, off>>,
           {pc, pc'} \subseteq {"prompt", "decode", "crashed"}
    PROVE  /\ \A s : Pending(s)' = Pending(s)
           /\ \A s, i : Open(s, i)' <=> Open(s, i)
BY DEF Pending, FirstPending, Open

\* The sweep over the slots that are sampled leaves open what the sub-batch does
\* not contain, until nothing is.
LEMMA AfterPostEffect ==
    ASSUME TypeOK, SweepInv, pc = "post", AfterPost
    PROVE  /\ pc' \in {"post", "decode", "tasks"} /\ cursor' \in Slots
           /\ batch' \in Seq(BatchTokens) /\ slot_batched' \in Slots \cup {NoSlot}
           /\ off' \in Nat /\ n_batch' \in 1 .. NBatch
           /\ off' <= Len(batch')
           /\ pc' = "tasks" => off' = 0 /\ batch' = <<>> /\ cursor' = 0
           /\ pc' = "decode" => cursor' = 0
           /\ \A s : Pending(s)' = Pending(s) /\ \A i \in Pending(s) : batch'[i] = batch[i]
           /\ \A s \in Slots, i \in Int :
                 /\ Open(s, i)' => Open(s, i) /\ batch'[i + 1] = batch[i + 1]
                 /\ Open(s, i) /\ (s = cursor => ~InView(i)) => Open(s, i)'
<1>1. /\ batch \in Seq(BatchTokens) /\ off \in Nat /\ off <= Len(batch) /\ n_batch \in 1 .. NBatch
      /\ cursor \in Slots /\ n_batch \in Nat /\ slot_batched \in Slots \cup {NoSlot}
    BY SlotsType DEF TypeOK, SweepInv
<1>2. /\ Len(batch) \in Nat /\ DOMAIN batch = 1 .. Len(batch)
      /\ Len(SubBatch) \in Nat /\ off + Len(SubBatch) <= Len(batch)
    BY <1>1, SubBatchType
<1>3. CASE cursor + 1 < NSlots
    <2>1. cursor' = cursor + 1 /\ UNCHANGED <<pc, batch, slot_batched, off, n_batch>>
      BY <1>3 DEF AfterPost
    <2>2. SubBatch' = SubBatch
      BY <2>1 DEF SubBatch
    <2>3. \A s : Pending(s)' = Pending(s)
      BY <2>1, <2>2 DEF Pending, FirstPending
    <2>4. cursor' \in Slots
      BY <1>1, <1>3, <2>1, SizesAssumption DEF Slots
    <2>5. ASSUME NEW s \in Slots, NEW i \in Int
          PROVE  /\ Open(s, i)' => Open(s, i) /\ batch'[i + 1] = batch[i + 1]
                 /\ Open(s, i) /\ (s = cursor => ~InView(i)) => Open(s, i)'
      BY <1>1, <1>2, <2>1, <2>2, SlotsType DEF Open, InView
    <2> QED BY <1>1, <2>1, <2>3, <2>4, <2>5
<1>4. CASE ~(cursor + 1 < NSlots) /\ off + Len(SubBatch) < Len(batch)
    <2>1. /\ cursor' = 0 /\ pc' = "decode" /\ off' = off + Len(SubBatch) /\ n_batch' = NBatch
          /\ batch' = batch /\ slot_batched' = slot_batched
      BY <1>4 DEF AfterPost
    <2>2. \A s : Pending(s)' = Pending(s)
      BY <2>1 DEF Pending, FirstPending
    <2>3. ASSUME NEW s \in Slots, NEW i \in Int
          PROVE  /\ Open(s, i)' => Open(s, i) /\ batch'[i + 1] = batch[i + 1]
                 /\ Open(s, i) /\ (s = cursor => ~InView(i)) => Open(s, i)'
      <3>1. s < cursor \/ s = cursor
        BY <1>1, <1>4, SlotsType
      <3> QED BY <1>1, <1>2, <2>1, <3>1, SlotsType DEF Open, InView
    <2>4. off' \in Nat /\ n_batch' \in 1 .. NBatch /\ off' <= Len(batch')
      BY <1>1, <1>2, <2>1, SlotsType
    <2> QED BY <1>1, <2>1, <2>2, <2>3, <2>4, SlotsType
<1>5. CASE ~(cursor + 1 < NSlots) /\ ~(off + Len(SubBatch) < Len(batch))
    <2>1. /\ cursor' = 0 /\ pc' = "tasks" /\ off' = 0 /\ n_batch' = NBatch
          /\ batch' = <<>> /\ slot_batched' = NoSlot
      BY <1>5 DEF AfterPost, NoBatch
    <2>2. \A s : Pending(s)' = {} /\ Pending(s) = {}
      <3>1. Len(batch') = 0
        BY <2>1
      <3> QED BY <1>1, <1>2, <1>5, <2>1, <3>1 DEF Pending, FirstPending
    <2>3. ASSUME NEW s \in Slots, NEW i \in Int
          PROVE  /\ ~Open(s, i)'
                 /\ Open(s, i) => ~(s = cursor => ~InView(i))
      <3>1. s < cursor \/ s = cursor
        BY <1>1, <1>5, SlotsType
      <3> QED BY <1>1, <1>2, <1>5, <2>1, <3>1, SlotsType DEF Open, InView
    <2>4. batch' \in Seq(BatchTokens) /\ n_batch' \in 1 .. NBatch /\ off' <= Len(batch')
      BY <2>1, SlotsType, EmptySeq
    <2> QED BY <2>1, <2>2, <2>3, <2>4, SlotsType
<1> QED BY <1>3, <1>4, <1>5

-----------------------------------------------------------------------------
(* Steps that leave the slots alone, and changes of one slot.              *)

\* Between two passes nothing is pending and no output is open.
LEMMA NothingInTasks ==
    ASSUME batch = <<>>, pc = "tasks"
    PROVE  /\ \A s : Pending(s) = {}
           /\ \A s, i : ~Open(s, i)
<1>1. Len(batch) = 0
    OBVIOUS
<1>2. FirstPending = 1
    BY <1>1 DEF FirstPending
<1> QED BY <1>1, <1>2 DEF Pending, Open

\* And after a step that ends a pass.
LEMMA NothingInNextTasks ==
    ASSUME batch' = <<>>, pc' = "tasks"
    PROVE  /\ \A s : Pending(s)' = {}
           /\ \A s, i : ~Open(s, i)'
<1>1. Len(batch') = 0
    OBVIOUS
<1>2. FirstPending' = 1
    BY <1>1 DEF FirstPending
<1> QED BY <1>1, <1>2 DEF Pending, Open

\* What is said of the slots only depends on what is pending and open.
LEMMA SlotsKept ==
    ASSUME Inv, UNCHANGED <<slot, kv>>,
           \A s : Pending(s)' = Pending(s) /\ \A i \in Pending(s) : batch'[i] = batch[i],
           \A s \in Slots, i \in Int : Open(s, i)' => Open(s, i) /\ batch'[i + 1] = batch[i + 1],
           \A s \in Slots : /\ Served(s) /\ IsDue(s) => IsDue(s)'
                            /\ slot[s].state = "GENERATING" /\ HasNext(s) => HasNext(s)'
    PROVE  ParentsInv' /\ PromptsInv' /\ DueInv' /\ OutputInv' /\ PendingInv' /\ ExactInv'
<1>1. ParentsInv' /\ PromptsInv'
    BY DEF Inv, ParentsInv, PromptsInv, Idle
<1>2. DueInv'
    BY DEF Inv, DueInv, Served
<1>3. \A s \in Slots : slot[s].i_batch \in Int
    BY DEF Inv, TypeOK, SlotRecord
<1>4. OutputInv'
    <2> SUFFICES ASSUME NEW s \in Slots, Served(s)', IsDue(s)'
                 PROVE  LET last == batch[slot[s].i_batch + 1] IN
                        (/\ last.output /\ last.pos = Len(slot[s].prompt) - 1
                         /\ IF slot[s].state = "DONE_PROMPT" /\ IsChild(s)
                            THEN SharesOutput(s, last.slot)
                            ELSE last.slot = s)'
      BY DEF OutputInv
    <2>1. Served(s) /\ IsDue(s) /\ batch'[slot[s].i_batch + 1] = batch[slot[s].i_batch + 1]
      BY <1>3 DEF Served, IsDue
    <2>2. \A p : SharesOutput(s, p)' <=> SharesOutput(s, p)
      BY DEF SharesOutput, Idle
    <2> QED BY <2>1, <2>2 DEF Inv, OutputInv, IsChild
<1>5. PendingInv'
    BY DEF Inv, PendingInv, Served
<1>6. ExactInv'
    <2> SUFFICES ASSUME NEW s \in Slots, ~CopiedChild(s)'
                 PROVE  Exact(s)'
      BY DEF ExactInv
    <2>1. Exact(s)
      BY DEF Inv, ExactInv, CopiedChild, IsChild
    <2>2. SameCells(kv, kv', s)
      BY SameCellsTrivial
    <2> QED BY <2>1, <2>2, ExactFollows
<1> QED BY <1>1, <1>2, <1>4, <1>5, <1>6

\* Clearing the prompt and the cells of an idle slot.
ClearIdle(s) ==
    /\ Idle(s)
    /\ slot' = [slot EXCEPT ![s].prompt = <<>>]
    /\ kv' = SeqRm(kv, {s}, 0)

\* Nothing of what is said of the slots depends on the prompt of an idle one.
LEMMA ClearIdleInv ==
    ASSUME Inv, NEW s \in Slots, ClearIdle(s), UNCHANGED <<pc, cursor, batch, off>>,
           \A u : Pending(u)' = Pending(u),
           \A u, i : Open(u, i)' <=> Open(u, i)
    PROVE  /\ slot' \in [Slots -> SlotRecord] /\ \A u \in Slots : Idle(u)' <=> slot'[u].task = <<>>
           /\ kv' \subseteq Cells /\ IsFiniteSet(kv') /\ Cardinality(kv') <= NCells
           /\ ParentsInv' /\ PromptsInv' /\ DueInv' /\ OutputInv' /\ PendingInv' /\ ExactInv'
<1>1. /\ slot \in [Slots -> SlotRecord] /\ kv \in SUBSET Cells /\ IsFiniteSet(kv)
      /\ Cardinality(kv) <= NCells /\ Cardinality(kv) \in Nat /\ NCells \in Nat /\ 0 \in Nat
    BY SizesAssumption, FS_CardinalityType DEF Inv, TypeOK, SweepInv
<1>2. /\ slot' \in [Slots -> SlotRecord]
      /\ \A u \in Slots : /\ slot'[u].state = slot[u].state /\ slot'[u].task = slot[u].task
                          /\ slot'[u].parent = slot[u].parent /\ slot'[u].i_batch = slot[u].i_batch
                          /\ slot'[u].sampled = slot[u].sampled
                          /\ slot'[u].prompt = IF u = s THEN <<>> ELSE slot[u].prompt
    <2>1. \A u \in Slots : slot[u] \in SlotRecord
      BY <1>1
    <2>2. [slot[s] EXCEPT !.prompt = <<>>] \in SlotRecord
      BY <2>1, EmptySeq DEF SlotRecord
    <2> QED BY <1>1, <2>1, <2>2 DEF ClearIdle, SlotRecord
<1>3. \A u \in Slots : /\ Idle(u)' <=> Idle(u)
                       /\ Served(u)' <=> Served(u)
                       /\ IsChild(u)' <=> IsChild(u)
                       /\ IsDue(u)' <=> IsDue(u)
                       /\ CopiedChild(u)' <=> CopiedChild(u)
    BY <1>2 DEF Idle, Served, IsChild, IsDue, CopiedChild
<1>4. /\ kv' \in SUBSET Cells /\ IsFiniteSet(kv') /\ Cardinality(kv') <= Cardinality(kv)
      /\ Cardinality(kv') \in Nat
    BY <1>1, SeqRmType, FS_CardinalityType DEF ClearIdle
<1>5. \A u \in Slots \ {s} : SameCells(kv, kv', u)
    BY <1>1, SeqRmOthers DEF ClearIdle
<1>6. CellsIn(kv', s) = {}
    BY <1>1, SeqRmAll DEF ClearIdle
<1>7. slot[s].state = "IDLE" /\ ~Served(s) /\ Idle(s)
    BY DEF ClearIdle, Idle, Served
<1>8. \A u \in Slots : Idle(u)' <=> slot'[u].task = <<>>
    BY <1>2, <1>3 DEF Inv, TypeOK
<1>9. ParentsInv'
    BY <1>2, <1>3 DEF Inv, ParentsInv
<1>10. PromptsInv'
    BY <1>2, <1>7 DEF Inv, PromptsInv
<1>11. DueInv'
    <2> SUFFICES ASSUME NEW u \in Slots
                 PROVE  (/\ slot[u].state = "DONE_PROMPT" => IsDue(u)
                         /\ slot[u].state = "GENERATING" => IsDue(u) \/ HasNext(u))'
      BY DEF DueInv
    <2>1. u # s => (HasNext(u)' <=> HasNext(u))
      BY <1>2 DEF HasNext
    <2> QED BY <1>2, <1>3, <1>7, <2>1 DEF Inv, DueInv
<1>12. OutputInv'
    <2> SUFFICES ASSUME NEW u \in Slots, Served(u)', IsDue(u)'
                 PROVE  LET last == batch[slot[u].i_batch + 1] IN
                        (/\ last.output /\ last.pos = Len(slot[u].prompt) - 1
                         /\ IF slot[u].state = "DONE_PROMPT" /\ IsChild(u)
                            THEN SharesOutput(u, last.slot)
                            ELSE last.slot = u)'
      BY DEF OutputInv
    <2> DEFINE last == batch[slot[u].i_batch + 1]
    <2>1. /\ u # s /\ Served(u) /\ IsDue(u) /\ slot[u].i_batch \in Int
          /\ slot'[u].prompt = slot[u].prompt
      BY <1>1, <1>2, <1>3, <1>7 DEF SlotRecord
    <2>2. /\ last.output /\ last.pos = Len(slot[u].prompt) - 1
          /\ IF slot[u].state = "DONE_PROMPT" /\ IsChild(u)
             THEN SharesOutput(u, last.slot) ELSE last.slot = u
      BY <2>1 DEF Inv, OutputInv
    <2>3. last.slot \in Slots
      BY <2>1, OpenInBatch DEF Inv, IsDue
    <2>4. SharesOutput(u, last.slot) => SharesOutput(u, last.slot)'
      <3>1. PICK p \in Slots : p = last.slot
        BY <2>3
      <3>2. last' = last
        BY <1>2, <1>3, <2>1
      <3>3. SharesOutput(u, p) => SharesOutput(u, p)'
        BY <1>2, <1>3, <1>7, <2>1 DEF SharesOutput, Idle
      <3> QED BY <3>1, <3>2, <3>3
    <2> QED BY <1>2, <1>3, <2>1, <2>2, <2>4
<1>13. PendingInv'
    BY <1>2, <1>3 DEF Inv, PendingInv
<1>14. ExactInv'
    <2> SUFFICES ASSUME NEW u \in Slots, ~CopiedChild(u)'
                 PROVE  Exact(u)'
      BY DEF ExactInv
    <2>1. Exact(u)
      BY <1>3 DEF Inv, ExactInv
    <2>2. CASE u = s
      <3>1. Pending(s) = {}
        BY <1>7 DEF Inv, PendingInv
      <3> QED BY <1>2, <1>6, <2>2, <3>1, ExactEmpty
    <2>3. CASE u # s
      BY <1>2, <1>5, <2>1, <2>3, ExactFollows
    <2> QED BY <2>2, <2>3
<1> QED BY <1>1, <1>2, <1>4, <1>8, <1>9, <1>10, <1>11, <1>12, <1>13, <1>14

-----------------------------------------------------------------------------
(* Tasks come and go.                                                      *)

\* The type of what only the phases of a pass change.
PhaseType ==
    /\ pc \in Phases /\ cursor \in Slots /\ batch \in Seq(BatchTokens)
    /\ slot_batched \in Slots \cup {NoSlot} /\ off \in Nat /\ n_batch \in 1 .. NBatch

\* The type of slots and cells.
StoreType ==
    /\ slot \in [Slots -> SlotRecord] /\ \A u \in Slots : Idle(u) <=> slot[u].task = <<>>
    /\ kv \subseteq Cells /\ Cardinality(kv) <= NCells /\ IsFiniteSet(kv)

\* A slot can be released when nothing of it is pending: the others find what they
\* had, and children their parent gone.
LEMMA ReleaseInv ==
    ASSUME Inv, NEW s \in Slots, ReleaseSlot(s), Pending(s) = {}, pc' # "prompt",
           \A u : Pending(u)' = Pending(u) /\ \A i \in Pending(u) : batch'[i] = batch[i],
           \A u \in Slots, i \in Int : Open(u, i)' => Open(u, i) /\ batch'[i + 1] = batch[i + 1],
           \A u \in Slots \ {s}, i \in Int : Open(u, i) => Open(u, i)'
    PROVE  /\ StoreType' /\ ParentsInv' /\ PromptsInv' /\ DueInv' /\ OutputInv' /\ PendingInv'
           /\ ExactInv'
<1>1. /\ TypeOK /\ SweepInv /\ IsFiniteSet(kv) /\ slot \in [Slots -> SlotRecord]
      /\ \A u \in Slots : slot[u] \in SlotRecord /\ slot[u].i_batch \in Int
    BY DEF Inv, TypeOK, SweepInv, SlotRecord
<1>2. /\ slot' \in [Slots -> SlotRecord]
      /\ kv' \in SUBSET Cells /\ IsFiniteSet(kv') /\ Cardinality(kv') <= NCells
      /\ \A u \in Slots \ {s} : SameCells(kv, kv', u)
      /\ IF IsChild(s) THEN CellsIn(kv', s) = {} ELSE kv' = kv
    BY <1>1, ReleaseEffect
<1>3. \A u \in Slots \ {s} :
          /\ slot'[u].state = slot[u].state /\ slot'[u].task = slot[u].task
          /\ slot'[u].prompt = slot[u].prompt /\ slot'[u].i_batch = slot[u].i_batch
          /\ slot'[u].sampled = slot[u].sampled
          /\ slot'[u].parent = IF slot[u].parent = s THEN GoneParent ELSE slot[u].parent
    BY <1>1, ReleaseEffect
<1>4. /\ slot'[s].state = "IDLE" /\ slot'[s].task = <<>> /\ slot'[s].parent = NoParent
      /\ slot'[s].prompt = IF slot[s].parent = NoParent THEN slot[s].prompt ELSE <<>>
    BY <1>1, ReleaseEffect, ReleasedRecord
<1>5. \A u \in Slots \ {s} : /\ Idle(u)' <=> Idle(u)
                             /\ Served(u)' <=> Served(u)
                             /\ IsChild(u)' <=> IsChild(u)
                             /\ CopiedChild(u)' <=> CopiedChild(u)
    BY <1>3, SlotsType DEF Idle, Served, IsChild, CopiedChild
<1>6. StoreType'
    BY <1>2, <1>3, <1>4, <1>5 DEF StoreType, Inv, TypeOK, Idle
<1>7. ParentsInv'
    <2> SUFFICES ASSUME NEW u \in Slots
                 PROVE  (/\ slot[u].state \in {"IDLE", "STARTED", "PROCESSING_PROMPT"} =>
                                slot[u].parent = NoParent
                         /\ slot[u].parent \in Slots =>
                                slot[slot[u].parent].parent = NoParent /\ ~Idle(slot[u].parent))'
      BY DEF ParentsInv
    <2>1. CASE u = s
      BY <1>4, <2>1, SlotsType
    <2>2. CASE u # s
      <3>1. slot[u].state \in {"IDLE", "STARTED", "PROCESSING_PROMPT"} => slot[u].parent = NoParent
        BY DEF Inv, ParentsInv
      <3>2. slot[u].parent \in Slots \ {s} =>
                slot[slot[u].parent].parent = NoParent /\ ~Idle(slot[u].parent)
        BY DEF Inv, ParentsInv
      <3>3. slot'[u].parent \in Slots => slot'[u].parent = slot[u].parent /\ slot[u].parent # s
        BY <1>3, <2>2, SlotsType
      <3>4. slot'[u].state \in {"IDLE", "STARTED", "PROCESSING_PROMPT"} => slot'[u].parent = NoParent
        BY <1>3, <2>2, <3>1, SlotsType
      <3>5. ASSUME NEW p \in Slots, slot'[u].parent = p
            PROVE  slot'[p].parent = NoParent /\ ~Idle(p)'
        BY <1>3, <1>5, <2>2, <3>2, <3>3, <3>5, SlotsType
      <3> QED BY <3>4, <3>5
    <2> QED BY <2>1, <2>2
<1>8. PromptsInv'
    BY <1>3, <1>4 DEF Inv, PromptsInv
<1>9. DueInv'
    <2> SUFFICES ASSUME NEW u \in Slots
                 PROVE  /\ slot'[u].state = "DONE_PROMPT" => IsDue(u)'
                        /\ slot'[u].state = "GENERATING" => IsDue(u)' \/ HasNext(u)'
      BY DEF DueInv
    <2>1. CASE u = s
      BY <1>4, <2>1
    <2>2. CASE u # s
      <3>1. IsDue(u) => IsDue(u)'
        BY <1>1, <1>3, <2>2 DEF IsDue
      <3>2. HasNext(u) => HasNext(u)'
        BY <1>3, <2>2 DEF HasNext
      <3> QED BY <1>3, <2>2, <3>1, <3>2 DEF Inv, DueInv, Served
    <2> QED BY <2>1, <2>2
<1>10. OutputInv'
    <2> SUFFICES ASSUME NEW u \in Slots, Served(u)', IsDue(u)'
                 PROVE  LET last == batch[slot[u].i_batch + 1] IN
                        (/\ last.output /\ last.pos = Len(slot[u].prompt) - 1
                         /\ IF slot[u].state = "DONE_PROMPT" /\ IsChild(u)
                            THEN SharesOutput(u, last.slot)
                            ELSE last.slot = u)'
      BY DEF OutputInv
    <2> DEFINE last == batch[slot[u].i_batch + 1]
    <2>1. u # s /\ Served(u)
      BY <1>4, <1>5 DEF Served
    <2>2. IsDue(u) /\ batch'[slot[u].i_batch + 1] = last
      BY <1>1, <1>3, <2>1 DEF IsDue
    <2>3. /\ last.output /\ last.pos = Len(slot[u].prompt) - 1
          /\ IF slot[u].state = "DONE_PROMPT" /\ IsChild(u)
             THEN SharesOutput(u, last.slot) ELSE last.slot = u
      BY <2>1, <2>2 DEF Inv, OutputInv
    <2>4. PICK p \in Slots : p = last.slot
      BY <1>1, <2>2, OpenInBatch DEF IsDue
    <2>5. SharesOutput(u, p) => SharesOutput(u, p)'
      <3>1. CASE p = s
        BY <1>4, <3>1 DEF SharesOutput, Idle
      <3>2. CASE p # s
        BY <1>3, <1>5, <2>1, <3>2, SlotsType DEF SharesOutput
      <3> QED BY <3>1, <3>2
    <2> QED BY <1>3, <1>5, <2>1, <2>2, <2>3, <2>4, <2>5
<1>11. PendingInv'
    BY <1>3, <1>5 DEF Inv, PendingInv
<1>12. ExactInv'
    <2> SUFFICES ASSUME NEW u \in Slots, ~CopiedChild(u)'
                 PROVE  Exact(u)'
      BY DEF ExactInv
    <2>1. CASE u # s
      BY <1>2, <1>3, <1>5, <2>1, ExactFollows DEF Inv, ExactInv
    <2>2. CASE u = s /\ IsChild(s)
      BY <1>2, <1>4, <2>2, ExactEmpty DEF IsChild
    <2>3. CASE u = s /\ ~IsChild(s)
      <3>1. Exact(s) /\ slot'[s].prompt = slot[s].prompt /\ kv' = kv
        BY <1>2, <1>4, <2>3 DEF Inv, ExactInv, CopiedChild, IsChild
      <3> QED BY <2>3, <3>1, SameCellsTrivial, ExactFollows
    <2> QED BY <2>1, <2>2, <2>3
<1> QED BY <1>6, <1>7, <1>8, <1>9, <1>10, <1>11, <1>12

\* A task may be cancelled whenever its slot has one.
LEMMA CancelTaskInv ==
    ASSUME Inv, NEW s \in Slots, CancelTask(s)
    PROVE  Inv'
<1>1. /\ pc = "tasks" /\ ReleaseSlot(s) /\ batch = <<>>
      /\ UNCHANGED <<pc, cursor, batch, slot_batched, off, n_batch>>
    BY DEF CancelTask, Inv, SweepInv
<1>2. /\ \A u : Pending(u) = {} /\ Pending(u)' = {}
      /\ \A u, i : ~Open(u, i) /\ ~Open(u, i)'
    BY <1>1, NothingInTasks, NothingInNextTasks
<1>3. /\ StoreType' /\ ParentsInv' /\ PromptsInv' /\ DueInv' /\ OutputInv' /\ PendingInv'
      /\ ExactInv'
    BY <1>1, <1>2, ReleaseInv
<1>4. SweepInv'
    BY <1>1, <1>3 DEF Inv, SweepInv, StoreType
<1> QED BY <1>1, <1>3, <1>4 DEF Inv, TypeOK, StoreType, Idle

\* An idle slot may be erased.
LEMMA EraseSlotInv ==
    ASSUME Inv, NEW s \in Slots, EraseSlot(s)
    PROVE  Inv'
<1>1. /\ pc = "tasks" /\ ClearIdle(s) /\ batch = <<>>
      /\ UNCHANGED <<pc, cursor, batch, slot_batched, off, n_batch>>
    BY DEF EraseSlot, ClearIdle, Inv, SweepInv
<1>2. /\ \A u : Pending(u) = {} /\ Pending(u)' = {}
      /\ \A u, i : ~Open(u, i) /\ ~Open(u, i)'
    BY <1>1, NothingInTasks, NothingInNextTasks
<1>3. /\ slot' \in [Slots -> SlotRecord] /\ \A u \in Slots : Idle(u)' <=> slot'[u].task = <<>>
      /\ kv' \subseteq Cells /\ IsFiniteSet(kv') /\ Cardinality(kv') <= NCells
      /\ ParentsInv' /\ PromptsInv' /\ DueInv' /\ OutputInv' /\ PendingInv' /\ ExactInv'
    BY <1>1, <1>2, ClearIdleInv
<1>4. SweepInv'
    BY <1>1, <1>3 DEF Inv, SweepInv
<1> QED BY <1>1, <1>3, <1>4 DEF Inv, TypeOK

\* A task and its children occupy idle slots, which are nobody's parent.
LEMMA LaunchInv ==
    ASSUME Inv, NEW s \in Slots, NEW task \in Prompts, NEW n, Launch(s, task, n)
    PROVE  Inv'
<1>1. /\ pc = "tasks" /\ Idle(s) /\ batch = <<>> /\ kv' = kv
      /\ UNCHANGED <<pc, cursor, batch, slot_batched, off, n_batch>>
    BY DEF Launch, Inv, SweepInv
<1>2. /\ \A u : Pending(u) = {} /\ Pending(u)' = {}
      /\ \A u, i : ~Open(u, i) /\ ~Open(u, i)'
    BY <1>1, NothingInTasks, NothingInNextTasks
<1> DEFINE F == FreeSlots(s, n)
<1>3. F \subseteq Slots \ {s} /\ \A u \in F : Idle(u)
    BY DEF FreeSlots
<1>4. /\ slot \in [Slots -> SlotRecord] /\ task \in Seq(Tokens) /\ task # <<>>
      /\ \A u \in Slots : slot[u] \in SlotRecord
    <2>1. task \in Seq(Tokens) /\ 0 < Len(task)
      BY PromptsAssumption
    <2>2. task # <<>>
      BY <2>1
    <2> QED BY <2>1, <2>2 DEF Inv, TypeOK
<1>5. /\ slot'[s] = Occupied(slot[s], task, NoParent)
      /\ \A u \in F : slot'[u] = Occupied(slot[u], task, s)
      /\ \A u \in Slots \ (F \cup {s}) : slot'[u] = slot[u]
      /\ DOMAIN slot' = Slots /\ slot' = [u \in Slots |-> slot'[u]]
    BY <1>3 DEF Launch
<1> HIDE DEF F
<1>6. ASSUME NEW u \in F \cup {s}
      PROVE  /\ u \in Slots /\ slot[u].state = "IDLE" /\ slot'[u] \in SlotRecord
             /\ slot'[u].task = task /\ slot'[u].prompt = slot[u].prompt
             /\ slot'[u].state = (IF u = s THEN "STARTED" ELSE "WAIT_OTHER")
             /\ slot'[u].parent = (IF u = s THEN NoParent ELSE s)
    <2>1. CASE u = s
      <3>1. NoParent \in Slots \cup {NoParent}
        OBVIOUS
      <3> QED BY <1>1, <1>4, <1>5, <2>1, <3>1, OccupiedRecord DEF Idle
    <2>2. CASE u \in F
      <3>1. s \in Slots \cup {NoParent} /\ s # NoParent /\ u # s /\ u \in Slots /\ Idle(u)
        BY <1>3, <2>2, SlotsType
      <3> QED BY <1>4, <1>5, <2>2, <3>1, OccupiedRecord DEF Idle
    <2> QED BY <2>1, <2>2
<1>7. slot' \in [Slots -> SlotRecord]
    <2>1. \A u \in Slots : slot'[u] \in SlotRecord
      BY <1>4, <1>5, <1>6
    <2> QED BY <1>5, <2>1
<1>8. \A u \in Slots : Idle(u)' <=> slot'[u].task = <<>>
    BY <1>4, <1>5, <1>6 DEF Inv, TypeOK, Idle
<1>9. TypeOK'
    BY <1>1, <1>7, <1>8 DEF Inv, TypeOK
<1>10. SweepInv'
    BY <1>1 DEF Inv, SweepInv
<1>11. ParentsInv'
    <2> SUFFICES ASSUME NEW u \in Slots
                 PROVE  (/\ slot[u].state \in {"IDLE", "STARTED", "PROCESSING_PROMPT"} =>
                                slot[u].parent = NoParent
                         /\ slot[u].parent \in Slots =>
                                slot[slot[u].parent].parent = NoParent /\ ~Idle(slot[u].parent))'
      BY DEF ParentsInv
    <2>1. slot'[u].state \in {"IDLE", "STARTED", "PROCESSING_PROMPT"} => slot'[u].parent = NoParent
      BY <1>5, <1>6 DEF Inv, ParentsInv
    <2>2. ASSUME NEW p \in Slots, slot'[u].parent = p
          PROVE  slot'[p].parent = NoParent /\ ~Idle(p)'
      <3>1. CASE u \in F \cup {s}
        <4>1. p = s
          BY <1>6, <2>2, <3>1, SlotsType
        <4> QED BY <1>6, <4>1 DEF Idle
      <3>2. CASE u \notin F \cup {s}
        <4>1. slot[u].parent = p
          BY <1>5, <2>2, <3>2
        <4>2. slot[p].parent = NoParent /\ ~Idle(p)
          BY <4>1 DEF Inv, ParentsInv
        <4>3. p \notin F \cup {s}
          BY <1>6, <4>2 DEF Idle
        <4> QED BY <1>5, <4>2, <4>3 DEF Idle
      <3> QED BY <3>1, <3>2
    <2> QED BY <2>1, <2>2
<1>12. PromptsInv'
    BY <1>5, <1>6 DEF Inv, PromptsInv
<1>13. DueInv'
    <2> SUFFICES ASSUME NEW u \in Slots
                 PROVE  (/\ slot[u].state = "DONE_PROMPT" => IsDue(u)
                         /\ slot[u].state = "GENERATING" => IsDue(u) \/ HasNext(u))'
      BY DEF DueInv
    <2>1. slot'[u].state \in {"DONE_PROMPT", "GENERATING"} => slot'[u] = slot[u]
      BY <1>5, <1>6
    <2>2. slot'[u] = slot[u] /\ HasNext(u) => HasNext(u)'
      BY <1>1 DEF HasNext
    <2> QED BY <1>2, <2>1, <2>2 DEF Inv, DueInv, IsDue
<1>14. OutputInv' /\ PendingInv'
    BY <1>2 DEF OutputInv, PendingInv, IsDue
<1>15. ExactInv'
    <2> SUFFICES ASSUME NEW u \in Slots, ~CopiedChild(u)'
                 PROVE  Exact(u)'
      BY DEF ExactInv
    <2>1. CASE u \in F \cup {s}
      <3>1. Exact(u) /\ slot'[u].prompt = slot[u].prompt
        BY <1>6, <2>1 DEF Inv, ExactInv, CopiedChild
      <3> QED BY <1>1, <1>2, <3>1, SameCellsTrivial, ExactFollows
    <2>2. CASE u \notin F \cup {s}
      <3>1. Exact(u) /\ slot'[u] = slot[u]
        BY <1>5, <2>2 DEF Inv, ExactInv, CopiedChild, IsChild
      <3> QED BY <1>1, <1>2, <3>1, SameCellsTrivial, ExactFollows
    <2> QED BY <2>1, <2>2
<1> QED BY <1>9, <1>10, <1>11, <1>12, <1>13, <1>14, <1>15 DEF Inv

-----------------------------------------------------------------------------
(* Sampling.                                                               *)

\* The output a slot is sampled from is that of its last token.
LEMMA NothingLeft ==
    ASSUME Inv, pc = "post", NEW s \in Slots, Sampled(s)
    PROVE  Pending(s) = {}
<1>0. slot[s].i_batch \in Int
    BY DEF Inv, TypeOK, SlotRecord
<1>1. /\ batch \in Seq(BatchTokens) /\ off \in Nat /\ off <= Len(batch) /\ n_batch \in Nat
      /\ slot[s].i_batch \in Int
    BY <1>0, SlotsType DEF Inv, TypeOK, SweepInv
<1>2. Len(SubBatch) \in Nat /\ Len(batch) \in Nat
    BY <1>1, SubBatchType
<1>3. slot[s].i_batch < off + Len(SubBatch) /\ Served(s)
    BY DEF Sampled, InView, Served
<1>4. \A i \in Pending(s) : i \in Nat /\ i >= off + Len(SubBatch) + 1 /\ i <= slot[s].i_batch + 1
    BY <1>1, <1>2, <1>3 DEF Pending, FirstPending, Inv, PendingInv
<1> QED BY <1>1, <1>2, <1>3, <1>4

\* A slot without an output in the sub-batch has none after it is passed over.
LEMMA SkipSamplingInv ==
    ASSUME Inv, SkipSampling
    PROVE  Inv'
<1>1. /\ TypeOK /\ SweepInv /\ pc = "post" /\ ~Sampled(cursor) /\ AfterPost
      /\ UNCHANGED <<slot, kv>>
    BY DEF Inv, SkipSampling
<1>2. /\ PhaseType' /\ pc' \in {"post", "decode", "tasks"} /\ off' <= Len(batch')
      /\ pc' = "tasks" => off' = 0 /\ batch' = <<>> /\ cursor' = 0
      /\ pc' = "decode" => cursor' = 0
    BY <1>1, AfterPostEffect DEF PhaseType, Phases
<1>3. /\ \A s : Pending(s)' = Pending(s) /\ \A i \in Pending(s) : batch'[i] = batch[i]
      /\ \A s \in Slots, i \in Int :
            /\ Open(s, i)' => Open(s, i) /\ batch'[i + 1] = batch[i + 1]
            /\ Open(s, i) /\ (s = cursor => ~InView(i)) => Open(s, i)'
    BY <1>1, AfterPostEffect
<1>4. \A s \in Slots : /\ Served(s) /\ IsDue(s) => IsDue(s)'
                       /\ slot[s].state = "GENERATING" /\ HasNext(s) => HasNext(s)'
    <2> TAKE s \in Slots
    <2>1. slot[s].i_batch \in Int /\ slot' = slot
      BY <1>1 DEF TypeOK, SlotRecord
    <2>2. Served(s) => (s = cursor => ~InView(slot[s].i_batch))
      BY <1>1 DEF Sampled, Served
    <2> QED BY <1>2, <1>3, <2>1, <2>2 DEF IsDue, HasNext
<1>5. ParentsInv' /\ PromptsInv' /\ DueInv' /\ OutputInv' /\ PendingInv' /\ ExactInv'
    BY <1>1, <1>3, <1>4, SlotsKept
<1>6. TypeOK'
    BY <1>1, <1>2 DEF PhaseType, TypeOK, Idle
<1>7. SweepInv'
    BY <1>1, <1>2 DEF SweepInv
<1> QED BY <1>5, <1>6, <1>7 DEF Inv

\* A slot that is released after its last token leaves nothing pending.
LEMMA SampleAndStopInv ==
    ASSUME Inv, SampleAndStop
    PROVE  Inv'
<1>1. /\ TypeOK /\ SweepInv /\ pc = "post" /\ Sampled(cursor) /\ AfterPost /\ ReleaseSlot(cursor)
      /\ cursor \in Slots
    BY DEF Inv, SampleAndStop, TypeOK
<1>2. /\ PhaseType' /\ pc' \in {"post", "decode", "tasks"} /\ off' <= Len(batch')
      /\ pc' = "tasks" => off' = 0 /\ batch' = <<>> /\ cursor' = 0
      /\ pc' = "decode" => cursor' = 0
    BY <1>1, AfterPostEffect DEF PhaseType, Phases
<1>3. /\ \A s : Pending(s)' = Pending(s) /\ \A i \in Pending(s) : batch'[i] = batch[i]
      /\ \A s \in Slots, i \in Int :
            /\ Open(s, i)' => Open(s, i) /\ batch'[i + 1] = batch[i + 1]
            /\ Open(s, i) /\ (s = cursor => ~InView(i)) => Open(s, i)'
    BY <1>1, AfterPostEffect
<1>4. \A s \in Slots \ {cursor}, i \in Int : Open(s, i) => Open(s, i)'
    BY <1>3
<1>5. StoreType' /\ ParentsInv' /\ PromptsInv' /\ DueInv' /\ OutputInv' /\ PendingInv' /\ ExactInv'
    BY <1>1, <1>2, <1>3, <1>4, NothingLeft, ReleaseInv
<1>6. SweepInv'
    BY <1>2, <1>5 DEF SweepInv, StoreType
<1> QED BY <1>2, <1>5, <1>6 DEF Inv, TypeOK, PhaseType, StoreType, Idle

\* A slot that goes on has a token, and room for it.
LEMMA SampleAndContinueInv ==
    ASSUME Inv, SampleAndContinue
    PROVE  Inv'
<1>1. /\ TypeOK /\ SweepInv /\ pc = "post" /\ Sampled(cursor) /\ AfterPost /\ kv' = kv
      /\ cursor \in Slots /\ ~ContextFull(cursor) /\ slot \in [Slots -> SlotRecord]
      /\ \A u \in Slots : slot[u] \in SlotRecord /\ slot[u].i_batch \in Int
    BY DEF Inv, SampleAndContinue, TypeOK, SlotRecord
<1>2. /\ PhaseType' /\ pc' \in {"post", "decode", "tasks"} /\ off' <= Len(batch')
      /\ pc' = "tasks" => off' = 0 /\ batch' = <<>> /\ cursor' = 0
      /\ pc' = "decode" => cursor' = 0
    BY <1>1, AfterPostEffect DEF PhaseType, Phases
<1>3. /\ \A s : Pending(s)' = Pending(s) /\ \A i \in Pending(s) : batch'[i] = batch[i]
      /\ \A s \in Slots, i \in Int :
            /\ Open(s, i)' => Open(s, i) /\ batch'[i + 1] = batch[i + 1]
            /\ Open(s, i) /\ (s = cursor => ~InView(i)) => Open(s, i)'
    BY <1>1, AfterPostEffect
<1>4. PICK token \in Tokens :
          slot' = [slot EXCEPT ![cursor].state = "GENERATING", ![cursor].i_batch = -1,
                               ![cursor].sampled = token]
    BY DEF SampleAndContinue
<1> DEFINE c == cursor
<1>5. /\ slot'[c] \in SlotRecord /\ slot'[c].state = "GENERATING" /\ slot'[c].i_batch = -1
      /\ slot'[c].sampled = token /\ slot'[c].prompt = slot[c].prompt
      /\ slot'[c].task = slot[c].task /\ slot'[c].parent = slot[c].parent
    <2>1. slot'[c] = [[[slot[c] EXCEPT !.state = "GENERATING"] EXCEPT !.i_batch = -1]
                          EXCEPT !.sampled = token]
      BY <1>1, <1>4
    <2>2. slot[c] \in SlotRecord /\ "GENERATING" \in States /\ -1 \in Int
      BY <1>1 DEF States
    <2> HIDE DEF c
    <2> QED BY <2>1, <2>2 DEF SlotRecord
<1>6. \A u \in Slots \ {c} : slot'[u] = slot[u]
    BY <1>1, <1>4
<1>7. slot' \in [Slots -> SlotRecord]
    <2>1. \A u \in Slots : slot'[u] \in SlotRecord
      BY <1>1, <1>5, <1>6
    <2>2. slot' = [u \in Slots |-> slot'[u]]
      BY <1>1, <1>4
    <2> QED BY <2>1, <2>2
<1>8. slot[c].state \in {"DONE_PROMPT", "GENERATING"} /\ InView(slot[c].i_batch) /\ c \in Slots
    BY <1>1 DEF Sampled
<1>9. Pending(c) = {}
    BY <1>1, NothingLeft
<1> HIDE DEF c
<1>10. \A u \in Slots : /\ Idle(u)' <=> Idle(u)
                        /\ Served(u)' <=> Served(u)
                        /\ IsChild(u)' <=> IsChild(u)
                        /\ CopiedChild(u)' <=> CopiedChild(u)
                        /\ slot'[u].prompt = slot[u].prompt /\ slot'[u].parent = slot[u].parent
                        /\ slot'[u].task = slot[u].task
    BY <1>5, <1>6, <1>8 DEF Idle, Served, IsChild, CopiedChild
<1>11. TypeOK'
    BY <1>1, <1>2, <1>7, <1>10 DEF TypeOK, PhaseType
<1>12. SweepInv'
    BY <1>1, <1>2 DEF SweepInv
<1>13. ParentsInv'
    BY <1>5, <1>6, <1>10 DEF Inv, ParentsInv
<1>14. PromptsInv'
    BY <1>5, <1>6 DEF Inv, PromptsInv
<1>15. DueInv'
    <2> SUFFICES ASSUME NEW u \in Slots
                 PROVE  (/\ slot[u].state = "DONE_PROMPT" => IsDue(u)
                         /\ slot[u].state = "GENERATING" => IsDue(u) \/ HasNext(u))'
      BY DEF DueInv
    <2>1. CASE u = c
      <3>1. Len(slot[c].prompt) + 1 < NCtx
        <4>1. Len(slot[c].prompt) \in Nat /\ NCtx \in Nat
          BY <1>1, <1>8, LenProperties, SizesAssumption DEF SlotRecord
        <4>2. ~(Len(slot[c].prompt) + 1 >= NCtx)
          BY <1>1 DEF ContextFull, c
        <4> QED BY <4>1, <4>2
      <3> QED BY <1>2, <1>5, <2>1, <3>1 DEF HasNext
    <2>2. CASE u # c
      <3>1. IsDue(u) => IsDue(u)'
        BY <1>1, <1>3, <1>6, <2>2 DEF IsDue, c
      <3>2. HasNext(u) => HasNext(u)'
        BY <1>2, <1>6, <2>2 DEF HasNext
      <3> QED BY <1>6, <2>2, <3>1, <3>2 DEF Inv, DueInv
    <2> QED BY <2>1, <2>2
<1>16. OutputInv'
    <2> SUFFICES ASSUME NEW u \in Slots, Served(u)', IsDue(u)'
                 PROVE  LET last == batch[slot[u].i_batch + 1] IN
                        (/\ last.output /\ last.pos = Len(slot[u].prompt) - 1
                         /\ IF slot[u].state = "DONE_PROMPT" /\ IsChild(u)
                            THEN SharesOutput(u, last.slot)
                            ELSE last.slot = u)'
      BY DEF OutputInv
    <2> DEFINE last == batch[slot[u].i_batch + 1]
    <2>1. u # c
      <3> SUFFICES ASSUME u = c PROVE FALSE
        OBVIOUS
      <3>1. Open(u, -1)
        BY <1>3, <1>5 DEF IsDue
      <3> QED BY <1>1, <3>1, OpenInBatch
    <2>2. /\ IsDue(u) /\ Served(u) /\ batch'[slot[u].i_batch + 1] = last /\ slot'[u] = slot[u]
      BY <1>1, <1>3, <1>6, <1>10, <2>1 DEF IsDue
    <2>3. /\ last.output /\ last.pos = Len(slot[u].prompt) - 1
          /\ IF slot[u].state = "DONE_PROMPT" /\ IsChild(u)
             THEN SharesOutput(u, last.slot) ELSE last.slot = u
      BY <2>2 DEF Inv, OutputInv
    <2>4. PICK p \in Slots : p = last.slot
      BY <1>1, <2>2, OpenInBatch DEF IsDue
    <2>5. SharesOutput(u, p) => SharesOutput(u, p)'
      BY <1>5, <1>6, <1>10, <2>2 DEF SharesOutput
    <2> QED BY <1>10, <2>2, <2>3, <2>4, <2>5
<1>17. PendingInv'
    BY <1>3, <1>6, <1>9, <1>10 DEF Inv, PendingInv
<1>18. ExactInv'
    <2> SUFFICES ASSUME NEW u \in Slots, ~CopiedChild(u)'
                 PROVE  Exact(u)'
      BY DEF ExactInv
    <2>1. Exact(u) /\ slot'[u].prompt = slot[u].prompt
      BY <1>10 DEF Inv, ExactInv
    <2> QED BY <1>1, <1>3, <2>1, SameCellsTrivial, ExactFollows
<1> QED BY <1>11, <1>12, <1>13, <1>14, <1>15, <1>16, <1>17, <1>18 DEF Inv

-----------------------------------------------------------------------------
(* Steps of decode() that store nothing.                                   *)

\* Nothing is said of a state in which the program has been stopped but what was
\* said before.
LEMMA DecodeCrashesInv ==
    ASSUME Inv, DecodeCrashes
    PROVE  Inv'
<1>1. /\ pc = "decode" /\ pc' = "crashed"
      /\ UNCHANGED <<cursor, slot, kv, batch, slot_batched, off, n_batch>>
    BY DEF DecodeCrashes
<1>2. /\ \A s : Pending(s)' = Pending(s)
      /\ \A s, i : Open(s, i)' <=> Open(s, i)
    BY <1>1, SameTokens
<1>3. \A s \in Slots : /\ Served(s) /\ IsDue(s) => IsDue(s)'
                       /\ slot[s].state = "GENERATING" /\ HasNext(s) => HasNext(s)'
    BY <1>1, <1>2 DEF IsDue, HasNext
<1>4. ParentsInv' /\ PromptsInv' /\ DueInv' /\ OutputInv' /\ PendingInv' /\ ExactInv'
    BY <1>1, <1>2, <1>3, SlotsKept
<1>5. TypeOK' /\ SweepInv'
    BY <1>1 DEF Inv, TypeOK, Phases, SweepInv, Idle
<1> QED BY <1>4, <1>5 DEF Inv

\* Making room takes nothing from a slot that works, and a smaller sub-batch
\* leaves the same tokens to be decoded.
LEMMA DecodeRetriesInv ==
    ASSUME Inv, DecodeRetries
    PROVE  Inv'
<1>0. EvictIdleSlot \/ HalveBatch
    BY DEF DecodeRetries
<1>1. /\ pc = "decode" /\ n_batch > 1 /\ pc' = pc /\ cursor' = cursor /\ batch' = batch
      /\ slot_batched' = slot_batched /\ off' = off
    BY DEF DecodeRetries, Decoding
<1>2. /\ \A s : Pending(s)' = Pending(s)
      /\ \A s, i : Open(s, i)' <=> Open(s, i)
    <2>1. {pc, pc'} \subseteq {"prompt", "decode", "crashed"} /\ UNCHANGED <<batch, off>>
      BY <1>1
    <2> QED BY <2>1, SameTokens
<1>3. CASE EvictIdleSlot
    <2> DEFINE s == Least(Evictable)
    <2>1. Evictable \in SUBSET Nat /\ Evictable # {}
      BY <1>3, SlotsType DEF EvictIdleSlot, Evictable
    <2>2. s \in Slots /\ Idle(s)
      <3>1. s \in Evictable
        BY <2>1, LeastExists
      <3> QED BY <3>1 DEF Evictable
    <2>3. ClearIdle(s) /\ n_batch' = n_batch
      BY <1>3, <2>2 DEF EvictIdleSlot, ClearIdle
    <2> HIDE DEF s
    <2>4. /\ slot' \in [Slots -> SlotRecord] /\ \A u \in Slots : Idle(u)' <=> slot'[u].task = <<>>
          /\ kv' \subseteq Cells /\ IsFiniteSet(kv') /\ Cardinality(kv') <= NCells
          /\ ParentsInv' /\ PromptsInv' /\ DueInv' /\ OutputInv' /\ PendingInv' /\ ExactInv'
      BY <1>1, <1>2, <2>2, <2>3, ClearIdleInv
    <2>5. TypeOK'
      BY <1>1, <2>3, <2>4 DEF Inv, TypeOK
    <2>6. SweepInv'
      BY <1>1, <2>3, <2>4 DEF Inv, SweepInv
    <2> QED BY <2>4, <2>5, <2>6 DEF Inv
<1>4. CASE HalveBatch
    <2>1. UNCHANGED <<slot, kv>> /\ n_batch' = n_batch \div 2
      BY <1>4 DEF HalveBatch
    <2>2. n_batch' \in 1 .. NBatch
      BY <1>1, <2>1, SlotsType DEF Inv, TypeOK
    <2>3. \A s \in Slots : /\ Served(s) /\ IsDue(s) => IsDue(s)'
                           /\ slot[s].state = "GENERATING" /\ HasNext(s) => HasNext(s)'
      BY <1>1, <1>2, <2>1 DEF IsDue, HasNext
    <2>4. ParentsInv' /\ PromptsInv' /\ DueInv' /\ OutputInv' /\ PendingInv' /\ ExactInv'
      BY <1>1, <1>2, <2>1, <2>3, SlotsKept
    <2>5. TypeOK' /\ SweepInv'
      BY <1>1, <2>1, <2>2 DEF Inv, TypeOK, SweepInv, Idle
    <2> QED BY <2>4, <2>5 DEF Inv
<1> QED BY <1>0, <1>3, <1>4

\* When decode() fails for good no slot is left with a context it should have,
\* for those that worked are left with none.
LEMMA DecodeFailsInv ==
    ASSUME Inv, DecodeFails
    PROVE  Inv'
<1>1. /\ pc = "decode" /\ pc' = "tasks" /\ batch' = <<>> /\ slot_batched' = NoSlot /\ off' = 0
      /\ n_batch' = NBatch /\ cursor' = cursor /\ cursor = 0
    BY DEF DecodeFails, Decoding, NoBatch, Inv, SweepInv
<1>2. /\ \A u : Pending(u)' = {}
      /\ \A u, i : ~Open(u, i)'
    BY <1>1, NothingInNextTasks
<1> DEFINE busy == {s \in Slots : ~Idle(s)}
<1>3. /\ kv' = SeqRm(kv, busy, 0) /\ kv \in SUBSET Cells /\ IsFiniteSet(kv)
      /\ Cardinality(kv) <= NCells /\ Cardinality(kv) \in Nat /\ NCells \in Nat /\ 0 \in Nat
    BY SizesAssumption, FS_CardinalityType DEF DecodeFails, Inv, TypeOK, SweepInv
<1>4. /\ kv' \in SUBSET Cells /\ IsFiniteSet(kv') /\ Cardinality(kv') <= Cardinality(kv)
      /\ Cardinality(kv') \in Nat
    BY <1>3, SeqRmType, FS_CardinalityType
<1>5. /\ \A s \in Slots \ busy : SameCells(kv, kv', s)
      /\ \A s \in busy : CellsIn(kv', s) = {}
    BY <1>3, SeqRmOthers, SeqRmAll
<1>6. \A s \in Slots : slot'[s] = IF Idle(s) THEN slot[s]
                                  ELSE [ReleasedSlot(slot[s]) EXCEPT !.prompt = <<>>]
    BY DEF DecodeFails
<1>7. \A s \in Slots : slot[s] \in SlotRecord
    BY DEF Inv, TypeOK
<1>8. ASSUME NEW s \in Slots
      PROVE  /\ slot'[s] \in SlotRecord /\ slot'[s].state = "IDLE" /\ slot'[s].task = <<>>
             /\ slot'[s].parent = NoParent
             /\ slot'[s].prompt = IF Idle(s) THEN slot[s].prompt ELSE <<>>
    <2>1. CASE Idle(s)
      BY <1>6, <1>7, <2>1 DEF Inv, TypeOK, ParentsInv, Idle
    <2>2. CASE ~Idle(s)
      <3> DEFINE r == ReleasedSlot(slot[s])
      <3>1. /\ r \in SlotRecord /\ r.state = "IDLE" /\ r.task = <<>> /\ r.parent = NoParent
        BY <1>7, ReleasedRecord
      <3>2. slot'[s] = [r EXCEPT !.prompt = <<>>] /\ <<>> \in Seq(Tokens)
        BY <1>6, <2>2, EmptySeq
      <3> HIDE DEF r
      <3> QED BY <2>2, <3>1, <3>2 DEF SlotRecord
    <2> QED BY <2>1, <2>2
<1>9. slot' \in [Slots -> SlotRecord]
    <2>1. slot' = [s \in Slots |-> slot'[s]]
      BY DEF DecodeFails
    <2> QED BY <1>8, <2>1
<1>10. TypeOK'
    <2>1. NBatch \in 1 .. NBatch /\ 0 \in Nat /\ batch' \in Seq(BatchTokens)
      BY <1>1, SlotsType, EmptySeq
    <2>2. \A u \in Slots : Idle(u)' <=> slot'[u].task = <<>>
      BY <1>8 DEF Idle
    <2>3. Cardinality(kv') <= NCells
      BY <1>3, <1>4
    <2> QED BY <1>1, <1>4, <1>9, <2>1, <2>2, <2>3 DEF TypeOK, Phases, Inv
<1>11. SweepInv'
    BY <1>1, <1>4 DEF SweepInv
<1>12. ParentsInv'
    BY <1>8, SlotsType DEF ParentsInv
<1>13. PromptsInv' /\ DueInv' /\ OutputInv' /\ PendingInv'
    BY <1>2, <1>8 DEF PromptsInv, DueInv, OutputInv, PendingInv, IsDue
<1>14. ExactInv'
    <2> SUFFICES ASSUME NEW s \in Slots
                 PROVE  Exact(s)'
      BY DEF ExactInv
    <2>1. CASE Idle(s)
      <3>1. Exact(s)
        BY <2>1 DEF Inv, ExactInv, CopiedChild, Idle
      <3>2. Pending(s) = {}
        BY <2>1 DEF Inv, PendingInv, Idle
      <3>3. slot'[s].prompt = slot[s].prompt /\ SameCells(kv, kv', s)
        BY <1>5, <1>8, <2>1
      <3> QED BY <1>2, <3>1, <3>2, <3>3, ExactFollows
    <2>2. CASE ~Idle(s)
      BY <1>2, <1>5, <1>8, <2>2, ExactEmpty
    <2> QED BY <2>1, <2>2
<1> QED BY <1>10, <1>11, <1>12, <1>13, <1>14 DEF Inv

-----------------------------------------------------------------------------
(* pre_decode().                                                           *)

\* The sweep over the prompts moves on, or ends in decode() if there are tokens.
LEMMA AfterPromptEffect ==
    ASSUME TypeOK, pc = "prompt", AfterPrompt
    PROVE  /\ cursor' \in Slots /\ pc' \in {"prompt", "decode", "tasks"}
           /\ pc' = "prompt" => cursor' = cursor + 1
           /\ pc' \in {"decode", "tasks"} => cursor' = 0
           /\ pc' = "tasks" => batch' = <<>>
<1>1. CASE cursor + 1 < NSlots
    BY <1>1, SizesAssumption DEF AfterPrompt, TypeOK, Slots
<1>2. CASE ~(cursor + 1 < NSlots)
    BY <1>2, SlotsType DEF AfterPrompt
<1> QED BY <1>1, <1>2

\* A slot without a prompt to process is passed over.
LEMMA SkipPromptInv ==
    ASSUME Inv, SkipPrompt
    PROVE  Inv'
<1>1. /\ pc = "prompt" /\ off = 0 /\ AfterPrompt /\ TypeOK
      /\ slot' = slot /\ kv' = kv /\ batch' = batch /\ slot_batched' = slot_batched
      /\ off' = off /\ n_batch' = n_batch
    BY DEF SkipPrompt, Inv, SweepInv
<1>2. /\ cursor' \in Slots /\ pc' \in {"prompt", "decode", "tasks"}
      /\ pc' = "prompt" => cursor' = cursor + 1
      /\ pc' \in {"decode", "tasks"} => cursor' = 0
      /\ pc' = "tasks" => batch' = <<>>
    BY <1>1, AfterPromptEffect
<1>3. /\ \A s : Pending(s)' = Pending(s)
      /\ \A s, i : Open(s, i)' => Open(s, i)
      /\ \A s, i : i \in Int /\ Open(s, i) => Open(s, i)'
    <2>1. CASE pc' = "tasks"
      <3>1. Len(batch) = 0 /\ batch' = <<>>
        BY <1>1, <1>2, <2>1
      <3>2. \A s : Pending(s) = {}
        BY <1>1, <3>1 DEF Pending, FirstPending
      <3>3. \A s, i : i \in Int => ~Open(s, i)
        BY <1>1, <3>1 DEF Open
      <3> QED BY <2>1, <3>1, <3>2, <3>3, NothingInNextTasks
    <2>2. CASE pc' # "tasks"
      <3>1. {pc, pc'} \subseteq {"prompt", "decode", "crashed"} /\ UNCHANGED <<batch, off>>
        BY <1>1, <1>2, <2>2
      <3> QED BY <3>1, SameTokens
    <2> QED BY <2>1, <2>2
<1>4. \A s \in Slots : /\ Served(s) /\ IsDue(s) => IsDue(s)'
                       /\ slot[s].state = "GENERATING" /\ HasNext(s) => HasNext(s)'
    <2>1. \A s \in Slots : slot[s].i_batch \in Int
      BY <1>1 DEF TypeOK, SlotRecord
    <2> QED BY <1>1, <1>3, <2>1 DEF IsDue, HasNext
<1>5. ParentsInv' /\ PromptsInv' /\ DueInv' /\ OutputInv' /\ PendingInv' /\ ExactInv'
    BY <1>1, <1>3, <1>4, SlotsKept
<1>6. TypeOK'
    BY <1>1, <1>2 DEF TypeOK, Phases, Idle
<1>7. SweepInv'
    <2>1. pc' = "prompt" => \A i \in DOMAIN batch :
              slot[batch[i].slot].state = "GENERATING" \/ batch[i].slot < cursor + 1
      <3> SUFFICES ASSUME NEW i \in DOMAIN batch
                   PROVE  slot[batch[i].slot].state = "GENERATING" \/ batch[i].slot < cursor + 1
        OBVIOUS
      <3>1. batch[i] \in BatchTokens /\ cursor \in Slots
        BY <1>1, PendingType DEF Inv, TypeOK
      <3>2. slot[batch[i].slot].state = "GENERATING" \/ batch[i].slot < cursor
        BY <1>1 DEF Inv, SweepInv
      <3>3. batch[i].slot \in Nat /\ cursor \in Nat
        BY <3>1, SlotsType DEF BatchTokens
      <3> QED BY <3>2, <3>3
    <2> QED BY <1>1, <1>2, <2>1 DEF Inv, SweepInv
<1> QED BY <1>5, <1>6, <1>7 DEF Inv

\* Ranks number the generating slots from 0, without gaps.
LEMMA RankBijection ==
    /\ IsFiniteSet(Generating) /\ Cardinality(Generating) \in Nat
    /\ \A u \in Generating : Rank(u) \in 0 .. Cardinality(Generating) - 1
    /\ \A u, v \in Generating : Rank(u) = Rank(v) => u = v
    /\ \A k \in 0 .. Cardinality(Generating) - 1 : \E u \in Generating : Rank(u) = k
<1> DEFINE N == Cardinality(Generating)
           Below(s) == {u \in Generating : u < s}
<1>1. IsFiniteSet(Generating) /\ N \in Nat /\ Generating \subseteq Nat
    BY SlotsType, FS_Subset, FS_CardinalityType DEF Generating
<1>2. ASSUME NEW s PROVE IsFiniteSet(Below(s)) /\ Rank(s) = Cardinality(Below(s)) /\ Rank(s) \in Nat
    BY <1>1, FS_Subset, FS_CardinalityType DEF Rank
<1>3. \A s \in Generating : Rank(s) \in 0 .. N - 1
    <2> TAKE s \in Generating
    <2>1. Below(s) \in SUBSET Generating /\ s \notin Below(s)
      BY <1>1
    <2>2. Cardinality(Below(s)) <= N /\ Cardinality(Below(s)) # N
      BY <1>1, <2>1, FS_Subset
    <2> QED BY <1>1, <1>2, <2>2
<1>4. ASSUME NEW u \in Generating, NEW v \in Generating, u < v PROVE Rank(u) < Rank(v)
    <2>0. u \in Nat /\ v \in Nat
      BY <1>1
    <2>1. Below(u) \cup {u} \in SUBSET Below(v) /\ u \notin Below(u)
      <3>1. ASSUME NEW w \in Below(u) PROVE w \in Below(v)
        <4>1. w \in Nat /\ w < u
          BY <1>1
        <4> QED BY <1>4, <2>0, <4>1
      <3>2. u \in Below(v) /\ u \notin Below(u)
        BY <1>4, <2>0
      <3> QED BY <3>1, <3>2
    <2>2. IsFiniteSet(Below(u) \cup {u}) /\ Cardinality(Below(u) \cup {u}) = Cardinality(Below(u)) + 1
      BY <1>2, <2>1, FS_AddElement
    <2>3. Cardinality(Below(u) \cup {u}) <= Cardinality(Below(v))
      BY <1>2, <2>1, FS_Subset
    <2> QED BY <1>2, <2>2, <2>3
<1>5. \A u, v \in Generating : Rank(u) = Rank(v) => u = v
    <2> TAKE u, v \in Generating
    <2>1. u < v \/ v < u \/ u = v
      BY <1>1
    <2>2. Rank(u) \in Nat /\ Rank(v) \in Nat
      BY <1>2
    <2> QED BY <1>4, <2>1, <2>2
<1>6. \A k \in 0 .. N - 1 : \E u \in Generating : Rank(u) = k
    <2> DEFINE T == 0 .. N - 1
               f == [u \in Generating |-> Rank(u)]
    <2>1. IsFiniteSet(T) /\ Cardinality(T) = N
      <3>1. 0 \in Int /\ N - 1 \in Int /\ N \in Nat
        BY <1>1
      <3> HIDE DEF N
      <3>2. IsFiniteSet(0 .. N - 1) /\ Cardinality(0 .. N - 1) = IF 0 > N - 1 THEN 0 ELSE N - 1 - 0 + 1
        BY <3>1, FS_Interval
      <3> QED BY <3>1, <3>2
    <2>2. f \in [Generating -> T] /\ \A u \in Generating : f[u] = Rank(u)
      BY <1>3
    <2> HIDE DEF f, T, N
    <2>3. f \in Injection(Generating, T)
      BY <1>5, <2>2 DEF Injection, IsInjective
    <2>4. f \in Surjection(Generating, T)
      BY <2>1, <2>3, FS_Injection DEF N
    <2> QED BY <2>2, <2>4 DEF Surjection, T
<1> QED BY <1>1, <1>3, <1>5, <1>6

\* handle_last_sampled_token() adds one token for each generating slot.
LEMMA SampledTokensEffect ==
    LET N == Cardinality(Generating) IN
    /\ N \in Nat /\ Len(SampledTokens) = N /\ DOMAIN SampledTokens = 1 .. N
    /\ SampledTokens = [i \in 1 .. N |-> SampledTokens[i]]
    /\ \A i \in 1 .. N : \E s \in Generating :
          /\ Rank(s) = i - 1
          /\ SampledTokens[i] = [slot |-> s, token |-> slot[s].sampled,
                                 pos |-> Len(slot[s].prompt), output |-> TRUE]
    /\ \A s \in Generating :
          /\ Rank(s) + 1 \in 1 .. N
          /\ SampledTokens[Rank(s) + 1] = [slot |-> s, token |-> slot[s].sampled,
                                           pos |-> Len(slot[s].prompt), output |-> TRUE]
<1> DEFINE N == Cardinality(Generating)
           G(i) == CHOOSE u \in Generating : Rank(u) = i - 1
           T(s) == [slot |-> s, token |-> slot[s].sampled,
                    pos |-> Len(slot[s].prompt), output |-> TRUE]
<1>1. N \in Nat
    BY RankBijection
<1>2. SampledTokens = [i \in 1 .. N |-> T(G(i))]
    BY DEF SampledTokens
<1>3. \A i \in 1 .. N : G(i) \in Generating /\ Rank(G(i)) = i - 1
    <2> TAKE i \in 1 .. N
    <2>1. i - 1 \in 0 .. N - 1
      BY <1>1
    <2> QED BY <2>1, RankBijection
<1>4. \A s \in Generating : Rank(s) + 1 \in 1 .. N
    <2>1. \A s \in Generating : Rank(s) \in 0 .. N - 1
      BY RankBijection
    <2> QED BY <1>1, <2>1
<1>5. \A s \in Generating : G(Rank(s) + 1) = s
    <2> TAKE s \in Generating
    <2>1. Rank(G(Rank(s) + 1)) = Rank(s) /\ G(Rank(s) + 1) \in Generating
      <3>1. Rank(s) \in Int
        BY RankBijection
      <3> QED BY <1>3, <1>4, <3>1
    <2> QED BY <2>1, RankBijection
<1> HIDE DEF N, G, T
<1>6. Len(SampledTokens) = N /\ DOMAIN SampledTokens = 1 .. N
    BY <1>1, <1>2
<1>7. \A i \in 1 .. N : SampledTokens[i] = T(G(i))
    BY <1>2
<1>8. \A i \in 1 .. N : \E s \in Generating : Rank(s) = i - 1 /\ SampledTokens[i] = T(s)
    BY <1>3, <1>7
<1>9. \A s \in Generating : Rank(s) + 1 \in 1 .. N /\ SampledTokens[Rank(s) + 1] = T(s)
    BY <1>4, <1>5, <1>7
<1>10. SampledTokens = [i \in 1 .. N |-> SampledTokens[i]]
    BY <1>2
<1> QED BY <1>1, <1>6, <1>8, <1>9, <1>10 DEF N, T

\* A pass starts with the tokens sampled in the last one, each at the end of its
\* prompt.
LEMMA StartPassInv ==
    ASSUME Inv, StartPass
    PROVE  Inv'
<1>1. /\ pc = "tasks" /\ batch = <<>> /\ off = 0 /\ TypeOK
      /\ batch' = SampledTokens /\ pc' = "prompt" /\ cursor' = 0
      /\ kv' = kv /\ off' = off /\ n_batch' = n_batch
      /\ slot \in [Slots -> SlotRecord] /\ \A s \in Slots : slot[s] \in SlotRecord
    BY DEF StartPass, Inv, SweepInv, TypeOK
<1>2. /\ \A s : Pending(s) = {}
      /\ \A s, i : ~Open(s, i)
    BY <1>1, NothingInTasks
<1>3. \A s \in Slots : /\ slot[s].state # "DONE_PROMPT"
                       /\ slot[s].state = "GENERATING" => HasNext(s)
    BY <1>2 DEF Inv, DueInv, IsDue
<1> DEFINE G == Generating
           N == Cardinality(Generating)
<1>4. /\ N \in Nat /\ Len(batch') = N /\ DOMAIN batch' = 1 .. N
      /\ batch' = [i \in 1 .. N |-> batch'[i]]
      /\ \A i \in 1 .. N : \E s \in G :
            /\ Rank(s) = i - 1
            /\ batch'[i] = [slot |-> s, token |-> slot[s].sampled,
                            pos |-> Len(slot[s].prompt), output |-> TRUE]
      /\ \A s \in G :
            /\ Rank(s) + 1 \in 1 .. N
            /\ batch'[Rank(s) + 1] = [slot |-> s, token |-> slot[s].sampled,
                                      pos |-> Len(slot[s].prompt), output |-> TRUE]
    BY <1>1, SampledTokensEffect
<1>5. \A s \in G : Rank(s) \in Nat /\ Rank(s) < N /\ Rank(s) \in Int
    BY <1>4, RankBijection
<1>6. \A s \in G : /\ s \in Slots /\ slot[s].state = "GENERATING" /\ slot[s] \in SlotRecord
                   /\ slot[s].sampled \in Tokens /\ slot[s].prompt \in Seq(Tokens)
                   /\ Len(slot[s].prompt) \in Nat
    BY <1>1, <1>3, LenProperties DEF Generating, HasNext, SlotRecord
<1>7. ASSUME NEW s \in G
      PROVE  /\ slot'[s] \in SlotRecord /\ slot'[s].state = slot[s].state
             /\ slot'[s].task = slot[s].task /\ slot'[s].parent = slot[s].parent
             /\ slot'[s].i_batch = Rank(s)
             /\ slot'[s].prompt = Append(slot[s].prompt, slot[s].sampled)
    <2> DEFINE rec == slot[s]
               i == Rank(s)
               r == slot'[s]
    <2>1. r = [rec EXCEPT !.i_batch = i, !.prompt = Append(@, rec.sampled), !.sampled = NoToken]
      BY <1>6 DEF StartPass
    <2>2. rec \in SlotRecord /\ rec.sampled \in Tokens /\ i \in Int
      BY <1>5, <1>6
    <2> HIDE DEF rec, i, r
    <2> DEFINE more == Append(rec.prompt, rec.sampled)
    <2>3. more \in Seq(Tokens)
      BY <2>2, AppendProperties DEF SlotRecord
    <2>4. r = [[[rec EXCEPT !.i_batch = i] EXCEPT !.prompt = more] EXCEPT !.sampled = NoToken]
      BY <2>1, <2>2 DEF SlotRecord
    <2> HIDE DEF more
    <2>5. /\ r \in SlotRecord /\ r.state = rec.state /\ r.task = rec.task /\ r.parent = rec.parent
          /\ r.i_batch = i /\ r.prompt = more
      BY <2>2, <2>3, <2>4 DEF SlotRecord
    <2> QED BY <2>5 DEF rec, i, r, more
<1>8. \A s \in Slots : s \notin G => slot'[s] = slot[s] /\ slot[s].state # "GENERATING"
    BY DEF StartPass, Generating
<1>9. slot' = [s \in Slots |-> slot'[s]]
    BY DEF StartPass
<1>10. \A s \in Slots : /\ slot'[s] \in SlotRecord
                        /\ slot'[s].state = slot[s].state /\ slot'[s].task = slot[s].task
                        /\ slot'[s].parent = slot[s].parent
    BY <1>1, <1>7, <1>8
<1> HIDE DEF G, N
<1>11. /\ \A s \in G : Pending(s)' = {Rank(s) + 1}
       /\ \A s : s \notin G => Pending(s)' = {}
    <2>1. FirstPending' = 1
      BY <1>1 DEF FirstPending
    <2>2. \A s : Pending(s)' = {i \in 1 .. N : batch'[i].slot = s}
      BY <1>4, <2>1 DEF Pending
    <2>3. \A i \in 1 .. N : batch'[i].slot \in G /\ Rank(batch'[i].slot) = i - 1
      BY <1>4
    <2>4. ASSUME NEW s \in G PROVE batch'[Rank(s) + 1].slot = s /\ Rank(s) + 1 \in 1 .. N
      <3>1. /\ batch'[Rank(s) + 1] = [slot |-> s, token |-> slot[s].sampled,
                                      pos |-> Len(slot[s].prompt), output |-> TRUE]
            /\ Rank(s) + 1 \in 1 .. N
        BY <1>4
      <3> QED BY <3>1
    <2>5. ASSUME NEW s \in G PROVE Pending(s)' = {Rank(s) + 1}
      <3>1. \A i \in Pending(s)' : i \in 1 .. N /\ Rank(s) = i - 1
        BY <2>2, <2>3
      <3>2. \A i \in Pending(s)' : i = Rank(s) + 1
        BY <1>4, <1>5, <3>1
      <3>3. Rank(s) + 1 \in Pending(s)'
        BY <2>2, <2>4
      <3> QED BY <3>2, <3>3
    <2> QED BY <2>2, <2>3, <2>5
<1>12. batch' \in Seq(BatchTokens)
    <2>1. ASSUME NEW i \in 1 .. N PROVE batch'[i] \in BatchTokens
      <3>1. PICK s \in G : batch'[i] = [slot |-> s, token |-> slot[s].sampled,
                                        pos |-> Len(slot[s].prompt), output |-> TRUE]
        BY <1>4
      <3>2. s \in Slots /\ slot[s].sampled \in Tokens /\ Len(slot[s].prompt) \in Nat
        BY <1>6
      <3> QED BY <3>1, <3>2 DEF BatchTokens
    <2>2. batch' \in [1 .. N -> BatchTokens]
      BY <1>4, <2>1
    <2> QED BY <1>4, <2>2, SeqDef
<1>13. slot_batched' \in Slots \cup {NoSlot}
    <2>1. CASE Generating = {}
      BY <2>1 DEF StartPass
    <2>2. CASE Generating # {}
      <3>1. Generating \in SUBSET Nat /\ Generating \subseteq Slots
        BY SlotsType DEF Generating
      <3>2. Least(Generating) \in Generating
        BY <2>2, <3>1, LeastExists
      <3> QED BY <2>2, <3>1, <3>2 DEF StartPass
    <2> QED BY <2>1, <2>2
<1>14. TypeOK'
    <2>1. slot' \in [Slots -> SlotRecord]
      BY <1>9, <1>10
    <2>2. \A s \in Slots : Idle(s)' <=> slot'[s].task = <<>>
      BY <1>1, <1>10 DEF TypeOK, Idle
    <2> QED BY <1>1, <1>12, <1>13, <2>1, <2>2, SlotsType DEF TypeOK, Phases
<1>15. SweepInv'
    <2>1. \A i \in DOMAIN batch' : slot'[batch'[i].slot].state = "GENERATING"
      BY <1>4, <1>6, <1>7
    <2>2. off' <= Len(batch') /\ off' = 0
      BY <1>1, <1>4
    <2>3. pc' = "prompt" /\ IsFiniteSet(kv')
      BY <1>1 DEF Inv, SweepInv
    <2> QED BY <2>1, <2>2, <2>3 DEF SweepInv
<1>16. ParentsInv'
    <2> SUFFICES ASSUME NEW s \in Slots
                 PROVE  (/\ slot[s].state \in {"IDLE", "STARTED", "PROCESSING_PROMPT"} =>
                                slot[s].parent = NoParent
                         /\ slot[s].parent \in Slots =>
                                slot[slot[s].parent].parent = NoParent /\ ~Idle(slot[s].parent))'
      BY DEF ParentsInv
    <2> QED BY <1>10 DEF Inv, ParentsInv, Idle
<1>17. PromptsInv'
    <2>1. \A s \in Slots : slot'[s].state = "PROCESSING_PROMPT" => slot'[s] = slot[s]
      BY <1>6, <1>7, <1>8
    <2> QED BY <2>1 DEF Inv, PromptsInv
<1>18. \A s \in Slots : Served(s)' => s \in G
    BY <1>3, <1>8 DEF Served
<1>19. DueInv'
    <2>1. \A s \in G : IsDue(s)'
      BY <1>1, <1>4, <1>5, <1>7 DEF IsDue, Open
    <2> QED BY <1>18, <2>1 DEF DueInv, Served
<1>20. OutputInv'
    <2> SUFFICES ASSUME NEW s \in Slots, Served(s)', IsDue(s)'
                 PROVE  LET last == batch[slot[s].i_batch + 1] IN
                        (/\ last.output /\ last.pos = Len(slot[s].prompt) - 1
                         /\ IF slot[s].state = "DONE_PROMPT" /\ IsChild(s)
                            THEN SharesOutput(s, last.slot)
                            ELSE last.slot = s)'
      BY DEF OutputInv
    <2>1. s \in G /\ slot'[s].state # "DONE_PROMPT"
      BY <1>6, <1>7, <1>18
    <2>2. batch'[slot'[s].i_batch + 1] = [slot |-> s, token |-> slot[s].sampled,
                                          pos |-> Len(slot[s].prompt), output |-> TRUE]
      BY <1>4, <1>7, <2>1
    <2>3. Len(slot'[s].prompt) = Len(slot[s].prompt) + 1
      BY <1>6, <1>7, <2>1, AppendProperties
    <2>4. Len(slot'[s].prompt) - 1 = Len(slot[s].prompt)
      BY <1>6, <2>1, <2>3
    <2> QED BY <2>1, <2>2, <2>4
<1>21. PendingInv'
    <2> SUFFICES ASSUME NEW s \in Slots, NEW i \in Pending(s)'
                 PROVE  /\ slot'[s].state \in {"PROCESSING_PROMPT", "DONE_PROMPT", "GENERATING"}
                        /\ i <= slot'[s].i_batch + 1
      BY DEF PendingInv
    <2>1. s \in G /\ i = Rank(s) + 1
      BY <1>11
    <2> QED BY <1>5, <1>6, <1>7, <2>1
<1>22. ExactInv'
    <2> SUFFICES ASSUME NEW s \in Slots, ~CopiedChild(s)'
                 PROVE  Exact(s)'
      BY DEF ExactInv
    <2>0. CellsOf(s)' = CellsOf(s) /\ ~CopiedChild(s) /\ Exact(s)
      BY <1>1, <1>10 DEF CellsOf, CopiedChild, IsChild, Inv, ExactInv
    <2>1. CASE s \notin G
      <3>1. slot'[s].prompt = slot[s].prompt /\ Pending(s)' = Pending(s) /\ Pending(s) = {}
        BY <1>2, <1>8, <1>11, <2>1
      <3> QED BY <1>1, <2>0, <3>1, SameCellsTrivial, ExactFollows
    <2>2. CASE s \in G
      <3> DEFINE L == Len(slot[s].prompt)
                 i == Rank(s) + 1
      <3>1. /\ L \in Nat /\ Len(slot'[s].prompt) = L + 1
            /\ \A k \in 1 .. L : slot'[s].prompt[k] = slot[s].prompt[k]
            /\ slot'[s].prompt[L + 1] = slot[s].sampled
        <4>1. slot[s].prompt \in Seq(Tokens) /\ slot[s].sampled \in Tokens
          BY <1>6, <2>2
        <4>2. slot'[s].prompt = Append(slot[s].prompt, slot[s].sampled)
          BY <1>7, <2>2
        <4> QED BY <4>1, <4>2, AppendProperties, LenProperties
      <3>2. /\ Pending(s)' = {i} /\ batch'[i].pos = L /\ batch'[i].token = slot[s].sampled
        <4>1. Pending(s)' = {i}
          BY <1>11, <2>2
        <4>2. batch'[i] = [slot |-> s, token |-> slot[s].sampled, pos |-> L, output |-> TRUE]
          BY <1>4, <2>2
        <4> QED BY <4>1, <4>2
      <3> HIDE DEF L, i
      <3>3. \A c \in CellsOf(s) : c.pos \in Nat /\ c.pos < L /\ c.token = slot[s].prompt[c.pos + 1]
        <4>1. \A c \in CellsOf(s) : c \in Cells
          BY <1>1 DEF CellsOf, TypeOK
        <4> QED BY <2>0, <4>1 DEF Exact, At, Cells, L
      <3>4. \A c \in CellsOf(s)' : At(s, c.pos, c.token)'
        <4> TAKE c \in CellsOf(s)'
        <4>1. c.pos \in Nat /\ c.pos < L /\ c.token = slot[s].prompt[c.pos + 1]
          BY <2>0, <3>3
        <4>2. c.pos + 1 \in 1 .. L /\ c.pos < L + 1
          BY <3>1, <4>1
        <4> QED BY <3>1, <4>1, <4>2 DEF At
      <3>5. \A c, d \in CellsOf(s)' : c.pos = d.pos => c = d
        BY <2>0 DEF Exact
      <3>6. \A j \in Pending(s)' : At(s, batch[j].pos, batch[j].token)'
        <4> TAKE j \in Pending(s)'
        <4>1. batch'[j].pos = L /\ batch'[j].token = slot[s].sampled
          BY <3>2
        <4> QED BY <3>1, <4>1 DEF At
      <3>7. \A c \in CellsOf(s)', j \in Pending(s)' : c.pos # batch'[j].pos
        BY <2>0, <3>1, <3>2, <3>3
      <3>8. \A k \in 0 .. Len(slot'[s].prompt) - 1 :
               (\E c \in CellsOf(s)' : c.pos = k) \/ (\E j \in Pending(s)' : batch'[j].pos = k)
        <4> TAKE k \in 0 .. Len(slot'[s].prompt) - 1
        <4>1. k = L \/ k \in 0 .. L - 1
          BY <3>1
        <4>2. k \in 0 .. L - 1 => \E c \in CellsOf(s) : c.pos = k
          BY <1>2, <2>0 DEF Exact, L
        <4> QED BY <2>0, <3>2, <4>1, <4>2
      <3> QED BY <3>2, <3>4, <3>5, <3>6, <3>7, <3>8 DEF Exact
    <2> QED BY <2>1, <2>2
<1> QED BY <1>14, <1>15, <1>16, <1>17, <1>19, <1>20, <1>21, <1>22 DEF Inv

\* n_past: the part of its task a slot has already, in its cells.
LEMMA PastIsPrefix ==
    ASSUME Inv, NEW s \in Slots, slot[s].state \in {"STARTED", "PROCESSING_PROMPT"},
           NEW n_past \in IF slot[s].state = "STARTED" THEN Reusable(s) ELSE {Len(slot[s].prompt)},
           slot[s].state = "PROCESSING_PROMPT" => n_past <= Len(slot[s].task)
    PROVE  /\ n_past \in Nat /\ n_past <= Len(slot[s].prompt) /\ n_past <= Len(slot[s].task)
           /\ \A k \in 1 .. n_past : slot[s].prompt[k] = slot[s].task[k]
<1> DEFINE p == slot[s].prompt
           q == slot[s].task
<1>1. /\ p \in Seq(Tokens) /\ q \in Seq(Tokens) /\ Len(p) \in Nat /\ Len(q) \in Nat
    BY LenProperties DEF Inv, TypeOK, SlotRecord
<1>2. q # <<>>
    BY DEF Inv, TypeOK, Idle
<1>3. Len(q) > 0
    BY <1>1, <1>2, EmptySeq, LenProperties
<1>4. CASE slot[s].state = "STARTED"
    <2> DEFINE n == CommonPrefix(p, q)
    <2>1. n_past \in {0, IF n = Len(q) THEN n - 1 ELSE n}
      BY <1>4 DEF Reusable
    <2>2. n \in Nat /\ n <= Len(p) /\ n <= Len(q) /\ SubSeq(p, 1, n) = SubSeq(q, 1, n)
      BY <1>1, CommonPrefixType
    <2> HIDE DEF n, p, q
    <2>3. \A k \in 1 .. n : p[k] = q[k]
      <3> TAKE k \in 1 .. n
      <3>1. SubSeq(p, 1, n)[k] = p[k]
        BY <1>1, <2>2
      <3>2. SubSeq(q, 1, n)[k] = q[k]
        BY <1>1, <2>2
      <3> QED BY <2>2, <3>1, <3>2
    <2>4. n_past \in Nat /\ n_past <= n
      BY <1>3, <2>1, <2>2
    <2> QED BY <1>1, <2>2, <2>3, <2>4 DEF p, q
<1>5. CASE slot[s].state = "PROCESSING_PROMPT"
    <2>1. n_past = Len(p) /\ Len(p) <= Len(q)
      BY <1>5
    <2>2. p = SubSeq(q, 1, Len(p))
      BY <1>5 DEF Inv, PromptsInv
    <2> HIDE DEF p, q
    <2>3. \A k \in 1 .. Len(p) : SubSeq(q, 1, Len(p))[k] = q[k]
      BY <1>1, <2>1
    <2> QED BY <1>1, <2>1, <2>2, <2>3 DEF p, q
<1> QED BY <1>4, <1>5

Extended(s, n_past, n) == batch \o PromptTokens(s, n_past, n)

\* The next tokens of a prompt, at the positions after those it has.
GoesOn(b, s, n_past, n) ==
    /\ b \in Seq(BatchTokens) /\ Len(batch) \in Nat /\ Len(b) = Len(batch) + n
    /\ DOMAIN b = 1 .. Len(batch) + n /\ DOMAIN batch = 1 .. Len(batch)
    /\ \A i \in 1 .. Len(batch) : b[i] = batch[i]
    /\ \A j \in 1 .. n :
          /\ b[Len(batch) + j].slot = s /\ b[Len(batch) + j].token = slot[s].task[n_past + j]
          /\ b[Len(batch) + j].pos = n_past + j - 1
          /\ b[Len(batch) + j].output = (n_past + j = Len(slot[s].task))

\* They follow what the batch holds already.
LEMMA PromptTokensEffect ==
    ASSUME TypeOK, NEW s \in Slots, NEW n_past \in Nat, NEW n \in Nat,
           n_past + n <= Len(slot[s].task), NEW b, b = Extended(s, n_past, n)
    PROVE  GoesOn(b, s, n_past, n)
<1> DEFINE t == PromptTokens(s, n_past, n)
           T(i) == [slot |-> s, token |-> slot[s].task[n_past + i], pos |-> n_past + i - 1,
                    output |-> n_past + i = Len(slot[s].task)]
<1>1. slot[s].task \in Seq(Tokens) /\ batch \in Seq(BatchTokens)
    BY DEF TypeOK, SlotRecord
<1>2. t = [i \in 1 .. n |-> T(i)]
    BY DEF PromptTokens
<1>3. \A i \in 1 .. n : T(i) \in BatchTokens
    <2> TAKE i \in 1 .. n
    <2>1. n_past + i \in 1 .. Len(slot[s].task) /\ n_past + i - 1 \in Nat
      BY <1>1, LenProperties
    <2>2. slot[s].task[n_past + i] \in Tokens
      BY <1>1, <2>1, ElementOfSeq
    <2> QED BY <2>1, <2>2 DEF BatchTokens
<1>4. t \in Seq(BatchTokens) /\ Len(t) = n /\ \A i \in 1 .. n : t[i] = T(i)
    <2> HIDE DEF T, t
    <2>1. t \in [1 .. n -> BatchTokens]
      BY <1>2, <1>3
    <2>2. t \in Seq(BatchTokens)
      BY <2>1, SeqDef
    <2> QED BY <1>2, <2>1, <2>2
<1>9. b = batch \o t
    BY DEF Extended
<1> HIDE DEF t
<1>5. /\ b \in Seq(BatchTokens) /\ Len(batch) \in Nat /\ Len(b) = Len(batch) + n
      /\ \A i \in 1 .. Len(b) :
            b[i] = IF i <= Len(batch) THEN batch[i] ELSE t[i - Len(batch)]
    <2>1. /\ batch \o t \in Seq(BatchTokens) /\ Len(batch \o t) = Len(batch) + Len(t)
          /\ \A i \in 1 .. Len(batch) + Len(t) :
                (batch \o t)[i] = IF i <= Len(batch) THEN batch[i] ELSE t[i - Len(batch)]
      <3>1. Len(batch) \in Nat /\ Len(t) \in Nat /\ batch \in Seq(BatchTokens) /\ t \in Seq(BatchTokens)
        BY <1>1, <1>4, LenProperties
      <3>2. batch \o t \in Seq(BatchTokens)
        BY <3>1, ConcatProperties
      <3>3. Len(batch \o t) = Len(batch) + Len(t)
        BY <3>1, ConcatProperties
      <3>4. \A i \in 1 .. Len(batch) + Len(t) :
                (batch \o t)[i] = IF i <= Len(batch) THEN batch[i] ELSE t[i - Len(batch)]
        BY <3>1, ConcatProperties
      <3> QED BY <3>2, <3>3, <3>4
    <2> QED BY <1>1, <1>4, <1>9, <2>1, LenProperties
<1>6. DOMAIN b = 1 .. Len(batch) + n /\ DOMAIN batch = 1 .. Len(batch)
    BY <1>1, <1>5, LenProperties
<1>7. \A i \in 1 .. Len(batch) : b[i] = batch[i]
    BY <1>5
<1>8. ASSUME NEW j \in 1 .. n
      PROVE  /\ b[Len(batch) + j].slot = s /\ b[Len(batch) + j].token = slot[s].task[n_past + j]
             /\ b[Len(batch) + j].pos = n_past + j - 1
             /\ b[Len(batch) + j].output = (n_past + j = Len(slot[s].task))
    <2>1. /\ Len(batch) + j \in 1 .. Len(b) /\ ~(Len(batch) + j <= Len(batch))
          /\ Len(batch) + j - Len(batch) = j
      BY <1>5
    <2>2. b[Len(batch) + j] = T(j)
      <3> HIDE DEF T
      <3> QED BY <1>4, <1>5, <2>1
    <2> QED BY <2>2
<1> QED BY <1>5, <1>6, <1>7, <1>8 DEF GoesOn

\* A prompt goes on after what its slot has in its cells, and the cells beyond are
\* removed.
LEMMA AddPromptTokensInv ==
    ASSUME Inv, AddPromptTokens, NEW s, s = cursor
    PROVE  Inv'
<1> DEFINE task == slot[s].task
           B == Len(batch)
<1>1. /\ pc = "prompt" /\ off = 0 /\ AfterPrompt /\ TypeOK /\ SweepInv
      /\ slot[s].state \in {"STARTED", "PROCESSING_PROMPT"}
      /\ off' = off /\ n_batch' = n_batch
      /\ slot_batched' = IF slot_batched = NoSlot THEN s ELSE slot_batched
    BY DEF AddPromptTokens, Fillable, Inv, SweepInv
<1>2. /\ s \in Slots /\ s \in Nat /\ slot \in [Slots -> SlotRecord]
      /\ \A u \in Slots : slot[u] \in SlotRecord /\ slot[u].i_batch \in Int
      /\ kv \in SUBSET Cells /\ IsFiniteSet(kv) /\ Cardinality(kv) <= NCells
      /\ Cardinality(kv) \in Nat /\ NCells \in Nat
    BY <1>1, SlotsType, SizesAssumption, FS_CardinalityType DEF TypeOK, SweepInv, SlotRecord
<1>3. PICK n_past \in IF slot[s].state = "STARTED" THEN Reusable(s) ELSE {Len(slot[s].prompt)},
           n \in 1 .. NBatch - Len(batch) :
          /\ n_past + n <= Len(task)
          /\ batch' = batch \o PromptTokens(s, n_past, n)
          /\ slot' = [slot EXCEPT
                ![s].prompt = SubSeq(task, 1, n_past + n),
                ![s].state = IF n_past + n = Len(task) THEN "DONE_PROMPT" ELSE "PROCESSING_PROMPT",
                ![s].i_batch = IF n_past + n = Len(task) THEN Len(batch) + n - 1 ELSE @]
          /\ kv' = SeqRm(kv, {s}, n_past)
    BY DEF AddPromptTokens
<1>4. /\ task \in Seq(Tokens) /\ Len(task) \in Nat /\ B \in Nat /\ NBatch \in Nat
      /\ slot[s].prompt \in Seq(Tokens) /\ Len(slot[s].prompt) \in Nat /\ n \in Nat /\ n >= 1
    <2>1. task \in Seq(Tokens) /\ batch \in Seq(BatchTokens) /\ slot[s].prompt \in Seq(Tokens)
      BY <1>1, <1>2 DEF TypeOK, SlotRecord
    <2>2. Len(task) \in Nat /\ Len(batch) \in Nat /\ Len(slot[s].prompt) \in Nat
      BY <2>1, LenProperties
    <2> QED BY <2>1, <2>2, SlotsType
<1>5. /\ n_past \in Nat /\ n_past <= Len(slot[s].prompt) /\ n_past <= Len(task)
      /\ \A k \in 1 .. n_past : slot[s].prompt[k] = task[k]
    <2>1. slot[s].state = "PROCESSING_PROMPT" => n_past <= Len(slot[s].task)
      BY <1>3, <1>4
    <2> QED BY <1>1, <1>2, <2>1, PastIsPrefix
<1> DEFINE m == n_past + n
<1>6. m \in Nat /\ m >= 1 /\ m <= Len(task) /\ n_past < m
    BY <1>3, <1>4, <1>5
<1>7. /\ batch' \in Seq(BatchTokens) /\ Len(batch') = B + n
      /\ DOMAIN batch' = 1 .. B + n /\ DOMAIN batch = 1 .. B
      /\ \A i \in 1 .. B : batch'[i] = batch[i]
      /\ \A j \in 1 .. n :
            /\ batch'[B + j].slot = s /\ batch'[B + j].token = task[n_past + j]
            /\ batch'[B + j].pos = n_past + j - 1
            /\ batch'[B + j].output = (n_past + j = Len(task))
    <2>1. /\ n_past + n <= Len(slot[s].task)
          /\ batch' = Extended(s, n_past, n)
      BY <1>3 DEF Extended
    <2>2. TypeOK /\ s \in Slots /\ n_past \in Nat /\ n \in Nat
      BY <1>1, <1>2, <1>4, <1>5
    <2> HIDE DEF m
    <2>3. GoesOn(batch', s, n_past, n)
      BY <2>1, <2>2, PromptTokensEffect
    <2> QED BY <2>3 DEF GoesOn
<1>8. /\ slot'[s] \in SlotRecord /\ slot'[s].prompt = SubSeq(task, 1, m)
      /\ slot'[s].state = IF m = Len(task) THEN "DONE_PROMPT" ELSE "PROCESSING_PROMPT"
      /\ slot'[s].i_batch = IF m = Len(task) THEN B + n - 1 ELSE slot[s].i_batch
      /\ slot'[s].task = task /\ slot'[s].parent = slot[s].parent
      /\ slot'[s].sampled = slot[s].sampled
    <2> DEFINE rec == slot[s]
               prompt == SubSeq(task, 1, m)
               state == IF m = Len(task) THEN "DONE_PROMPT" ELSE "PROCESSING_PROMPT"
               i == IF m = Len(task) THEN B + n - 1 ELSE rec.i_batch
    <2>1. slot'[s] = [[[rec EXCEPT !.prompt = prompt] EXCEPT !.state = state] EXCEPT !.i_batch = i]
      BY <1>2, <1>3 DEF SlotRecord
    <2>2. rec \in SlotRecord /\ state \in States /\ i \in Int /\ prompt \in Seq(Tokens)
      BY <1>2, <1>4, <1>6, SubSeqProperties DEF States
    <2> HIDE DEF rec, prompt, state, i
    <2>3. /\ slot'[s] \in SlotRecord /\ slot'[s].prompt = prompt /\ slot'[s].state = state
          /\ slot'[s].i_batch = i /\ slot'[s].task = rec.task /\ slot'[s].parent = rec.parent
          /\ slot'[s].sampled = rec.sampled
      BY <2>1, <2>2 DEF SlotRecord
    <2> QED BY <2>3 DEF rec, prompt, state, i
<1>9. \A u \in Slots \ {s} : slot'[u] = slot[u]
    BY <1>2, <1>3
<1>10. slot' \in [Slots -> SlotRecord]
    <2>1. slot' = [u \in Slots |-> slot'[u]]
      BY <1>2, <1>3
    <2>2. \A u \in Slots : slot'[u] \in SlotRecord
      BY <1>2, <1>8, <1>9
    <2> QED BY <2>1, <2>2
<1>11. /\ Len(slot'[s].prompt) = m /\ \A k \in 1 .. m : slot'[s].prompt[k] = task[k]
    <2> HIDE DEF m, task
    <2> QED BY <1>4, <1>6, <1>8
<1>12. /\ kv' \in SUBSET Cells /\ IsFiniteSet(kv') /\ Cardinality(kv') <= NCells
       /\ \A u \in Slots \ {s} : SameCells(kv, kv', u)
       /\ CellsIn(kv', s) = {c \in CellsIn(kv, s) : c.pos < n_past}
    <2>1. kv' = SeqRm(kv, {s}, n_past)
      BY <1>3
    <2>2. kv' \in SUBSET Cells /\ IsFiniteSet(kv') /\ Cardinality(kv') <= Cardinality(kv)
      BY <1>2, <1>5, <2>1, SeqRmType
    <2>3. Cardinality(kv') <= NCells
      BY <1>2, <2>2, FS_CardinalityType
    <2>4. \A u \in Slots \ {s} : SameCells(kv, kv', u)
      BY <1>2, <1>5, <2>1, SeqRmOthers
    <2>5. CellsIn(kv', s) = {c \in CellsIn(kv, s) : c.pos < n_past}
      BY <1>2, <1>5, <2>1, SeqRmBelow
    <2> QED BY <2>2, <2>3, <2>4, <2>5
<1>13. /\ cursor' \in Slots /\ pc' \in {"prompt", "decode"}
       /\ pc' = "prompt" => cursor' = cursor + 1
       /\ pc' = "decode" => cursor' = 0
    <2>1. /\ cursor' \in Slots /\ pc' \in {"prompt", "decode", "tasks"}
          /\ pc' = "prompt" => cursor' = cursor + 1
          /\ pc' \in {"decode", "tasks"} => cursor' = 0
          /\ pc' = "tasks" => batch' = <<>>
      BY <1>1, AfterPromptEffect
    <2>2. batch' # <<>>
      <3>1. Len(batch') # 0
        BY <1>4, <1>7
      <3> QED BY <3>1
    <2> QED BY <2>1, <2>2
<1> HIDE DEF task, B, m
<1>14. Pending(s) = {} /\ Pending(s)' = B + 1 .. B + n
    <2>1. FirstPending = 1 /\ FirstPending' = 1
      BY <1>1, <1>13 DEF FirstPending
    <2>2. Pending(s) = {i \in 1 .. B : batch[i].slot = s}
      BY <2>1 DEF Pending, B
    <2>3. \A i \in 1 .. B : batch[i].slot # s
      <3> TAKE i \in 1 .. B
      <3>1. slot[batch[i].slot].state = "GENERATING" \/ batch[i].slot < s
        BY <1>1, <1>7 DEF SweepInv
      <3> QED BY <1>1, <1>2, <3>1
    <2>4. Pending(s)' = {i \in 1 .. B + n : batch'[i].slot = s}
      BY <1>7, <2>1 DEF Pending
    <2>5. \A i \in 1 .. B + n : batch'[i].slot = s <=> i \in B + 1 .. B + n
      <3> TAKE i \in 1 .. B + n
      <3>1. i \in 1 .. B \/ i \in B + 1 .. B + n
        BY <1>4
      <3>2. i \in 1 .. B => batch'[i].slot # s /\ ~(i \in B + 1 .. B + n)
        BY <1>4, <1>7, <2>3
      <3>3. ASSUME i \in B + 1 .. B + n PROVE batch'[i].slot = s
        <4>1. i - B \in 1 .. n /\ B + (i - B) = i
          BY <1>4, <3>3
        <4> QED BY <1>7, <4>1
      <3> QED BY <3>1, <3>2, <3>3
    <2>6. Pending(s)' = B + 1 .. B + n
      <3>1. B + 1 .. B + n \subseteq 1 .. B + n
        BY <1>4
      <3> QED BY <2>4, <2>5, <3>1
    <2> QED BY <2>2, <2>3, <2>6
<1>15. /\ \A u \in Slots \ {s} : Pending(u)' = Pending(u)
       /\ \A u \in Slots : \A i \in Pending(u) : i \in 1 .. B /\ batch'[i] = batch[i]
       /\ \A u \in Slots, i \in Int : Open(u, i) => Open(u, i)' /\ batch'[i + 1] = batch[i + 1]
    <2>1. FirstPending = 1 /\ FirstPending' = 1
      BY <1>1, <1>13 DEF FirstPending
    <2>2. \A u : Pending(u) = {i \in 1 .. B : batch[i].slot = u}
      BY <2>1 DEF Pending, B
    <2>3. \A u : Pending(u)' = {i \in 1 .. B + n : batch'[i].slot = u}
      BY <1>7, <2>1 DEF Pending
    <2>4. ASSUME NEW u \in Slots \ {s} PROVE Pending(u)' = Pending(u)
      <3>1. ASSUME NEW i \in 1 .. B + n, i \notin 1 .. B PROVE batch'[i].slot = s
        <4>1. i - B \in 1 .. n /\ B + (i - B) = i
          BY <1>4, <3>1
        <4> QED BY <1>7, <4>1
      <3>2. 1 .. B \subseteq 1 .. B + n
        BY <1>4
      <3> QED BY <1>7, <2>2, <2>3, <3>1, <3>2
    <2>5. ASSUME NEW u \in Slots, NEW i \in Int, Open(u, i)
          PROVE  Open(u, i)' /\ batch'[i + 1] = batch[i + 1]
      <3>1. i >= 0 /\ i < B /\ i + 1 \in 1 .. B
        BY <1>1, <1>4, <2>5 DEF Open, B
      <3> QED BY <1>1, <1>4, <1>7, <1>13, <3>1 DEF Open
    <2> QED BY <1>7, <2>2, <2>4, <2>5
<1>16. /\ slot[s].parent = NoParent /\ Exact(s) /\ ~Idle(s) /\ ~Served(s)
       /\ \A u \in Slots : slot[u].state = "GENERATING" => IsDue(u)
    BY <1>1, <1>2 DEF Inv, ParentsInv, ExactInv, CopiedChild, IsChild, Idle, Served, DueInv, HasNext
<1>17. /\ ~Idle(s)' /\ slot'[s].state \in {"DONE_PROMPT", "PROCESSING_PROMPT"}
       /\ \A u \in Slots : (Idle(u)' <=> Idle(u)) /\ (IsChild(u)' <=> IsChild(u))
                           /\ slot'[u].parent = slot[u].parent
       /\ \A u \in Slots \ {s} : (Served(u)' <=> Served(u)) /\ (CopiedChild(u)' <=> CopiedChild(u))
    BY <1>8, <1>9, <1>16 DEF Idle, IsChild, Served, CopiedChild
<1>18. TypeOK'
    <2>1. \A u \in Slots : Idle(u)' <=> slot'[u].task = <<>>
      BY <1>1, <1>8, <1>9, <1>17 DEF TypeOK, task
    <2>2. /\ slot_batched' \in Slots \cup {NoSlot} /\ off' \in Nat /\ n_batch' \in 1 .. NBatch
          /\ pc' \in Phases
      BY <1>1, <1>2, <1>13 DEF TypeOK, Phases
    <2> QED BY <1>7, <1>10, <1>12, <1>13, <2>1, <2>2 DEF TypeOK
<1>19. SweepInv'
    <2>1. ASSUME pc' = "prompt", NEW i \in DOMAIN batch'
          PROVE  slot'[batch'[i].slot].state = "GENERATING" \/ batch'[i].slot < cursor'
      <3>1. CASE i \in 1 .. B
        <4>1. batch'[i] = batch[i] /\ i \in DOMAIN batch
          BY <1>7, <3>1
        <4> DEFINE u == batch[i].slot
        <4>2. u \in Slots /\ u \in Nat
          <5>1. batch[i] \in BatchTokens
            BY <1>1, <4>1, PendingType
          <5> QED BY <5>1, SlotsType DEF BatchTokens
        <4>3. slot[u].state = "GENERATING" \/ u < s
          BY <1>1, <4>1 DEF SweepInv
        <4>4. slot[u].state = "GENERATING" => slot'[u] = slot[u]
          BY <1>1, <1>9, <4>2
        <4> HIDE DEF u
        <4> QED BY <1>2, <1>13, <2>1, <4>1, <4>2, <4>3, <4>4 DEF u
      <3>2. CASE i \notin 1 .. B
        <4>1. i - B \in 1 .. n /\ B + (i - B) = i
          BY <1>4, <1>7, <3>2
        <4>2. batch'[i].slot = s
          BY <1>7, <4>1
        <4> QED BY <1>2, <1>13, <2>1, <4>2
      <3> QED BY <3>1, <3>2
    <2>2. off' <= Len(batch') /\ off' = 0
      BY <1>1, <1>4, <1>7
    <2> QED BY <1>12, <1>13, <2>1, <2>2 DEF SweepInv
<1>20. ParentsInv'
    <2> SUFFICES ASSUME NEW u \in Slots
                 PROVE  (/\ slot[u].state \in {"IDLE", "STARTED", "PROCESSING_PROMPT"} =>
                                slot[u].parent = NoParent
                         /\ slot[u].parent \in Slots =>
                                slot[slot[u].parent].parent = NoParent /\ ~Idle(slot[u].parent))'
      BY DEF ParentsInv
    <2>1. slot'[u].state \in {"IDLE", "STARTED", "PROCESSING_PROMPT"} => slot'[u].parent = NoParent
      BY <1>9, <1>16, <1>17 DEF Inv, ParentsInv
    <2>2. ASSUME NEW p \in Slots, slot'[u].parent = p
          PROVE  slot'[p].parent = NoParent /\ ~Idle(p)'
      BY <1>17, <2>2 DEF Inv, ParentsInv
    <2> QED BY <2>1, <2>2
<1>21. PromptsInv'
    <2>1. slot'[s].prompt = SubSeq(slot'[s].task, 1, Len(slot'[s].prompt))
      BY <1>8, <1>11
    <2> QED BY <1>9, <2>1 DEF Inv, PromptsInv
<1>22. slot'[s].state = "DONE_PROMPT" =>
           /\ slot'[s].i_batch = B + n - 1 /\ m = Len(task)
           /\ batch'[B + n].slot = s /\ batch'[B + n].pos = m - 1 /\ batch'[B + n].output
    <2> HAVE slot'[s].state = "DONE_PROMPT"
    <2>1. m = Len(task) /\ slot'[s].i_batch = B + n - 1
      BY <1>8
    <2>2. n \in 1 .. n /\ n_past + n = m /\ n_past + n = Len(task)
      BY <1>4, <2>1 DEF m
    <2>3. /\ batch'[B + n].slot = s /\ batch'[B + n].pos = n_past + n - 1
          /\ batch'[B + n].output = (n_past + n = Len(task))
      BY <1>7, <2>2
    <2>4. batch'[B + n].output = TRUE
      BY <2>2, <2>3
    <2>5. n_past + n - 1 = m - 1
      BY <1>4, <1>5, <2>2
    <2>6. batch'[B + n].slot = s /\ batch'[B + n].pos = m - 1
      BY <2>3, <2>5
    <2> QED BY <2>1, <2>4, <2>6
<1>23. DueInv'
    <2> SUFFICES ASSUME NEW u \in Slots
                 PROVE  (/\ slot[u].state = "DONE_PROMPT" => IsDue(u)
                         /\ slot[u].state = "GENERATING" => IsDue(u) \/ HasNext(u))'
      BY DEF DueInv
    <2>1. CASE u = s
      <3>1. slot'[s].state # "GENERATING"
        BY <1>17
      <3>2. slot'[s].state = "DONE_PROMPT" => IsDue(s)'
        BY <1>1, <1>4, <1>7, <1>13, <1>22 DEF IsDue, Open
      <3> QED BY <2>1, <3>1, <3>2
    <2>2. CASE u # s
      <3>1. slot'[u] = slot[u] /\ slot[u].i_batch \in Int
        BY <1>2, <1>9, <2>2
      <3>2. slot[u].state \in {"DONE_PROMPT", "GENERATING"} => IsDue(u)
        BY <1>16 DEF Inv, DueInv
      <3> QED BY <1>15, <3>1, <3>2 DEF IsDue
    <2> QED BY <2>1, <2>2
<1>24. OutputInv'
    <2> SUFFICES ASSUME NEW u \in Slots, Served(u)', IsDue(u)'
                 PROVE  LET last == batch[slot[u].i_batch + 1] IN
                        (/\ last.output /\ last.pos = Len(slot[u].prompt) - 1
                         /\ IF slot[u].state = "DONE_PROMPT" /\ IsChild(u)
                            THEN SharesOutput(u, last.slot)
                            ELSE last.slot = u)'
      BY DEF OutputInv
    <2>1. CASE u = s
      <3>1. slot'[s].state = "DONE_PROMPT" /\ ~IsChild(s)'
        BY <1>16, <1>17, <2>1 DEF Served, IsChild
      <3>2. /\ slot'[s].i_batch + 1 = B + n /\ batch'[B + n].slot = s
            /\ batch'[B + n].pos = m - 1 /\ batch'[B + n].output
        BY <1>4, <1>22, <3>1
      <3> QED BY <1>11, <2>1, <3>1, <3>2
    <2>2. CASE u # s
      <3> DEFINE last == batch[slot[u].i_batch + 1]
      <3>1. slot'[u] = slot[u] /\ slot[u].i_batch \in Int /\ Served(u)
        BY <1>2, <1>9, <1>17, <2>2
      <3>2. IsDue(u)
        BY <1>16, <3>1 DEF Inv, DueInv, Served
      <3>3. batch'[slot'[u].i_batch + 1] = last
        BY <1>15, <3>1, <3>2 DEF IsDue
      <3>4. /\ last.output /\ last.pos = Len(slot[u].prompt) - 1
            /\ IF slot[u].state = "DONE_PROMPT" /\ IsChild(u)
               THEN SharesOutput(u, last.slot) ELSE last.slot = u
        BY <3>1, <3>2 DEF Inv, OutputInv
      <3>5. PICK p \in Slots : p = last.slot
        BY <1>1, <3>1, <3>2, OpenInBatch DEF IsDue
      <3>6. SharesOutput(u, p) => SharesOutput(u, p)'
        <4>1. CASE p = s
          BY <1>1, <4>1 DEF SharesOutput, Idle
        <4>2. CASE p # s
          BY <1>9, <3>1, <4>2 DEF SharesOutput, Idle
        <4> QED BY <4>1, <4>2
      <3> QED BY <1>17, <3>1, <3>3, <3>4, <3>5, <3>6
    <2> QED BY <2>1, <2>2
<1>25. PendingInv'
    <2> SUFFICES ASSUME NEW u \in Slots, NEW i \in Pending(u)'
                 PROVE  /\ slot'[u].state \in {"PROCESSING_PROMPT", "DONE_PROMPT", "GENERATING"}
                        /\ Served(u)' => i <= slot'[u].i_batch + 1
      BY DEF PendingInv
    <2>1. CASE u = s
      <3>1. i \in B + 1 .. B + n /\ i <= B + n
        BY <1>4, <1>14, <2>1
      <3>2. Served(s)' => slot'[s].i_batch + 1 = B + n
        BY <1>4, <1>17, <1>22 DEF Served
      <3> QED BY <1>17, <2>1, <3>1, <3>2
    <2>2. CASE u # s
      BY <1>9, <1>15, <1>17, <2>2 DEF Inv, PendingInv
    <2> QED BY <2>1, <2>2
<1>26. Exact(s)'
    <2>1. CellsOf(s)' = {c \in CellsOf(s) : c.pos < n_past}
      BY <1>12 DEF CellsOf, CellsIn
    <2>2. \A c \in CellsOf(s) : /\ c.pos \in Nat /\ c.pos < Len(slot[s].prompt)
                                /\ c.token = slot[s].prompt[c.pos + 1]
      <3>1. \A c \in CellsOf(s) : c \in Cells
        BY <1>2 DEF CellsOf
      <3> QED BY <1>16, <3>1 DEF Exact, At, Cells
    <2>3. \A c \in CellsOf(s)' : At(s, c.pos, c.token)'
      <3> TAKE c \in CellsOf(s)'
      <3>1. c \in CellsOf(s) /\ c.pos < n_past
        BY <2>1
      <3>2. c.pos + 1 \in 1 .. n_past /\ c.pos + 1 \in 1 .. m /\ c.pos < m
        BY <1>5, <1>6, <2>2, <3>1
      <3>3. c.token = slot'[s].prompt[c.pos + 1]
        BY <1>5, <1>11, <2>2, <3>1, <3>2 DEF task
      <3> QED BY <1>11, <3>2, <3>3 DEF At
    <2>4. \A c, d \in CellsOf(s)' : c.pos = d.pos => c = d
      BY <1>16, <2>1 DEF Exact
    <2>5. ASSUME NEW i \in Pending(s)'
          PROVE  /\ batch'[i].pos = n_past + (i - B) - 1 /\ batch'[i].token = task[n_past + (i - B)]
                 /\ i - B \in 1 .. n
      <3>1. i - B \in 1 .. n /\ B + (i - B) = i
        BY <1>4, <1>14
      <3> QED BY <1>7, <3>1
    <2>6. \A i \in Pending(s)' : At(s, batch[i].pos, batch[i].token)'
      <3> TAKE i \in Pending(s)'
      <3> DEFINE j == i - B
                 k == n_past + j
      <3>0. j \in 1 .. n /\ batch'[i].pos = n_past + j - 1 /\ batch'[i].token = task[n_past + j]
        BY <2>5
      <3> HIDE DEF j
      <3>1. k \in 1 .. m /\ k - 1 < m /\ k - 1 + 1 = k
        BY <1>4, <1>5, <3>0 DEF m
      <3>2. batch'[i].pos = k - 1 /\ batch'[i].token = task[k]
        BY <1>4, <1>5, <3>0
      <3> HIDE DEF k
      <3>3. slot'[s].prompt[k] = task[k]
        BY <1>11, <3>1
      <3> QED BY <1>11, <3>1, <3>2, <3>3 DEF At
    <2>7. \A i, j \in Pending(s)' : batch'[i].pos = batch'[j].pos => i = j
      <3> TAKE i, j \in Pending(s)'
      <3>1. i \in Int /\ j \in Int
        BY <1>4, <1>14
      <3>2. batch'[i].pos = n_past + (i - B) - 1 /\ batch'[j].pos = n_past + (j - B) - 1
        BY <2>5
      <3> QED BY <1>4, <1>5, <3>1, <3>2
    <2>8. \A c \in CellsOf(s)', i \in Pending(s)' : c.pos # batch'[i].pos
      <3> TAKE c \in CellsOf(s)', i \in Pending(s)'
      <3>1. c.pos \in Nat /\ c.pos < n_past
        BY <2>1, <2>2
      <3>2. batch'[i].pos = n_past + (i - B) - 1 /\ i - B \in 1 .. n
        BY <2>5
      <3> QED BY <1>4, <1>5, <3>1, <3>2
    <2>9. \A k \in 0 .. Len(slot'[s].prompt) - 1 :
              (\E c \in CellsOf(s)' : c.pos = k) \/ (\E i \in Pending(s)' : batch'[i].pos = k)
      <3> TAKE k \in 0 .. Len(slot'[s].prompt) - 1
      <3>0. k \in Nat /\ k < m
        BY <1>6, <1>11
      <3>1. CASE k < n_past
        <4>1. k \in 0 .. Len(slot[s].prompt) - 1
          BY <1>4, <1>5, <3>0, <3>1
        <4>2. \E c \in CellsOf(s) : c.pos = k
          BY <1>14, <1>16, <4>1 DEF Exact
        <4> QED BY <2>1, <3>1, <4>2
      <3>2. CASE ~(k < n_past)
        <4> DEFINE i == B + (k - n_past) + 1
        <4>1. i \in B + 1 .. B + n /\ n_past + (i - B) - 1 = k
          BY <1>4, <1>5, <3>0, <3>2 DEF m
        <4> HIDE DEF i
        <4>2. i \in Pending(s)' /\ batch'[i].pos = k
          BY <1>14, <2>5, <4>1
        <4> QED BY <4>2
      <3> QED BY <3>1, <3>2
    <2> QED BY <2>3, <2>4, <2>6, <2>7, <2>8, <2>9 DEF Exact
<1>27. ExactInv'
    <2> SUFFICES ASSUME NEW u \in Slots, ~CopiedChild(u)'
                 PROVE  Exact(u)'
      BY DEF ExactInv
    <2>1. CASE u = s
      BY <1>26, <2>1
    <2>2. CASE u # s
      <3>1. /\ Exact(u) /\ slot'[u].prompt = slot[u].prompt /\ SameCells(kv, kv', u)
            /\ Pending(u)' = Pending(u) /\ \A i \in Pending(u) : batch'[i] = batch[i]
        BY <1>9, <1>12, <1>15, <1>17, <2>2 DEF Inv, ExactInv
      <3> QED BY <3>1, ExactFollows
    <2> QED BY <2>1, <2>2
<1> QED BY <1>18, <1>19, <1>20, <1>21, <1>23, <1>24, <1>25, <1>27 DEF Inv

-----------------------------------------------------------------------------
(* A sub-batch is stored.                                                  *)

\* It takes a cell for each token, if there is room; each cell belongs to the slot
\* of its token.
LEMMA StoredCells ==
    ASSUME TypeOK, SweepInv, HasRoom(SubBatch), NEW K, K = kv \cup CellsFor(SubBatch)
    PROVE  /\ K \in SUBSET Cells /\ IsFiniteSet(K) /\ Cardinality(K) <= NCells
           /\ \A c \in CellsFor(SubBatch) : \E i \in off + 1 .. off + Len(SubBatch) :
                 c.pos = batch[i].pos /\ c.token = batch[i].token /\ c.seqs = {batch[i].slot}
           /\ \A i \in off + 1 .. off + Len(SubBatch) : \E c \in CellsFor(SubBatch) :
                 c.pos = batch[i].pos /\ c.token = batch[i].token /\ c.seqs = {batch[i].slot}
           /\ \A c, d \in CellsFor(SubBatch) :
                 c.pos = d.pos /\ c.token = d.token /\ c.seqs = d.seqs => c = d
<1> DEFINE l == Len(SubBatch)
           C == CellsFor(SubBatch)
           f == [i \in 1 .. l |-> [pos |-> SubBatch[i].pos, token |-> SubBatch[i].token,
                                   seqs |-> {SubBatch[i].slot}]]
<1>1. /\ batch \in Seq(BatchTokens) /\ off \in Nat /\ off <= Len(batch) /\ n_batch \in Nat
      /\ kv \in SUBSET Cells /\ IsFiniteSet(kv) /\ Cardinality(kv) \in Nat /\ NCells \in Nat
    BY SlotsType, SizesAssumption, FS_CardinalityType DEF TypeOK, SweepInv
<1>2. /\ SubBatch \in Seq(BatchTokens) /\ l \in Nat /\ DOMAIN SubBatch = 1 .. l
      /\ \A i \in 1 .. l : SubBatch[i] = batch[off + i]
    BY <1>1, SubBatchType
<1>3. C = {f[i] : i \in 1 .. l}
    <2>1. C = {[pos |-> SubBatch[i].pos, token |-> SubBatch[i].token,
                seqs |-> {SubBatch[i].slot}] : i \in 1 .. l}
      BY <1>2 DEF CellsFor
    <2> QED BY <2>1
<1>4. \A i \in 1 .. l : f[i] \in Cells
    <2> TAKE i \in 1 .. l
    <2>1. SubBatch[i] \in BatchTokens
      BY <1>2, ElementOfSeq
    <2> QED BY <2>1 DEF BatchTokens, Cells
<1>5. \A i \in 1 .. l : /\ f[i].pos = batch[off + i].pos /\ f[i].token = batch[off + i].token
                        /\ f[i].seqs = {batch[off + i].slot}
    BY <1>2
<1> HIDE DEF f, C, l
<1>6. IsFiniteSet(1 .. l) /\ Cardinality(1 .. l) = l
    <2>1. 1 \in Int /\ l \in Int /\ l \in Nat
      BY <1>2
    <2> QED BY <2>1, FS_Interval
<1>7. IsFiniteSet(C) /\ Cardinality(C) <= l /\ Cardinality(C) \in Nat /\ C \subseteq Cells
    BY <1>3, <1>4, <1>6, ImageCardinality, FS_CardinalityType
<1>8. K \in SUBSET Cells /\ IsFiniteSet(K) /\ Cardinality(K) <= NCells
    <2>1. K = kv \cup C
      BY DEF C
    <2>2. /\ IsFiniteSet(K)
          /\ Cardinality(K) = Cardinality(kv) + Cardinality(C) - Cardinality(kv \cap C)
      BY <1>1, <1>7, <2>1, FS_Union
    <2>3. Cardinality(kv \cap C) \in Nat
      BY <1>1, FS_Intersection, FS_CardinalityType
    <2>4. Cardinality(kv) + l <= NCells
      BY DEF HasRoom, l
    <2> QED BY <1>1, <1>2, <1>7, <2>1, <2>2, <2>3, <2>4
<1>9. ASSUME NEW c \in C
      PROVE  \E i \in off + 1 .. off + l :
                 c.pos = batch[i].pos /\ c.token = batch[i].token /\ c.seqs = {batch[i].slot}
    <2>1. PICK j \in 1 .. l : c = f[j]
      BY <1>3
    <2>2. off + j \in off + 1 .. off + l
      BY <1>1, <1>2
    <2> QED BY <1>5, <2>1, <2>2
<1>10. ASSUME NEW i \in off + 1 .. off + l
       PROVE  \E c \in C :
                 c.pos = batch[i].pos /\ c.token = batch[i].token /\ c.seqs = {batch[i].slot}
    <2>1. i - off \in 1 .. l /\ off + (i - off) = i
      BY <1>1, <1>2
    <2> QED BY <1>3, <1>5, <2>1
<1>11. \A c, d \in C : c.pos = d.pos /\ c.token = d.token /\ c.seqs = d.seqs => c = d
    <2>1. \A c \in C : c = [pos |-> c.pos, token |-> c.token, seqs |-> c.seqs]
      BY <1>7 DEF Cells
    <2> QED BY <2>1
<1> QED BY <1>8, <1>9, <1>10, <1>11 DEF C, l

\* Then the same outputs are open as before, and the tokens after it are pending.
LEMMA StoredTokens ==
    ASSUME TypeOK, SweepInv, pc = "decode", pc' = "post", cursor' = 0,
           UNCHANGED <<batch, off, n_batch>>
    PROVE  /\ Len(SubBatch) \in Nat /\ off \in Nat
           /\ \A u, v \in Slots, i \in Int : Open(u, i)' <=> Open(v, i)
           /\ \A u : Pending(u) \subseteq Nat
           /\ \A u : Pending(u)' = {i \in Pending(u) : i > off + Len(SubBatch)}
           /\ \A u : \A i \in off + 1 .. off + Len(SubBatch) : i \in Pending(u) <=> batch[i].slot = u
<1>1. /\ batch \in Seq(BatchTokens) /\ off \in Nat /\ off <= Len(batch) /\ n_batch \in Nat
    BY SlotsType DEF TypeOK, SweepInv
<1>2. /\ Len(SubBatch) \in Nat /\ Len(batch) \in Nat /\ off + Len(SubBatch) <= Len(batch)
    BY <1>1, SubBatchType
<1>3. batch' = batch /\ off' = off /\ SubBatch' = SubBatch
    BY DEF SubBatch
<1>4. FirstPending = off + 1 /\ FirstPending' = off + Len(SubBatch) + 1
    BY <1>3 DEF FirstPending
<1>5. ASSUME NEW u \in Slots, NEW v \in Slots, NEW i \in Int PROVE Open(u, i)' <=> Open(v, i)
    <2>1. ~(u < 0)
      BY SlotsType
    <2> QED BY <1>3, <2>1 DEF Open
<1>6. \A u : Pending(u) = {i \in off + 1 .. Len(batch) : batch[i].slot = u}
    BY <1>4 DEF Pending
<1>7. \A u : Pending(u)' = {i \in off + Len(SubBatch) + 1 .. Len(batch) : batch[i].slot = u}
    BY <1>3, <1>4 DEF Pending
<1>8. \A u : Pending(u)' = {i \in Pending(u) : i > off + Len(SubBatch)}
    BY <1>1, <1>2, <1>6, <1>7
<1>9. \A u : \A i \in off + 1 .. off + Len(SubBatch) : i \in Pending(u) <=> batch[i].slot = u
    BY <1>1, <1>2, <1>6
<1>10. \A u : Pending(u) \subseteq Nat
    BY <1>1, <1>2, <1>6
<1> QED BY <1>1, <1>2, <1>5, <1>8, <1>9, <1>10

\* Cells C hold the tokens of the batch up to the last one decoded, and no others.
HoldTokens(C, last) ==
    /\ \A c \in C : \E i \in off + 1 .. last :
          c.pos = batch[i].pos /\ c.token = batch[i].token /\ c.seqs = {batch[i].slot}
    /\ \A i \in off + 1 .. last : \E c \in C :
          c.pos = batch[i].pos /\ c.token = batch[i].token /\ c.seqs = {batch[i].slot}
    /\ \A c, d \in C : c.pos = d.pos /\ c.token = d.token /\ c.seqs = d.seqs => c = d

\* Then the tokens of slot u after the last one are pending.
StillPending(u, last) ==
    /\ last \in Nat /\ off \in Nat /\ Pending(u) \subseteq Nat
    /\ Pending(u)' = {i \in Pending(u) : i > last}
    /\ \A i \in off + 1 .. last : i \in Pending(u) <=> batch[i].slot = u
    /\ \A i \in Pending(u) : i >= off + 1

\* The cells and pending tokens of a slot that does not wait still make up its
\* prompt when its part of the sub-batch has gone from the batch to the cells.
LEMMA ExactAfterStore ==
    ASSUME NEW u, Exact(u), slot'[u].prompt = slot[u].prompt, batch' = batch, NEW C, NEW last,
           SameCells(kv \cup C, kv', u), HoldTokens(C, last), StillPending(u, last)
    PROVE  Exact(u)'
<1> DEFINE K == kv \cup C
<1> USE DEF HoldTokens, StillPending
<1> DEFINE New == CellsIn(C, u)
<1>1. CellsIn(K, u) = CellsOf(u) \cup New
    BY DEF CellsIn, CellsOf
<1>2. PICK f : /\ CellsIn(kv', u) = {f[c] : c \in CellsIn(K, u)}
               /\ \A c \in CellsIn(K, u) : f[c].pos = c.pos /\ f[c].token = c.token
    BY DEF SameCells
<1>3. CellsOf(u)' = {f[c] : c \in CellsOf(u) \cup New}
    BY <1>1, <1>2 DEF CellsOf, CellsIn
<1>4. \A c \in CellsOf(u) \cup New : f[c].pos = c.pos /\ f[c].token = c.token
    BY <1>1, <1>2
<1>5. \A c \in New : \E i \in Pending(u) :
          i \in off + 1 .. last /\ c.pos = batch[i].pos /\ c.token = batch[i].token
    <2> TAKE c \in New
    <2>1. c \in C /\ u \in c.seqs
      BY DEF CellsIn
    <2>2. PICK i \in off + 1 .. last :
              c.pos = batch[i].pos /\ c.token = batch[i].token /\ c.seqs = {batch[i].slot}
      BY <2>1
    <2> QED BY <2>1, <2>2
<1>6. ASSUME NEW c \in New, NEW d \in New, c.pos = d.pos PROVE c = d
    <2>1. PICK i \in off + 1 .. last :
              c.pos = batch[i].pos /\ c.token = batch[i].token /\ c.seqs = {batch[i].slot}
      BY DEF CellsIn
    <2>2. PICK j \in off + 1 .. last :
              d.pos = batch[j].pos /\ d.token = batch[j].token /\ d.seqs = {batch[j].slot}
      BY DEF CellsIn
    <2>3. i \in Pending(u) /\ j \in Pending(u)
      BY <2>1, <2>2 DEF CellsIn
    <2>4. \A x, y \in Pending(u) : batch[x].pos = batch[y].pos => x = y
      BY DEF Exact
    <2>5. batch[i].pos = batch[j].pos
      BY <1>6, <2>1, <2>2
    <2>6. i = j
      BY <2>3, <2>4, <2>5
    <2>7. c.token = d.token /\ c.seqs = d.seqs /\ c \in C /\ d \in C
      BY <2>1, <2>2, <2>6 DEF CellsIn
    <2> QED BY <1>6, <2>7
<1>7. \A i \in Pending(u) : i \notin Pending(u)' => \E c \in New : c.pos = batch[i].pos
    <2> TAKE i \in Pending(u)
    <2> HAVE i \notin Pending(u)'
    <2>1. i \in off + 1 .. last /\ batch[i].slot = u
      <3>1. i \in Nat /\ i >= off + 1 /\ ~(i > last)
        OBVIOUS
      <3>2. i \in off + 1 .. last
        BY <3>1
      <3> QED BY <3>2
    <2>2. PICK c \in C :
              c.pos = batch[i].pos /\ c.token = batch[i].token /\ c.seqs = {batch[i].slot}
      BY <2>1
    <2>3. c \in New
      BY <2>1, <2>2 DEF CellsIn
    <2> QED BY <2>2, <2>3
<1> HIDE DEF New
<1>8. \A p, token : At(u, p, token)' <=> At(u, p, token)
    BY DEF At
<1>9. \A c \in CellsOf(u)' : At(u, c.pos, c.token)'
    <2> TAKE c \in CellsOf(u)'
    <2>1. PICK d \in CellsOf(u) \cup New : c.pos = d.pos /\ c.token = d.token
      BY <1>3, <1>4
    <2>2. At(u, d.pos, d.token)
      BY <1>5 DEF Exact
    <2> QED BY <1>8, <2>1, <2>2
<1>10. \A c \in CellsOf(u), d \in New : c.pos # d.pos
    BY <1>5 DEF Exact
<1>11. \A c, d \in CellsOf(u)' : c.pos = d.pos => c = d
    <2> TAKE c, d \in CellsOf(u)'
    <2>1. PICK a \in CellsOf(u) \cup New : c = f[a] /\ c.pos = a.pos
      BY <1>3, <1>4
    <2>2. PICK b \in CellsOf(u) \cup New : d = f[b] /\ d.pos = b.pos
      BY <1>3, <1>4
    <2>3. a.pos = b.pos => a = b
      BY <1>6, <1>10 DEF Exact
    <2> QED BY <2>1, <2>2, <2>3
<1>12. \A i \in Pending(u)' : At(u, batch[i].pos, batch[i].token)'
    <2> TAKE i \in Pending(u)'
    <2>1. i \in Pending(u) /\ batch'[i] = batch[i] /\ At(u, batch[i].pos, batch[i].token)
      BY DEF Exact
    <2> QED BY <2>1 DEF At
<1>13. \A i, j \in Pending(u)' : batch'[i].pos = batch'[j].pos => i = j
    BY DEF Exact
<1>14. \A c \in CellsOf(u)', i \in Pending(u)' : c.pos # batch'[i].pos
    <2> TAKE c \in CellsOf(u)', i \in Pending(u)'
    <2>1. PICK d \in CellsOf(u) \cup New : c.pos = d.pos
      BY <1>3, <1>4
    <2>2. i \in Pending(u) /\ i > last /\ i \in Nat
      OBVIOUS
    <2>3. CASE d \in CellsOf(u)
      BY <2>1, <2>2, <2>3 DEF Exact
    <2>4. CASE d \in New
      <3>1. PICK j \in Pending(u) : j \in off + 1 .. last /\ d.pos = batch[j].pos
        BY <1>5, <2>4
      <3>2. j # i
        BY <2>2, <3>1
      <3> QED BY <2>1, <2>2, <3>1, <3>2 DEF Exact
    <2> QED BY <2>3, <2>4
<1>15. \A k \in 0 .. Len(slot'[u].prompt) - 1 :
           (\E c \in CellsOf(u)' : c.pos = k) \/ (\E i \in Pending(u)' : batch'[i].pos = k)
    <2> TAKE k \in 0 .. Len(slot'[u].prompt) - 1
    <2>1. (\E c \in CellsOf(u) : c.pos = k) \/ (\E i \in Pending(u) : batch[i].pos = k)
      BY DEF Exact
    <2>2. ASSUME NEW i \in Pending(u), batch[i].pos = k, i \notin Pending(u)'
          PROVE  \E c \in New : c.pos = k
      BY <1>7, <2>2
    <2>3. (\E c \in CellsOf(u) \cup New : c.pos = k) \/ (\E i \in Pending(u)' : batch[i].pos = k)
      <3>1. CASE \E c \in CellsOf(u) : c.pos = k
        BY <3>1
      <3>2. CASE \E i \in Pending(u) : batch[i].pos = k
        <4>1. PICK i \in Pending(u) : batch[i].pos = k
          BY <3>2
        <4>2. CASE i \in Pending(u)'
          BY <4>1, <4>2
        <4>3. CASE i \notin Pending(u)'
          <5>1. PICK c \in New : c.pos = k
            BY <2>2, <4>1, <4>3
          <5> QED BY <5>1
        <4> QED BY <4>2, <4>3
      <3> QED BY <2>1, <3>1, <3>2
    <2> QED BY <1>3, <1>4, <2>3
<1> QED BY <1>9, <1>11, <1>12, <1>13, <1>14, <1>15 DEF Exact

\* A child that takes over the state of its parent.
LEMMA CopiedRecord ==
    ASSUME NEW child \in SlotRecord, NEW parent \in SlotRecord
    PROVE  LET r == Copied(child, parent) IN
           /\ r \in SlotRecord /\ r.state = "DONE_PROMPT" /\ r.prompt = parent.prompt
           /\ r.i_batch = parent.i_batch /\ r.task = child.task /\ r.parent = child.parent
<1> DEFINE prompt == parent.prompt
           i == parent.i_batch
<1>1. Copied(child, parent) =
          [[[child EXCEPT !.state = "DONE_PROMPT"] EXCEPT !.prompt = prompt] EXCEPT !.i_batch = i]
    BY DEF Copied
<1>2. "DONE_PROMPT" \in States /\ prompt \in Seq(Tokens) /\ i \in Int
    BY DEF States, SlotRecord
<1> HIDE DEF prompt, i
<1>3. LET r == Copied(child, parent) IN
      /\ r \in SlotRecord /\ r.state = "DONE_PROMPT" /\ r.prompt = prompt
      /\ r.i_batch = i /\ r.task = child.task /\ r.parent = child.parent
    BY <1>1, <1>2 DEF SlotRecord
<1> QED BY <1>3 DEF prompt, i

\* A sub-batch goes from the batch to the cells, and children take over the prompt
\* and the output of a parent whose prompt is done, which is no child itself.
LEMMA DecodeOkInv ==
    ASSUME Inv, DecodeOk
    PROVE  Inv'
<1> DEFINE K == kv \cup CellsFor(SubBatch)
<1>1. /\ pc = "decode" /\ HasRoom(SubBatch) /\ pc' = "post" /\ cursor' = 0
      /\ batch' = batch /\ slot_batched' = slot_batched /\ off' = off /\ n_batch' = n_batch
      /\ kv' = CopyToChildren(K)
      /\ TypeOK /\ SweepInv /\ slot \in [Slots -> SlotRecord]
      /\ \A u \in Slots : slot[u] \in SlotRecord /\ slot[u].i_batch \in Int
    BY DEF DecodeOk, Decoding, Inv, TypeOK, SlotRecord
<1>2. /\ K \in SUBSET Cells /\ IsFiniteSet(K) /\ Cardinality(K) <= NCells
      /\ \A c \in CellsFor(SubBatch) : \E i \in off + 1 .. off + Len(SubBatch) :
            c.pos = batch[i].pos /\ c.token = batch[i].token /\ c.seqs = {batch[i].slot}
      /\ \A i \in off + 1 .. off + Len(SubBatch) : \E c \in CellsFor(SubBatch) :
            c.pos = batch[i].pos /\ c.token = batch[i].token /\ c.seqs = {batch[i].slot}
      /\ \A c, d \in CellsFor(SubBatch) :
            c.pos = d.pos /\ c.token = d.token /\ c.seqs = d.seqs => c = d
    BY <1>1, StoredCells
<1>3. /\ Len(SubBatch) \in Nat /\ off \in Nat
      /\ \A u, v \in Slots, i \in Int : Open(u, i)' <=> Open(v, i)
      /\ \A u : Pending(u) \subseteq Nat
      /\ \A u : Pending(u)' = {i \in Pending(u) : i > off + Len(SubBatch)}
      /\ \A u : \A i \in off + 1 .. off + Len(SubBatch) : i \in Pending(u) <=> batch[i].slot = u
    BY <1>1, StoredTokens
<1> DEFINE C == CellsFor(SubBatch)
           last == off + Len(SubBatch)
<1>4. \A u : \A i \in Pending(u) : i >= off + 1
    <2>1. FirstPending = off + 1 /\ off + 1 \in Nat /\ Len(batch) \in Nat
      BY <1>1, <1>3, LenProperties DEF FirstPending, TypeOK
    <2> QED BY <2>1 DEF Pending
<1>5. kv' \in SUBSET Cells /\ IsFiniteSet(kv') /\ Cardinality(kv') <= NCells
    <2> HIDE DEF K
    <2>1. kv' \in SUBSET Cells /\ IsFiniteSet(kv') /\ Cardinality(kv') <= Cardinality(K)
      BY <1>1, <1>2, CopyToChildrenType
    <2>2. Cardinality(kv') \in Nat /\ Cardinality(K) \in Nat /\ NCells \in Nat
      BY <1>2, <2>1, SizesAssumption, FS_CardinalityType
    <2> QED BY <1>2, <2>1, <2>2
<1>6. \A u \in Slots : u \notin Children => SameCells(K, kv', u)
    <2> HIDE DEF K
    <2> QED BY <1>1, <1>2, CopyToChildrenOthers
<1> HIDE DEF K, C, last
<1>7. \A u \in Slots : u \in Children <=> slot[u].state = "WAIT_OTHER" /\ slot[u].parent \in DoneParents
    BY DEF Children, WaitingChildren
<1>8. ASSUME NEW u \in Slots, u \in Children
      PROVE  /\ slot[u].parent \in Slots /\ slot[u].parent \notin Children
             /\ slot[slot[u].parent].state = "DONE_PROMPT"
             /\ slot[slot[u].parent].parent = NoParent
             /\ slot'[u] \in SlotRecord /\ slot'[u].state = "DONE_PROMPT"
             /\ slot'[u].prompt = slot[slot[u].parent].prompt
             /\ slot'[u].i_batch = slot[slot[u].parent].i_batch
             /\ slot'[u].task = slot[u].task /\ slot'[u].parent = slot[u].parent
             /\ slot[u].state = "WAIT_OTHER"
    <2> DEFINE p == slot[u].parent
    <2>1. p \in Slots /\ slot[p].state = "DONE_PROMPT" /\ slot[u].state = "WAIT_OTHER"
      BY <1>7, <1>8 DEF DoneParents
    <2>2. slot[p].parent = NoParent /\ p \notin Children
      BY <1>7, <2>1 DEF Inv, ParentsInv
    <2>3. slot'[u] = Copied(slot[u], slot[p])
      BY <1>7, <1>8 DEF DecodeOk
    <2>4. slot[u] \in SlotRecord /\ slot[p] \in SlotRecord
      BY <1>1, <2>1
    <2>5. /\ slot'[u] \in SlotRecord /\ slot'[u].state = "DONE_PROMPT"
          /\ slot'[u].prompt = slot[p].prompt /\ slot'[u].i_batch = slot[p].i_batch
          /\ slot'[u].task = slot[u].task /\ slot'[u].parent = slot[u].parent
      BY <2>3, <2>4, CopiedRecord
    <2> QED BY <2>1, <2>2, <2>5
<1>9. \A u \in Slots : u \notin Children => slot'[u] = slot[u]
    BY <1>7 DEF DecodeOk
<1>10. \A u \in Slots : /\ slot'[u] \in SlotRecord /\ slot'[u].task = slot[u].task
                        /\ slot'[u].parent = slot[u].parent
                        /\ (Idle(u)' <=> Idle(u)) /\ (IsChild(u)' <=> IsChild(u))
    BY <1>1, <1>8, <1>9 DEF Idle, IsChild
<1>11. TypeOK'
    <2>1. slot' \in [Slots -> SlotRecord]
      <3>1. slot' = [u \in Slots |-> slot'[u]]
        BY DEF DecodeOk
      <3> QED BY <1>10, <3>1
    <2>2. \A u \in Slots : Idle(u)' <=> slot'[u].task = <<>>
      BY <1>1, <1>10 DEF TypeOK
    <2> QED BY <1>1, <1>5, <2>1, <2>2, SlotsType DEF TypeOK, Phases
<1>12. SweepInv'
    BY <1>1, <1>5 DEF SweepInv
<1>13. ParentsInv'
    <2> SUFFICES ASSUME NEW u \in Slots
                 PROVE  (/\ slot[u].state \in {"IDLE", "STARTED", "PROCESSING_PROMPT"} =>
                                slot[u].parent = NoParent
                         /\ slot[u].parent \in Slots =>
                                slot[slot[u].parent].parent = NoParent /\ ~Idle(slot[u].parent))'
      BY DEF ParentsInv
    <2>1. slot'[u].state \in {"IDLE", "STARTED", "PROCESSING_PROMPT"} => slot'[u].parent = NoParent
      BY <1>8, <1>9 DEF Inv, ParentsInv
    <2>2. ASSUME NEW p \in Slots, slot'[u].parent = p
          PROVE  slot'[p].parent = NoParent /\ ~Idle(p)'
      BY <1>10, <2>2 DEF Inv, ParentsInv
    <2> QED BY <2>1, <2>2
<1>14. PromptsInv'
    BY <1>8, <1>9 DEF Inv, PromptsInv
<1>15. DueInv'
    <2> SUFFICES ASSUME NEW u \in Slots
                 PROVE  (/\ slot[u].state = "DONE_PROMPT" => IsDue(u)
                         /\ slot[u].state = "GENERATING" => IsDue(u) \/ HasNext(u))'
      BY DEF DueInv
    <2>1. CASE u \in Children
      <3>1. PICK p \in Slots : p = slot[u].parent /\ slot[p].state = "DONE_PROMPT"
        BY <1>8, <2>1
      <3>2. PICK i \in Int : i = slot[p].i_batch
        BY <1>1
      <3>3. Open(p, i)
        BY <3>1, <3>2 DEF Inv, DueInv, IsDue
      <3>4. Open(u, i)'
        BY <1>3, <3>3
      <3>5. slot'[u].i_batch = i /\ slot'[u].state = "DONE_PROMPT"
        BY <1>8, <2>1, <3>1, <3>2
      <3>6. IsDue(u)'
        BY <3>4, <3>5 DEF IsDue
      <3> QED BY <3>5, <3>6
    <2>2. CASE u \notin Children
      <3>1. slot'[u] = slot[u] /\ slot[u].i_batch \in Int
        BY <1>1, <1>9, <2>2
      <3>2. IsDue(u) => IsDue(u)'
        BY <1>3, <3>1 DEF IsDue
      <3>3. HasNext(u) => HasNext(u)'
        BY <1>1, <3>1 DEF HasNext
      <3> QED BY <3>1, <3>2, <3>3 DEF Inv, DueInv
    <2> QED BY <2>1, <2>2
<1>16. OutputInv'
    <2> SUFFICES ASSUME NEW u \in Slots, Served(u)', IsDue(u)'
                 PROVE  LET out == batch[slot[u].i_batch + 1] IN
                        (/\ out.output /\ out.pos = Len(slot[u].prompt) - 1
                         /\ IF slot[u].state = "DONE_PROMPT" /\ IsChild(u)
                            THEN SharesOutput(u, out.slot)
                            ELSE out.slot = u)'
      BY DEF OutputInv
    <2>1. CASE u \in Children
      <3>0. PICK p \in Slots : p = slot[u].parent
        BY <1>8, <2>1
      <3>1. /\ slot[p].state = "DONE_PROMPT" /\ slot[p].parent = NoParent /\ slot'[p] = slot[p]
            /\ slot'[u].prompt = slot[p].prompt /\ slot'[u].i_batch = slot[p].i_batch
            /\ slot'[u].state = "DONE_PROMPT" /\ slot'[u].parent = p
        BY <1>8, <1>9, <2>1, <3>0
      <3>2. IsDue(p) /\ Served(p) /\ ~IsChild(p)
        BY <3>1 DEF Inv, DueInv, Served, IsChild
      <3> DEFINE out == batch[slot[p].i_batch + 1]
      <3>3. out.output /\ out.pos = Len(slot[p].prompt) - 1 /\ out.slot = p
        BY <3>2 DEF Inv, OutputInv
      <3>4. SharesOutput(u, p)'
        BY <3>1 DEF SharesOutput
      <3>5. IsChild(u)'
        BY <3>1, SlotsType DEF IsChild
      <3> QED BY <1>1, <3>1, <3>3, <3>4, <3>5
    <2>2. CASE u \notin Children
      <3> DEFINE out == batch[slot[u].i_batch + 1]
      <3>1. slot'[u] = slot[u] /\ slot[u].i_batch \in Int /\ Served(u)
        BY <1>1, <1>9, <2>2 DEF Served
      <3>2. IsDue(u)
        BY <1>3, <3>1 DEF IsDue
      <3>3. /\ out.output /\ out.pos = Len(slot[u].prompt) - 1
            /\ IF slot[u].state = "DONE_PROMPT" /\ IsChild(u)
               THEN SharesOutput(u, out.slot) ELSE out.slot = u
        BY <3>1, <3>2 DEF Inv, OutputInv
      <3>4. PICK p \in Slots : p = out.slot
        BY <1>1, <3>1, <3>2, OpenInBatch DEF IsDue
      <3>5. SharesOutput(u, p) => SharesOutput(u, p)'
        <4>1. CASE p \in Children
          BY <1>8, <4>1 DEF SharesOutput, Idle
        <4>2. CASE p \notin Children
          BY <1>9, <3>1, <4>2 DEF SharesOutput, Idle
        <4> QED BY <4>1, <4>2
      <3> QED BY <1>1, <1>10, <3>1, <3>3, <3>4, <3>5
    <2> QED BY <2>1, <2>2
<1>17. PendingInv'
    <2> SUFFICES ASSUME NEW u \in Slots, NEW i \in Pending(u)'
                 PROVE  (/\ slot[u].state \in {"PROCESSING_PROMPT", "DONE_PROMPT", "GENERATING"}
                         /\ Served(u) => i <= slot[u].i_batch + 1)'
      BY DEF PendingInv
    <2>1. i \in Pending(u)
      BY <1>3
    <2>2. u \notin Children
      BY <1>8, <2>1 DEF Inv, PendingInv
    <2> QED BY <1>9, <2>1, <2>2 DEF Inv, PendingInv, Served
<1>18. ExactInv'
    <2> SUFFICES ASSUME NEW u \in Slots, ~CopiedChild(u)'
                 PROVE  Exact(u)'
      BY DEF ExactInv
    <2>1. u \notin Children
      BY <1>8, <1>10, SlotsType DEF CopiedChild, IsChild
    <2>2. Exact(u) /\ slot'[u] = slot[u]
      BY <1>9, <2>1 DEF Inv, ExactInv, CopiedChild, IsChild
    <2>3. SameCells(kv \cup C, kv', u)
      BY <1>6, <2>1 DEF K, C
    <2>4. StillPending(u, last)
      <3>1. last \in Nat
        BY <1>3 DEF last
      <3> QED BY <1>3, <1>4, <3>1 DEF StillPending, last
    <2>5. HoldTokens(C, last)
      BY <1>2 DEF HoldTokens, C, last
    <2> QED BY <1>1, <2>2, <2>3, <2>4, <2>5, ExactAfterStore
<1> QED BY <1>11, <1>12, <1>13, <1>14, <1>15, <1>16, <1>17, <1>18 DEF Inv

-----------------------------------------------------------------------------
(* The invariant holds.                                                    *)

\* Nothing is said of a step that changes nothing.
LEMMA StutterInv ==
    ASSUME Inv, UNCHANGED vars
    PROVE  Inv'
<1>1. UNCHANGED <<pc, cursor, slot, kv, batch, slot_batched, off, n_batch>>
    BY DEF vars
<1>2. /\ \A s : Pending(s)' = Pending(s) /\ \A i \in Pending(s) : batch'[i] = batch[i]
      /\ \A s, i : Open(s, i)' <=> Open(s, i)
    BY <1>1 DEF Pending, FirstPending, SubBatch, Open
<1>3. \A s \in Slots : /\ Served(s) /\ IsDue(s) => IsDue(s)'
                       /\ slot[s].state = "GENERATING" /\ HasNext(s) => HasNext(s)'
    BY <1>1, <1>2 DEF IsDue, HasNext
<1>4. ParentsInv' /\ PromptsInv' /\ DueInv' /\ OutputInv' /\ PendingInv' /\ ExactInv'
    BY <1>1, <1>2, <1>3, SlotsKept
<1>5. TypeOK' /\ SweepInv'
    BY <1>1 DEF Inv, TypeOK, SweepInv, Idle
<1> QED BY <1>4, <1>5 DEF Inv

\* All slots idle, nothing in the cache and nothing in the batch.
LEMMA InitInv == Init => Inv
<1> SUFFICES ASSUME Init PROVE Inv
    OBVIOUS
<1>1. /\ pc = "tasks" /\ cursor = 0 /\ kv = {} /\ batch = <<>> /\ slot_batched = NoSlot
      /\ off = 0 /\ n_batch = NBatch
      /\ slot = [s \in Slots |-> [state |-> "IDLE", task |-> <<>>, parent |-> NoParent,
                                  prompt |-> <<>>, i_batch |-> -1, sampled |-> NoToken]]
    BY DEF Init
<1>2. \A s \in Slots : /\ slot[s].state = "IDLE" /\ slot[s].task = <<>>
                       /\ slot[s].parent = NoParent /\ slot[s].prompt = <<>>
                       /\ slot[s].i_batch = -1 /\ slot[s].sampled = NoToken
    BY <1>1
<1>3. slot \in [Slots -> SlotRecord]
    <2>1. /\ "IDLE" \in States /\ <<>> \in Seq(Tokens) /\ -1 \in Int
      BY EmptySeq DEF States
    <2> QED BY <1>1, <2>1 DEF SlotRecord
<1>4. IsFiniteSet(kv) /\ Cardinality(kv) = 0
    BY <1>1, FS_EmptySet
<1>5. /\ \A s : Pending(s) = {}
      /\ \A s, i : ~Open(s, i)
    BY <1>1, NothingInTasks
<1>6. TypeOK
    <2>1. Cardinality(kv) <= NCells /\ kv \subseteq Cells
      BY <1>1, <1>4, SizesAssumption
    <2>2. \A s \in Slots : Idle(s) <=> slot[s].task = <<>>
      BY <1>2 DEF Idle
    <2>3. batch \in Seq(BatchTokens) /\ NBatch \in 1 .. NBatch /\ 0 \in Nat
      BY <1>1, EmptySeq, SlotsType
    <2> QED BY <1>1, <1>3, <2>1, <2>2, <2>3, SlotsType DEF TypeOK, Phases
<1>7. SweepInv
    BY <1>1, <1>4 DEF SweepInv
<1>8. ParentsInv
    BY <1>2, SlotsType DEF ParentsInv
<1>9. PromptsInv /\ DueInv /\ OutputInv /\ PendingInv
    BY <1>2, <1>5 DEF PromptsInv, DueInv, OutputInv, PendingInv, Served
<1>10. ExactInv
    <2> SUFFICES ASSUME NEW s \in Slots PROVE Exact(s)
      BY DEF ExactInv
    <2>1. CellsOf(s) = {} /\ Pending(s) = {}
      BY <1>1, <1>5 DEF CellsOf
    <2>2. 0 .. Len(slot[s].prompt) - 1 = {}
      BY <1>2
    <2> QED BY <2>1, <2>2 DEF Exact
<1> QED BY <1>6, <1>7, <1>8, <1>9, <1>10 DEF Inv

\* Every action preserves it.
LEMMA NextInv == Inv /\ [Next]_vars => Inv'
<1> SUFFICES ASSUME Inv, [Next]_vars PROVE Inv'
    OBVIOUS
<1>1. CASE HandleTasks
    BY <1>1, LaunchInv, CancelTaskInv, EraseSlotInv DEF HandleTasks
<1>2. CASE StartPass
    BY <1>2, StartPassInv
<1>3. CASE SkipPrompt
    BY <1>3, SkipPromptInv
<1>4. CASE AddPromptTokens
    <2>1. PICK s : s = cursor
      OBVIOUS
    <2> QED BY <1>4, <2>1, AddPromptTokensInv
<1>5. CASE Decode
    BY <1>5, DecodeCrashesInv, DecodeOkInv, DecodeFailsInv, DecodeRetriesInv DEF Decode
<1>6. CASE PostDecode
    BY <1>6, SkipSamplingInv, SampleAndContinueInv, SampleAndStopInv DEF PostDecode
<1>7. CASE UNCHANGED vars
    BY <1>7, StutterInv
<1> QED BY <1>1, <1>2, <1>3, <1>4, <1>5, <1>6, <1>7 DEF Next, Pass

\* The invariant of the passes holds in every state.
THEOREM InvAlways == Spec => []Inv
BY InitInv, NextInv, PTL DEF Spec

-----------------------------------------------------------------------------
(* What follows from it.                                                   *)

\* Every variable has its type, a busy slot has a task, and the cache never holds
\* more cells than it has.
THEOREM TypeCorrect == Spec => []TypeOK
<1>1. Inv => TypeOK
    BY DEF Inv
<1> QED BY <1>1, InvAlways, PTL

\* A generating slot always has room for its next token between two passes:
\* handle_last_sampled_token() never finds the context full.
THEOREM ContextNeverExceeded == Spec => []NeverOutOfContext
<1>1. Inv => NeverOutOfContext
    <2> SUFFICES ASSUME Inv, pc = "tasks", NEW s \in Slots, slot[s].state = "GENERATING"
                 PROVE  Len(slot[s].prompt) + 1 < NCtx
      BY DEF NeverOutOfContext
    <2> QED BY DEF Inv, DueInv, IsDue, Open, HasNext
<1> QED BY <1>1, InvAlways, PTL

\* The positions of cells, or of tokens of the batch, are as many as those.
LEMMA PositionsCounted ==
    ASSUME TypeOK, SweepInv, NEW s \in Slots, Exact(s)
    PROVE  Cardinality(CellsOf(s)) + Cardinality(Pending(s)) = Len(slot[s].prompt)
<1> DEFINE C == CellsOf(s)
           P == Pending(s)
           L == Len(slot[s].prompt)
           f == [c \in C |-> c.pos]
           g == [i \in P |-> batch[i].pos]
           A == {f[c] : c \in C}
           B == {g[i] : i \in P}
<1>1. /\ slot[s].prompt \in Seq(Tokens) /\ batch \in Seq(BatchTokens) /\ kv \in SUBSET Cells
      /\ IsFiniteSet(kv)
    BY DEF TypeOK, SweepInv, SlotRecord
<1>2. L \in Nat /\ IsFiniteSet(C) /\ \A c \in C : c.pos \in Nat
    BY <1>1, LenProperties, FS_Subset DEF CellsOf, Cells
<1>3. IsFiniteSet(P) /\ \A i \in P : batch[i].pos \in Nat
    <2>1. P \subseteq DOMAIN batch /\ \A i \in DOMAIN batch : batch[i] \in BatchTokens
      BY PendingType
    <2>2. IsFiniteSet(DOMAIN batch)
      <3>1. DOMAIN batch = 1 .. Len(batch) /\ 1 \in Int /\ Len(batch) \in Int
        BY <1>1, LenProperties
      <3> QED BY <3>1, FS_Interval
    <2> QED BY <2>1, <2>2, FS_Subset DEF BatchTokens
<1>4. \A c, d \in C : f[c] = f[d] => c = d
    BY DEF Exact
<1>5. \A i, j \in P : g[i] = g[j] => i = j
    BY DEF Exact
<1>6. A \cap B = {}
    BY DEF Exact
<1>7. A \cup B = 0 .. L - 1
    <2>1. \A c \in C : c.pos \in 0 .. L - 1
      BY <1>2 DEF Exact, At
    <2>2. \A i \in P : batch[i].pos \in 0 .. L - 1
      BY <1>2, <1>3 DEF Exact, At
    <2>3. \A k \in 0 .. L - 1 : (\E c \in C : c.pos = k) \/ (\E i \in P : batch[i].pos = k)
      BY DEF Exact
    <2> HIDE DEF C, P, L
    <2> QED BY <2>1, <2>2, <2>3
<1> HIDE DEF f, g, C, P, L
<1>8. IsFiniteSet(A) /\ Cardinality(A) = Cardinality(C)
    BY <1>2, <1>4, ImageCardinality
<1>9. IsFiniteSet(B) /\ Cardinality(B) = Cardinality(P)
    BY <1>3, <1>5, ImageCardinality
<1> HIDE DEF A, B
<1>10. Cardinality(A \cup B) = Cardinality(A) + Cardinality(B)
    <2>1. Cardinality(A \cup B) = Cardinality(A) + Cardinality(B) - Cardinality(A \cap B)
      BY <1>8, <1>9, FS_Union
    <2>2. Cardinality(A \cap B) = 0
      BY <1>6, FS_EmptySet
    <2>3. Cardinality(A) \in Nat /\ Cardinality(B) \in Nat
      BY <1>8, <1>9, FS_CardinalityType
    <2> QED BY <2>1, <2>2, <2>3
<1>11. Cardinality(0 .. L - 1) = L
    <2>1. 0 \in Int /\ L - 1 \in Int
      BY <1>2
    <2>2. Cardinality(0 .. L - 1) = IF 0 > L - 1 THEN 0 ELSE L - 1 - 0 + 1
      BY <2>1, FS_Interval
    <2> QED BY <1>2, <2>2
<1> QED BY <1>7, <1>8, <1>9, <1>10, <1>11 DEF C, P, L

\* A slot's cells and its tokens still to be decoded make up its prompt, each
\* position once, through reuse, eviction, retries, errors and releases.
THEOREM PromptsAccounted == Spec => []ContextAccounted
<1>1. Inv => ContextAccounted
    <2> SUFFICES ASSUME Inv, NEW s \in Slots, ~CopiedChild(s)
                 PROVE  /\ Stored(s) \cup Promised(s) = Context(s)
                        /\ Cardinality(CellsOf(s)) + Cardinality(Pending(s)) = Len(slot[s].prompt)
      BY DEF ContextAccounted
    <2> DEFINE prompt == slot[s].prompt
    <2>1. Exact(s) /\ TypeOK /\ SweepInv
      BY DEF Inv, ExactInv
    <2>2. prompt \in Seq(Tokens) /\ Len(prompt) \in Nat /\ DOMAIN prompt = 1 .. Len(prompt)
      <3>1. prompt \in Seq(Tokens)
        BY <2>1 DEF TypeOK, SlotRecord
      <3> QED BY <3>1, LenProperties
    <2>3. /\ \A c \in CellsOf(s) : c.pos \in Nat
          /\ \A i \in Pending(s) : batch[i].pos \in Nat
      BY <2>1, PendingType DEF TypeOK, CellsOf, Cells, BatchTokens
    <2>4. \A c \in CellsOf(s) : <<c.pos, c.token>> \in Context(s)
      <3> TAKE c \in CellsOf(s)
      <3>1. c.pos + 1 \in 1 .. Len(prompt) /\ c.token = prompt[c.pos + 1]
        BY <2>1, <2>2, <2>3 DEF Exact, At
      <3>2. PICK k \in DOMAIN prompt : c.pos = k - 1 /\ c.token = prompt[k]
        BY <2>2, <2>3, <3>1
      <3> QED BY <3>2 DEF Context
    <2>5. \A i \in Pending(s) : <<batch[i].pos, batch[i].token>> \in Context(s)
      <3> TAKE i \in Pending(s)
      <3>1. batch[i].pos + 1 \in 1 .. Len(prompt) /\ batch[i].token = prompt[batch[i].pos + 1]
        BY <2>1, <2>2, <2>3 DEF Exact, At
      <3>2. PICK k \in DOMAIN prompt : batch[i].pos = k - 1 /\ batch[i].token = prompt[k]
        BY <2>2, <2>3, <3>1
      <3> QED BY <3>2 DEF Context
    <2>6. ASSUME NEW i \in DOMAIN prompt
          PROVE  <<i - 1, prompt[i]>> \in Stored(s) \cup Promised(s)
      <3>1. i - 1 \in 0 .. Len(prompt) - 1 /\ i - 1 + 1 = i
        BY <2>2
      <3>2. (\E c \in CellsOf(s) : c.pos = i - 1) \/ (\E j \in Pending(s) : batch[j].pos = i - 1)
        BY <2>1, <3>1 DEF Exact
      <3>3. ASSUME NEW c \in CellsOf(s), c.pos = i - 1
            PROVE  <<i - 1, prompt[i]>> \in Stored(s)
        BY <2>1, <3>1, <3>3 DEF Exact, At, Stored
      <3>4. ASSUME NEW j \in Pending(s), batch[j].pos = i - 1
            PROVE  <<i - 1, prompt[i]>> \in Promised(s)
        BY <2>1, <3>1, <3>4 DEF Exact, At, Promised
      <3> QED BY <3>2, <3>3, <3>4
    <2>7. Stored(s) \cup Promised(s) = Context(s)
      BY <2>4, <2>5, <2>6 DEF Stored, Promised, Context
    <2> QED BY <2>1, <2>7, PositionsCounted
<1> QED BY <1>1, InvAlways, PTL

\* The prompt of a slot with nothing pending is in its cells.
LEMMA ContextStored ==
    ASSUME TypeOK, NEW s \in Slots, Exact(s), Pending(s) = {}
    PROVE  Context(s) \subseteq Stored(s)
<1>1. slot[s].prompt \in Seq(Tokens)
    BY DEF TypeOK, SlotRecord
<1> SUFFICES ASSUME NEW i \in DOMAIN slot[s].prompt
             PROVE  <<i - 1, slot[s].prompt[i]>> \in Stored(s)
    BY DEF Context
<1>2. i - 1 \in 0 .. Len(slot[s].prompt) - 1 /\ i - 1 + 1 = i
    BY <1>1, LenProperties
<1>3. PICK c \in CellsOf(s) : c.pos = i - 1
    BY <1>2 DEF Exact
<1>4. c.token = slot[s].prompt[i]
    BY <1>2, <1>3 DEF Exact, At
<1> QED BY <1>3, <1>4 DEF Stored

\* A slot is sampled from the output of the last token of its prompt, computed
\* over all tokens before it; a child from that of its parent.
THEOREM SampledFromLastToken == Spec => []OutputOfLastToken
<1>1. Inv => OutputOfLastToken
    <2> SUFFICES ASSUME Inv, pc = "post", NEW s \in Slots, Sampled(s), s >= cursor
                 PROVE  LET last == batch[slot[s].i_batch + 1] IN
                        /\ last.output /\ last.pos = Len(slot[s].prompt) - 1
                        /\ ~Idle(last.slot) /\ ~CopiedChild(last.slot) =>
                               Context(s) \subseteq Stored(last.slot)
      BY DEF OutputOfLastToken
    <2>1. /\ TypeOK /\ SweepInv /\ slot[s].i_batch \in Int /\ Served(s)
      BY DEF Inv, TypeOK, SlotRecord, Sampled, Served
    <2>2. IsDue(s)
      <3>1. /\ batch \in Seq(BatchTokens) /\ off \in Nat /\ off <= Len(batch) /\ n_batch \in Nat
            /\ cursor \in Slots
        BY <2>1, SlotsType DEF TypeOK, SweepInv
      <3>2. Len(SubBatch) \in Nat /\ Len(batch) \in Nat /\ off + Len(SubBatch) <= Len(batch)
        BY <3>1, SubBatchType
      <3>3. off <= slot[s].i_batch /\ slot[s].i_batch < off + Len(SubBatch)
        BY DEF Sampled, InView
      <3>4. ~(s < cursor)
        BY <3>1, SlotsType
      <3> QED BY <2>1, <3>1, <3>2, <3>3, <3>4 DEF IsDue, Open
    <2>3. PICK p \in Slots : p = batch[slot[s].i_batch + 1].slot
      BY <2>1, <2>2, OpenInBatch DEF IsDue
    <2>4. LET last == batch[slot[s].i_batch + 1] IN
          /\ last.output /\ last.pos = Len(slot[s].prompt) - 1
          /\ IF slot[s].state = "DONE_PROMPT" /\ IsChild(s) THEN SharesOutput(s, p) ELSE p = s
      BY <2>1, <2>2, <2>3 DEF Inv, OutputInv
    <2>5. ASSUME ~Idle(p), ~CopiedChild(p)
          PROVE  Context(s) \subseteq Stored(p)
      <3>1. Exact(p)
        BY <2>5 DEF Inv, ExactInv
      <3>2. slot[p].prompt = slot[s].prompt /\ Pending(p) = {}
        <4>1. CASE p = s
          BY <4>1, NothingLeft
        <4>2. CASE p # s
          <5>1. SharesOutput(s, p)
            BY <2>4, <4>2
          <5>2. CASE slot[p].state = "DONE_PROMPT" /\ slot[p].i_batch = slot[s].i_batch
            <6>1. Sampled(p)
              BY <5>2 DEF Sampled
            <6> QED BY <2>5, <5>1, <6>1, NothingLeft DEF SharesOutput
          <5>3. CASE slot[p].state = "GENERATING" /\ slot[p].i_batch = -1
            <6>1. \A i \in Pending(p) : i \in Nat /\ i >= 1 /\ i <= -1 + 1
              BY <2>1, <5>3, PendingType DEF Inv, PendingInv, Served
            <6>2. Pending(p) = {}
              BY <6>1
            <6> QED BY <2>5, <5>1, <6>2 DEF SharesOutput
          <5> QED BY <2>5, <5>1, <5>2, <5>3 DEF SharesOutput
        <4> QED BY <4>1, <4>2
      <3>3. Context(p) \subseteq Stored(p)
        BY <2>1, <3>1, <3>2, ContextStored
      <3> QED BY <3>2, <3>3 DEF Context
    <2> QED BY <2>3, <2>4, <2>5
<1> QED BY <1>1, InvAlways, PTL

\* What a slot has stored stays stored as long as its cells are the same.
LEMMA StoredKept ==
    ASSUME NEW s, NEW K, kv \subseteq K, SameCells(K, kv', s)
    PROVE  Stored(s) \subseteq Stored(s)'
<1>1. PICK f : /\ CellsIn(kv', s) = {f[c] : c \in CellsIn(K, s)}
               /\ \A c \in CellsIn(K, s) : f[c].pos = c.pos /\ f[c].token = c.token
    BY DEF SameCells
<1>2. CellsOf(s)' = CellsIn(kv', s) /\ CellsOf(s) \subseteq CellsIn(K, s)
    BY DEF CellsOf, CellsIn
<1>3. \A c \in CellsOf(s) : \E d \in CellsOf(s)' : d.pos = c.pos /\ d.token = c.token
    BY <1>1, <1>2
<1> QED BY <1>3 DEF Stored

\* decode() takes nothing from a slot that goes on working, whatever it evicts,
\* stores or shares.
THEOREM BusySlotsKeepContext == Spec => BusyKeepsContext
<1> DEFINE Kept == pc = "decode" =>
               \A s \in Slots : ~Idle(s) /\ ~Idle(s)' /\ slot[s].state # "WAIT_OTHER" =>
                   Stored(s) \subseteq Stored(s)' /\ slot'[s].prompt = slot[s].prompt
<1>1. Inv /\ [Next]_vars => Kept
    <2> SUFFICES ASSUME Inv, [Next]_vars, pc = "decode", NEW s \in Slots, ~Idle(s), ~Idle(s)',
                        slot[s].state # "WAIT_OTHER"
                 PROVE  Stored(s) \subseteq Stored(s)' /\ slot'[s].prompt = slot[s].prompt
      OBVIOUS
    <2>1. ASSUME slot' = slot, kv' = kv
          PROVE  Stored(s) \subseteq Stored(s)' /\ slot'[s].prompt = slot[s].prompt
      BY <2>1 DEF Stored, CellsOf
    <2>2. CASE DecodeCrashes
      BY <2>1, <2>2 DEF DecodeCrashes
    <2>3. CASE DecodeOk
      <3> DEFINE K == kv \cup CellsFor(SubBatch)
      <3>1. kv' = CopyToChildren(K) /\ TypeOK /\ SweepInv /\ HasRoom(SubBatch)
        BY <2>3 DEF DecodeOk, Inv
      <3>2. K \in SUBSET Cells /\ IsFiniteSet(K)
        BY <3>1, StoredCells
      <3>3. s \notin Children
        BY DEF Children, WaitingChildren
      <3>4. slot'[s] = slot[s]
        BY <2>3 DEF DecodeOk
      <3>5. kv \subseteq K
        OBVIOUS
      <3> HIDE DEF K
      <3>6. SameCells(K, kv', s)
        BY <3>1, <3>2, <3>3, CopyToChildrenOthers
      <3> QED BY <3>4, <3>5, <3>6, StoredKept
    <2>4. CASE DecodeFails
      <3>1. slot'[s] = [ReleasedSlot(slot[s]) EXCEPT !.prompt = <<>>] /\ slot[s] \in SlotRecord
        BY <2>4 DEF DecodeFails, Inv, TypeOK
      <3>2. ReleasedSlot(slot[s]) \in SlotRecord /\ ReleasedSlot(slot[s]).state = "IDLE"
        BY <3>1, ReleasedRecord
      <3>3. slot'[s].state = "IDLE"
        <4> DEFINE r == ReleasedSlot(slot[s])
        <4>1. slot'[s] = [r EXCEPT !.prompt = <<>>] /\ r \in SlotRecord /\ r.state = "IDLE"
          BY <3>1, <3>2
        <4> HIDE DEF r
        <4> QED BY <4>1 DEF SlotRecord
      <3> QED BY <3>3 DEF Idle
    <2>5. CASE DecodeRetries
      <3>1. CASE EvictIdleSlot
        <4> DEFINE u == Least(Evictable)
        <4>1. Evictable \in SUBSET Nat /\ Evictable # {}
          BY <3>1, SlotsType DEF EvictIdleSlot, Evictable
        <4>2. u \in Evictable
          BY <4>1, LeastExists
        <4>3. /\ slot' = [slot EXCEPT ![u].prompt = <<>>] /\ kv' = SeqRm(kv, {u}, 0)
          BY <3>1 DEF EvictIdleSlot
        <4> HIDE DEF u
        <4>4. u # s
          BY <4>2 DEF Evictable
        <4>5. kv \in SUBSET Cells /\ slot \in [Slots -> SlotRecord] /\ s \notin {u} /\ 0 \in Nat
          BY <4>4 DEF Inv, TypeOK
        <4>6. SameCells(kv, kv', s)
          BY <4>3, <4>5, SeqRmOthers
        <4>7. slot'[s] = slot[s]
          BY <4>3, <4>4, <4>5
        <4> QED BY <4>6, <4>7, StoredKept
      <3>2. CASE HalveBatch
        BY <2>1, <3>2 DEF HalveBatch
      <3> QED BY <2>5, <3>1, <3>2 DEF DecodeRetries
    <2>6. CASE UNCHANGED vars
      BY <2>1, <2>6 DEF vars
    <2>7. DecodeCrashes \/ DecodeOk \/ DecodeFails \/ DecodeRetries \/ UNCHANGED vars
      BY DEF Next, HandleTasks, Launch, CancelTask, EraseSlot, StartPass, Pass, SkipPrompt,
             AddPromptTokens, Decode, PostDecode, SkipSampling, SampleAndContinue, SampleAndStop
    <2> QED BY <2>2, <2>3, <2>4, <2>5, <2>6, <2>7
<1>2. Spec => [][Kept]_vars
    BY <1>1, InvAlways, PTL DEF Spec
<1> QED BY <1>2 DEF BusyKeepsContext

=============================================================================
