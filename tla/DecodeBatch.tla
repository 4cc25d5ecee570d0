----------------------------- MODULE DecodeBatch -----------------------------
(***************************************************************************)
(* How lhm_context::decode takes a batch apart and puts its outputs        *)
(* together again.                                                         *)
(*                                                                         *)
(* lhm_batch_allocr checks the batch, fills in what the caller left out    *)
(* and splits it into ubatches, in the way that the memory asks for.  A    *)
(* ubatch may take tokens from anywhere in the batch, so the rows of the   *)
(* output buffers are in another order than the tokens.  decode() notes    *)
(* which rows to swap; the first access to the outputs swaps them.         *)
(*                                                                         *)
(* A token is its index in the batch, and a row is the index of the token  *)
(* that it was computed for.  The memory is a set of positions for each    *)
(* sequence; "computed" is what it ought to be.                            *)
(***************************************************************************)
EXTENDS Integers, Sequences, FiniteSets, FiniteSetsExt

CONSTANTS
  NSeq,      \* n_seq_max
  Kinds,     \* the memories to check, some of DOMAIN Splits
  NUbatches, \* the values of n_ubatch to check
  Inputs,    \* bound: the batches that callers pass
  MaxPos,    \* bound: the last position
  Duties     \* what callers heed, some of DutyNames

DutyNames == {"increasing",  \* the positions of a sequence do not go back in a batch
              "shrinking",   \* a token has only sequences that those before it had
              "single",      \* tokens have one sequence, if the memory splits by sequence
              "alone"}       \* and if a computation may fail

SeqId == 0 .. NSeq - 1

ASSUME SizeAssumption  == /\ NSeq \in Nat \ {0} /\ MaxPos \in Nat
                          /\ NUbatches \subseteq Nat \ {0}
ASSUME InputAssumption ==
  \A in \in Inputs :
    /\ in.ids \in Seq(Seq(SeqId) \ {<<>>}) \ {<<>>}
    /\ in.pos \in Seq(Nat) /\ Len(in.pos) \in {0, Len(in.ids)}
    /\ in.out \in Seq(BOOLEAN) /\ Len(in.out) \in {0, Len(in.ids)}
ASSUME DutyAssumption  == Duties \subseteq DutyNames

VARIABLES
  config,    \* the memory and n_ubatch (never change)
  pc,        \* where decode() is
  plan,      \* the splits that are left to try
  batch,     \* the tokens, with sequences, position and output
  used,      \* used[i]: token i is in a ubatch
  ubatches,  \* the ubatches so far
  outIds,    \* out_ids: the tokens with outputs, as ubatches are made
  next,      \* the next ubatch to compute
  mem,       \* mem[s]: the positions of s in the memory
  computed,  \* computed[s]: those that were computed
  out        \* the output buffers and what is known about them

vars == <<config, pc, plan, batch, used, ubatches, outIds, next, mem, computed, out>>

(* init_batch() of the memories: the splits they try *)
Splits == [unified  |-> <<"simple">>,            \* lhm_kv_cache, one stream
           streams  |-> <<"sequential">>,        \* several streams
           iswa     |-> <<"simple", "equal">>,   \* lhm_kv_cache_iswa, one stream
           hybrid   |-> <<"equal">>,             \* with a KV cache of one stream
           rollback |-> <<"seq">>]               \* recurrent, with snapshots

ASSUME KindAssumption == Kinds \subseteq DOMAIN Splits

(* rows and dense: the buffers of outputs and of unmasked nextn embeddings;   *)
(* ids: output_ids, 0 for a token without output; n: n_outputs; ok: the last  *)
(* call returned 0                                                            *)
NoOutput == [rows |-> <<>>, dense |-> <<>>, ids |-> <<>>, n |-> 0, swaps |-> <<>>, ok |-> FALSE]

Init ==
  /\ config \in [kind : Kinds, nUbatch : NUbatches]
  /\ pc = "idle"
  /\ plan = <<>> /\ batch = <<>> /\ used = <<>> /\ ubatches = <<>> /\ outIds = <<>> /\ next = 1
  /\ mem = [s \in SeqId |-> {}]
  /\ computed = mem
  /\ out = NoOutput

(* the elements of T in s, in their order *)
Only(s, T) ==
  LET f[k \in 0 .. Len(s)] == IF k = 0 THEN <<>>
                              ELSE IF s[k] \in T THEN Append(f[k - 1], s[k]) ELSE f[k - 1]
  IN  f[Len(s)]

PosMin(m, s) == IF m[s] = {} THEN -1 ELSE Min(m[s])
PosMax(m, s) == IF m[s] = {} THEN -1 ELSE Max(m[s])

(***************************************************************************)
(* init(): the batch as the rest of decode() sees it.                      *)
(***************************************************************************)
(* each token follows the last one of its first sequence *)
AutoPos(ids, m) ==
  LET p0[i \in 0 .. Len(ids)] ==
        IF i = 0 THEN [s \in SeqId |-> PosMax(m, s) + 1]
        ELSE [s \in SeqId |-> IF s \in Range(ids[i]) THEN p0[i - 1][ids[i][1]] + 1 ELSE p0[i - 1][s]]
  IN  [i \in 1 .. Len(ids) |-> p0[i - 1][ids[i][1]]]

(* <<>> stands for a field that the caller leaves out.  With embeddings, all  *)
(* tokens have outputs.                                                       *)
Filled(in, m) ==
  LET n   == Len(in.ids)
      pos == IF in.pos = <<>> THEN AutoPos(in.ids, m) ELSE in.pos
  IN  [i \in 1 .. n |-> [ids |-> in.ids[i], pos |-> pos[i],
                         out |-> IF in.out = <<>> THEN i = n ELSE in.out[i]]]

Seqs(b, i)      == Range(b[i].ids)
Positions(b, s) == {b[i].pos : i \in {j \in DOMAIN b : s \in Seqs(b, j)}}

(* pairs of a first and a further sequence of a token *)
Coupled(b) == UNION {{<<b[i].ids[1], b[i].ids[j]>> : j \in 2 .. Len(b[i].ids)} : i \in DOMAIN b}

Accepted(b, m) ==
  /\ \A s \in SeqId : LET p == Positions(b, s) IN p # {} =>
       /\ m[s] # {} => Min(p) = PosMax(m, s) + 1
       /\ Max(p) - Min(p) + 1 <= Cardinality(p)
  /\ \A c \in Coupled(b) : /\ PosMin(m, c[1]) = PosMin(m, c[2])
                           /\ PosMax(m, c[1]) = PosMax(m, c[2])

(* what callers heed, and init() does not check *)
Heeded(b) ==
  /\ \A i, j \in DOMAIN b : i < j /\ Seqs(b, i) \cap Seqs(b, j) # {} =>
       /\ "increasing" \in Duties => b[i].pos < b[j].pos
       /\ "shrinking"  \in Duties => Seqs(b, j) \subseteq Seqs(b, i)
  /\ "single" \in Duties /\ config.kind = "rollback" => \A i \in DOMAIN b : Len(b[i].ids) = 1

(* the next split begins where the last one ended *)
ResetNothing(b) == UNCHANGED <<used, ubatches, outIds>>

Reset(b) ==
  /\ used' = [i \in DOMAIN b |-> FALSE]
  /\ ubatches' = <<>>
  /\ outIds' = <<>>

(* A batch that is refused changes nothing. *)
Submit(in) ==
  /\ pc = "idle"
  /\ LET b == Filled(in, mem)
     IN  /\ Accepted(b, mem)
         /\ Heeded(b)
         /\ \A i \in DOMAIN b : b[i].pos <= MaxPos \* bound
         /\ batch' = b
         /\ Reset(b)
  /\ pc' = "split"
  /\ plan' = Splits[config.kind]
  /\ next' = 1
  /\ out' = [out EXCEPT !.swaps = <<>>, !.ok = FALSE]
  /\ UNCHANGED <<config, mem, computed>>

(***************************************************************************)
(* The splits: the tokens of the next ubatch and its sequence sets.        *)
(***************************************************************************)
Tokens(idxs, nSeqs, equal) == [idxs |-> idxs, nSeqs |-> nSeqs, equal |-> equal]
Nothing == Tokens(<<>>, 0, FALSE)

InOrder(T) == Only([i \in DOMAIN batch |-> i], T)

SplitSimple ==
  LET unused == InOrder({i \in DOMAIN batch : ~used[i]})
      k == Min({config.nUbatch, Len(unused)})
  IN  Tokens(SubSeq(unused, 1, k), k, FALSE)

(* sets that share a sequence are taken together *)
SetsThatOverlap(how) ==
  LET f[i \in 0 .. Len(batch)] ==
        IF i = 0 THEN <<>>
        ELSE IF used[i] \/ Seqs(batch, i) \in Range(f[i - 1]) THEN f[i - 1]
        ELSE Append(f[i - 1], Seqs(batch, i))
  IN  f[Len(batch)]

(* The sequence sets of the next ubatch, none of which share a sequence.  With *)
(* "sequential", their first sequences follow each other.                      *)
MayJoin(x, i, how) ==
  /\ ~used[i]
  /\ \A S \in Range(x.sets) : S \cap Seqs(batch, i) = {}
  /\ how = "sequential" /\ x.sets # <<>> => batch[i].ids[1] = x.last + 1
  /\ Len(x.sets) <= config.nUbatch

SequenceSets(how) ==
  LET f[i \in 0 .. Len(batch)] ==
        IF i = 0 THEN [sets |-> <<>>, last |-> -1]
        ELSE IF MayJoin(f[i - 1], i, how)
             THEN [sets |-> Append(f[i - 1].sets, Seqs(batch, i)), last |-> batch[i].ids[1]]
             ELSE f[i - 1]
  IN  f[Len(batch)].sets

(* as many tokens of each set, one set after the other *)
SplitEqual(how) ==
  LET sets  == SequenceSets(how)
      n     == Len(sets)
      Of(S) == InOrder({i \in DOMAIN batch : ~used[i] /\ Seqs(batch, i) = S})
      k     == Min({Len(Of(S)) : S \in Range(sets)} \cup {Max({1, config.nUbatch \div n})})
  IN  IF n = 0 \/ (how = "sequential" /\ Coupled(batch) # {}) THEN Nothing
      ELSE Tokens([x \in 1 .. n * k |-> Of(sets[((x - 1) \div k) + 1])[((x - 1) % k) + 1]], n, TRUE)

(* tokens whose sequences the token before them has too *)
SplitSeq ==
  LET f[i \in 0 .. Len(batch)] ==
        IF i = 0 THEN <<>>
        ELSE IF /\ ~used[i] /\ Len(f[i - 1]) < config.nUbatch
                /\ f[i - 1] # <<>> => Seqs(batch, i) \subseteq Seqs(batch, f[i - 1][Len(f[i - 1])])
             THEN Append(f[i - 1], i) ELSE f[i - 1]
  IN  Tokens(f[Len(batch)], 1, TRUE)

Split(how) ==
  CASE how = "simple" -> SplitSimple
    [] how = "seq"    -> SplitSeq
    [] OTHER          -> SplitEqual(how)

WithOutput(idxs) == Only(idxs, {i \in DOMAIN batch : batch[i].out})

(* ubatch_add() *)
AddUbatch ==
  /\ pc = "split"
  /\ LET u == Split(Head(plan))
     IN  /\ u.idxs # <<>>
         /\ ubatches' = Append(ubatches, u)
         /\ used' = [i \in DOMAIN batch |-> used[i] \/ i \in Range(u.idxs)]
         /\ outIds' = outIds \o WithOutput(u.idxs)
  /\ UNCHANGED <<config, pc, plan, batch, next, mem, computed, out>>

SplitDone == pc = "split" /\ Split(Head(plan)).idxs = <<>>

(* there is room: output_reserve() makes new buffers *)
Place ==
  /\ SplitDone
  /\ \A i \in DOMAIN batch : used[i]
  /\ pc' = "compute"
  /\ out' = [out EXCEPT !.rows = <<>>, !.dense = <<>>, !.n = 0,
                        !.ids = [i \in DOMAIN batch |-> 0]]
  /\ UNCHANGED <<config, plan, batch, used, ubatches, outIds, next, mem, computed>>

(* There are tokens left or no cells for the ubatches: the memory tries its    *)
(* other split, or decode() gives up.                                          *)
TryNext ==
  /\ SplitDone
  /\ IF Len(plan) > 1
     THEN Reset(batch) /\ plan' = Tail(plan) /\ UNCHANGED pc
     ELSE pc' = "done" /\ plan' = <<>> /\ UNCHANGED <<used, ubatches, outIds>>
  /\ UNCHANGED <<config, batch, next, mem, computed, out>>

(***************************************************************************)
(* Computing the ubatches.                                                 *)
(***************************************************************************)
Added(m, idxs) == [s \in SeqId |-> m[s] \cup {batch[i].pos : i \in {j \in Range(idxs) : s \in Seqs(batch, j)}}]

Compute ==
  /\ pc = "compute"
  /\ next <= Len(ubatches)
  /\ LET u == ubatches[next].idxs
     IN  /\ mem' = Added(mem, u)
         /\ computed' = Added(computed, u)
         /\ out' = [out EXCEPT !.rows = @ \o WithOutput(u), !.dense = @ \o u]
  /\ next' = next + 1
  /\ UNCHANGED <<config, pc, plan, batch, used, ubatches, outIds>>

(* one position of a ubatch that failed stays *)
TakenBackTail(m, idxs) ==
  [s \in SeqId |-> LET p == {batch[i].pos : i \in {j \in Range(idxs) : batch[j].ids[1] = s}}
                   IN  IF p = {} THEN m[s] ELSE {q \in m[s] : q < Max(p)}]

(* The positions of the first sequences of a ubatch are removed; the recurrent *)
(* memory, which may refuse to, is in RecurrentMemory.                         *)
TakenBack(m, idxs) ==
  [s \in SeqId |-> LET p == {batch[i].pos : i \in {j \in Range(idxs) : batch[j].ids[1] = s}}
                   IN  IF p = {} THEN m[s] ELSE {q \in m[s] : q < Min(p)}]

ComputeFails ==
  /\ pc = "compute"
  /\ next <= Len(ubatches)
  /\ LET u == ubatches[next].idxs
     IN  /\ "alone" \in Duties => \A i \in Range(u) : Len(batch[i].ids) = 1
         /\ mem' = TakenBack(Added(mem, u), u)
         /\ out' = [out EXCEPT !.n = Len(WithOutput(u))]
  /\ pc' = "done"
  /\ UNCHANGED <<config, plan, batch, used, ubatches, outIds, next, computed>>

Swapped(rows, w) == [rows EXCEPT ![w[1]] = rows[w[2]], ![w[2]] = rows[w[1]]]

(* entries are compared with the one at i, not with the smallest so far *)
SortedToLast(ids) ==
  LET f[i \in 0 .. Len(ids)] ==
        IF i = 0 THEN [ids |-> ids, swaps |-> <<>>]
        ELSE LET x == f[i - 1]
                 J == {k \in i + 1 .. Len(ids) : x.ids[k] < x.ids[i]}
             IN  IF J = {} THEN x
                 ELSE [ids |-> Swapped(x.ids, <<i, Max(J)>>), swaps |-> Append(x.swaps, <<i, Max(J)>>)]
  IN  f[Len(ids)]

(* selection sort, and what it swaps *)
Sorted(ids) ==
  LET f[i \in 0 .. Len(ids)] ==
        IF i = 0 THEN [ids |-> ids, swaps |-> <<>>]
        ELSE LET x == f[i - 1]
                 j == CHOOSE k \in i .. Len(ids) : \A l \in i .. Len(ids) : x.ids[k] <= x.ids[l]
             IN  IF j = i THEN x
                 ELSE [ids |-> Swapped(x.ids, <<i, j>>), swaps |-> Append(x.swaps, <<i, j>>)]
  IN  f[Len(ids)]

RowOf(ids) == [i \in DOMAIN batch |-> IF i \in Range(ids) THEN CHOOSE j \in DOMAIN ids : ids[j] = i ELSE 0]

Finish ==
  /\ pc = "compute"
  /\ next > Len(ubatches)
  /\ LET sorted == Sorted(outIds)
     IN  /\ outIds' = sorted.ids
         /\ out' = [out EXCEPT !.n = Len(outIds), !.ids = RowOf(sorted.ids),
                               !.swaps = sorted.swaps, !.ok = TRUE]
  /\ pc' = "done"
  /\ UNCHANGED <<config, plan, batch, used, ubatches, next, mem, computed>>

(***************************************************************************)
(* Other calls between two batches.                                        *)
(***************************************************************************)
(* every buffer has its rows swapped *)
Reordered(rows, swaps) ==
  LET f[k \in 0 .. Len(swaps)] == IF k = 0 THEN rows ELSE Swapped(f[k - 1], swaps[k])
  IN  f[Len(swaps)]

(* output_reorder(), at the first access *)
Reorder ==
  /\ pc = "done"
  /\ out.swaps # <<>>
  /\ out' = [out EXCEPT !.rows = Reordered(@, out.swaps), !.dense = Reordered(@, out.swaps), !.swaps = <<>>]
  /\ UNCHANGED <<config, pc, plan, batch, used, ubatches, outIds, next, mem, computed>>

(* The caller is done with the outputs: init() starts from nothing. *)
Return ==
  /\ pc = "done"
  /\ pc' = "idle"
  /\ plan' = <<>> /\ batch' = <<>> /\ used' = <<>> /\ ubatches' = <<>> /\ outIds' = <<>> /\ next' = 1
  /\ out' = NoOutput
  /\ UNCHANGED <<config, mem, computed>>

(* seq_rm(s, p0, -1) *)
SeqRm(s, p0) ==
  /\ pc = "idle"
  /\ mem' = [mem EXCEPT ![s] = {p \in @ : p < p0}]
  /\ computed' = [computed EXCEPT ![s] = {p \in @ : p < p0}]
  /\ UNCHANGED <<config, pc, plan, batch, used, ubatches, outIds, next, out>>

Next ==
  \/ \E in \in Inputs : Submit(in)
  \/ AddUbatch \/ Place \/ TryNext
  \/ Compute \/ ComputeFails \/ Finish \/ Reorder \/ Return
  \/ \E s \in SeqId, p0 \in 0 .. MaxPos : SeqRm(s, p0)

Spec == Init /\ [][Next]_vars

(***************************************************************************)
(* Properties.                                                             *)
(***************************************************************************)
(* What the call has noted fits the batch: as many marks, rows that exist,    *)
(* swaps of rows that exist.                                                  *)
TypeOK ==
  /\ pc \in {"idle", "split", "compute", "done"}
  /\ used \in [DOMAIN batch -> BOOLEAN]
  /\ \A i \in DOMAIN ubatches : Range(ubatches[i].idxs) \subseteq DOMAIN batch
  /\ mem \in [SeqId -> SUBSET (0 .. MaxPos)] /\ computed \in [SeqId -> SUBSET (0 .. MaxPos)]
  /\ Range(outIds) \subseteq DOMAIN batch
  /\ Range(out.swaps) \subseteq (1 .. out.n) \X (1 .. out.n)
  /\ out.ok => out.n = Len(out.rows) /\ out.n = Len(outIds) /\ Range(out.ids) \subseteq 0 .. out.n

(* After a call that succeeded, what get_logits_ith() and the like read for a *)
(* token is the row that was computed for it, nothing is read for a token     *)
(* without output, and the rows are in the order of the batch: however often  *)
(* the outputs have been read before.                                         *)
OutputsInPlace ==
  out.ok =>
    /\ \A i \in DOMAIN batch :
         IF batch[i].out THEN out.ids[i] # 0 /\ Reordered(out.rows, out.swaps)[out.ids[i]] = i
                         ELSE out.ids[i] = 0
    /\ Reordered(out.rows, out.swaps) = InOrder({i \in DOMAIN batch : batch[i].out})

(* A place is a ubatch and an index in it. *)
Places       == UNION {{<<u, x>> : x \in DOMAIN ubatches[u].idxs} : u \in DOMAIN ubatches}
TokenAt(p)   == ubatches[p[1]].idxs[p[2]]
Before(p, q) == p[1] < q[1] \/ (p[1] = q[1] /\ p[2] < q[2])

(* The ubatches that are placed have each token once and, of each sequence,   *)
(* earlier positions first: no token is computed before one that it attends   *)
(* to.                                                                        *)
SplitKeepsOrder ==
  pc = "compute" =>
    /\ {TokenAt(p) : p \in Places} = DOMAIN batch
    /\ \A p, q \in Places : Before(p, q) =>
         /\ TokenAt(p) # TokenAt(q)
         /\ Seqs(batch, TokenAt(p)) \cap Seqs(batch, TokenAt(q)) # {}
              => batch[TokenAt(p)].pos < batch[TokenAt(q)].pos

(* A ubatch is not larger than n_ubatch and, with equal_seqs(), has n_seqs    *)
(* sequence sets that share nothing, one after the other with as many tokens  *)
(* each: what find_slot() of the recurrent memory and the streams of the KV   *)
(* cache take for granted.                                                    *)
UbatchesWellFormed ==
  \A u \in Range(ubatches) :
    /\ Len(u.idxs) <= config.nUbatch
    /\ u.equal =>
         LET k == Len(u.idxs) \div u.nSeqs
             Set(i) == (i - 1) \div k
         IN  /\ k * u.nSeqs = Len(u.idxs)
             /\ \A i, j \in DOMAIN u.idxs :
                  IF Set(i) = Set(j) THEN Seqs(batch, u.idxs[i]) = Seqs(batch, u.idxs[j])
                  ELSE Seqs(batch, u.idxs[i]) \cap Seqs(batch, u.idxs[j]) = {}

(* What find_slot() and the graphs rely on in the splits of init_batch(). *)
SplitIsSound == SplitKeepsOrder /\ UbatchesWellFormed

(* The memory has the positions that were computed, without gaps, also after  *)
(* a ubatch in the middle of a batch has failed.                              *)
MemoryIsComputed ==
  /\ mem = computed
  /\ \A s \in SeqId : mem[s] = {} \/ mem[s] = Min(mem[s]) .. Max(mem[s])

(* Unmasked nextn embeddings are "indexed by raw token position".             *)
NextnInPlace ==
  out.ok => \A i \in DOMAIN batch : Reordered(out.dense, out.swaps)[i] = i

=============================================================================
