------------------------------ MODULE KVCache ------------------------------
(***************************************************************************)
(* The KV cache of a context, lhm_kv_cache, and the part of                *)
(* lhm_context::decode() that drives it.                                   *)
(*                                                                         *)
(* The cells of a stream hold positions that sequences share; their K and  *)
(* V data lies in buffers of its own.  With a unified cache all sequences  *)
(* share stream 0, otherwise each has its own.  Metadata runs ahead of the *)
(* data: a copy between streams and a shift of positions change the cells  *)
(* at once and the buffers only with the next decode().  A batch is placed *)
(* in full, taken back, and then placed again ubatch by ubatch.            *)
(*                                                                         *)
(* used, seq_pos_min and seq_pos_max are read off the cells: KVCells shows *)
(* that their indexes agree with the cells.                                *)
(***************************************************************************)
EXTENDS Integers, FiniteSets, FiniteSetsExt, SequencesExt

CONSTANTS
  NSeq,     \* n_seq_max
  Size,     \* the cells of a stream
  NSwa,     \* the sliding window, or 0 for none
  Tok,      \* what the data of a cell may be computed from
  Given,    \* bound: Given[s]: the tokens that sequence s is given
  MaxPos,   \* bound: positions are 0 .. MaxPos
  MaxUb,    \* bound: the ubatches of a batch
  Layouts,  \* the values of "unified" to check
  Ranges,   \* bound: the <<p0, p1>> that callers use
  Deltas,   \* bound: the shifts that callers use
  Savers,   \* bound: the sequences whose state is saved; without any, the whole
            \* state is not saved either
  Careful   \* callers respect what the guards marked with it ask

ASSUME SizeAssumption   == NSeq \in Nat \ {0} /\ Size \in Nat \ {0} /\ Savers \subseteq 0 .. NSeq - 1
ASSUME BoundAssumption  == /\ MaxPos \in Nat /\ MaxUb \in Nat /\ NSwa \in Nat
                           /\ Deltas \subseteq Int
                           /\ Given \in [0 .. NSeq - 1 -> SUBSET Tok]
                           /\ Ranges \subseteq Int \X Int
ASSUME LayoutAssumption == Layouts \subseteq BOOLEAN /\ Careful \in BOOLEAN

VARIABLES
  unified,  \* one stream for all sequences (never changes)
  kv,       \* kv[st][i]: cell i of stream st
  head,     \* head[st]: where the search for cells starts
  data,     \* data[st][i]: the K/V data of the cell, and the position K is rotated for
  origin,   \* origin[st]: the stream whose data st is to have, once sc_info is worked off
  run,      \* the decode() in progress
  snap,     \* the saved state of one sequence; bound: callers hold this or
  whole     \* the saved state of all of them, not both

vars == <<unified, kv, head, data, origin, run, snap, whole>>

SeqId  == 0 .. NSeq - 1
Stream == SeqId
Idx    == 0 .. Size - 1

StreamOf(s) == IF unified THEN 0 ELSE s

Free  == -1
Empty == [pos |-> Free, seq |-> {}, shift |-> 0]
Blank == [tok |-> "none", rot |-> 0]                        \* a cleared buffer

Idle == [phase |-> "idle", S |-> {}, tok |-> <<>>, n |-> 0, k |-> 1, ok |-> TRUE,
         sinfo |-> <<>>, stack |-> <<>>]

NothingSaved == [st \in Stream |-> <<>>]

Unchanged == origin = [st \in Stream |-> st]

(***************************************************************************)
(* Reading the cells.                                                      *)
(***************************************************************************)
(* p0 < 0 stands for 0, p1 < 0 for no end; a free cell is in no range *)
PosIn(cell, p0, p1)  == /\ cell.pos # Free
                        /\ p0 < 0 \/ p0 <= cell.pos
                        /\ p1 < 0 \/ cell.pos < p1
CellsOf(c, s)        == {i \in Idx : s \in c[StreamOf(s)][i].seq}
PosOf(c, s)          == {c[StreamOf(s)][i].pos : i \in CellsOf(c, s)}
SeqPosMin(c, s)      == IF PosOf(c, s) = {} THEN -1 ELSE Min(PosOf(c, s))
SeqPosMax(c, s)      == IF PosOf(c, s) = {} THEN -1 ELSE Max(PosOf(c, s))
Used(c, st)          == {i \in Idx : c[st][i].pos # Free}

MaskedSwa(p0, p1)    == NSwa > 0 /\ p1 - p0 >= NSwa

(* cells by ascending index *)
InOrder(I) ==
  LET first[k \in 0 .. Size] == IF k = 0 THEN <<>>
                                ELSE IF k - 1 \in I THEN Append(first[k - 1], k - 1)
                                ELSE first[k - 1]
  IN  first[Size]

(***************************************************************************)
(* Changing them.                                                          *)
(***************************************************************************)
(* the sequences ss leave a cell, which is free when none is left *)
Leave(cell, ss) == IF cell.seq \cap ss = {} THEN cell
                   ELSE IF cell.seq \subseteq ss THEN Empty
                   ELSE [cell EXCEPT !.seq = @ \ ss]

(* a freed cell below the head becomes the head *)
Lower(h, old, new) ==
  LET freed == {i \in Idx : old[i].pos # Free /\ new[i].pos = Free}
  IN  IF freed # {} /\ Min(freed) < h THEN Min(freed) ELSE h

SeqRmCells(row, s, p0, p1) ==
  [i \in Idx |-> IF PosIn(row[i], p0, p1) THEN Leave(row[i], {s}) ELSE row[i]]

(* the cells of stream st become row, and its head follows *)
Change(st, row) ==
  /\ kv'   = [kv EXCEPT ![st] = row]
  /\ head' = [head EXCEPT ![st] = Lower(@, kv[st], row)]

(***************************************************************************)
(* Calls between two decodes.                                              *)
(***************************************************************************)
Init ==
  /\ unified \in Layouts
  /\ kv     = [st \in Stream |-> [i \in Idx |-> Empty]]
  /\ head   = [st \in Stream |-> 0]
  /\ data   = [st \in Stream |-> [i \in Idx |-> Blank]]
  /\ origin = [st \in Stream |-> st]
  /\ run    = Idle
  /\ snap   = <<>>
  /\ whole  = NothingSaved

Clear ==
  /\ run = Idle
  /\ kv'   = [st \in Stream |-> [i \in Idx |-> Empty]]
  /\ head' = [st \in Stream |-> 0]
  /\ data' = [st \in Stream |-> [i \in Idx |-> Blank]]
  /\ UNCHANGED <<unified, origin, run, snap, whole>>

SeqRm(s, p0, p1) ==
  /\ run = Idle
  /\ Change(StreamOf(s), SeqRmCells(kv[StreamOf(s)], s, p0, p1))
  /\ UNCHANGED <<unified, data, origin, run, snap, whole>>

(* seq_rm(-1, ...): every sequence *)
SeqRmAny(p0, p1) ==
  LET row(st) == [i \in Idx |-> IF PosIn(kv[st][i], p0, p1) THEN Empty ELSE kv[st][i]]
  IN  /\ run = Idle
      /\ kv'   = [st \in Stream |-> row(st)]
      /\ head' = [st \in Stream |-> Lower(head[st], kv[st], row(st))]
      /\ UNCHANGED <<unified, data, origin, run, snap, whole>>

SeqCpShared(s, t, p0, p1) ==
  LET st      == StreamOf(s)
      with(c) == IF s \in c.seq /\ PosIn(c, p0, p1) THEN [c EXCEPT !.seq = @ \cup {t}] ELSE c
  IN  /\ run = Idle
      /\ s # t
      /\ StreamOf(s) = StreamOf(t)
      /\ Careful => CellsOf(kv, t) = {}
      /\ kv' = [kv EXCEPT ![st] = [i \in Idx |-> with(kv[st][i])]]
      /\ UNCHANGED <<unified, head, data, origin, run, snap, whole>>

(* A copy to another stream: the cells now, the buffers with the next update. *)
SeqCpStream(s, t) ==
  /\ run = Idle
  /\ StreamOf(s) # StreamOf(t)
  /\ Careful => CellsOf(kv, t) = {}
  /\ kv' = [kv EXCEPT ![t] = [i \in Idx |->
              IF s \in kv[s][i].seq THEN [kv[s][i] EXCEPT !.seq = {t}] ELSE Empty]]
  /\ head'   = [head EXCEPT ![t] = head[s]]
  /\ origin' = [origin EXCEPT ![t] = origin[s]]
  /\ UNCHANGED <<unified, data, run, snap, whole>>

SeqKeep(s) ==
  /\ run = Idle
  /\ Careful => unified
  /\ Change(StreamOf(s), [i \in Idx |->
       IF s \in kv[StreamOf(s)][i].seq THEN [kv[StreamOf(s)][i] EXCEPT !.seq = {s}] ELSE Empty])
  /\ UNCHANGED <<unified, data, origin, run, snap, whole>>

(* a position below 0 is kept *)
SeqAddKeepsNegative(s, p0, p1, d) ==
  LET st  == StreamOf(s)
      hit == {i \in CellsOf(kv, s) : PosIn(kv[st][i], p0, p1)}
  IN  /\ run = Idle
      /\ d # 0
      /\ \A i \in hit : kv[st][i].pos + d <= MaxPos /\ kv[st][i].seq = {s}
      /\ kv'   = [kv EXCEPT ![st] = [i \in Idx |-> IF i \notin hit THEN @[i]
                    ELSE [@[i] EXCEPT !.pos = @ + d, !.shift = @ + d]]]
      /\ head' = [head EXCEPT ![st] = 0]
      /\ UNCHANGED <<unified, data, origin, run, snap, whole>>

(* Moves the positions; the keys are rotated with the next update. *)
SeqAdd(s, p0, p1, d) ==
  LET st  == StreamOf(s)
      hit == {i \in CellsOf(kv, s) : PosIn(kv[st][i], p0, p1)}
      row == [i \in Idx |-> IF i \notin hit           THEN kv[st][i]
                            ELSE IF kv[st][i].pos + d < 0 THEN Empty
                            ELSE [kv[st][i] EXCEPT !.pos = @ + d, !.shift = @ + d]]
      freed == {i \in hit : row[i] = Empty}
  IN  /\ run = Idle
      /\ d # 0
      /\ \A i \in hit :
           /\ kv[st][i].pos + d <= MaxPos                      \* bound
           /\ Careful => kv[st][i].seq = {s}
      /\ Careful => \A i \in hit, j \in CellsOf(kv, s) \ hit : kv[st][i].pos + d # kv[st][j].pos
      /\ kv'   = [kv EXCEPT ![st] = row]
      /\ head' = [head EXCEPT ![st] = IF freed = {} THEN 0 ELSE Min(freed)]
      /\ UNCHANGED <<unified, data, origin, run, snap, whole>>

(***************************************************************************)
(* decode(): pending work, placing the batch, computing it.                *)
(***************************************************************************)
(* update(): the buffers of the streams are copied and the keys rotated *)
Rotated(st, i) == LET from == data[origin[st]][i]
                  IN  [from EXCEPT !.rot = @ + kv[st][i].shift]

(* the shifts are forgotten, the keys were not rotated *)
DecodeWithoutShift(S, tok, n) ==
  /\ run = Idle
  /\ S # {} /\ n \in 1 .. MaxUb
  /\ \A s \in S : SeqPosMax(kv, s) + n <= MaxPos
  /\ data'   = [st \in Stream |-> [i \in Idx |-> data[origin[st]][i]]]
  /\ kv'     = [st \in Stream |-> [i \in Idx |-> [kv[st][i] EXCEPT !.shift = 0]]]
  /\ origin' = [st \in Stream |-> st]
  /\ run'    = [Idle EXCEPT !.phase = "prepare", !.S = S, !.tok = tok, !.n = n]
  /\ UNCHANGED <<unified, head, snap, whole>>

(* A batch with n tokens for each sequence of S, at the positions that follow *)
(* those in memory, split into n ubatches.                                    *)
Decode(S, tok, n) ==
  /\ run = Idle
  /\ S # {} /\ n \in 1 .. MaxUb
  /\ \A s \in S : SeqPosMax(kv, s) + n <= MaxPos               \* bound
  /\ data'   = [st \in Stream |-> [i \in Idx |-> Rotated(st, i)]]
  /\ kv'     = [st \in Stream |-> [i \in Idx |-> [kv[st][i] EXCEPT !.shift = 0]]]
  /\ origin' = [st \in Stream |-> st]
  /\ run'    = [Idle EXCEPT !.phase = "prepare", !.S = S, !.tok = tok, !.n = n]
  /\ UNCHANGED <<unified, head, snap, whole>>

(* is_empty(), or a cell of one sequence that its window has left behind *)
CanUse(c, st, i) ==
  \/ c[st][i].pos = Free
  \/ \E s \in SeqId : c[st][i].seq = {s} /\ MaskedSwa(c[st][i].pos, SeqPosMax(c, s) + 1)

(* the search does not wrap around *)
SearchUpwards(c, st, h, n) ==
  LET from == IF h > Cardinality(Used(c, st)) + 2*n THEN 0 ELSE h
  IN  InOrder({i \in from .. Size - 1 : CanUse(c, st, i)})

(* find_slot(): the usable cells of a stream for n tokens, in the order they   *)
(* are tried from head h                                                       *)
Search(c, st, h, n) ==
  LET from == IF h > Cardinality(Used(c, st)) + 2*n THEN 0 ELSE h
  IN  InOrder({i \in from .. Size - 1 : CanUse(c, st, i)})
        \o InOrder({i \in 0 .. from - 1 : CanUse(c, st, i)})

IndexFirst(at, i) == Min({k \in DOMAIN at : at[k] = i})

InStream(S, st) == {s \in S : StreamOf(s) = st}
Streams(S)      == {StreamOf(s) : s \in S}
Rank(S, s)      == Cardinality({t \in InStream(S, StreamOf(s)) : t <= s})

Found(S, st) == Search(kv, st, head[st], Cardinality(InStream(S, st)))
Fits(S) == \A st \in Streams(S) : Cardinality(InStream(S, st)) <= Len(Found(S, st))
Slot(S) == [s \in S |-> Found(S, StreamOf(s))[Rank(S, s)]]

(* apply_ubatch(): put[st] gives the new content of some cells of stream st.  *)
(* What they held is purged from its sequence with all that came before it.   *)
Overwritten(c, put, q) ==
  UNION {{c[st][i].pos : i \in {j \in DOMAIN put[st] : c[st][j].seq = {q}}} : st \in Stream}
Apply(c, put) ==
  LET past(cell)  == {q \in cell.seq : \E p \in Overwritten(c, put, q) : cell.pos <= p}
      new(st, i) == IF i \in DOMAIN put[st] THEN put[st][i] ELSE c[st][i]
  IN  [st \in Stream |-> [i \in Idx |-> Leave(new(st, i), past(new(st, i)))]]

(* the next position of each sequence goes to its cell *)
Placed(at, st, i) == {s \in DOMAIN at : StreamOf(s) = st /\ at[s] = i}
PutAt(at) ==
  [st \in Stream |-> [i \in {at[s] : s \in InStream(DOMAIN at, st)} |->
     LET s == Min(Placed(at, st, i))
     IN  [pos |-> SeqPosMax(kv, s) + 1, seq |-> {s}, shift |-> 0]]]
Taken(at) == Apply(kv, PutAt(at))

HeadsAfter(at) == [st \in Stream |->
  LET S == InStream(DOMAIN at, st) IN IF S = {} THEN head[st] ELSE at[Max(S)] + 1]

(* prepare(), first loop: one more ubatch is placed, what it overwrites is kept *)
Prepare ==
  /\ run.phase = "prepare"
  /\ IF run.k > run.n \/ ~Fits(run.S)
     THEN /\ run' = [run EXCEPT !.phase = "rollback", !.ok = run.k > run.n]
          /\ UNCHANGED <<kv, head>>
     ELSE LET at == Slot(run.S)
          IN  /\ kv'   = Taken(at)
              /\ head' = HeadsAfter(at)
              /\ run'  = [run EXCEPT !.k = @ + 1, !.sinfo = Append(@, at),
                            !.stack = Append(@, [at   |-> at,
                                                 old  |-> [s \in run.S |-> kv[StreamOf(s)][at[s]]],
                                                 head |-> head])]
  /\ UNCHANGED <<unified, data, origin, snap, whole>>

(* The heads are remembered by stream and brought back by the place of the     *)
(* stream in the ubatch: one that is not the first may get another one's head. *)
HeadsBack(heads) ==
  [st \in Stream |-> IF st \notin Streams(run.S) THEN head[st]
                     ELSE heads[Cardinality({u \in Streams(run.S) : u < st})]]

(* the state that is dropped is not the one that was restored *)
RollbackForgets ==
  /\ run.phase = "rollback"
  /\ IF run.stack = <<>>
     THEN /\ run' = IF run.ok THEN [run EXCEPT !.phase = "run", !.k = 1] ELSE Idle
          /\ UNCHANGED <<kv, head>>
     ELSE LET last == Last(run.stack)
          IN  /\ kv'   = [st \in Stream |-> [i \in Idx |->
                            LET S == Placed(last.at, st, i)
                            IN  IF S = {} THEN kv[st][i] ELSE last.old[Min(S)]]]
              /\ run'  = [run EXCEPT !.stack = SubSeq(@, 2, Len(@))]
              /\ head' = HeadsBack(last.head)
  /\ UNCHANGED <<unified, data, origin, snap, whole>>

(* prepare(), second loop: the cells and heads are restored, last ubatch first *)
Rollback ==
  /\ run.phase = "rollback"
  /\ IF run.stack = <<>>
     THEN /\ run' = IF run.ok THEN [run EXCEPT !.phase = "run", !.k = 1] ELSE Idle
          /\ UNCHANGED <<kv, head>>
     ELSE LET last == Last(run.stack)
          IN  /\ kv'   = [st \in Stream |-> [i \in Idx |->
                            LET S == Placed(last.at, st, i)
                            IN  IF S = {} THEN kv[st][i] ELSE last.old[Min(S)]]]
              /\ head' = HeadsBack(last.head)
              /\ run'  = [run EXCEPT !.stack = Front(@)]
  /\ UNCHANGED <<unified, data, origin, snap, whole>>

Finish == run' = IF run.k = run.n THEN Idle ELSE [run EXCEPT !.k = @ + 1]

(* process_ubatch(): the cells are taken, the data of the tokens is computed *)
Compute ==
  LET at == run.sinfo[run.k]
  IN  /\ run.phase = "run"
      /\ kv'   = Taken(at)
      /\ head' = HeadsAfter(at)
      /\ data' = [st \in Stream |-> [i \in Idx |->
                    LET S == Placed(at, st, i)
                    IN  IF S = {} THEN data[st][i]
                        ELSE [tok |-> run.tok[Min(S)], rot |-> SeqPosMax(kv, Min(S)) + 1]]]
      /\ Finish
      /\ UNCHANGED <<unified, origin, snap, whole>>

(* The computation fails or is aborted: the positions of this ubatch are      *)
(* removed, those of the ubatches before it stay.                             *)
ComputeFails ==
  LET at  == run.sinfo[run.k]
      late(cell) == {s \in run.S : cell.pos > SeqPosMax(kv, s)}
      row(st) == [i \in Idx |-> Leave(Taken(at)[st][i], late(Taken(at)[st][i]))]
  IN  /\ run.phase = "run"
      /\ kv'   = [st \in Stream |-> row(st)]
      /\ head' = [st \in Stream |-> Lower(HeadsAfter(at)[st], Taken(at)[st], row(st))]
      /\ run'  = Idle
      /\ UNCHANGED <<unified, data, origin, snap, whole>>

(***************************************************************************)
(* Saving and restoring.                                                   *)
(***************************************************************************)
(* what is written of the cells I of a stream, in the order of the cells *)
Written(st, I) ==
  LET order == InOrder(I)
  IN  [k \in 1 .. Len(order) |-> [pos |-> kv[st][order[k]].pos, seq |-> kv[st][order[k]].seq,
                                  tok |-> data[st][order[k]].tok, rot |-> data[st][order[k]].rot]]

(* no copy is to be made of the data, and no key is to be rotated *)
Settled == Unchanged /\ \A st \in Stream, i \in Idx : kv[st][i].shift = 0

StateWrite(s) ==
  /\ run = Idle
  /\ Careful => Settled
  /\ snap' = Written(StreamOf(s),
       {i \in CellsOf(kv, s) : ~MaskedSwa(kv[StreamOf(s)][i].pos, SeqPosMax(kv, s))})
  /\ whole' = NothingSaved
  /\ UNCHANGED <<unified, kv, head, data, origin, run>>

(* The sequence is removed and cells for it are searched like for a ubatch;   *)
(* when they do not suffice, it is left empty.  An empty state is skipped: it *)
(* does not even remove the sequence.                                         *)
StateRead(s) ==
  LET st   == StreamOf(s)
      n    == Len(snap)
      rest == [kv EXCEPT ![st] = SeqRmCells(@, s, -1, -1)]
      low  == Lower(head[st], kv[st], rest[st])
      at   == Search(rest, st, low, n)
      put  == [u \in Stream |-> IF u # st THEN <<>>
               ELSE [i \in {at[k] : k \in 1 .. n} |->
                       [pos |-> snap[IndexFirst(at, i)].pos, seq |-> {s}, shift |-> 0]]]
  IN  /\ run = Idle
      /\ Careful => Settled /\ n > 0
      /\ CASE n = 0       -> UNCHANGED <<kv, head, data>>
           [] n > Len(at) -> Change(st, rest[st]) /\ UNCHANGED data
           [] OTHER       ->
                /\ kv'   = Apply(rest, put)
                /\ head' = [head EXCEPT ![st] = at[n] + 1]
                /\ data' = [data EXCEPT ![st] = [i \in Idx |->
                              IF i \notin DOMAIN put[st] THEN @[i]
                              ELSE [tok |-> snap[IndexFirst(at, i)].tok,
                                    rot |-> snap[IndexFirst(at, i)].rot]]]
      /\ UNCHANGED <<unified, origin, run, snap, whole>>

StateWriteAll ==
  /\ run = Idle
  /\ Savers # {}                                              \* bound
  /\ Careful => Settled /\ unified
  /\ whole' = [st \in Stream |-> Written(st, Used(kv, st))]
  /\ snap'  = <<>>
  /\ UNCHANGED <<unified, kv, head, data, origin, run>>

(* Stream by stream; each one that is not empty clears the whole cache before *)
(* it is read, so the last of them is all that stays.                         *)
StateReadAll ==
  LET some == {st \in Stream : whole[st] # <<>>}
      last == Max(some)
      n    == Len(whole[last])
  IN  /\ run = Idle
      /\ Careful => Settled /\ some # {}
      /\ IF some = {} THEN UNCHANGED <<kv, head, data>>
         ELSE /\ kv'   = [st \in Stream |-> [i \in Idx |->
                            IF st = last /\ i < n
                            THEN [Empty EXCEPT !.pos = whole[st][i+1].pos, !.seq = whole[st][i+1].seq]
                            ELSE Empty]]
              /\ head' = [st \in Stream |-> 0]
              /\ data' = [st \in Stream |-> [i \in Idx |->
                            IF st = last /\ i < n
                            THEN [tok |-> whole[st][i+1].tok, rot |-> whole[st][i+1].rot]
                            ELSE Blank]]
      /\ UNCHANGED <<unified, origin, run, snap, whole>>

(***************************************************************************)
Next ==
  \/ Clear
  \/ \E r \in Ranges :
       \/ SeqRmAny(r[1], r[2])
       \/ \E s \in SeqId :
            \/ SeqRm(s, r[1], r[2])
            \/ \E t \in SeqId : SeqCpShared(s, t, r[1], r[2])
            \/ \E d \in Deltas : SeqAdd(s, r[1], r[2], d)
  \/ \E s \in SeqId : SeqKeep(s) \/ StateRead(s)
  \/ \E s, t \in SeqId : SeqCpShared(s, t, -1, -1) \/ SeqCpStream(s, t)
  \/ \E s \in Savers : StateWrite(s)
  \/ \E S \in SUBSET SeqId : \E tok \in [S -> Tok], n \in 1 .. MaxUb :
       (\A s \in S : tok[s] \in Given[s]) /\ Decode(S, tok, n)
  \/ Prepare \/ Rollback \/ Compute \/ ComputeFails
  \/ StateWriteAll \/ StateReadAll

Spec == Init /\ [][Next]_vars

(***************************************************************************)
(* What the users of the memory see.                                       *)
(***************************************************************************)
(* the cells that prepare() has taken and will give back *)
OnTrial(st) == UNION {{e.at[s] : s \in InStream(run.S, st)} : e \in Range(run.stack)}

SeqContent(s) ==
  LET st == StreamOf(s)
  IN  {<<kv[st][i].pos, data[origin[st]][i].tok>> : i \in CellsOf(kv, s) \ OnTrial(st)}
SavedContent(E) == {<<e.pos, e.tok>> : e \in E}
SavedOf(s) == SavedContent({e \in UNION {Range(whole[st]) : st \in Stream} : s \in e.seq})

Memory == INSTANCE SequenceMemory WITH
            mem   <- [s \in SeqId |-> SeqContent(s)],
            snap  <- SavedContent(Range(snap)),
            whole <- [s \in SeqId |-> SavedOf(s)]

(***************************************************************************)
(* Properties.                                                             *)
(***************************************************************************)
Cells == [pos : 0 .. MaxPos, seq : (SUBSET SeqId) \ {{}}, shift : -MaxPos .. MaxPos] \cup {Empty}
Data  == [tok : Tok \cup {"none"}, rot : 0 .. MaxPos]

(* Every cell is free and clean or has a position and a sequence of its    *)
(* stream; heads stay in range.                                            *)
TypeOK ==
  /\ unified \in Layouts
  /\ kv     \in [Stream -> [Idx -> Cells]]
  /\ \A st \in Stream, i \in Idx, s \in SeqId : s \in kv[st][i].seq => StreamOf(s) = st
  /\ head   \in [Stream -> 0 .. Size]
  /\ data   \in [Stream -> [Idx -> Data]]
  /\ origin \in [Stream -> Stream]
  /\ run.phase \in {"idle", "prepare", "rollback", "run"}

(* The cells, streams, pending copies and shifts, trial placements,        *)
(* failures of a batch and saved states keep what lhm.h promises: each     *)
(* sequence holds the tokens it was given, at their positions, whatever is *)
(* done to the others.  The content is read from the buffers as they will  *)
(* be when the pending copies are made.                                    *)
Implements == Memory!Spec

(* The key of every token is, or with the next update will be, rotated for *)
(* the position of the token: no mixture of copies between streams, shifts *)
(* and updates loses a shift or applies one twice.                         *)
KeysFollowPositions ==
  \A st \in Stream : \A i \in Used(kv, st) \ OnTrial(st) :
      data[origin[st]][i].rot + kv[st][i].shift = kv[st][i].pos

(* find_slot() refuses a ubatch only when its stream has too few usable    *)
(* cells, wherever the head stands.                                        *)
RefusedOnlyWhenFull ==
  run.phase = "rollback" /\ ~run.ok /\ Len(run.stack) = run.k - 1 =>
    \E st \in Streams(run.S) :
      Cardinality({i \in Idx : CanUse(kv, st, i)}) < Cardinality(InStream(run.S, st))

(* "all positions in the range [pos_min, pos_max] are guaranteed to be     *)
(* present in the memory": with a sliding window, prepare() purges         *)
(* positions that taking the batch back does not restore.                  *)
PositionsPresent ==
  run = Idle => \A s \in SeqId : PosOf(kv, s) # {} =>
                  PosOf(kv, s) = SeqPosMin(kv, s) .. SeqPosMax(kv, s)

=============================================================================
