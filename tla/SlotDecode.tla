----------------------------- MODULE SlotDecode -----------------------------
(***************************************************************************)
(* What one pass of update_slots() does to the slots' prompts and to the   *)
(* unified KV cache: pre_decode() fills a batch with sampled tokens and    *)
(* prompt tokens, decode() stores it one sub-batch at a time, halving the  *)
(* sub-batch or evicting idle slots when the cache is full, and            *)
(* post_decode() samples the slots whose output is in the sub-batch.       *)
(*                                                                         *)
(* One thread does all of this.  A step is one slot of a sweep or one call *)
(* of decode(); tasks are launched and cancelled between two passes        *)
(* (ServerLoop says when).                                                 *)
(*                                                                         *)
(* Abstracted: the queues and results, task types (completions only), lora,*)
(* speculative decoding, checkpoints, context shift and the prompt cache   *)
(* (ctx_shift, --cache-ram and n_cache_reuse are off).                     *)
(***************************************************************************)
EXTENDS Integers, Sequences, FiniteSets

CONSTANTS
    NSlots,     \* n_parallel
    NBatch,     \* lhm_n_batch(): the most tokens of one call of decode()
    NCells,     \* cells of the KV cache, shared by all slots (kv_unified)
    NCtx,       \* slot.n_ctx
    Tokens,     \* the vocabulary
    NoToken,    \* nothing sampled
    Prompts,    \* prompts of the tasks
    NChildren   \* the most children of a task (n_cmpl - 1)

ASSUME SizesAssumption ==
    /\ NSlots \in Nat \ {0} /\ NBatch \in Nat \ {0} /\ NCells \in Nat /\ NCtx \in Nat
    /\ NChildren \in Nat
ASSUME PromptsAssumption ==
    /\ NoToken \notin Tokens
    /\ Prompts \subseteq {p \in Seq(Tokens) : 0 < Len(p) /\ Len(p) < NCtx}

Slots == 0 .. NSlots - 1
NoSlot == -1
NoParent == -1    \* not a child
GoneParent == -2  \* a child whose parent's task has left its slot

VARIABLES
    pc,            \* the phase of the main thread
    cursor,        \* the slot a sweep is at
    slot,          \* server_context_impl::slots
    kv,            \* the used cells of the KV cache
    batch,         \* server_batch::tokens
    slot_batched,  \* batch.slot_batched
    off,           \* first token of the current sub-batch
    n_batch        \* current size limit of a sub-batch

vars == <<pc, cursor, slot, kv, batch, slot_batched, off, n_batch>>

Phases == {"tasks", "prompt", "decode", "post", "crashed"}
States == {"IDLE", "WAIT_OTHER", "STARTED", "PROCESSING_PROMPT", "DONE_PROMPT", "GENERATING"}

\* i_batch is an index into batch, from 0; -1 for none.
SlotRecord == [state : States, task : Seq(Tokens), parent : Slots \cup {NoParent, GoneParent},
               prompt : Seq(Tokens), i_batch : Int,
               sampled : Tokens \cup {NoToken}]
Cells == [pos : Nat, token : Tokens, seqs : SUBSET Slots]
BatchTokens == [slot : Slots, token : Tokens, pos : Nat, output : BOOLEAN]

Idle(s) == slot[s].state = "IDLE"
AllIdle == \A s \in Slots : Idle(s)
IsChild(s) == slot[s].parent # NoParent
Least(S) == CHOOSE n \in S : \A m \in S : n <= m
Greatest(S) == CHOOSE n \in S : \A m \in S : m <= n

Init ==
    /\ pc = "tasks" /\ cursor = 0
    /\ slot = [s \in Slots |-> [state |-> "IDLE", task |-> <<>>, parent |-> NoParent,
                                prompt |-> <<>>, i_batch |-> -1, sampled |-> NoToken]]
    /\ kv = {} /\ batch = <<>> /\ slot_batched = NoSlot /\ off = 0 /\ n_batch = NBatch

-----------------------------------------------------------------------------
(* The KV cache.  A cell is used while it belongs to some slot's sequence. *)

CellsOf(s) == {c \in kv : s \in c.seqs}

\* lhm_kv_cache::seq_rm(s, p0, -1) on a set of cells, for all slots in S.
SeqRm(cells, S, p0) ==
    {c \in {[d EXCEPT !.seqs = IF d.pos >= p0 THEN @ \ S ELSE @] : d \in cells} : c.seqs # {}}

\* The batch allocator accepts a view if each slot's positions continue the ones
\* the cache holds, without holes.
Positions(view, s) == {view[i].pos : i \in {j \in DOMAIN view : view[j].slot = s}}

Consecutive(view) ==
    \A s \in Slots :
        LET P == Positions(view, s) IN
        P # {} =>
          /\ CellsOf(s) # {} => Least(P) = Greatest({c.pos : c \in CellsOf(s)}) + 1
          /\ P = Least(P) .. Greatest(P)

HasRoom(view) == Cardinality(kv) + Len(view) <= NCells

CellsFor(view) ==
    {[pos |-> view[i].pos, token |-> view[i].token, seqs |-> {view[i].slot}] : i \in DOMAIN view}

-----------------------------------------------------------------------------
(* Between two passes: tasks come and go.  Nothing reads the batch then, which *)
(* pre_decode() clears; the model clears it when a pass ends.              *)

NoBatch == batch' = <<>> /\ slot_batched' = NoSlot /\ off' = 0 /\ n_batch' = NBatch

\* server_slot::release(): a child does not keep its context.  (i_batch and sampled
\* are not read again before they are set; the model forgets them.)
ReleasedSlot(rec) ==
    [rec EXCEPT !.state = "IDLE", !.task = <<>>, !.parent = NoParent,
                !.prompt = IF rec.parent = NoParent THEN @ ELSE <<>>,
                !.i_batch = -1, !.sampled = NoToken]

\* Children whose parent is released will not find its id on any slot again.
ReleaseSlot(s) ==
    /\ slot' = [u \in Slots |->
                  IF u = s THEN ReleasedSlot(slot[u])
                  ELSE IF slot[u].parent = s THEN [slot[u] EXCEPT !.parent = GoneParent]
                  ELSE slot[u]]
    /\ kv' = IF IsChild(s) THEN SeqRm(kv, {s}, 0) ELSE kv

Occupied(rec, task, parent) ==
    [rec EXCEPT !.state = IF parent = NoParent THEN "STARTED" ELSE "WAIT_OTHER",
                !.task = task, !.parent = parent]

\* get_free_slots(): the first n idle slots other than s.
FreeSlots(s, n) ==
    {u \in Slots \ {s} : Idle(u) /\ Cardinality({v \in Slots \ {s} : Idle(v) /\ v <= u}) <= n}

\* launch_slot_with_task(), for a task with n children.
Launch(s, task, n) ==
    /\ pc = "tasks" /\ Idle(s)
    /\ Cardinality(FreeSlots(s, n)) = n
    /\ slot' = [u \in Slots |->
                  IF u = s THEN Occupied(slot[u], task, NoParent)
                  ELSE IF u \in FreeSlots(s, n) THEN Occupied(slot[u], task, s)
                  ELSE slot[u]]
    /\ UNCHANGED <<pc, cursor, kv, batch, slot_batched, off, n_batch>>

\* SERVER_TASK_TYPE_CANCEL
CancelTask(s) ==
    /\ pc = "tasks" /\ ~Idle(s)
    /\ ReleaseSlot(s)
    /\ UNCHANGED <<pc, cursor, batch, slot_batched, off, n_batch>>

\* SERVER_TASK_TYPE_SLOT_ERASE, on an idle slot: prompt_clear().
EraseSlot(s) ==
    /\ pc = "tasks" /\ Idle(s) /\ slot[s].prompt # <<>>
    /\ slot' = [slot EXCEPT ![s].prompt = <<>>]
    /\ kv' = SeqRm(kv, {s}, 0)
    /\ UNCHANGED <<pc, cursor, batch, slot_batched, off, n_batch>>

-----------------------------------------------------------------------------
(* pre_decode()                                                            *)

\* handle_last_sampled_token() for every generating slot, in slot order.  A new
\* pass starts with an empty batch.
Generating == {s \in Slots : slot[s].state = "GENERATING"}
Rank(s) == Cardinality({u \in Generating : u < s})

SampledTokens ==
    [i \in 1 .. Cardinality(Generating) |->
        LET s == CHOOSE u \in Generating : Rank(u) = i - 1 IN
        [slot |-> s, token |-> slot[s].sampled, pos |-> Len(slot[s].prompt), output |-> TRUE]]

StartPass ==
    /\ pc = "tasks" /\ ~AllIdle
    /\ batch' = SampledTokens
    /\ slot_batched' = IF Generating = {} THEN NoSlot ELSE Least(Generating)
    /\ slot' = [s \in Slots |->
                  IF s \in Generating
                  THEN [slot[s] EXCEPT !.i_batch = Rank(s), !.prompt = Append(@, slot[s].sampled),
                                       !.sampled = NoToken]
                  ELSE slot[s]]
    /\ pc' = "prompt" /\ cursor' = 0
    /\ UNCHANGED <<kv, off, n_batch>>

\* The sweep over the prompts ends in decode(), or in nothing if there is nothing.
AfterPrompt ==
    IF cursor + 1 < NSlots
    THEN pc' = "prompt" /\ cursor' = cursor + 1
    ELSE /\ pc' = IF batch' = <<>> THEN "tasks" ELSE "decode"
         /\ cursor' = 0

Fillable(s) == Len(batch) < NBatch /\ slot[s].state \in {"STARTED", "PROCESSING_PROMPT"}

SkipPrompt ==
    /\ pc = "prompt" /\ ~Fillable(cursor)
    /\ UNCHANGED <<slot, kv, batch, slot_batched, off, n_batch>>
    /\ AfterPrompt

\* server_tokens::get_common_prefix()
CommonPrefix(p, q) ==
    Greatest({n \in 0 .. Len(p) : n <= Len(q) /\ SubSeq(p, 1, n) = SubSeq(q, 1, n)})

\* n_past: what a new task reuses of the slot's previous prompt, if it may
\* (cache_prompt).  At least one token is evaluated.
Reusable(s) ==
    LET n == CommonPrefix(slot[s].prompt, slot[s].task) IN
    {0, IF n = Len(slot[s].task) THEN n - 1 ELSE n}

\* Tokens n_past + 1 .. n_past + n of the task; the last token of a prompt asks
\* for an output.
PromptTokens(s, n_past, n) ==
    [i \in 1 .. n |->
        [slot |-> s, token |-> slot[s].task[n_past + i], pos |-> n_past + i - 1,
         output |-> n_past + i = Len(slot[s].task)]]

\* A prompt starts or goes on: the cells beyond n_past are removed and tokens join
\* the batch until it is full or the prompt ends.  The fill may stop early, before
\* the latest user message (n_before_user).
AddPromptTokens ==
    LET s == cursor
        task == slot[s].task
        starts == slot[s].state = "STARTED"
    IN
    /\ pc = "prompt" /\ Fillable(s)
    /\ \E n_past \in IF starts THEN Reusable(s) ELSE {Len(slot[s].prompt)} :
       \E n \in 1 .. NBatch - Len(batch) :
          /\ n_past + n <= Len(task)
          /\ batch' = batch \o PromptTokens(s, n_past, n)
          /\ slot' = [slot EXCEPT
                ![s].prompt = SubSeq(task, 1, n_past + n),
                ![s].state = IF n_past + n = Len(task) THEN "DONE_PROMPT" ELSE "PROCESSING_PROMPT",
                ![s].i_batch = IF n_past + n = Len(task) THEN Len(batch) + n - 1 ELSE @]
          /\ kv' = SeqRm(kv, {s}, n_past)
    /\ slot_batched' = IF slot_batched = NoSlot THEN s ELSE slot_batched
    /\ UNCHANGED <<off, n_batch>>
    /\ AfterPrompt

-----------------------------------------------------------------------------
(* decode(), on one sub-batch.                                             *)

SubBatch == SubSeq(batch, off + 1, IF off + n_batch < Len(batch) THEN off + n_batch ELSE Len(batch))

\* LHM_ASSERT(task) of slot_batched->need_embd(), evaluated for every sub-batch.
HeadReleased == slot_batched # NoSlot /\ Idle(slot_batched)

DecodeCrashes ==
    /\ pc = "decode" /\ HeadReleased
    /\ pc' = "crashed"
    /\ UNCHANGED <<cursor, slot, kv, batch, slot_batched, off, n_batch>>

Decoding == pc = "decode" /\ ~HeadReleased

WaitingChildren(s) == {c \in Slots : slot[c].state = "WAIT_OTHER" /\ slot[c].parent = s}

DoneParents == {s \in Slots : slot[s].state = "DONE_PROMPT" /\ WaitingChildren(s) # {}}

\* copy_state_to(): the child takes over the parent's prompt and output index ...
Copied(child, parent) ==
    [child EXCEPT !.state = "DONE_PROMPT", !.prompt = parent.prompt, !.i_batch = parent.i_batch]

\* ... and shares the parent's cells (seq_cp within one stream).
CopyToChildren(cells) ==
    LET children == UNION {WaitingChildren(p) : p \in DoneParents}
        cleared == SeqRm(cells, children, 0)
    IN  {[c EXCEPT !.seqs = @ \cup UNION {WaitingChildren(p) : p \in DoneParents \cap c.seqs}]
            : c \in cleared}

\* Success: the sub-batch is stored, and every parent whose prompt is done hands
\* its state to its children.
DecodeOk ==
    /\ Decoding /\ Consecutive(SubBatch) /\ HasRoom(SubBatch)
    /\ kv' = CopyToChildren(kv \cup CellsFor(SubBatch))
    /\ slot' = [s \in Slots |->
                  IF slot[s].state = "WAIT_OTHER" /\ slot[s].parent \in DoneParents
                  THEN Copied(slot[s], slot[slot[s].parent])
                  ELSE slot[s]]
    /\ pc' = "post" /\ cursor' = 0
    /\ UNCHANGED <<batch, slot_batched, off, n_batch>>

\* "Invalid input batch", or "Context size has been exceeded" for a single token:
\* every busy slot gets an error, is released and loses its context.
DecodeFails ==
    /\ Decoding
    /\ Consecutive(SubBatch) => ~HasRoom(SubBatch) /\ n_batch = 1
    /\ slot' = [s \in Slots |->
                  IF Idle(s) THEN slot[s] ELSE [ReleasedSlot(slot[s]) EXCEPT !.prompt = <<>>]]
    /\ kv' = SeqRm(kv, {s \in Slots : ~Idle(s)}, 0)
    /\ pc' = "tasks" /\ NoBatch
    /\ UNCHANGED cursor

Evictable == {s \in Slots : Idle(s) /\ slot[s].prompt # <<>>}

\* Mutants of EvictIdleSlot: a slot with nothing left in the batch is taken for
\* idle; the evicted slot keeps its prompt.
EvictServedSlot ==
    LET S == {s \in Slots : /\ slot[s].prompt # <<>>
                            /\ \A i \in off + 1 .. Len(batch) : batch[i].slot # s}
    IN
    /\ S # {}
    /\ slot' = [slot EXCEPT ![Least(S)].prompt = <<>>]
    /\ kv' = SeqRm(kv, {Least(S)}, 0)
    /\ UNCHANGED n_batch

EvictCellsOnly ==
    /\ Evictable # {}
    /\ kv' = SeqRm(kv, {Least(Evictable)}, 0)
    /\ UNCHANGED <<slot, n_batch>>

\* try_clear_idle_slots(): the first idle slot with a prompt loses it.
EvictIdleSlot ==
    /\ Evictable # {}
    /\ slot' = [slot EXCEPT ![Least(Evictable)].prompt = <<>>]
    /\ kv' = SeqRm(kv, {Least(Evictable)}, 0)
    /\ UNCHANGED n_batch

\* Mutant of HalveBatch: the same sub-batch is tried again.
KeepTrying == Evictable = {} /\ UNCHANGED <<slot, kv, n_batch>>

HalveBatch ==
    /\ Evictable = {}
    /\ n_batch' = n_batch \div 2
    /\ UNCHANGED <<slot, kv>>

\* Mutant of DecodeRetries: a single token that finds no room is tried again, too.
RetryForever ==
    /\ Decoding /\ Consecutive(SubBatch) /\ ~HasRoom(SubBatch)
    /\ EvictIdleSlot \/ HalveBatch
    /\ UNCHANGED <<pc, cursor, batch, slot_batched, off>>

\* No room: try the same tokens again, after making room or with fewer of them.
DecodeRetries ==
    /\ Decoding /\ Consecutive(SubBatch) /\ ~HasRoom(SubBatch) /\ n_batch > 1
    /\ EvictIdleSlot \/ HalveBatch
    /\ UNCHANGED <<pc, cursor, batch, slot_batched, off>>

-----------------------------------------------------------------------------
(* post_decode(), on the slots whose output is in the sub-batch.           *)

\* Mutant of InView: the limit of a sub-batch is taken for its length.
InFullView(i) == off <= i /\ i < off + NBatch

InView(i) == off <= i /\ i < off + Len(SubBatch)
Sampled(s) == InView(slot[s].i_batch) /\ slot[s].state \in {"DONE_PROMPT", "GENERATING"}

\* After the last slot comes the next sub-batch, with the limit restored, or the
\* end of the pass.
AfterPost ==
    IF cursor + 1 < NSlots
    THEN cursor' = cursor + 1 /\ UNCHANGED <<pc, batch, slot_batched, off, n_batch>>
    ELSE /\ cursor' = 0
         /\ IF off + Len(SubBatch) < Len(batch)
            THEN /\ pc' = "decode"
                 /\ off' = off + Len(SubBatch) /\ n_batch' = NBatch
                 /\ UNCHANGED <<batch, slot_batched>>
            ELSE pc' = "tasks" /\ NoBatch

SkipSampling ==
    /\ pc = "post" /\ ~Sampled(cursor)
    /\ UNCHANGED <<slot, kv>>
    /\ AfterPost

\* Mutant of ContextFull: the next token is not counted.
ContextFullLate(s) == Len(slot[s].prompt) >= NCtx

\* process_token(): generation ends at a stop word, the end of generation or the
\* budget, and in any case when the context is full.
ContextFull(s) == Len(slot[s].prompt) + 1 >= NCtx

\* The slot goes on with the token that was sampled ...
SampleAndContinue ==
    /\ pc = "post" /\ Sampled(cursor) /\ ~ContextFull(cursor)
    /\ \E token \in Tokens :
          slot' = [slot EXCEPT ![cursor].state = "GENERATING", ![cursor].i_batch = -1,
                               ![cursor].sampled = token]
    /\ UNCHANGED kv
    /\ AfterPost

\* ... or is released.
SampleAndStop ==
    /\ pc = "post" /\ Sampled(cursor)
    /\ ReleaseSlot(cursor)
    /\ AfterPost

-----------------------------------------------------------------------------
HandleTasks ==
    \E s \in Slots :
        \/ \E task \in Prompts, n \in 0 .. NChildren : Launch(s, task, n)
        \/ CancelTask(s) \/ EraseSlot(s)

Decode == DecodeCrashes \/ DecodeOk \/ DecodeFails \/ DecodeRetries
PostDecode == SkipSampling \/ SampleAndContinue \/ SampleAndStop

\* update_slots(), which runs to its end once it has started.
Pass == SkipPrompt \/ AddPromptTokens \/ Decode \/ PostDecode

Next == HandleTasks \/ StartPass \/ Pass

Spec == Init /\ [][Next]_vars

FairSpec == Spec /\ WF_vars(Pass)

-----------------------------------------------------------------------------
(* Properties.                                                             *)

\* Every variable has its type, a busy slot has a task, and the cache never holds
\* more than its cells (find_slot()).
TypeOK ==
    /\ pc \in Phases /\ cursor \in Slots
    /\ slot \in [Slots -> SlotRecord]
    /\ \A s \in Slots : Idle(s) <=> slot[s].task = <<>>
    /\ kv \subseteq Cells /\ Cardinality(kv) <= NCells
    /\ batch \in Seq(BatchTokens) /\ slot_batched \in Slots \cup {NoSlot}
    /\ off \in Nat /\ n_batch \in 1 .. NBatch

\* The tokens of the batch that are not stored yet, by position.
FirstPending ==
    IF pc \in {"prompt", "decode", "crashed"} THEN off + 1
    ELSE IF pc = "post" THEN off + Len(SubBatch) + 1
    ELSE Len(batch) + 1

Pending(s) == {i \in FirstPending .. Len(batch) : batch[i].slot = s}

Stored(s) == {<<c.pos, c.token>> : c \in CellsOf(s)}
Promised(s) == {<<batch[i].pos, batch[i].token>> : i \in Pending(s)}
Context(s) == {<<i - 1, slot[s].prompt[i]>> : i \in DOMAIN slot[s].prompt}

\* A child between the decode that woke it and its release.
CopiedChild(s) == IsChild(s) /\ slot[s].state \in {"DONE_PROMPT", "GENERATING"}

\* slot.prompt.tokens is what the model has seen or is about to see: the slot's
\* cells and its tokens still to be decoded make up its prompt, each position
\* once, through reuse, eviction, retries, errors and releases.
ContextAccounted ==
    \A s \in Slots : ~CopiedChild(s) =>
        /\ Stored(s) \cup Promised(s) = Context(s)
        /\ Cardinality(CellsOf(s)) + Cardinality(Pending(s)) = Len(slot[s].prompt)

\* A slot is sampled from the output of the last token of its prompt, computed
\* over all tokens before it (i_batch is shifted by the sub-batch, and a child has
\* the i_batch of its parent).
OutputOfLastToken ==
    pc = "post" =>
        \A s \in Slots : Sampled(s) /\ s >= cursor =>
            LET last == batch[slot[s].i_batch + 1] IN
            /\ last.output /\ last.pos = Len(slot[s].prompt) - 1
            /\ ~Idle(last.slot) /\ ~CopiedChild(last.slot) => Context(s) \subseteq Stored(last.slot)

\* "this check is redundant (for good): we should never get here, because
\* generation should already stopped in process_token()".
NeverOutOfContext ==
    pc = "tasks" =>
        \A s \in Slots : slot[s].state = "GENERATING" => Len(slot[s].prompt) + 1 < NCtx

\* decode() takes nothing from a slot that goes on working, whatever it evicts.
BusyKeepsContext ==
    [][pc = "decode" =>
        \A s \in Slots : ~Idle(s) /\ ~Idle(s)' /\ slot[s].state # "WAIT_OTHER" =>
            Stored(s) \subseteq Stored(s)' /\ slot'[s].prompt = slot[s].prompt]_vars

\* A pass ends: retries run out of slots to evict and of tokens to halve.
PassEnds == pc = "prompt" ~> pc \in {"tasks", "crashed"}

\* LHM_ASSERT(task) in need_embd(): the slot that opened the batch has a task
\* whenever decode() asks it.
HeadKeepsTask == pc = "decode" /\ slot_batched # NoSlot => ~Idle(slot_batched)

\* "when the main prompt is processed, activate all child tasks too": a child
\* that generates has the whole prompt in the cache.
ChildHoldsPrompt ==
    pc = "tasks" =>
        \A s \in Slots : CopiedChild(s) => Stored(s) = Context(s)
=============================================================================
