# lhm in TLA+

Models of the serving core of lhm (`src/llm_server`, with what it uses of `models/kvcache`,
`models/memory`, `models/lhm_batch.cpp` and `models/lhm_context.cpp`), the TLC configurations that check
them, and the theorems that TLAPS proves about them. Paths below are relative to
the repository root. `PROJECT.json` holds the exact correspondence between
definitions and source lines, the hazards the properties are aimed at, the
findings and the mutants that show that each property can fail.

Run a model with `tlc -config MCServerLoop_mix.cfg MCServerLoop`, a proof with
`tlapm ServerLoop_proofs.tla`.

## 1. The system

lhm is an inference server. HTTP worker threads turn requests into tasks; one main
thread owns the model and serves the tasks on a fixed number of slots.

| part | state | operations |
|---|---|---|
| `server_queue` | `queue_tasks`, `queue_tasks_deferred`, `running`, `sleeping`, `req_stop_sleeping`, one mutex and condition variable | `post`, `defer`, `pop_deferred_task`, `cleanup_pending_task`, `wait_until_no_sleep`, `start_loop`, `terminate` |
| `server_response` | `waiting_task_ids`, `queue_results`, one mutex and condition variable | `add_waiting_task_ids`, `remove_waiting_task_ids`, `send`, `recv_with_timeout` |
| `server_response_reader` | ids, received results, cancelled | `post_tasks`, `next`, `stop` |
| `server_context_impl` | `slots`, `batch`, the KV cache, the prompt cache, `sleeping` | `process_single_task`, `update_slots` = `pre_decode`, `decode`, `post_decode`; `handle_sleeping_state` |
| `server_slot` | state, task, prompt, `i_batch`, sampled token | `launch_slot_with_task`, `release`, `prompt_clear`, `copy_state_to` |
| `lhm_kv_cells` | per cell: position, pending shift, sequences; indexes `used` and `seq_pos` | `rm`, `seq_rm`, `seq_keep`, `seq_add`, `pos_set`, `pos_add`, `pos_div`, `cp`, `set` |
| `lhm_kv_cache` | cells and a head per stream, pending stream copies | `seq_rm`, `seq_cp`, `seq_keep`, `seq_add`, `find_slot`, `apply_ubatch`, `prepare`, `update`, `state_write`, `state_read` |
| `lhm_memory_recurrent` | cells with positions and sequences, the tail of each sequence, head, rows of states with snapshots, a selected snapshot per sequence | `clear`, `seq_rm`, `seq_cp`, `seq_keep`, `find_slot`, `s_copy`, `state_write`, `state_read` |
| `lhm_batch_allocr`, `lhm_context::decode` | the batch, the tokens in ubatches, output rows, pending swaps | `init`, `split_simple`, `split_equal`, `split_seq`, `decode`, `output_reorder` |
| `server_prompt_cache` | saved states by prompt, oldest first; a limit that shrinks | `alloc`, `load`, `update` |

Interaction: a reader registers its ids, posts tasks and waits for results under two
different mutexes. The main thread pops a task, gives it to a slot, defers it or
answers it; when the queue is empty it makes one pass over all slots, after posting
`NEXT_RESPONSE` to itself so that it comes back. A slot that is released calls back
into the queue, which moves one deferred task to the front. A reader that leaves early
posts CANCELs to the front, each of which first removes its target from both deques.
A signal handler calls `terminate()`. When idle long enough the main thread destroys
the model and waits to be woken.

Two records of the same thing meet in a slot: the tokens it says it has, and the cells
of its sequence. Prefix reuse, the prompt cache, slot files, adapters, eviction and failed
decodes change the one or the other. Below that, the KV cache promises its users
sequences of tokens while it moves cells, heads, streams, pending copies and pending
shifts about, and places every batch once on trial before it computes it. A recurrent memory
has one state per sequence instead, in a row that sequences share, swap and take back. Above
them, `decode()` takes a batch apart in the way the memory asks for, and puts the outputs back in
the order of the batch when somebody reads them.

What is hard: the interleavings of readers with the main thread between two
acquisitions of a mutex; cancellation of a task that is queued, deferred, in the main
thread's hand, or on a slot; errors that release slots in the middle of a pass; a batch
that is decoded in several parts while the slots behind it change; children that wait
for their parent's prompt; sleeping and waking. `PROJECT.json` lists these hazards at
their lines, the ones no property covers with the reason.

What makes each part correct:

- queues and readers: a task is in one place, answered at most once, a queued result is
  taken or dropped by its reader, every patient request is answered in full, nothing waits while there is
  work;
- slots and passes: a slot is idle exactly when it has no task, tasks of one class
  share a batch, the slot that opened a batch keeps its task;
- decoding: a slot's prompt is exactly what its cells and its pending tokens hold,
  through reuse, eviction, halving and errors; a slot samples from the output of its
  last token; a pass ends;
- prompt cache: what a slot or an entry claims is in its cells, and moving prompts about
  loses none that there is room for;
- KV cache: whatever happens to cells, a sequence has the tokens it was given at the
  positions they were given, and every key is rotated for its position;
- recurrent memory: the state of a sequence is that of its own tokens, whoever else moved,
  shared or cleared the rows;
- batches: a token is computed once and after those it attends to, an output is found at the
  token it was asked for, and the memory has what was computed;
- sleeping: queue and context agree on who sleeps, a request to wake up reaches the main
  thread (which the code does not always achieve, see `queuesleep_swallowed`), the loop ends when told.

## 2. Modules

| module | models |
|---|---|
| `ServerLoop` | both queues, one reader per request, the slots and the phases of the main thread |
| `SlotDecode` | one pass in detail: prompts token by token, sub-batches, cells |
| `QueueSleep` | the condition variable of the task queue: dozing, sleeping, waking, terminating |
| `PromptCache` | the prompts of the slots, their cells and the prompt cache; slot files and adapters |
| `KVCells` | `lhm_kv_cells`: the arrays of one stream and their indexes |
| `KVCache` | `lhm_kv_cache` and how `lhm_context::decode` drives it |
| `SequenceMemory` | abstract: what `lhm.h` promises of a context's memory; `KVCache` implements it |
| `RecurrentMemory` | `lhm_memory_recurrent`: cells, tails, rows and snapshots, and what a graph does with the rows |
| `DecodeBatch` | `lhm_batch_allocr` and `lhm_context::decode`: ubatches and the order of outputs |
| `MC...` | the instances TLC checks, one module for each of the models |
| `ServerLoop_proofs`, `QueueSleep_proofs`, `SlotDecode_proofs`, `PromptCache_proofs`, `KVCells_proofs`, `KVCache_proofs`, `RecurrentMemory_proofs`, `DecodeBatch_proofs` | theorems |

The models overlap where one is the other's abstraction. `ServerLoop` does not
know tokens or cells and decodes a batch at once; `SlotDecode` does not know queues and
takes tasks from the environment between two passes, which is when the main thread
handles tasks. `QueueSleep` reduces handling a task to answering it. `PromptCache` has
the pass only as far as it changes prompts and cells, and a sequence of cells per slot
where `KVCache` has cells; that this is what the cache offers is what `SequenceMemory` says,
the run `kvcache` checks and `KVCache_proofs` proves. `KVCache` describes a cell by position, sequences and shift;
that the indexes of `lhm_kv_cells`, from which the code reads positions and counts, agree
with such cells is what `KVCells` is about. `DecodeBatch` has the ubatches that `KVCache` and
`RecurrentMemory` take as given, and a memory that is a set of positions per sequence; whether
there is room is a choice there.

### ServerLoop

A step is what one thread does under one acquisition of `mutex_tasks` or
`mutex_results`, or what the main thread does to one slot of a sweep. Readers are
`AddWaitingTaskIds`, `PostTasks`, `Receive`, `Finish`, `HangUp`, `Stop`, `DropResults`, `PostCancel`.
`stop()` takes `mutex_results` several times: `Stop` forgets all ids and leaves their results,
`DropResults` drops those of one id, and the main thread may come in between. `post()` of several CANCELs keeps the mutex, so it is a sequence of steps under
`mutex_tasks`. The main thread is `pc`: `pop`, `handle` (one action per task type and
outcome), `update`, then the sweeps `generate`, `prompt`, `decode`, `post` or `abort`
over `cursor`, then `wait`. `Release` ends in `PopDeferredTask`, as
`callback_on_release` does.

Abstractions. Tokens are counted. Any idle slot may be the most similar or the least
recently used one, any prefix of a prompt may be reused, and filling may stop early
(checkpoints). `Class` stands for task type and lora. `i_batch` is a boolean. Results of
different ids of one reader have no order. The context shift and the sweep that adds
sampled tokens are one sweep. An exception inside `iterate()` may end a slot before it
has put anything into the batch (`Faults`), not after. `Faults` also covers the checks
of prompts against context and physical batch. A launch that fails does so at the
first task that is launched, which for a parent is its first child. A client may hang up
whenever its reader receives. Sleep and termination are in `QueueSleep`.

### SlotDecode

A step is one slot of a sweep or one call of `decode()`. `Launch`, `CancelTask` and
`EraseSlot` happen between two passes; `StartPass` is the sweep of generating slots;
`AddPromptTokens` chooses how much of the old prompt is reused (all that matches, or
nothing without `cache_prompt`), removes the cells beyond and adds tokens;
`DecodeOk`, `DecodeFails`, `DecodeRetries` are the outcomes of one sub-batch,
`DecodeCrashes` the assertion in `need_embd()`; `SampleAndContinue`, `SampleAndStop`
are `post_decode()`. A cell is a position, a token and the set of slots that own it.
The batch allocator's position checks decide "Invalid input batch" (`Consecutive`).

Abstractions. One unified, non-sliding cache without shifts; completions only, without
adapters, speculative decoding, context shift, checkpoints or prompt cache
(`--cache-ram 0`, which also turns saving idle slots off). A compute error of the backend
is not distinguished: it ends like "Invalid input batch". The model clears the batch when a
pass ends and `i_batch` and the sampled token on release, where the code leaves
values that nothing reads before they are set. The parent of a child is named by its
slot, and `GoneParent` once its task has left, since task ids are never reused.

### QueueSleep

A step is what one thread does while it holds `mutex_tasks`, or between. `notified`
is the set of waiting threads that `notify_one` or `notify_all` has chosen;
`notify_one` may choose any waiter of the shared condition variable. The doze of the
main thread also ends after a second. The idle time may be over at any check. A worker
is `wait_until_no_sleep()`, then tokenizing, then `post()`, then waiting for its
result. Abstractions: a popped task is answered at once, each worker has one request,
no spurious wake-ups (predicates are tested again, so they add nothing), termination
comes after `start_loop()` has begun. `overtaken` is a history variable that no action
reads: the workers that had been told to go on when the queue fell asleep again.

### PromptCache

A task is one step, as the main thread handles tasks one after the other. `Defer` and
`Launch` are a completion: `Chosen` is `get_available_slot()`, `Swapped` its saving and
loading of prompts (which happens before the slot is found busy), `Swept` the saving of
idle slots after a launch. `Saved`, `Loaded`, `Trim`, `Reduced` are `alloc()`, `load()`,
`update()` and the handler of `bad_alloc`, as functions of a record of everything they change,
since a task calls them in turn; the order of use of the slots is kept as ranks (`used`). `Start`, `Decode`, `Generate`, `Evict`, `DecodeFails`,
`Abort`, `Release` are what a pass does to prompts and cells. `SlotSave`, `SlotRestore`,
`SlotErase`, `SetLora` are the other tasks. A cell is a token with the adapter it was
computed with, its place in the sequence is its position.

Abstractions. Sizes are in tokens. The prompt cache is enabled, requests cache their
prompts, chunks are not reused by shifting (`n_cache_reuse` = 0), there are no checkpoints,
children or aLoRA. The slots whose saving finds no memory are chosen once for a task. A
refused state is a choice (`Refusals`), the room in the context being left out.

### KVCells

One action per method of `lhm_kv_cells` that changes something, for one stream. `Cp` and
`Set` are the copy that `prepare()` takes before a trial and brings back after it, with
any other calls in between. The indexes are kept as the code keeps them, by counting up
and down, and the properties compare them with the arrays.

### KVCache

One action per operation of the cache (`Clear`, `SeqRm`, `SeqRmAny`, `SeqCpShared` within
a stream, `SeqCpStream` between streams, `SeqKeep`, `SeqAdd`, `StateWrite`, `StateRead` and
both for the whole cache). `Decode` begins a batch: pending copies and shifts are carried
out (`update()`), then `Prepare` places one ubatch per step, `Rollback` takes one back per
step, and `Compute` or `ComputeFails` is one ubatch of the batch. `data` holds what the
buffers hold: a token and the position its key is rotated for; `origin` says from which
buffer a stream will be copied. `prepare()` remembers the heads by stream but
brings them back by the place of the stream in the ubatch (`HeadsBack`); a head is only where
the next search begins, so no property depends on it.

Abstractions. A ubatch has one token for each of its sequences, at their next positions.
`Careful` leaves out what callers do not do: saving or restoring while a copy or shift is
pending, restoring an empty state, restoring the whole cache with several streams.
A shift that would apply to a cell of several sequences is left out too, as is `seq_keep()` on a
sequence that does not share its stream.

### SequenceMemory

Every sequence is a set of positions with tokens; `Remove`, `Copy`, `Keep`, `Shift`,
`Append`, `Save`, `Restore` say what `lhm.h` says of them. There is no room to run out of:
a batch that does not fit changes nothing, a state that does not fit leaves the sequence
empty. `KVCache` maps a sequence to the content of its cells, as the buffers will be when
the pending copies are made, without the cells that are taken on trial.

### RecurrentMemory

A cell has a position, sequences and the row its state comes from (`src`); `rows[p][i]` is row `i`
of plane `p`, a state being the tokens it was computed from. `FindSlot` does what `find_slot()` does to
the cells: each sequence claims a cell of its own (`Claim`), the cells of the
ubatch are swapped (`Swap`) until they lie side by side (`Gather`), and get their positions (`Placed`)
and the rows to take their states from (`Staged`). `Decode` is
`find_slot()` followed by the graph: `From` are the rows it reads (`s_copy()`, with the plane that a
rollback has selected), `Computed` the rows and snapshots it writes. `hist` is what the state of each
sequence ought to be, `fresh` how many of its last tokens its caller may take back, `intact` that no
computation has failed since the last `clear()`.

`Duties` are what callers heed and the code does not check. Without one of the first three TLC finds
`StateIsHistory` violated, without the last `ProcessedRemain`: a second rollback before the next decode (the planes are counted from
the last decode, `rs_idx` is replaced and not added to; the server removes once per accepted
draft), a copy of a sequence with a plane selected and `seq_keep()` (neither takes `rs_idx` into
account), and going on after a failed computation.

Abstractions. Tokens have one sequence. No `seq_add()`, `seq_div()`, `seq_rm()` with an end or of all
sequences at once, no state of the whole memory, and none of the hybrids, which call a KV cache and a
recurrent memory one after the other. `prepare()` brings the cells back, so it is not a step.

### DecodeBatch

`Submit` is `init()` and the start of `decode()`; the positions and outputs that are left out are
filled in (`AutoPos`, `Filled`), and a batch that `Accepted` refuses changes nothing. `AddUbatch` is one
round of a split, `TryNext` the end of one that failed, `Place` of one for which the memory has
room, with the new output buffers. `Compute` and `ComputeFails` are one ubatch, `Finish` notes the
swaps that put the outputs in order, `Reorder` makes them at the first access. `SeqRm` is a call
of the user between two batches. `Splits` says what the memories ask for. `rows` and
`dense` are the buffers by output and by token; a row is the index of its token, so a row in the
wrong place is seen.

`Duties`: `init()` has a check for positions that decrease and one for partial subsets of
sequences, and neither can fail (`cur_seq_pos` is never set, the intersection always has the sequence).
Nor does anything check that a memory that is split by sequence gets tokens of one sequence, or
that tokens of several sequences are alone in what can fail: only the first is taken
back. The server heeds all four, since its tokens have one sequence and increasing positions.

Abstractions. Whether there is room is a choice, and a removal always succeeds (the refusals are in
`RecurrentMemory`). A buffer is read after its call has returned and before the next one. The
retry after `memory_update(true)` is left out: the updates were made before, so it finds nothing. No
M-RoPE, no pooling, no sampling in the backend, no `encode()`. `n_ubatch` is at least the number of
sequences: otherwise `split_equal()` takes one more set than it has room for.

## 3. Runs

Passing runs. Each property has a mutant of the code that violates it.

| run | instance | shows |
|---|---|---|
| `serverloop_mix` | 2 slots, batch of 2; a completion with one child, a streaming completion that asks for slot 1 and whose client may leave, a slot action; all failures; 751 k states up to `VIEW` | `TypeOK`, `OnePlacePerTask`, `AnsweredOnce`, `ResultsAwaited`, `NeverWaitsOnWork`, `BatchHeadHasTask`, `ChildHasParent` |
| `serverloop_live` | 3 slots, batch of 2, non-continuous batching, no failures; a completion with a child, two embeddings (one pinned to a slot id that wraps, one empty), a metrics request; 61 k states, fairness | `NoTaskStranded`, `OneClassPerBatch`, `AllServed`; also no deadlock |
| `slotdecode` | 3 slots, batch of 3, 4 cells, context of 4, two prompts with a common prefix, at most one child per task, tasks without end; 416 k states, fairness | `ContextAccounted`, `OutputOfLastToken`, `NeverOutOfContext`, `BusyKeepsContext`, `PassEnds` |
| `promptcache` | 2 slots, one may be asked for; two prompts, one the end of the other, at most 2 tokens; limits of 4 units and 3 tokens; idle slots saved and cleared; a slot file; refused states, failed allocations, failed decodes; 38 k states | `TypeOK`, `PromptBacked`, `EntriesBacked`, `NoEntryTwice`, `WithinLimit`, `NothingForgotten` |
| `kvcells` | 2 cells, 2 sequences, positions 0 to 2, shifts by one, copies kept; symmetric in both; 234 k states | `TypeOK`, `CountsAgree`, `NothingLeftBehind` |
| `kvcache` | 2 sequences, 2 cells per stream, in one stream and in two; batches of up to 2 ubatches; all operations, one saver; 248 k states | `TypeOK`, `KeysFollowPositions`, `RefusedOnlyWhenFull`, and `Implements`: every step is one of `SequenceMemory` |
| `recurrent` | 3 sequences without snapshots, 2 with one; up to 2 tokens of each in a ubatch; all operations, failed computations; 76 k states | `TypeOK`, `CellsAgree`, `StateIsHistory` |
| `decodebatch` | 2 sequences, batches of 2 tokens with any positions, of 3 and 4 with positions left out, with any or nearly all outputs; 5 memories, ubatches of 2 and 4; 392 k states | `TypeOK`, `OutputsInPlace`, `SplitIsSound`, `MemoryIsComputed` |
| `queuesleep` | 3 workers, sleep at any time, a signal at any time; 3 k states, fairness | `SleepStatesAgree`, `RequestReachesMain` (while no worker is overtaken), `Terminates` |

Runs that refute what the code says of itself; `findings` in `PROJECT.json` has the
quotations.

| run | refutes | how |
|---|---|---|
| `serverloop_stranded` (by hand) | `NoTaskStranded` | One slot, a completion, a deferred slot action, a deferred completion. The release of the first moves the slot action; that one releases nothing, and the last task stays deferred with every slot idle until another request is released. |
| `serverloop_zombie` (by hand) | `NoTaskOutlivesReader` | The main thread holds a task it is about to defer while its reader posts the CANCEL: the clean-up finds nothing, the CANCEL finds no slot, and the task is later generated for nobody. |
| `serverloop_orphan` (by hand) | `ChildHasParent` | A parent with an empty prompt is answered and released before any decode; its child waits for ever. |
| `slotdecode_head` (by hand) | `HeadKeepsTask` | The batch is split, the slot that opened it is released after the first part, and `decode()` of the next part asks it for its task: assertion failure. |
| `slotdecode_child` | `ChildHoldsPrompt` | The batch is split inside the parent's prompt; the children are woken after the first part. |
| `kvcache_swa` (by hand) | `PositionsPresent` | With a window, placing a batch on trial purges positions before one it overwrites; taking it back restores the overwritten cells only. When the computation then fails, the sequence has a gap. |
| `promptcache_lora` | `AdaptersAgree` | A request without adapters after one with others reuses the prefix that was computed with those. |
| `queuesleep_lost` (by hand) | `TasksAnswered` | The queue falls asleep between `wait_until_no_sleep()` and `post()`. |
| `queuesleep_swallowed` (by hand) | `OnlyMainWaits` | A worker sleeps through `notify_all()`: before it runs the main thread is asleep again and has reset `req_stop_sleeping`. The worker waits on with its request lost. The next worker sets the flag and `notify_one()` may choose the first one: the main thread stays asleep, and whoever comes later finds the flag set and notifies nobody. |
| `recurrent_abort` (by hand) | `ProcessedRemain` | A ubatch of more tokens than there are snapshots fails; the removal of its positions is refused, and the sequence has positions whose tokens are not in its state. |
| `decodebatch_nextn` | `NextnInPlace` | Two sequences in a ubatch of equal parts: the embeddings are stored in the order of the ubatch and read by the index in the batch. |
| `queuesleep_model` (by hand) | `ModelInUse` | The same window: the worker reads a model that has been destroyed. |

`ChildHasParent` holds in `serverloop_mix`, where prompts are not empty: a parent that
leaves its slot early has reported an error, and its reader then cancels the children.
It fails in `serverloop_orphan`, where the prompt is empty, the parent is answered and
the client goes on waiting for the child.

`ResultsAwaited` does not say that an id of a queued result is in `waiting_task_ids`: between the
steps of `stop()` it need not be. It says that the reader of the id is still to take the result or to drop it.
`BatchHeadHasTask` reaches to the first sub-batch and `NoTaskStranded` is checked without slot actions;
the hazards behind them at `server_context.cpp:3224` and `:2253` are those of `slotdecode_head` and
`serverloop_stranded`. `RequestReachesMain` excludes workers that are overtaken by a new sleep, which `queuesleep_swallowed` is about.

Bounds and why they suffice. Two slots let a parent and its child fill the server, so
that everything else is deferred; three let two classes compete while a parent waits for
two slots. A batch of two is filled by two slots and splits a prompt of two. In
`slotdecode` four cells hold one full context or three slots with a token each and one
to spare, so room runs out in every combination of busy and idle slots, and the batch
of three can be halved and split between and inside slots. Three workers let one wait, one
post and one be notified at the same time. No run has a state constraint: task sets are
finite, contexts are bounded by `NCtx`, and `SlotDecode` and `QueueSleep` cycle.
In `promptcache` two slots and a cache that holds one long prompt or two short ones are
enough for a prompt to be in a slot, in the cache, in both, or too much, and for an entry to
continue another. In `kvcache` two cells per stream are full after two tokens, a
trial of two ubatches finds room for one, and both sequences can hold the same cell; a window needs four cells, to
have one beyond it that two sequences share (`kvcache_swa`).
In `recurrent` three sequences are enough
for one to share a cell, one to be moved by a swap and one to begin. In `decodebatch` four tokens of two
sequences have unequal parts, two ubatches and outputs that need more than one swap.
Symmetry is used in `kvcells` only, where neither cells nor sequences are ordered: slots and
streams are, and several runs check liveness. `MCKVCache`, `MCRecurrentMemory` and `serverloop_mix`
have a `VIEW` that hides what nothing reads.

`CHECK_DEADLOCK FALSE` is set where the modelled system really stops: stranded
requests, the crash after the assertion, the exit of `start_loop()`, a server without
requests. `serverloop_live` checks deadlock: only the wait with all requests answered
(`Quiet`) may be final.

Fairness. `FairSpec` asks that the main thread and each worker thread take a step they
can take for ever: they are operating system threads and mutexes are held for finite
work. Nothing is assumed of clients (`HangUp` is unfair), of signals, of launching new
tasks in `SlotDecode`, or of the choice between outcomes. In `QueueSleep` the main
thread may sleep at every check.

Runs by hand. Eleven more configurations show divergences that `PROJECT.json` does not list
as runs of their own, each with one property that TLC finds violated: those marked in the
table (`MCServerLoop_stranded.cfg`, `MCServerLoop_zombie.cfg`, `MCServerLoop_orphan.cfg`, `MCSlotDecode_head.cfg`,
`MCKVCache_swa.cfg`, `MCRecurrentMemory_abort.cfg`, `MCQueueSleep_lost.cfg`, `MCQueueSleep_model.cfg`,
`MCQueueSleep_swallowed.cfg`);
`MCPromptCache_busy.cfg` (`BusyPromptStays`): a request that asks for
a busy slot saves, replaces or clears that slot's prompt and is deferred after it;
`MCKVCells_div.cfg` (`ShiftIsPending`): `pos_div()` adds to the pending shift with the sign
that `pos_add()` does not have. With `HasDraft = TRUE` and `Refusals = {"main", "draft"}`
in `MCPromptCache_pass.cfg`, `PromptBacked` is violated: an entry whose draft state is
refused stays in the cache without its main state, and is later loaded as a prompt without
cells. So it is with `Aborts = TRUE`: an exception between batching and decoding leaves
prompts that were never computed. In `MCDecodeBatch_pass.cfg`, leaving out one of the `Duties`
violates `SplitIsSound` (`"increasing"`, `"shrinking"`, `"single"`) or `MemoryIsComputed` (`"alone"`);
in `MCRecurrentMemory_pass.cfg`, leaving out `"rollback"`, `"copy"` or `"keep"` violates `StateIsHistory`.

## 4. Theorems

Each proof module states an inductive invariant (`Inv`, or a name of its own), proves `Init => Inv`
and `Inv /\ [Next]_vars => Inv'` with one lemma per action, and reads the theorems off it. TLC has
checked the inductive invariants on the runs of their modules before they were proved (in `DecodeBatch` all
but `Rowed`, whose quantifier has no bound).

**`ServerLoop`**, for any number of readers, tasks, slots and any batch size, from the named
assumptions on the constants (tasks refer to tasks, prompt lengths are natural numbers, there is
a slot and room for a token, no id is used by two readers):

- `TypeCorrect` (`ServerLoop_proofs`): `TypeOK`, including that a slot is idle exactly
  when it has no task.
- `MainThreadNeverWaitsOnWork`: `NeverWaitsOnWork`. Its inductive form
  (`NextResponseQueued`) says that from the moment `update_slots()` posts
  `NEXT_RESPONSE` until the loop waits, that entry is in the queue; it survives because readers prepend, append and remove tasks, never
  `NEXT_RESPONSE`, and only the main thread pops.
- `TasksMovedNotCopied` and `TasksAnsweredOnce`: `OnePlacePerTask` and `AnsweredOnce`, from
  `TasksAlways`. They are proved together, since each
  needs the other: a task that is answered is nowhere any more, so it is not answered again;
  it is nowhere because it was in one place only. A
  child needs more, because it is posted and launched by way of its parent: it is in no queue, and
  on a slot only while its parent has not gone.
- `EveryResultAwaited`: `ResultsAwaited`, with `WaitedFor`: an id in `waiting_task_ids` is that of a reader
  that has not begun `stop()`. `send()` queues a result only for such an id, so in the window inside `stop()`, when
  the ids are forgotten and their results are not dropped yet, none is added, and `DropResults` goes through
  all ids. A reader with nothing more to receive drops nothing; that nothing is queued for it then
  is where `TasksAlways` is needed (`AllReceived`).
- `BatchHeadKeepsTask` and `BatchOfOneClass`, from `BatchInv`:
  between two passes no slot has an output left to consume (`OutputsConsumed`, needed
  because `release()` does not reset `i_batch`); within a pass `slot_batched` names a
  slot that is generating or has a prompt under way, and a sweep releases only slots it
  has not put into the batch (`HeadInBatch`); every output in the batch is of its class
  (`OutputsOfOneClass`). They hold up to the first sub-batch: `slotdecode_head` shows what
  happens after it.

**`SlotDecode`**, for any number of slots and cells, any context and batch size and any prompts
(`SlotDecode_proofs`): `TypeCorrect`, `ContextNeverExceeded` (`NeverOutOfContext`),
`PromptsAccounted` (`ContextAccounted`), `SampledFromLastToken` (`OutputOfLastToken`) and
`BusySlotsKeepContext` (`BusyKeepsContext`), from `InvAlways`. The invariant follows the sweep: what a
slot has in the batch are the tokens of its prompt that it has no cells for, in order and up to
where the pass has come; what of the batch is decoded is in its cells. A slot's output is due
in this sub-batch, a later one, or was consumed; a child that waits has a parent that is not
done, at the same prompt. Eviction, halving, retries and errors move the border between decoded
and pending tokens or give up whole slots, never tokens in the middle.

**`PromptCache`**, for any slots, prompts, limits and refusals (`PromptCache_proofs`):

- `TypeCorrect`; `NoPromptStoredTwice` (`NoEntryTwice`): `alloc()` refuses what an entry has as a
  prefix and drops the entries that the new one continues, so no two entries are comparable;
  `LimitKept` (`WithinLimit`): between two tasks the cache exceeds its limit by no more than one
  single entry, also after failed allocations have lowered it.
- `PromptsBacked` and `EntriesStayBacked` (`PromptBacked`, `EntriesBacked`), under `Reliable`: no draft
  context refuses a state and no exception comes between batching and decoding. Section 3 shows what
  happens without either, so the hypothesis is what the code needs and not what the proof
  needs. The two are inductive together, with what is in a slot file and with the prompt of a
  slot that has started and runs ahead of its cells by what is in the batch.
- `NothingIsForgotten` (`NothingForgotten`), for any refusals and failed allocations, from `LaunchKeeps`. A launch calls
  `alloc()`, `load()`, `update()` and the sweep of the idle slots in turn; `Keeps(m, T)` holds after each: every entry of the cache
  has a place of its own among the entries and slots of the state before the task, in which it is no larger
  (`Places`), and the places of the slots `T` that are still to be saved are free. The cache is then never larger than
  all of those together (`TotalOfPlaced`), so with room for them `update()` drops nothing (`TrimNothing`), and a limit that a failed allocation
  sets is never the old one again (`ReducedKeeps`). A slot is overwritten or cleared only when its prompt is `Stored`;
  `alloc()` drops only what the new entry continues (`WithoutKeeps`). The theorem is about the prompts that slots and cache
  claim; that their data is there is what `PromptsBacked` and `EntriesStayBacked` add.

**`KVCache`**, for any number of streams, cells and sequences, any window, any ranges and shifts and any batches,
for callers that are `Careful` (`KVCache_proofs`): `TypeCorrect`; `KeysInPlace`
(`KeysFollowPositions`); `RefusedRight` (`RefusedOnlyWhenFull`), from `KeysAlways`. Between two batches a cell
is `Fine`: the key that the pending copies will bring, plus the pending shift, is at its position. This is
not inductive through a trial, in which the cells change and the data does not. The invariant therefore speaks
of the cells as they were `Before` each ubatch on the stack of `prepare()`: what the stack kept, for a
cell that a later ubatch took, and otherwise what the cell is now. Placing an ubatch adds one such
view, taking one back drops one and leaves the others as they are (`BeforeGrows`), and with the stack empty the
cells are as fine as they were. That `prepare()` gives heads to the wrong streams does no harm:
heads stay in range (`HeadsReturn`), and the search goes around from any of them (`SearchFinds`). A
failed computation removes the positions of its ubatch, so no cell stays without data. The proof
uses `Careful` for saved states: `state_read()` would rotate a key twice that is read with a shift pending.

That the cache implements `SequenceMemory` is `KeepsSequences` (also in `KVCache_proofs`), the property `Implements`,
for `Careful` callers and no window (`NSwa = 0`). With a window it is not true of the code: `prepare()` purges
positions of other tokens, and a failed batch does not bring them back (`kvcache_swa`). The content of a
sequence is read off the cells that are not on trial, through `origin` to the data that pending
copies will bring. An operation between two batches changes it as the abstract operation does; each has a lemma. For a
batch, two more invariants are needed. `PlacesOK`: each token of a placed ubatch has an empty cell of its own in
the stream of its sequence (`SlotFree`, from `SearchFinds` and the order of the list of cells). So placing purges nothing
(`NothingPurged`), taking back leaves the cells empty again, and computing adds one token per
sequence. `WholeOK`: a saved state of the whole cache has no more cells than
the cache, and there is one only for a unified cache, so that reading it back finds room.

**`QueueSleep`**, for any number of workers, from the assumption that the main thread is no worker
(`QueueSleep_proofs`):

- `TypeCorrect`: `TypeOK`, including that a task is in the queue once and only while
  its worker waits for the result. The induction needs uniqueness: otherwise popping a
  task would leave another one behind whose worker has gone on.
- `SleepStatesAlwaysAgree`: `SleepStatesAgree`, inductive by itself, since falling
  asleep and waking up change both flags under one acquisition of the mutex.
- `RequestsReachMain`: `RequestReachesMain`, from `RequestInv`. While the loop runs the queue sleeps exactly where
  the main thread waits for a request, and nobody is overtaken while it is awake (`SleepInv`); a request that
  is pending has chosen the main thread (`RequestTold`). When a request is made nobody else waits without a notification, so
  `notify_one()` has no choice (`RequestMade`). The hypothesis `overtaken = {}` is what the code needs: `queuesleep_swallowed`
  shows what happens without it.

**`KVCells`**, for any cells, sequences and range of positions (`KVCells_proofs`):

- `TypeCorrect`: `TypeOK`; the counts in `seq_pos` never fall below zero.
- `IndexesAgree`: `CountsAgree`, that is `UsedAgrees` and `SeqPosAgrees`. All five invariants are proved together, with
  `SavedClean` (what `cp()` has copied is as clean as the cells), since each needs the
  others: counting down is right only if the sequence was counted at the position the cell
  has. Every method but `set()` changes one cell, and the number of holders of a position
  then changes by that cell only (`CountAfter`, `OneCell`); `set()` replaces some cells and leaves the rest
  (`TwoParts`).
- `CellsClean`: `NothingLeftBehind`, that is `FreeCellsClean` and `ShiftsAnnounced`: no free cell keeps a sequence or a
  shift, and no shift is forgotten by the next update.
- `ShiftsPending`: without `pos_div()`, position and pending shift of a cell differ by what
  the key is rotated for.

**`RecurrentMemory`**, for any number of cells and sequences, any choice of snapshots and lengths
(`RecurrentMemory_proofs`):

- `TypeCorrect` and `CellsAlwaysAgree` (`TypeOK`, `CellsAgree`), for any callers. The invariant is `TypeInv`:
  cells and tails name each other (`Linked`), and a cell takes its state from its own row or from none, and
  from its own if a sequence has it (`Sourced`). That `find_slot()` never fails and always has a row to clear
  is no part of the invariant but follows from it, by the three steps of the search. Claiming leaves each
  sequence of the ubatch a cell of its own (`Claimed`): there is an empty cell, since not all sequences have
  one yet, and the search, which goes around from `head`, is ahead of what it has
  passed (`Ahead`, `NextEmptyNearest`, `ClaimStep`). The swaps leave the cells of the ubatch side by side,
  rearrange only those between the first and the last of them, and let the tails follow
  (`LaidOut`, from `GatherStep`). Staging gives each cell the row its state is in, and the row to clear
  is no sequence's (`Found`, `StagedFound`). `FindSlotFinds` joins the steps.
- `StatesAreHistory` (`StateIsHistory`), for callers that heed all `Duties`. `StateInv` says of each sequence that
  the row it would be read from, with the selected plane, is the state of its tokens, and that the planes hold
  the states from before each token that may be taken back (`HasState`). For this to survive it must also say that
  sequences that share a cell read it from plane 0 and have nothing to take back (`SharedPlain`), or one's rollback
  would be the other's, and that an empty cell with a row of its own has the state before the first
  token (`ZeroRows`): a sequence may begin in such a cell and go on from its row. Both hold only of memories in
  which no computation has failed (`intact`). `BatchFound` says where a computed row goes, `ComputedNew`,
  `ComputedMoved` and `ComputedOut` what is in each row afterwards.

**`DecodeBatch`**, for any number of sequences, any values of `n_ubatch`, any memories and any batches
(`DecodeBatch_proofs`). The loops of the allocator are recursive functions; `Recursion` says that they are defined, and
each has a lemma on what it returns: `OnlyPicks` (a list filtered by a set), `SortSorts` (the selection sort),
`SimpleSplit`, `SeqSplit` and `EqualSplit` (the splits).

- `TypeCorrect` and `ReadsTheRightRows` (`TypeOK`, `OutputsInPlace`), for any callers, from `CallInv`: every ubatch takes
  unused tokens, each once (`SplitFresh`), so the ubatches have the used tokens in one place each (`Marked`) and
  `out_ids` their outputs without repetition (`Gathered`); the buffer has the rows of the ubatches computed so far
  (`Rowed`), so at the end row and entry of `out_ids` correspond. `SortSorts` is the heart: the noted swaps, made on
  another list of as many rows, do what the sort did to `out_ids`. After that `out_ids` lists the outputs of the batch in order, and
  there is only one such list (`ListsUnique`).
- `SplitsAreSound` (`SplitIsSound`), for callers that heed all `Duties` and an `n_ubatch` with room for a token of
  each sequence. `Downward`: of tokens that share a sequence the earlier is used first. For the equal split this needs
  `"shrinking"`: each set it takes is that of a token that shares nothing with the unused tokens before it (`Leads`), so
  no token of that set has an unused one of a larger set before it. `Downward` is what orders tokens across ubatches
  (`InTurn`). Both hypotheses are needed: section 3 for the duties, and with `NUbatches = {1}` in `MCDecodeBatch_pass.cfg` TLC
  finds a ubatch of two tokens.
- `MemoryIsWhatWasComputed` (`MemoryIsComputed`), under the same hypotheses, from `MemInv`: the positions still to
  be computed are behind those in the memory (`Ahead`), and with them leave no gap (`NoGaps`). `init()` establishes this by
  counting (`AcceptedFollows`), every ubatch keeps it, because it takes the first tokens of its sequences (`Expects`), and a ubatch that
  fails therefore takes back just what it brought.

Only model-checked:

- all liveness (`AllServed`, `PassEnds`, `Terminates`), which needs fairness and `ENABLED` and is
  out of the prover's reach;
- `ChildHasParent` and `NoTaskStranded` of `ServerLoop`: both hold in the instances of their runs and fail in others
  (`serverloop_orphan`, `serverloop_stranded`), so no theorem for all constants can state them.

## 5. Not modelled

Numeric code, model files, samplers, grammars, vocabularies, chat formats and parsers,
HTTP, JSON, parameters and the console: sequential conversions or computations whose
outcome the models take as a choice. `CONTROL` tasks act on one sampler and answer.

Of the KV cache: `seq_div()` above the cells, a shift whose computation fails, chunked and
symmetric windows, cells shared with another cache, and the variants that combine two
caches. Of the recurrent memory and of `decode()`: what section 2 lists; the hybrids. Of the prompt cache: checkpoints and the reuse of
shifted chunks. Speculative decoding and the context shift are not modelled.

The source tree is large beside its core: most of its lines are tables, vendored
code, tensors, formats and parameters, where there is no state for a model checker to explore.

## 6. Plan

Done: all models of section 2, with proofs of all safety properties of `ServerLoop` that hold for all
constants, of `SlotDecode`, `QueueSleep`, `PromptCache`, `KVCells`, `KVCache`, `RecurrentMemory` and `DecodeBatch`,
and of the refinement of `SequenceMemory` by `KVCache`.

Next: speculative decoding, with its drafts, their verification and the roll back over prompt and cells; then what section 2
lists as left out of the recurrent memory and of the prompt cache (checkpoints, shifted chunks).
