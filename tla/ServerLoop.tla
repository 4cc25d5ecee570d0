----------------------------- MODULE ServerLoop -----------------------------
(***************************************************************************)
(* The serving core of lhm: the task queue (server_queue), the result      *)
(* queue (server_response), one reader per HTTP request                    *)
(* (server_response_reader) and the slots driven by the single main thread *)
(* (server_context_impl).                                                  *)
(*                                                                         *)
(* The main thread alternates between draining queue_tasks and one pass of *)
(* update_slots(): pre_decode, decode, post_decode.  Readers run on HTTP   *)
(* worker threads.  A step is what one thread does under one acquisition   *)
(* of mutex_tasks or mutex_results, or to one slot of a sweep over the     *)
(* slots.                                                                  *)
(*                                                                         *)
(* Abstracted: token values, timings, the KV cache and the prompt cache    *)
(* (any idle slot may be the most similar or least recently used one), and *)
(* the splitting of a batch into sub-batches.                              *)
(***************************************************************************)
EXTENDS Integers, Sequences, FiniteSets, SequencesExt

CONSTANTS
    Readers,      \* HTTP requests, each with one server_response_reader
    TaskIds,      \* ids drawn from get_new_id(): a fresh one per task
    NoTask,       \* "no task here"
    NSlots,       \* number of slots (n_parallel)
    NBatch,       \* n_batch, the most tokens of one batch
    ContBatching, \* params_base.cont_batching
    Faults,       \* may requests, restores and decodes fail?
    TasksOf,      \* reader -> its top-level tasks, in the order it posts them
    Children,     \* task -> its child tasks (n_cmpl > 1), <<>> for the others
    Kind,         \* task -> its type
    IdSlot,       \* task -> requested slot, -1 for "any"
    Class,        \* task -> task type and lora, what can_batch_with() compares
    NPrompt,      \* task -> number of prompt tokens
    NPredict,     \* task -> params.n_predict
    Stream,       \* tasks with params.stream
    Impatient     \* readers whose client may close the connection

Kinds == {"completion", "embedding", "slot_action", "immediate"}
Slots == 0 .. NSlots - 1
NoSlot == -1
Free == "free"

ASSUME ReadersAssumption == Free \notin Readers /\ NoTask \notin TaskIds
ASSUME SlotsAssumption == NSlots \in Nat \ {0} /\ NBatch \in Nat \ {0}
ASSUME FlagsAssumption == ContBatching \in BOOLEAN /\ Faults \in BOOLEAN
ASSUME TasksAssumption ==
    /\ TasksOf \in [Readers -> Seq(TaskIds)]
    /\ Children \in [TaskIds -> Seq(TaskIds)]
    /\ Kind \in [TaskIds -> Kinds]
    /\ IdSlot \in [TaskIds -> Nat \cup {-1}]
    /\ NPrompt \in [TaskIds -> Nat]
    /\ NPredict \in [TaskIds -> Nat]
    /\ Stream \subseteq TaskIds

ToIds(ids) == {ids[i] : i \in DOMAIN ids}

\* server_task::get_list_id(): the ids of a reader's tasks and of their children
IdsOf(r) == ToIds(TasksOf[r]) \cup UNION {ToIds(Children[id]) : id \in ToIds(TasksOf[r])}

\* get_new_id(): every task, and every child, has an id of its own.
ASSUME IdsAssumption ==
    /\ \A r, q \in Readers : r # q => IdsOf(r) \cap IdsOf(q) = {}
    /\ \A r \in Readers : IsInjective(TasksOf[r])
    /\ \A p \in TaskIds : IsInjective(Children[p])
    /\ \A p, q \in TaskIds : p # q => ToIds(Children[p]) \cap ToIds(Children[q]) = {}
    /\ \A r \in Readers, p \in TaskIds : ToIds(TasksOf[r]) \cap ToIds(Children[p]) = {}

IsParent(id) == Children[id] # <<>>

\* What the deques hold: a task, a CANCEL of a task, or NEXT_RESPONSE.
Work(id) == [type |-> "work", id |-> id]
Cancel(id) == [type |-> "cancel", id |-> id]
NextResponse == [type |-> "next", id |-> NoTask]
NoEntry == [type |-> "none", id |-> NoTask]
Entries == [type : {"work", "cancel"}, id : TaskIds] \cup {NextResponse}

VARIABLES
    queue_tasks,          \* server_queue::queue_tasks
    queue_tasks_deferred, \* server_queue::queue_tasks_deferred
    mutex_tasks,          \* the reader that is inside post(), or Free
    waiting_task_ids,     \* server_response::waiting_task_ids
    queue_results,        \* server_response::queue_results, by task id
    pc,                   \* where the main thread is in start_loop()
    current,              \* the task the main thread has popped
    cursor,               \* the slot a sweep over the slots is at
    slot,                 \* server_context_impl::slots
    slot_batched,         \* batch.slot_batched
    n_tokens,             \* batch.size()
    rpc,                  \* where each reader is
    received,             \* ids a reader has a final result of
    to_cancel             \* cancel_tasks of stop(): ids to post a CANCEL for

queues == <<queue_tasks, queue_tasks_deferred>>
results == <<waiting_task_ids, queue_results>>
batch == <<slot_batched, n_tokens>>
readers == <<rpc, received, to_cancel, mutex_tasks>>
vars == <<queues, results, pc, current, cursor, slot, batch, readers>>

States == {"IDLE", "WAIT_OTHER", "STARTED", "PROCESSING_PROMPT", "DONE_PROMPT", "GENERATING"}

SlotRecord == [state : States, task : TaskIds \cup {NoTask},
               n_prompt : Nat, n_decoded : Nat, i_batch : BOOLEAN]

Idle(s) == slot[s].state = "IDLE"
AllIdle == \A s \in Slots : Idle(s)

Init ==
    /\ queue_tasks = <<>> /\ queue_tasks_deferred = <<>> /\ mutex_tasks = Free
    /\ waiting_task_ids = {} /\ queue_results = [id \in TaskIds |-> <<>>]
    /\ pc = "pop" /\ current = NoEntry /\ cursor = 0
    /\ slot = [s \in Slots |-> [state |-> "IDLE", task |-> NoTask,
                                n_prompt |-> 0, n_decoded |-> 0, i_batch |-> FALSE]]
    /\ slot_batched = NoSlot /\ n_tokens = 0
    /\ rpc = [r \in Readers |-> "start"]
    /\ received = [r \in Readers |-> {}]
    /\ to_cancel = [r \in Readers |-> {}]

-----------------------------------------------------------------------------
(* Operations of the two queues.                                           *)

Unlocked == mutex_tasks = Free

\* Mutant of Send: results are queued whether or not somebody waits for them.
SendToNobody(id, kinds) == queue_results' = [queue_results EXCEPT ![id] = @ \o kinds]

\* server_response::send(): only a result somebody waits for is kept.
Send(id, kinds) ==
    queue_results' = IF id \in waiting_task_ids
                     THEN [queue_results EXCEPT ![id] = @ \o kinds]
                     ELSE queue_results

Defer(entry) ==
    /\ Unlocked
    /\ queue_tasks_deferred' = Append(queue_tasks_deferred, entry)
    /\ UNCHANGED queue_tasks

\* A slot action keeps its slot in slot_action.id_slot; its id_slot stays -1.
Wants(entry, s) == Kind[entry.id] # "slot_action" /\ IdSlot[entry.id] = s

\* The deferred task that pop_deferred_task(s) moves: the first that asked for
\* slot s, or else the first of all.
IsPick(i, s) ==
    \/ /\ Wants(queue_tasks_deferred[i], s)
       /\ \A j \in 1 .. i - 1 : ~Wants(queue_tasks_deferred[j], s)
    \/ /\ i = 1
       /\ \A j \in DOMAIN queue_tasks_deferred : ~Wants(queue_tasks_deferred[j], s)

\* Mutant of PopDeferredTask: the task is queued but stays in the deferred deque.
PopWithoutErase(s) ==
    /\ Unlocked
    /\ \/ queue_tasks_deferred = <<>> /\ UNCHANGED queues
       \/ \E i \in DOMAIN queue_tasks_deferred :
             /\ IsPick(i, s)
             /\ queue_tasks' = <<queue_tasks_deferred[i]>> \o queue_tasks
             /\ UNCHANGED queue_tasks_deferred

PopDeferredTask(s) ==
    /\ Unlocked
    /\ \/ queue_tasks_deferred = <<>> /\ UNCHANGED queues
       \/ \E i \in DOMAIN queue_tasks_deferred :
             /\ IsPick(i, s)
             /\ queue_tasks' = <<queue_tasks_deferred[i]>> \o queue_tasks
             /\ queue_tasks_deferred' = RemoveAt(queue_tasks_deferred, i)

Vacated(i_batch) ==
    [state |-> "IDLE", task |-> NoTask, n_prompt |-> 0, n_decoded |-> 0, i_batch |-> i_batch]

\* Mutants of Release: task.reset() is missing; callback_on_release is missing.
ReleaseKeepingTask(s, i_batch) ==
    /\ slot' = [slot EXCEPT ![s] = [Vacated(i_batch) EXCEPT !.task = slot[s].task]]
    /\ PopDeferredTask(s)

ReleaseWithoutCallback(s, i_batch) ==
    /\ slot' = [slot EXCEPT ![s] = Vacated(i_batch)]
    /\ Unlocked /\ UNCHANGED queues

\* server_slot::release(), which ends in callback_on_release = pop_deferred_task.
\* release() does not reset i_batch.
Release(s, i_batch) ==
    /\ slot' = [slot EXCEPT ![s] = Vacated(i_batch)]
    /\ PopDeferredTask(s)

-----------------------------------------------------------------------------
(* Readers: HTTP worker threads.                                           *)

HasNext(r) == Cardinality(received[r]) < Cardinality(IdsOf(r))

\* post_tasks(): register the ids first, so that no result can be missed ...
AddWaitingTaskIds(r) ==
    /\ rpc[r] = "start"
    /\ waiting_task_ids' = waiting_task_ids \cup IdsOf(r)
    /\ rpc' = [rpc EXCEPT ![r] = "post"]
    /\ UNCHANGED <<queues, queue_results, pc, current, cursor, slot, batch,
                   received, to_cancel, mutex_tasks>>

\* ... then queue the tasks; children travel inside their parent.
PostTasks(r) ==
    /\ rpc[r] = "post" /\ Unlocked
    /\ queue_tasks' = queue_tasks \o [i \in DOMAIN TasksOf[r] |-> Work(TasksOf[r][i])]
    /\ rpc' = [rpc EXCEPT ![r] = "recv"]
    /\ UNCHANGED <<queue_tasks_deferred, results, pc, current, cursor, slot, batch,
                   received, to_cancel, mutex_tasks>>

\* next(): take the oldest result of one of my ids.  An error ends the request.
\* (The order between two ids of one reader is left open.)
Receive(r) ==
    /\ rpc[r] = "recv" /\ HasNext(r)
    /\ \E id \in IdsOf(r) :
         /\ queue_results[id] # <<>>
         /\ queue_results' = [queue_results EXCEPT ![id] = Tail(@)]
         /\ received' = IF Head(queue_results[id]) = "final"
                        THEN [received EXCEPT ![r] = @ \cup {id}]
                        ELSE received
         /\ rpc' = IF Head(queue_results[id]) = "error"
                   THEN [rpc EXCEPT ![r] = "stop"] ELSE rpc
    /\ UNCHANGED <<queues, waiting_task_ids, pc, current, cursor, slot, batch,
                   to_cancel, mutex_tasks>>

\* The request is over: everything arrived ...
Finish(r) ==
    /\ rpc[r] = "recv" /\ ~HasNext(r)
    /\ rpc' = [rpc EXCEPT ![r] = "stop"]
    /\ UNCHANGED <<queues, results, pc, current, cursor, slot, batch,
                   received, to_cancel, mutex_tasks>>

\* ... or should_stop() says that the client closed the connection.
HangUp(r) ==
    /\ rpc[r] = "recv" /\ HasNext(r) /\ r \in Impatient
    /\ rpc' = [rpc EXCEPT ![r] = "stop"]
    /\ UNCHANGED <<queues, results, pc, current, cursor, slot, batch,
                   received, to_cancel, mutex_tasks>>

\* stop(): first forget the ids.  What is queued for them stays; if results are
\* still missing, it is dropped next, and a CANCEL is prepared for every id.
Stop(r) ==
    /\ rpc[r] = "stop"
    /\ waiting_task_ids' = waiting_task_ids \ IdsOf(r)
    /\ to_cancel' = [to_cancel EXCEPT ![r] = {}]
    /\ rpc' = [rpc EXCEPT ![r] = IF HasNext(r) THEN "drop" ELSE "done"]
    /\ UNCHANGED <<queues, queue_results, pc, current, cursor, slot, batch,
                   received, mutex_tasks>>

\* remove_waiting_task_id(id), one id after the other and each under the mutex.
DropResults(r) ==
    /\ rpc[r] = "drop"
    /\ \E id \in IdsOf(r) \ to_cancel[r] :
         /\ waiting_task_ids' = waiting_task_ids \ {id}
         /\ queue_results' = [queue_results EXCEPT ![id] = <<>>]
         /\ to_cancel' = [to_cancel EXCEPT ![r] = @ \cup {id}]
         /\ rpc' = IF to_cancel[r] \cup {id} = IdsOf(r)
                   THEN [rpc EXCEPT ![r] = "cancel"] ELSE rpc
    /\ UNCHANGED <<queues, pc, current, cursor, slot, batch, received, mutex_tasks>>

\* cleanup_pending_task(id) on one deque.  Ids are unique, so remove_if finds at
\* most one task.
Cleaned(q, id) ==
    IF \E i \in DOMAIN q : q[i] = Work(id)
    THEN RemoveAt(q, CHOOSE i \in DOMAIN q : q[i] = Work(id))
    ELSE q

\* post(cancel_tasks, front = true): under one lock, each CANCEL first removes
\* its pending target and then goes to the front of the queue.
PostCancel(r) ==
    /\ rpc[r] = "cancel" /\ mutex_tasks \in {Free, r}
    /\ \E id \in to_cancel[r] :
         /\ queue_tasks' = <<Cancel(id)>> \o Cleaned(queue_tasks, id)
         /\ queue_tasks_deferred' = Cleaned(queue_tasks_deferred, id)
         /\ to_cancel' = [to_cancel EXCEPT ![r] = @ \ {id}]
         /\ IF to_cancel[r] = {id}
            THEN mutex_tasks' = Free /\ rpc' = [rpc EXCEPT ![r] = "done"]
            ELSE mutex_tasks' = r /\ UNCHANGED rpc
    /\ UNCHANGED <<results, pc, current, cursor, slot, batch, received>>

ReaderStep(r) ==
    \/ AddWaitingTaskIds(r) \/ PostTasks(r) \/ Receive(r) \/ Finish(r)
    \/ Stop(r) \/ DropResults(r) \/ PostCancel(r)

-----------------------------------------------------------------------------
(* The main thread: popping and handling tasks (process_single_task).      *)

\* get_slot_by_id() wraps a requested id that is out of bounds.
SlotById(i) == i % NSlots

\* get_available_slot(): the requested slot, busy or not; otherwise an idle one
\* (the most similar or the least recently used).
AvailableSlots(id) ==
    IF IdSlot[id] # -1 THEN {SlotById(IdSlot[id])} ELSE {s \in Slots : Idle(s)}

\* get_free_slots(): the first Len(Children[id]) idle slots other than s.
FreeSlots(s) == {u \in Slots \ {s} : Idle(u)}
Rank(u, s) == Cardinality({v \in FreeSlots(s) : v <= u})

CanLaunch(id, s) == Idle(s) /\ Cardinality(FreeSlots(s)) >= Len(Children[id])

Occupied(rec, id, state) ==
    [rec EXCEPT !.state = state, !.task = id, !.n_prompt = 0, !.n_decoded = 0]

\* launch_slots_with_parent_task(): children wait in the free slots, in order.
Launched(id, s) ==
    [u \in Slots |->
        IF u = s THEN Occupied(slot[u], id, "STARTED")
        ELSE IF u \in FreeSlots(s) /\ Rank(u, s) <= Len(Children[id])
        THEN Occupied(slot[u], Children[id][Rank(u, s)], "WAIT_OTHER")
        ELSE slot[u]]

\* The task launch_slot_with_task() is first called with: the one that reports
\* the error of a launch that fails.
FirstLaunched(id) == IF IsParent(id) THEN Children[id][1] ELSE id

PopTask ==
    /\ pc = "pop" /\ Unlocked
    /\ IF queue_tasks = <<>>
       THEN pc' = "update" /\ UNCHANGED <<current, queue_tasks>>
       ELSE /\ current' = Head(queue_tasks)
            /\ queue_tasks' = Tail(queue_tasks)
            /\ pc' = "handle"
    /\ UNCHANGED <<queue_tasks_deferred, results, cursor, slot, batch, readers>>

\* The handler is done with `current'.
Handled == pc' = "pop" /\ current' = NoEntry /\ UNCHANGED <<cursor, batch, readers>>

Handling(kinds) == pc = "handle" /\ current.type = "work" /\ Kind[current.id] \in kinds

\* Completion, infill, embedding, rerank: no slot, a busy slot or too few slots
\* for the children put the task aside ...
DeferTask ==
    /\ Handling({"completion", "embedding"})
    /\ AvailableSlots(current.id) # {} =>
          \E s \in AvailableSlots(current.id) : ~CanLaunch(current.id, s)
    /\ Defer(current)
    /\ Handled /\ UNCHANGED <<results, slot>>

\* ... and otherwise it is launched, or dropped with an error.
LaunchTask ==
    /\ Handling({"completion", "embedding"})
    /\ \E s \in AvailableSlots(current.id) :
          /\ CanLaunch(current.id, s)
          /\ \/ slot' = Launched(current.id, s) /\ UNCHANGED queue_results
             \/ Faults /\ Send(FirstLaunched(current.id), <<"error">>) /\ UNCHANGED slot
    /\ Handled /\ UNCHANGED <<queues, waiting_task_ids>>

\* SLOT_SAVE, SLOT_RESTORE, SLOT_ERASE: wait for the slot to be idle, act, answer.
SlotAction ==
    /\ Handling({"slot_action"})
    /\ IF Idle(SlotById(IdSlot[current.id]))
       THEN /\ \/ Send(current.id, <<"final">>)
               \/ Faults /\ Send(current.id, <<"error">>)
            /\ UNCHANGED queues
       ELSE Defer(current) /\ UNCHANGED queue_results
    /\ Handled /\ UNCHANGED <<waiting_task_ids, slot>>

\* METRICS, CONTROL, GET_LORA, SET_LORA: answered at once.
AnswerTask ==
    /\ Handling({"immediate"})
    /\ Send(current.id, <<"final">>)
    /\ Handled /\ UNCHANGED <<queues, waiting_task_ids, slot>>

\* CANCEL: release the slot that works for the target, if there is one.
CancelTask ==
    /\ pc = "handle" /\ current.type = "cancel"
    /\ IF \E s \in Slots : slot[s].task = current.id
       THEN \E s \in Slots : slot[s].task = current.id /\ Release(s, slot[s].i_batch)
       ELSE UNCHANGED <<slot, queues>>
    /\ Handled /\ UNCHANGED results

SkipNextResponse ==
    /\ pc = "handle" /\ current.type = "next"
    /\ Handled /\ UNCHANGED <<queues, results, slot>>

-----------------------------------------------------------------------------
(* The main thread: one pass of update_slots().                            *)

\* Mutants of UpdateSlots: NEXT_RESPONSE is not posted; the batch keeps the
\* slot_batched of the previous pass.
UpdateWithoutNextResponse ==
    /\ pc = "update" /\ Unlocked
    /\ IF AllIdle
       THEN pc' = "wait" /\ UNCHANGED batch
       ELSE pc' = "generate" /\ slot_batched' = NoSlot /\ n_tokens' = 0
    /\ cursor' = 0
    /\ UNCHANGED <<queues, results, current, slot, readers>>

UpdateWithoutReset ==
    /\ pc = "update" /\ Unlocked
    /\ IF AllIdle
       THEN pc' = "wait" /\ UNCHANGED <<queue_tasks, n_tokens>>
       ELSE /\ queue_tasks' = Append(queue_tasks, NextResponse)
            /\ pc' = "generate" /\ n_tokens' = 0
    /\ cursor' = 0
    /\ UNCHANGED <<queue_tasks_deferred, results, current, slot, slot_batched, readers>>

\* All slots idle: nothing to do.  Otherwise NEXT_RESPONSE is queued first, so
\* that the loop comes back without waiting.
UpdateSlots ==
    /\ pc = "update" /\ Unlocked
    /\ IF AllIdle
       THEN pc' = "wait" /\ UNCHANGED <<queue_tasks, batch>>
       ELSE /\ queue_tasks' = Append(queue_tasks, NextResponse)
            /\ pc' = "generate"
            /\ slot_batched' = NoSlot /\ n_tokens' = 0
    /\ cursor' = 0
    /\ UNCHANGED <<queue_tasks_deferred, results, current, slot, readers>>

\* The sweep moves to the next slot, or to the next phase after the last one.
Advance(phase) ==
    IF cursor + 1 = NSlots
    THEN pc' = phase /\ cursor' = 0
    ELSE UNCHANGED pc /\ cursor' = cursor + 1

\* Mutant of Batchable: tasks of any type and lora share a batch.
BatchAnything(s) == s \in Slots

\* can_batch_with() the slot that opened the batch, if any.
Batchable(s) ==
    slot_batched # NoSlot => Class[slot[slot_batched].task] = Class[slot[s].task]

OpenBatch(s) == slot_batched' = IF slot_batched = NoSlot THEN s ELSE slot_batched

\* Prompts are added next, unless batching is not continuous and the batch is busy.
AfterGenerating ==
    IF ContBatching \/ n_tokens' = 0 THEN "prompt" ELSE "decode"

\* The task gets an error and its slot is released: a context shift that is not
\* possible, abort_all_slots(), or an exception caught by iterate().
FailSlot(s) ==
    /\ Send(slot[s].task, <<"error">>)
    /\ Release(s, slot[s].i_batch)
    /\ UNCHANGED batch

\* pre_decode(), first half: the sampled token of a generating slot joins the
\* batch, unless its context is full and cannot be shifted.
AddSampledToken ==
    LET s == cursor IN
    /\ pc = "generate"
    /\ \/ /\ slot[s].state = "GENERATING" /\ Batchable(s)
          /\ n_tokens' = n_tokens + 1
          /\ slot' = [slot EXCEPT ![s].i_batch = TRUE]
          /\ OpenBatch(s)
          /\ UNCHANGED <<queue_results, queues>>
       \/ /\ slot[s].state = "GENERATING" => ~Batchable(s)
          /\ UNCHANGED <<queue_results, queues, slot, batch>>
       \/ /\ Faults /\ slot[s].state = "GENERATING"
          /\ FailSlot(s)
    /\ Advance(AfterGenerating)
    /\ UNCHANGED <<current, waiting_task_ids, readers>>

\* Embedding inputs cannot be split over several batches.
CanSplit(id) == Kind[id] # "embedding"

Pending(s) == slot[s].state \in {"STARTED", "PROCESSING_PROMPT"}

Fillable(s) == n_tokens < NBatch /\ Pending(s) /\ Batchable(s)

\* A full batch, another class, a child that waits, nothing left to add.
SkipPrompt ==
    /\ pc = "prompt" /\ ~Fillable(cursor)
    /\ Advance("decode")
    /\ UNCHANGED <<current, queues, results, slot, batch, readers>>

\* Mutant of RejectPrompt: the slot goes on after the final answer.
RejectWithoutRelease ==
    LET s == cursor
        id == slot[s].task
    IN
    /\ pc = "prompt" /\ Fillable(s) /\ slot[s].state = "STARTED"
    /\ \/ NPrompt[id] = 0 /\ Send(id, <<"final">>)
       \/ Faults /\ Send(id, <<"error">>)
    /\ Advance("decode")
    /\ UNCHANGED <<current, queues, slot, waiting_task_ids, batch, readers>>

\* An empty prompt is answered at once; one that does not fit the context or the
\* physical batch, or that raises an exception before it is added, is an error.
RejectPrompt ==
    LET s == cursor
        id == slot[s].task
    IN
    /\ pc = "prompt" /\ Fillable(s) /\ slot[s].state = "STARTED"
    /\ \/ NPrompt[id] = 0 /\ Send(id, <<"final">>)
       \/ Faults /\ Send(id, <<"error">>)
    /\ Release(s, slot[s].i_batch)
    /\ Advance("decode")
    /\ UNCHANGED <<current, waiting_task_ids, batch, readers>>

\* A slot after tokens of its prompt were added, when its prompt has n tokens in
\* all; the last one asks for an output.
Filled(rec, n, done) ==
    IF done
    THEN [rec EXCEPT !.n_prompt = n, !.state = "DONE_PROMPT", !.n_decoded = 0, !.i_batch = TRUE]
    ELSE [rec EXCEPT !.n_prompt = n, !.state = "PROCESSING_PROMPT"]

\* A prompt starts (with n_past tokens reused from the slot's previous prompt) or
\* goes on: tokens join the batch until it is full or the prompt ends.  The fill
\* may stop early, at a checkpoint.
AddPromptTokens ==
    LET s == cursor
        id == slot[s].task
        starts == slot[s].state = "STARTED"
    IN
    /\ pc = "prompt" /\ Fillable(s)
    /\ starts => NPrompt[id] # 0
    /\ IF starts /\ id \in Stream
       THEN Send(id, <<"partial">>)
       ELSE UNCHANGED queue_results
    /\ \E n_past \in IF starts /\ CanSplit(id)
                     THEN 0 .. NPrompt[id] - 1
                     ELSE {slot[s].n_prompt} :
         IF ~CanSplit(id) /\ n_tokens + NPrompt[id] > NBatch
         THEN /\ slot' = [slot EXCEPT ![s].state = "PROCESSING_PROMPT"]
              /\ UNCHANGED batch
         ELSE \E n \in IF CanSplit(id) THEN 1 .. NBatch - n_tokens ELSE {NPrompt[id]} :
                /\ n_past + n <= NPrompt[id]
                /\ n_tokens' = n_tokens + n
                /\ slot' = [slot EXCEPT ![s] = Filled(@, n_past + n, n_past + n = NPrompt[id])]
                /\ OpenBatch(s)
    /\ Advance("decode")
    /\ UNCHANGED <<current, queues, waiting_task_ids, readers>>

\* Mutant of ParentDone: the child's id is looked up as if it were the parent's.
ParentDoneById(c) ==
    \E p \in Slots : slot[p].state = "DONE_PROMPT" /\ slot[c].task = slot[p].task

\* Child c has its parent's id in id_parent, and that parent's prompt is done.
ParentDone(c) ==
    \E p \in Slots : /\ slot[p].state = "DONE_PROMPT"
                     /\ slot[c].task \in ToIds(Children[slot[p].task])

\* copy_state_to(): the child stands where its parent does.
Copied(rec) ==
    [rec EXCEPT !.state = "DONE_PROMPT", !.i_batch = TRUE, !.n_prompt = NPrompt[rec.task]]

\* decode() succeeds: the children of every parent whose prompt is done take over
\* its state.
DecodeOk ==
    /\ pc = "decode" /\ n_tokens > 0
    /\ slot' = [s \in Slots |->
                  IF slot[s].state = "WAIT_OTHER" /\ ParentDone(s)
                  THEN Copied(slot[s])
                  ELSE slot[s]]
    /\ pc' = "post"
    /\ UNCHANGED <<queues, results, current, cursor, batch, readers>>

\* An empty batch never reaches decode().
DecodeNothing ==
    /\ pc = "decode" /\ n_tokens = 0
    /\ pc' = "wait"
    /\ UNCHANGED <<queues, results, current, cursor, slot, batch, readers>>

\* decode() fails for good: every slot is aborted.
DecodeFails ==
    /\ pc = "decode" /\ n_tokens > 0 /\ Faults
    /\ pc' = "abort"
    /\ UNCHANGED <<queues, results, current, cursor, slot, batch, readers>>

\* abort_all_slots(): every busy slot is answered with an error.
AbortSlot ==
    /\ pc = "abort"
    /\ IF Idle(cursor)
       THEN UNCHANGED <<queue_results, slot, queues, batch>>
       ELSE FailSlot(cursor)
    /\ Advance("wait")
    /\ UNCHANGED <<current, waiting_task_ids, readers>>

\* The slot has consumed its output and generates on.
Continued(rec) ==
    [rec EXCEPT !.state = "GENERATING", !.i_batch = FALSE, !.n_decoded = @ + 1]

Sampled(s) == slot[s].i_batch /\ slot[s].state \in {"DONE_PROMPT", "GENERATING"}

\* post_decode(): an embedding is complete; a completion samples its next token
\* and stops at the end of generation or when the budget is used up.  i_batch is
\* consumed before the slot is released.
PostDecodeSlot ==
    LET s == cursor
        id == slot[s].task
        streamed == IF id \in Stream THEN <<"partial">> ELSE <<>>
    IN
    /\ pc = "post"
    /\ \/ /\ ~Sampled(s)
          /\ UNCHANGED <<queue_results, slot, queues>>
       \/ /\ Sampled(s)
          /\ Send(id, streamed \o <<"final">>)
          /\ Release(s, FALSE)
       \/ /\ Sampled(s) /\ Kind[id] # "embedding"
          /\ slot[s].n_decoded + 1 < NPredict[id]
          /\ slot' = [slot EXCEPT ![s] = Continued(@)]
          /\ Send(id, streamed)
          /\ UNCHANGED queues
       \/ /\ Sampled(s) /\ Faults
          /\ FailSlot(s)
    /\ Advance("wait")
    /\ UNCHANGED <<current, waiting_task_ids, batch, readers>>

\* The loop waits for a task to arrive.
WaitForTask ==
    /\ pc = "wait" /\ Unlocked /\ queue_tasks # <<>>
    /\ pc' = "pop"
    /\ UNCHANGED <<queues, results, current, cursor, slot, batch, readers>>

MainStep ==
    \/ PopTask
    \/ DeferTask \/ LaunchTask \/ SlotAction \/ AnswerTask \/ CancelTask \/ SkipNextResponse
    \/ UpdateSlots
    \/ AddSampledToken
    \/ SkipPrompt \/ RejectPrompt \/ AddPromptTokens
    \/ DecodeOk \/ DecodeNothing \/ DecodeFails \/ AbortSlot
    \/ PostDecodeSlot
    \/ WaitForTask

\* All requests are over: only the wait for new ones is left.
Quiet == (\A r \in Readers : rpc[r] = "done") /\ pc = "wait" /\ UNCHANGED vars

Next ==
    \/ MainStep
    \/ \E r \in Readers : ReaderStep(r) \/ HangUp(r)
    \/ Quiet

Spec == Init /\ [][Next]_vars

\* The main thread and every worker thread keep running; clients are free.
Fairness == WF_vars(MainStep) /\ \A r \in Readers : WF_vars(ReaderStep(r))

FairSpec == Spec /\ Fairness

-----------------------------------------------------------------------------
(* Properties.                                                             *)

Phases == {"pop", "handle", "update", "generate", "prompt", "decode", "abort", "post", "wait"}

QueuesOK ==
    /\ queue_tasks \in Seq(Entries) /\ queue_tasks_deferred \in Seq(Entries)
    /\ waiting_task_ids \subseteq TaskIds
    /\ queue_results \in [TaskIds -> Seq({"partial", "final", "error"})]

MainOK ==
    /\ pc \in Phases /\ cursor \in Slots
    /\ current \in Entries \cup {NoEntry} /\ (pc = "handle" <=> current # NoEntry)
    /\ slot_batched \in Slots \cup {NoSlot} /\ n_tokens \in Nat

SlotsOK ==
    /\ slot \in [Slots -> SlotRecord]
    /\ \A s \in Slots : Idle(s) <=> slot[s].task = NoTask

ReadersOK ==
    /\ mutex_tasks \in Readers \cup {Free}
    /\ rpc \in [Readers -> {"start", "post", "recv", "stop", "drop", "cancel", "done"}]
    /\ received \in [Readers -> SUBSET TaskIds]
    /\ to_cancel \in [Readers -> SUBSET TaskIds]

\* Every variable has its type, and a slot is idle exactly when it has no task
\* (release() and launch_slot_with_task() change state and task together).
TypeOK == QueuesOK /\ MainOK /\ SlotsOK /\ ReadersOK

InQueue(id) == \E i \in DOMAIN queue_tasks : queue_tasks[i] = Work(id)
InDeferred(id) == \E i \in DOMAIN queue_tasks_deferred : queue_tasks_deferred[i] = Work(id)
InHand(id) == current = Work(id)
InSlot(id) == \E s \in Slots : slot[s].task = id
Alive(id) == InQueue(id) \/ InDeferred(id) \/ InHand(id) \/ InSlot(id)

\* A task is moved, never copied: it is in one queue at one position, in the main
\* thread's hands, or on one slot (std::move in start_loop, defer,
\* pop_deferred_task and launch_slot_with_task).
OnePlacePerTask ==
    \A id \in TaskIds :
        Cardinality({i \in DOMAIN queue_tasks : queue_tasks[i] = Work(id)})
           + Cardinality({i \in DOMAIN queue_tasks_deferred : queue_tasks_deferred[i] = Work(id)})
           + Cardinality({s \in Slots : slot[s].task = id})
           + (IF InHand(id) THEN 1 ELSE 0) <= 1

Answers(id) ==
    Cardinality({i \in DOMAIN queue_results[id] : queue_results[id][i] # "partial"})
    + Cardinality({r \in Readers : id \in received[r]})

\* A task is answered at most once, and is over when it is: no second result can
\* hit "duplicate result received" in wait_for_all().
AnsweredOnce ==
    \A id \in TaskIds : Answers(id) <= 1 /\ (Answers(id) = 1 => ~Alive(id))

\* Reader r will still take or drop what is queued for its id.
Collects(r, id) ==
    \/ rpc[r] \in {"post", "recv", "stop"} /\ id \in waiting_task_ids
    \/ rpc[r] = "drop" /\ id \notin to_cancel[r]

\* A result is queued only while its reader will still take or drop it: stop()
\* forgets the ids before it drops their results, so in between there are results
\* nobody waits for, but no result is added then, none is left behind when the
\* reader is done, and a task that goes on after it adds none.
ResultsAwaited ==
    \A id \in TaskIds : queue_results[id] # <<>> =>
        \E r \in Readers : id \in IdsOf(r) /\ Collects(r, id)

\* The main thread never waits for a task while a slot has work to do: the
\* NEXT_RESPONSE of update_slots() is still queued then.
NeverWaitsOnWork == pc = "wait" /\ queue_tasks = <<>> => AllIdle

\* LHM_ASSERT(task) in need_embd() and can_batch_with(): the slot that opened the
\* batch keeps its task until the batch is decoded.
BatchHeadHasTask ==
    pc \in {"generate", "prompt", "decode"} /\ slot_batched # NoSlot => ~Idle(slot_batched)

\* One batch, one task type and one lora: decode() applies the lora and the
\* embedding mode of slot_batched to all its tokens.
OneClassPerBatch ==
    pc = "decode" =>
        \A s \in Slots : Sampled(s) => Class[slot[s].task] = Class[slot[slot_batched].task]

Cancelled(id) ==
    \/ \E r \in Readers : id \in IdsOf(r) /\ (rpc[r] \in {"stop", "drop"} \/ id \in to_cancel[r])
    \/ \E i \in DOMAIN queue_tasks : queue_tasks[i] = Cancel(id)
    \/ current = Cancel(id)

ErrorPending(p) == \E i \in DOMAIN queue_results[p] : queue_results[p][i] = "error"

\* A child that waits for its parent's prompt will be woken: the parent is still
\* on a slot with its prompt unfinished, or the child is about to be aborted or
\* cancelled.
ChildHasParent ==
    \A s \in Slots : slot[s].state = "WAIT_OTHER" =>
        \/ Cancelled(slot[s].task)
        \/ pc = "abort" /\ cursor <= s
        \/ \E p \in TaskIds :
              /\ slot[s].task \in ToIds(Children[p])
              /\ \/ ErrorPending(p)
                 \/ \E u \in Slots : /\ slot[u].task = p
                                    /\ slot[u].state \in {"STARTED", "PROCESSING_PROMPT", "DONE_PROMPT"}

\* "defer until one slot is available": when the main thread goes to wait with
\* all slots idle, no deferred task is left behind.
NoTaskStranded ==
    pc = "wait" /\ queue_tasks = <<>> /\ AllIdle => queue_tasks_deferred = <<>>

\* "if this is cancel task make sure to clean up pending tasks": once a request
\* is over and its CANCELs are handled, none of its tasks is left anywhere.
NoTaskOutlivesReader ==
    \A r \in Readers : rpc[r] = "done" =>
        \A id \in IdsOf(r) : Alive(id) => Cancelled(id)

\* Every request of a patient client is answered in full, if nothing fails.
AllServed == \A r \in Readers : <>(rpc[r] = "done" /\ received[r] = IdsOf(r))
=============================================================================
