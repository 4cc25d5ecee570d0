------------------------- MODULE ServerLoop_proofs -------------------------
(***************************************************************************)
(* Safety of ServerLoop for every load, number of slots and batch size.    *)
(***************************************************************************)
EXTENDS ServerLoop, SequenceTheorems, FiniteSetTheorems, TLAPS

-----------------------------------------------------------------------------
(* Sequences with one element removed.                                     *)

\* RemoveAt() on a deque yields a deque of the same kind.
LEMMA RemoveAtType ==
    ASSUME NEW S, NEW q \in Seq(S), NEW i \in DOMAIN q
    PROVE  /\ RemoveAt(q, i) \in Seq(S)
           /\ \A j \in DOMAIN q : j # i => \E k \in DOMAIN RemoveAt(q, i) : RemoveAt(q, i)[k] = q[j]
<1> DEFINE a == SubSeq(q, 1, i - 1)
           b == SubSeq(q, i + 1, Len(q))
<1>1. i \in 1 .. Len(q) /\ Len(q) \in Nat /\ \A j \in 1 .. Len(q) : q[j] \in S
    BY LenProperties, ElementOfSeq
<1>2. a \in Seq(S) /\ Len(a) = i - 1 /\ \A j \in 1 .. i - 1 : a[j] = q[j]
  <2>1. \A j \in 1 .. i - 1 : q[j] \in S
    BY <1>1
  <2>2. 1 \in Int /\ i - 1 \in Int
    BY <1>1
  <2>3. /\ a \in Seq(S)
        /\ Len(a) = IF 1 <= i - 1 THEN (i - 1) - 1 + 1 ELSE 0
        /\ \A j \in 1 .. (i - 1) - 1 + 1 : a[j] = q[1 + j - 1]
    BY <2>1, <2>2, SubSeqProperties
  <2> QED BY <2>3, <1>1
<1>3. b \in Seq(S) /\ Len(b) = Len(q) - i /\ \A j \in 1 .. Len(q) - i : b[j] = q[i + j]
  <2>1. \A j \in i + 1 .. Len(q) : q[j] \in S
    BY <1>1
  <2>2. i + 1 \in Int /\ Len(q) \in Int
    BY <1>1
  <2>3. /\ b \in Seq(S)
        /\ Len(b) = IF i + 1 <= Len(q) THEN Len(q) - (i + 1) + 1 ELSE 0
        /\ \A j \in 1 .. Len(q) - (i + 1) + 1 : b[j] = q[(i + 1) + j - 1]
    BY <2>1, <2>2, SubSeqProperties
  <2> QED BY <2>3, <1>1
<1> DEFINE c == a \o b
<1> HIDE DEF a, b
<1>4. /\ c \in Seq(S)
      /\ Len(c) = Len(q) - 1
      /\ \A k \in 1 .. Len(q) - 1 : c[k] = IF k <= i - 1 THEN a[k] ELSE b[k - (i - 1)]
  <2>1. /\ c \in Seq(S)
        /\ Len(c) = Len(a) + Len(b)
        /\ \A k \in 1 .. Len(a) + Len(b) : c[k] = IF k <= Len(a) THEN a[k] ELSE b[k - Len(a)]
    BY <1>2, <1>3, ConcatProperties
  <2> HIDE DEF c
  <2>2. Len(a) = i - 1 /\ Len(a) + Len(b) = Len(q) - 1
    BY <1>1, <1>2, <1>3
  <2> QED BY <2>1, <2>2
<1>5. RemoveAt(q, i) = c
    BY DEF RemoveAt, a, b
<1> HIDE DEF c
<1>6. DOMAIN c = 1 .. Len(q) - 1
    BY <1>4, LenProperties
<1>7. ASSUME NEW j \in DOMAIN q, j # i
      PROVE  \E k \in DOMAIN c : c[k] = q[j]
  <2>1. j \in 1 .. Len(q)
    BY LenProperties
  <2>2. CASE j < i
    <3>1. j \in DOMAIN c /\ c[j] = a[j]
      BY <2>1, <2>2, <1>1, <1>4, <1>6
    <3> QED BY <3>1, <2>1, <2>2, <1>1, <1>2
  <2>3. CASE j > i
    <3>1. j - 1 \in DOMAIN c /\ c[j - 1] = b[(j - 1) - (i - 1)]
      BY <2>1, <2>3, <1>1, <1>4, <1>6
    <3>2. b[(j - 1) - (i - 1)] = q[j]
      <4>1. (j - 1) - (i - 1) = j - i /\ j - i \in 1 .. Len(q) - i /\ i + (j - i) = j
        BY <2>1, <2>3, <1>1
      <4> QED BY <4>1, <1>3
    <3> QED BY <3>1, <3>2
  <2> QED BY <2>1, <2>2, <2>3, <1>1, <1>7
<1> QED BY <1>4, <1>5, <1>7

\* A prepended or appended element leaves the others in the deque.
LEMMA PrependType ==
    ASSUME NEW S, NEW q \in Seq(S), NEW e \in S
    PROVE  /\ <<e>> \o q \in Seq(S)
           /\ \A j \in DOMAIN q : \E k \in DOMAIN (<<e>> \o q) : (<<e>> \o q)[k] = q[j]
<1> DEFINE a == <<e>>
           c == a \o q
<1>1. a \in Seq(S) /\ Len(a) = 1
    OBVIOUS
<1> HIDE DEF a
<1>2. /\ c \in Seq(S) /\ Len(c) = 1 + Len(q)
      /\ \A k \in 1 .. 1 + Len(q) : c[k] = IF k <= 1 THEN a[k] ELSE q[k - 1]
  <2>1. /\ c \in Seq(S) /\ Len(c) = Len(a) + Len(q)
        /\ \A k \in 1 .. Len(a) + Len(q) : c[k] = IF k <= Len(a) THEN a[k] ELSE q[k - Len(a)]
    BY <1>1, ConcatProperties
  <2> HIDE DEF c
  <2> QED BY <1>1, <2>1
<1> HIDE DEF c
<1>3. DOMAIN c = 1 .. 1 + Len(q) /\ DOMAIN q = 1 .. Len(q) /\ Len(q) \in Nat
    BY <1>2, LenProperties
<1>4. ASSUME NEW j \in DOMAIN q PROVE \E k \in DOMAIN c : c[k] = q[j]
  <2>1. j + 1 \in DOMAIN c /\ c[j + 1] = q[(j + 1) - 1] /\ (j + 1) - 1 = j
    BY <1>2, <1>3
  <2> QED BY <2>1
<1> QED BY <1>2, <1>4 DEF c, a

\* Concatenation keeps the elements of both deques.
LEMMA ConcatKeeps ==
    ASSUME NEW S, NEW q \in Seq(S), NEW b \in Seq(S)
    PROVE  /\ q \o b \in Seq(S)
           /\ \A j \in DOMAIN q : j \in DOMAIN (q \o b) /\ (q \o b)[j] = q[j]
<1> DEFINE c == q \o b
<1>1. /\ c \in Seq(S) /\ Len(c) = Len(q) + Len(b)
      /\ \A k \in 1 .. Len(q) + Len(b) : c[k] = IF k <= Len(q) THEN q[k] ELSE b[k - Len(q)]
    BY ConcatProperties
<1> HIDE DEF c
<1>2. DOMAIN c = 1 .. Len(q) + Len(b) /\ DOMAIN q = 1 .. Len(q) /\ Len(q) \in Nat /\ Len(b) \in Nat
    BY <1>1, LenProperties
<1>3. \A j \in DOMAIN q : j \in DOMAIN c /\ c[j] = q[j]
    BY <1>1, <1>2
<1> QED BY <1>1, <1>3, Zenon DEF c

-----------------------------------------------------------------------------
(* What the operations of the queues return.                               *)

\* The NEXT_RESPONSE of update_slots() is in the deque.
HasNextResponse(q) == \E i \in DOMAIN q : q[i] = NextResponse

\* Every task, CANCEL and NEXT_RESPONSE is an entry of a deque.
LEMMA EntriesType ==
    /\ NextResponse \in Entries
    /\ \A id \in TaskIds : Work(id) \in Entries /\ Cancel(id) \in Entries
    /\ \A id : Work(id) # NextResponse
    /\ \A e \in Entries : e # NoEntry /\ (e.type \in {"work", "cancel"} => e.id \in TaskIds)
BY DEF Entries, NextResponse, Work, Cancel, NoEntry

\* cleanup_pending_task() leaves a deque of tasks, and never removes NEXT_RESPONSE.
LEMMA CleanedType ==
    ASSUME NEW q \in Seq(Entries), NEW id
    PROVE  /\ Cleaned(q, id) \in Seq(Entries)
           /\ HasNextResponse(q) => HasNextResponse(Cleaned(q, id))
<1>1. CASE ~ \E i \in DOMAIN q : q[i] = Work(id)
    BY <1>1 DEF Cleaned
<1>2. CASE \E i \in DOMAIN q : q[i] = Work(id)
  <2> DEFINE i == CHOOSE i \in DOMAIN q : q[i] = Work(id)
  <2>1. i \in DOMAIN q /\ q[i] = Work(id)
    BY <1>2
  <2>2. Cleaned(q, id) = RemoveAt(q, i)
    BY <1>2 DEF Cleaned
  <2> HIDE DEF i
  <2>3. RemoveAt(q, i) \in Seq(Entries)
    BY <2>1, RemoveAtType
  <2>4. ASSUME NEW j \in DOMAIN q, q[j] = NextResponse
        PROVE  HasNextResponse(RemoveAt(q, i))
    <3>1. j # i
      BY <2>1, <2>4, EntriesType
    <3>2. \E k \in DOMAIN RemoveAt(q, i) : RemoveAt(q, i)[k] = q[j]
      BY <2>1, <3>1, RemoveAtType
    <3> QED BY <2>4, <3>2 DEF HasNextResponse
  <2> QED BY <2>2, <2>3, <2>4 DEF HasNextResponse
<1> QED BY <1>1, <1>2

\* pop_deferred_task() moves one task to the front and drops nothing.
LEMMA PopDeferredType ==
    ASSUME QueuesOK, NEW s, PopDeferredTask(s)
    PROVE  /\ queue_tasks' \in Seq(Entries) /\ queue_tasks_deferred' \in Seq(Entries)
           /\ HasNextResponse(queue_tasks) => HasNextResponse(queue_tasks')
<1>1. CASE UNCHANGED queues
    BY <1>1 DEF QueuesOK, queues
<1>2. ASSUME NEW i \in DOMAIN queue_tasks_deferred,
             queue_tasks' = <<queue_tasks_deferred[i]>> \o queue_tasks,
             queue_tasks_deferred' = RemoveAt(queue_tasks_deferred, i)
      PROVE  /\ queue_tasks' \in Seq(Entries) /\ queue_tasks_deferred' \in Seq(Entries)
             /\ HasNextResponse(queue_tasks) => HasNextResponse(queue_tasks')
  <2>1. queue_tasks_deferred[i] \in Entries
    BY DEF QueuesOK
  <2>2. queue_tasks_deferred' \in Seq(Entries)
    BY <1>2, RemoveAtType DEF QueuesOK
  <2>3. /\ queue_tasks' \in Seq(Entries)
        /\ \A j \in DOMAIN queue_tasks :
              \E k \in DOMAIN queue_tasks' : queue_tasks'[k] = queue_tasks[j]
    <3>1. queue_tasks \in Seq(Entries)
      BY DEF QueuesOK
    <3> QED BY <1>2, <2>1, <3>1, PrependType
  <2> QED BY <2>2, <2>3 DEF HasNextResponse
<1> QED BY <1>1, <1>2 DEF PopDeferredTask

\* defer() keeps the type of the deques.
LEMMA DeferType ==
    ASSUME QueuesOK, NEW e \in Entries, Defer(e)
    PROVE  queue_tasks' \in Seq(Entries) /\ queue_tasks_deferred' \in Seq(Entries)
BY AppendProperties DEF QueuesOK, Defer

ResultKinds == {"partial", "final", "error"}

\* send() keeps the type of the results.
LEMMA SendType ==
    ASSUME QueuesOK, NEW id, NEW kinds \in Seq(ResultKinds), Send(id, kinds)
    PROVE  queue_results' \in [TaskIds -> Seq(ResultKinds)]
<1>1. \A x \in TaskIds : queue_results[x] \o kinds \in Seq(ResultKinds)
    BY ConcatProperties DEF QueuesOK, ResultKinds
<1> QED BY <1>1 DEF QueuesOK, Send, ResultKinds

\* IdsOf(r) is a set of task ids.
LEMMA IdsOfType == \A r \in Readers : IdsOf(r) \subseteq TaskIds
<1>1. \A q \in Seq(TaskIds) : ToIds(q) \subseteq TaskIds
    BY LenProperties, ElementOfSeq DEF ToIds
<1> QED BY <1>1, TasksAssumption DEF IdsOf

-----------------------------------------------------------------------------
(* Type correctness, one group of variables at a time.                     *)

\* The initial state is well typed.
LEMMA InitType == Init => TypeOK
<1> SUFFICES ASSUME Init PROVE TypeOK
    OBVIOUS
<1>1. QueuesOK
    BY DEF Init, QueuesOK
<1>2. MainOK
    BY SlotsAssumption DEF Init, MainOK, Phases, Slots
<1>3. SlotsOK
    BY DEF Init, SlotsOK, SlotRecord, States, Idle
<1>4. ReadersOK
    BY DEF Init, ReadersOK
<1> QED BY <1>1, <1>2, <1>3, <1>4 DEF TypeOK

\* Readers own rpc, received, to_cancel and mutex_tasks; the main thread owns its
\* control state, the slots and the batch.
LEMMA MainFrame == MainStep => UNCHANGED readers
BY DEF MainStep, PopTask, DeferTask, LaunchTask, SlotAction, AnswerTask, CancelTask,
       SkipNextResponse, Handled, UpdateSlots, AddSampledToken, SkipPrompt, RejectPrompt,
       AddPromptTokens, DecodeOk, DecodeNothing, DecodeFails, AbortSlot, PostDecodeSlot,
       WaitForTask

\* A step of a reader leaves the main thread, the slots and the batch alone.
LEMMA ReaderFrame ==
    ASSUME NEW r \in Readers, ReaderStep(r) \/ HangUp(r)
    PROVE  UNCHANGED <<pc, current, cursor, slot, batch>>
BY DEF ReaderStep, AddWaitingTaskIds, PostTasks, Receive, Finish, HangUp, Stop, DropResults, PostCancel

\* The readers' variables keep their types.
LEMMA ReadersType ==
    ASSUME TypeOK, Next
    PROVE  ReadersOK'
<1>1. CASE MainStep \/ Quiet
    BY <1>1, MainFrame DEF TypeOK, ReadersOK, readers, Quiet, vars
<1>2. ASSUME NEW r \in Readers, ReaderStep(r) \/ HangUp(r)
      PROVE  ReadersOK'
  <2>1. IdsOf(r) \subseteq TaskIds
    BY IdsOfType
  <2>2. ASSUME AddWaitingTaskIds(r) \/ PostTasks(r) \/ Finish(r) \/ HangUp(r)
        PROVE  ReadersOK'
    BY <2>2 DEF TypeOK, ReadersOK, AddWaitingTaskIds, PostTasks, Finish, HangUp
  <2>3. ASSUME Receive(r) PROVE ReadersOK'
    BY <2>1, <2>3 DEF TypeOK, ReadersOK, Receive
  <2>4. ASSUME Stop(r) PROVE ReadersOK'
    BY <2>4 DEF TypeOK, ReadersOK, Stop
  <2>5. ASSUME DropResults(r) PROVE ReadersOK'
    BY <2>1, <2>5 DEF TypeOK, ReadersOK, DropResults
  <2>6. ASSUME PostCancel(r) PROVE ReadersOK'
    BY <2>6 DEF TypeOK, ReadersOK, PostCancel
  <2> QED BY <1>2, <2>2, <2>3, <2>4, <2>5, <2>6 DEF ReaderStep
<1> QED BY <1>1, <1>2 DEF Next

\* A sweep over the slots stays within them.
LEMMA AdvanceType ==
    ASSUME cursor \in Slots, pc \in Phases \ {"handle"}, NEW phase \in Phases \ {"handle"},
           Advance(phase)
    PROVE  cursor' \in Slots /\ pc' \in Phases \ {"handle"}
BY SlotsAssumption DEF Advance, Slots

\* The main thread's control state and the batch keep their types.
LEMMA MainType ==
    ASSUME TypeOK, Next
    PROVE  MainOK'
<1> USE DEF TypeOK, MainOK, Phases, batch
<1>1. CASE Quiet
    BY <1>1 DEF Quiet, vars
<1>2. ASSUME NEW r \in Readers, ReaderStep(r) \/ HangUp(r)
      PROVE  MainOK'
    BY <1>2, ReaderFrame
<1>3. CASE PopTask
  <2>1. queue_tasks # <<>> => Head(queue_tasks) \in Entries
    BY HeadTailProperties DEF QueuesOK
  <2> QED BY <1>3, <2>1, EntriesType DEF PopTask
<1>4. CASE DeferTask \/ LaunchTask \/ SlotAction \/ AnswerTask \/ CancelTask \/ SkipNextResponse
    BY <1>4 DEF DeferTask, LaunchTask, SlotAction, AnswerTask, CancelTask, SkipNextResponse, Handled
<1>5. CASE UpdateSlots
    BY <1>5, SlotsAssumption DEF UpdateSlots, Slots
<1>6. CASE AddSampledToken
  <2>1. cursor' \in Slots /\ pc' \in Phases \ {"handle"}
    BY <1>6, AdvanceType DEF AddSampledToken, AfterGenerating
  <2>2. slot_batched' \in Slots \cup {NoSlot} /\ n_tokens' \in Nat
    BY <1>6 DEF AddSampledToken, OpenBatch, FailSlot
  <2> QED BY <1>6, <2>1, <2>2 DEF AddSampledToken
<1>7. CASE SkipPrompt \/ RejectPrompt
  <2>1. cursor' \in Slots /\ pc' \in Phases \ {"handle"}
    BY <1>7, AdvanceType DEF SkipPrompt, RejectPrompt
  <2> QED BY <1>7, <2>1 DEF SkipPrompt, RejectPrompt
<1>8. CASE AddPromptTokens
  <2>1. cursor' \in Slots /\ pc' \in Phases \ {"handle"}
    BY <1>8, AdvanceType DEF AddPromptTokens
  <2>2. slot[cursor].task \in TaskIds
    BY <1>8 DEF AddPromptTokens, Fillable, Pending, SlotsOK, SlotRecord, Idle
  <2>3. NPrompt[slot[cursor].task] \in Nat /\ NBatch \in Nat
    BY <2>2, TasksAssumption, SlotsAssumption
  <2>4. slot_batched' \in Slots \cup {NoSlot} /\ n_tokens' \in Nat
    <3>1. \/ UNCHANGED batch
          \/ /\ OpenBatch(cursor)
             /\ \E n \in (1 .. NBatch - n_tokens) \cup {NPrompt[slot[cursor].task]} :
                   n_tokens' = n_tokens + n
      BY <1>8 DEF AddPromptTokens
    <3> QED BY <3>1, <2>3 DEF OpenBatch
  <2> QED BY <1>8, <2>1, <2>4 DEF AddPromptTokens
<1>9. CASE DecodeOk \/ DecodeNothing \/ DecodeFails \/ WaitForTask
    BY <1>9 DEF DecodeOk, DecodeNothing, DecodeFails, WaitForTask
<1>10. CASE AbortSlot
  <2>1. cursor' \in Slots /\ pc' \in Phases \ {"handle"}
    BY <1>10, AdvanceType DEF AbortSlot
  <2> QED BY <1>10, <2>1 DEF AbortSlot, FailSlot
<1>11. CASE PostDecodeSlot
  <2>1. cursor' \in Slots /\ pc' \in Phases \ {"handle"}
    BY <1>11, AdvanceType DEF PostDecodeSlot
  <2> QED BY <1>11, <2>1 DEF PostDecodeSlot
<1> QED BY <1>1, <1>2, <1>3, <1>4, <1>5, <1>6, <1>7, <1>8, <1>9, <1>10, <1>11 DEF Next, MainStep

\* One slot changes, to a record that has a task exactly when it is not idle.
SlotRecordOK(rec) == rec \in SlotRecord /\ (rec.state = "IDLE" <=> rec.task = NoTask)

\* SlotsOK, one slot at a time.
LEMMA SlotsOKPerSlot ==
    ASSUME SlotsOK, NEW f, f = [s \in Slots |-> f[s]], \A s \in Slots : SlotRecordOK(f[s]), slot' = f
    PROVE  SlotsOK'
BY DEF SlotsOK, SlotRecordOK, Idle

\* SlotsOK, with the slots as a function of their records.
LEMMA SlotsOKRecord == SlotsOK <=> slot = [s \in Slots |-> slot[s]] /\ \A s \in Slots : SlotRecordOK(slot[s])
BY DEF SlotsOK, SlotRecordOK, Idle

\* Changing one slot to a well-typed record keeps SlotsOK.
LEMMA UpdateSlotOK ==
    ASSUME SlotsOK, NEW s \in Slots, NEW rec, SlotRecordOK(rec), slot' = [slot EXCEPT ![s] = rec]
    PROVE  SlotsOK'
<1> DEFINE f == [slot EXCEPT ![s] = rec]
<1>1. f = [u \in Slots |-> f[u]] /\ \A u \in Slots : SlotRecordOK(f[u])
    BY SlotsOKRecord
<1> HIDE DEF f
<1>2. slot' = f
    BY DEF f
<1> QED BY <1>1, <1>2, SlotsOKPerSlot

\* reset() yields a well-typed idle slot.
LEMMA VacatedOK == \A b \in BOOLEAN : SlotRecordOK(Vacated(b))
BY DEF SlotRecordOK, Vacated, SlotRecord, States

\* release() keeps SlotsOK.
LEMMA ReleaseOK ==
    ASSUME SlotsOK, NEW s \in Slots, NEW b \in BOOLEAN, Release(s, b)
    PROVE  SlotsOK'
BY VacatedOK, UpdateSlotOK DEF Release

\* launch_slots_with_parent_task() hands every chosen free slot one child.
LEMMA LaunchedOK ==
    ASSUME SlotsOK, NEW id \in TaskIds, NEW s \in Slots, slot' = Launched(id, s)
    PROVE  SlotsOK'
<1> DEFINE f == Launched(id, s)
<1>1. \A i \in 1 .. Len(Children[id]) : Children[id][i] \in TaskIds
    BY TasksAssumption, ElementOfSeq
<1>2. ASSUME NEW u \in Slots, u \in FreeSlots(s), Rank(u, s) <= Len(Children[id])
      PROVE  Children[id][Rank(u, s)] \in TaskIds
  <2> DEFINE R == {v \in FreeSlots(s) : v <= u}
  <2>1. IsFiniteSet(Slots)
    BY SlotsAssumption, FS_Interval DEF Slots
  <2>2. IsFiniteSet(R)
    BY <2>1, FS_Subset DEF FreeSlots
  <2>3. u \in R
    BY <1>2, SlotsAssumption DEF Slots
  <2>4. Cardinality(R) \in Nat /\ Cardinality(R) # 0
    BY <2>2, <2>3, FS_CardinalityType, FS_EmptySet
  <2>5. Len(Children[id]) \in Nat
    BY TasksAssumption, LenProperties
  <2> QED BY <1>1, <1>2, <2>4, <2>5 DEF Rank
<1>3. \A rec, x, st : rec \in SlotRecord /\ x \in TaskIds /\ st \in {"STARTED", "WAIT_OTHER"}
                         => SlotRecordOK(Occupied(rec, x, st))
    BY ZenonT(60), ReadersAssumption DEF SlotRecordOK, Occupied, SlotRecord, States
<1>4. \A u \in Slots : slot[u] \in SlotRecord /\ SlotRecordOK(slot[u])
    BY SlotsOKRecord DEF SlotRecordOK
<1>5. \A u \in Slots : SlotRecordOK(f[u])
    BY <1>2, <1>3, <1>4 DEF Launched
<1>6. f = [u \in Slots |-> f[u]]
    BY DEF Launched
<1> HIDE DEF f
<1>7. slot' = f
    BY DEF f
<1> QED BY <1>5, <1>6, <1>7, SlotsOKPerSlot

\* The slots keep their types, and state and task change together.
LEMMA SlotsType ==
    ASSUME TypeOK, Next
    PROVE  SlotsOK'
<1>0. SlotsOK /\ QueuesOK /\ cursor \in Slots /\ current \in Entries \cup {NoEntry}
    BY DEF TypeOK, MainOK
<1>1. ASSUME UNCHANGED slot PROVE SlotsOK'
    BY <1>0, <1>1 DEF SlotsOK, Idle
<1>2. CASE Quiet
    BY <1>1, <1>2 DEF Quiet, vars
<1>3. ASSUME NEW r \in Readers, ReaderStep(r) \/ HangUp(r)
      PROVE  SlotsOK'
    BY <1>1, <1>3, ReaderFrame
<1>4. CASE \/ PopTask \/ DeferTask \/ SlotAction \/ AnswerTask \/ SkipNextResponse \/ UpdateSlots
           \/ SkipPrompt \/ DecodeNothing \/ DecodeFails \/ WaitForTask
    BY <1>1, <1>4 DEF PopTask, DeferTask, SlotAction, AnswerTask, SkipNextResponse, UpdateSlots,
                     SkipPrompt, DecodeNothing, DecodeFails, WaitForTask
<1>5. \A s \in Slots : slot[s].i_batch \in BOOLEAN
    BY <1>0 DEF SlotsOK, SlotRecord
<1>6. CASE LaunchTask
  <2>1. current.id \in TaskIds
    BY <1>0, <1>6, EntriesType DEF LaunchTask, Handling, NoEntry
  <2>2. PICK s \in AvailableSlots(current.id) : slot' = Launched(current.id, s) \/ UNCHANGED slot
    BY <1>6 DEF LaunchTask
  <2>3. s \in Slots
    BY <2>1, <2>2, TasksAssumption, SlotsAssumption DEF AvailableSlots, SlotById, Slots
  <2> QED BY <1>0, <1>1, <2>1, <2>2, <2>3, LaunchedOK
<1>7. CASE CancelTask
    BY <1>0, <1>1, <1>5, <1>7, ReleaseOK DEF CancelTask
<1>8. CASE RejectPrompt \/ AbortSlot
    BY <1>0, <1>1, <1>5, <1>8, ReleaseOK DEF RejectPrompt, AbortSlot, FailSlot
<1>9. CASE AddSampledToken
  <2>1. slot[cursor].state = "GENERATING" => SlotRecordOK([slot[cursor] EXCEPT !.i_batch = TRUE])
    BY <1>0 DEF SlotsOK, SlotRecordOK, SlotRecord, Idle
  <2>2. \/ UNCHANGED slot
        \/ slot[cursor].state = "GENERATING" /\ slot' = [slot EXCEPT ![cursor].i_batch = TRUE]
        \/ Release(cursor, slot[cursor].i_batch)
    BY <1>9 DEF AddSampledToken, FailSlot
  <2> QED BY <1>0, <1>1, <1>5, <2>1, <2>2, ReleaseOK, UpdateSlotOK
<1>10. CASE AddPromptTokens
  <2>1. slot[cursor] \in SlotRecord /\ slot[cursor].task \in TaskIds
    BY <1>0, <1>10 DEF AddPromptTokens, Fillable, Pending, SlotsOK, SlotRecord, Idle
  <2>2. NPrompt[slot[cursor].task] \in Nat /\ NBatch \in Nat /\ n_tokens \in Nat
    BY <2>1, TasksAssumption, SlotsAssumption DEF TypeOK, MainOK
  <2>3. ASSUME NEW rec, SlotRecordOK(rec), slot' = [slot EXCEPT ![cursor] = rec]
        PROVE  SlotsOK'
    BY <1>0, <2>3, UpdateSlotOK
  <2>4. SlotRecordOK([slot[cursor] EXCEPT !.state = "PROCESSING_PROMPT"])
    BY <2>1, ReadersAssumption DEF SlotRecordOK, SlotRecord, States
  <2>5. \A n \in Nat, done \in BOOLEAN : SlotRecordOK(Filled(slot[cursor], n, done))
    BY <2>1, ReadersAssumption DEF SlotRecordOK, SlotRecord, States, Filled
  <2>6. CASE slot' = [slot EXCEPT ![cursor].state = "PROCESSING_PROMPT"]
    BY <2>3, <2>4, <2>6
  <2>7. ASSUME NEW n_past \in Nat, NEW n \in Nat,
               slot' = [slot EXCEPT ![cursor] =
                           Filled(@, n_past + n, n_past + n = NPrompt[slot[cursor].task])]
        PROVE  SlotsOK'
    <3>1. n_past + n \in Nat /\ (n_past + n = NPrompt[slot[cursor].task]) \in BOOLEAN
      OBVIOUS
    <3>2. slot' = [slot EXCEPT ![cursor] =
                      Filled(slot[cursor], n_past + n, n_past + n = NPrompt[slot[cursor].task])]
      BY <1>0, <2>7 DEF SlotsOK
    <3> QED BY <2>3, <2>5, <3>1, <3>2
  <2>8. \A n_past \in IF slot[cursor].state = "STARTED" /\ CanSplit(slot[cursor].task)
                      THEN 0 .. NPrompt[slot[cursor].task] - 1
                      ELSE {slot[cursor].n_prompt} : n_past \in Nat
    BY <2>1, <2>2 DEF SlotRecord
  <2>9. \/ slot' = [slot EXCEPT ![cursor].state = "PROCESSING_PROMPT"]
        \/ \E n_past \in Nat, n \in Nat :
              slot' = [slot EXCEPT ![cursor] =
                          Filled(@, n_past + n, n_past + n = NPrompt[slot[cursor].task])]
    BY <1>10, <2>2, <2>8 DEF AddPromptTokens
  <2> QED BY <2>6, <2>7, <2>9
<1>11. CASE DecodeOk
  <2> DEFINE woken(s) == slot[s].state = "WAIT_OTHER" /\ ParentDone(s)
             f == [s \in Slots |-> IF woken(s) THEN Copied(slot[s]) ELSE slot[s]]
  <2>1. ASSUME NEW s \in Slots, woken(s) PROVE SlotRecordOK(Copied(slot[s]))
    <3>1. slot[s] \in SlotRecord /\ slot[s].task \in TaskIds
      BY <1>0, <2>1 DEF SlotsOK, SlotRecord, Idle
    <3>2. NPrompt[slot[s].task] \in Nat
      BY <3>1, TasksAssumption
    <3> QED BY <3>1, <3>2, ReadersAssumption DEF SlotRecordOK, SlotRecord, States, Copied
  <2>2. \A s \in Slots : SlotRecordOK(f[s])
    BY <1>0, <2>1, SlotsOKRecord
  <2>3. slot' = f /\ f = [s \in Slots |-> f[s]]
    BY <1>11 DEF DecodeOk
  <2> HIDE DEF f
  <2> QED BY <1>0, <2>2, <2>3, SlotsOKPerSlot
<1>12. CASE PostDecodeSlot
  <2>1. slot[cursor] \in SlotRecord
    BY <1>0 DEF SlotsOK
  <2>2. ASSUME Sampled(cursor) PROVE SlotRecordOK(Continued(slot[cursor]))
    <3>1. slot[cursor].task # NoTask
      BY <1>0, <2>2 DEF Sampled, SlotsOK, Idle
    <3>2. slot[cursor].n_decoded + 1 \in Nat
      BY <2>1 DEF SlotRecord
    <3> QED BY <2>1, <3>1, <3>2 DEF SlotRecordOK, SlotRecord, States, Continued
  <2>3. \/ UNCHANGED slot
        \/ Release(cursor, FALSE) \/ Release(cursor, slot[cursor].i_batch)
        \/ Sampled(cursor) /\ slot' = [slot EXCEPT ![cursor] = Continued(@)]
    BY <1>12 DEF PostDecodeSlot, FailSlot
  <2>4. CASE Sampled(cursor) /\ slot' = [slot EXCEPT ![cursor] = Continued(@)]
    <3>1. slot' = [slot EXCEPT ![cursor] = Continued(slot[cursor])]
      BY <1>0, <2>4 DEF SlotsOK
    <3> QED BY <1>0, <2>2, <2>4, <3>1, UpdateSlotOK
  <2> QED BY <1>0, <1>1, <1>5, <2>3, <2>4, ReleaseOK
<1> QED BY <1>2, <1>3, <1>4, <1>6, <1>7, <1>8, <1>9, <1>10, <1>11, <1>12 DEF Next, MainStep

\* A CANCEL or a popped task is prepended to a cleaned or popped deque.
LEMMA QueuesType ==
    ASSUME TypeOK, Next
    PROVE  QueuesOK'
<1> USE DEF ResultKinds
<1>0. QueuesOK /\ SlotsOK /\ cursor \in Slots /\ current \in Entries \cup {NoEntry}
    BY DEF TypeOK, MainOK
<1>1. ASSUME UNCHANGED <<queues, results>> PROVE QueuesOK'
    BY <1>0, <1>1 DEF QueuesOK, queues, results
<1>2. ASSUME UNCHANGED waiting_task_ids,
             queue_tasks' \in Seq(Entries) /\ queue_tasks_deferred' \in Seq(Entries),
             queue_results' \in [TaskIds -> Seq(ResultKinds)]
      PROVE  QueuesOK'
    BY <1>0, <1>2 DEF QueuesOK
<1>3. ASSUME UNCHANGED queues
      PROVE  queue_tasks' \in Seq(Entries) /\ queue_tasks_deferred' \in Seq(Entries)
    BY <1>0, <1>3 DEF QueuesOK, queues
<1>4. ASSUME UNCHANGED queue_results
      PROVE  queue_results' \in [TaskIds -> Seq(ResultKinds)]
    BY <1>0, <1>4 DEF QueuesOK
<1>5. ASSUME NEW s, NEW b, Release(s, b)
      PROVE  queue_tasks' \in Seq(Entries) /\ queue_tasks_deferred' \in Seq(Entries)
    BY <1>0, <1>5, PopDeferredType DEF Release
<1>6. \A k \in ResultKinds : <<k>> \in Seq(ResultKinds)
    OBVIOUS
<1>7. ASSUME NEW id, NEW k \in ResultKinds, Send(id, <<k>>)
      PROVE  queue_results' \in [TaskIds -> Seq(ResultKinds)]
  <2>1. <<k>> \in Seq(ResultKinds)
    BY <1>6
  <2> QED BY <1>0, <1>7, <2>1, SendType
<1>8. CASE Quiet \/ SkipNextResponse \/ SkipPrompt \/ DecodeOk \/ DecodeNothing \/ DecodeFails \/ WaitForTask
    BY <1>1, <1>8 DEF Quiet, vars, SkipNextResponse, SkipPrompt, DecodeOk, DecodeNothing,
                     DecodeFails, WaitForTask
<1>9. ASSUME NEW r \in Readers, ReaderStep(r) \/ HangUp(r)
      PROVE  QueuesOK'
  <2>0. IdsOf(r) \subseteq TaskIds
    BY IdsOfType
  <2>1. CASE Finish(r) \/ HangUp(r)
    BY <1>1, <2>1 DEF Finish, HangUp
  <2>2. CASE AddWaitingTaskIds(r)
    BY <1>0, <2>0, <2>2 DEF AddWaitingTaskIds, QueuesOK, queues
  <2>3. CASE PostTasks(r)
    <3> DEFINE b == [i \in DOMAIN TasksOf[r] |-> Work(TasksOf[r][i])]
    <3>1. TasksOf[r] \in Seq(TaskIds)
      BY TasksAssumption
    <3>2. b \in Seq(Entries)
      BY <3>1, EntriesType, LenProperties, ElementOfSeq
    <3>3. queue_tasks \o b \in Seq(Entries)
      BY <1>0, <3>2, ConcatKeeps DEF QueuesOK
    <3>4. queue_tasks' \in Seq(Entries)
      BY <2>3, <3>3 DEF PostTasks
    <3> QED BY <1>0, <2>3, <3>4 DEF PostTasks, QueuesOK, results
  <2>4. CASE Receive(r)
    <3>1. \A id \in TaskIds : queue_results[id] # <<>> => Tail(queue_results[id]) \in Seq(ResultKinds)
      BY <1>0, HeadTailProperties DEF QueuesOK
    <3>2. PICK id \in TaskIds :
             /\ queue_results[id] # <<>>
             /\ queue_results' = [queue_results EXCEPT ![id] = Tail(queue_results[id])]
      BY <1>0, <2>0, <2>4 DEF Receive, QueuesOK
    <3>3. queue_results' \in [TaskIds -> Seq(ResultKinds)]
      BY <1>0, <3>1, <3>2 DEF QueuesOK
    <3> QED BY <1>2, <1>3, <2>4, <3>3 DEF Receive
  <2>5. CASE Stop(r)
    BY <1>0, <2>5 DEF Stop, QueuesOK, queues
  <2>6. CASE DropResults(r)
    <3>1. queue_results' \in [TaskIds -> Seq(ResultKinds)]
      <4>1. queue_results \in [TaskIds -> Seq(ResultKinds)] /\ <<>> \in Seq(ResultKinds)
        BY <1>0 DEF QueuesOK
      <4>2. PICK id \in IdsOf(r) : queue_results' = [queue_results EXCEPT ![id] = <<>>]
        BY <2>6 DEF DropResults
      <4> HIDE DEF ResultKinds
      <4> QED BY <4>1, <4>2
    <3> QED BY <1>0, <2>6, <3>1 DEF DropResults, QueuesOK, queues
  <2>7. CASE PostCancel(r)
    <3>1. PICK id \in to_cancel[r] :
             /\ queue_tasks' = <<Cancel(id)>> \o Cleaned(queue_tasks, id)
             /\ queue_tasks_deferred' = Cleaned(queue_tasks_deferred, id)
      BY <2>7 DEF PostCancel
    <3>2. id \in TaskIds
      BY DEF TypeOK, ReadersOK
    <3>3. Cleaned(queue_tasks, id) \in Seq(Entries) /\ Cleaned(queue_tasks_deferred, id) \in Seq(Entries)
      BY <1>0, CleanedType DEF QueuesOK
    <3>4. <<Cancel(id)>> \o Cleaned(queue_tasks, id) \in Seq(Entries)
      BY <3>2, <3>3, EntriesType, PrependType
    <3>5. UNCHANGED results
      BY <2>7 DEF PostCancel
    <3> QED BY <1>2, <1>4, <3>1, <3>3, <3>4, <3>5 DEF results
  <2> QED BY <1>9, <2>1, <2>2, <2>3, <2>4, <2>5, <2>6, <2>7 DEF ReaderStep
<1>10. CASE PopTask
  <2>1. queue_tasks # <<>> => Tail(queue_tasks) \in Seq(Entries)
    BY <1>0, HeadTailProperties DEF QueuesOK
  <2> QED BY <1>0, <1>10, <2>1 DEF PopTask, QueuesOK, results
<1>11. CASE UpdateSlots
  <2>1. Append(queue_tasks, NextResponse) \in Seq(Entries)
    BY <1>0, EntriesType, AppendProperties DEF QueuesOK
  <2> QED BY <1>0, <1>11, <2>1 DEF UpdateSlots, QueuesOK, results
<1>12. CASE DeferTask
  <2>1. current \in Entries
    BY <1>0, <1>12 DEF DeferTask, Handling, NoEntry
  <2>2. queue_tasks' \in Seq(Entries) /\ queue_tasks_deferred' \in Seq(Entries)
    BY <1>0, <1>12, <2>1, DeferType DEF DeferTask
  <2> QED BY <1>2, <1>4, <1>12, <2>2 DEF DeferTask, results
<1>13. CASE SlotAction
  <2>1. current \in Entries
    BY <1>0, <1>13 DEF SlotAction, Handling, NoEntry
  <2>2. queue_tasks' \in Seq(Entries) /\ queue_tasks_deferred' \in Seq(Entries)
    BY <1>0, <1>3, <1>13, <2>1, DeferType DEF SlotAction
  <2>3. queue_results' \in [TaskIds -> Seq(ResultKinds)]
    BY <1>4, <1>7, <1>13 DEF SlotAction
  <2> QED BY <1>2, <1>13, <2>2, <2>3 DEF SlotAction
<1>14. CASE LaunchTask \/ AnswerTask
  <2>1. queue_results' \in [TaskIds -> Seq(ResultKinds)]
    BY <1>4, <1>7, <1>14 DEF LaunchTask, AnswerTask
  <2> QED BY <1>2, <1>3, <1>14, <2>1 DEF LaunchTask, AnswerTask
<1>15. CASE CancelTask
  <2>1. queue_tasks' \in Seq(Entries) /\ queue_tasks_deferred' \in Seq(Entries)
    BY <1>3, <1>5, <1>15 DEF CancelTask
  <2> QED BY <1>2, <1>4, <1>15, <2>1 DEF CancelTask, results
<1>16. CASE AddSampledToken \/ RejectPrompt \/ AbortSlot
  <2>1. queue_tasks' \in Seq(Entries) /\ queue_tasks_deferred' \in Seq(Entries)
    BY <1>3, <1>5, <1>16 DEF AddSampledToken, RejectPrompt, AbortSlot, FailSlot
  <2>2. queue_results' \in [TaskIds -> Seq(ResultKinds)]
    BY <1>4, <1>7, <1>16 DEF AddSampledToken, RejectPrompt, AbortSlot, FailSlot
  <2> QED BY <1>2, <1>16, <2>1, <2>2 DEF AddSampledToken, RejectPrompt, AbortSlot
<1>17. CASE AddPromptTokens
  <2>1. queue_results' \in [TaskIds -> Seq(ResultKinds)]
    BY <1>4, <1>7, <1>17 DEF AddPromptTokens
  <2> QED BY <1>2, <1>3, <1>17, <2>1 DEF AddPromptTokens
<1>18. CASE PostDecodeSlot
  <2>1. queue_tasks' \in Seq(Entries) /\ queue_tasks_deferred' \in Seq(Entries)
    BY <1>3, <1>5, <1>18 DEF PostDecodeSlot, FailSlot
  <2>2. \A streamed \in {<<"partial">>, <<>>} :
           streamed \in Seq(ResultKinds) /\ streamed \o <<"final">> \in Seq(ResultKinds)
    <3>1. <<"partial">> \in Seq(ResultKinds) /\ <<>> \in Seq(ResultKinds) /\ <<"final">> \in Seq(ResultKinds)
      OBVIOUS
    <3> HIDE DEF ResultKinds
    <3> QED BY <3>1, ConcatProperties
  <2>3. queue_results' \in [TaskIds -> Seq(ResultKinds)]
    <3>1. PICK streamed \in {<<"partial">>, <<>>} :
             \/ UNCHANGED queue_results
             \/ Send(slot[cursor].task, streamed \o <<"final">>)
             \/ Send(slot[cursor].task, streamed)
             \/ Send(slot[cursor].task, <<"error">>)
      BY <1>18 DEF PostDecodeSlot, FailSlot
    <3> QED BY <1>0, <1>4, <1>7, <2>2, <3>1, SendType
  <2> QED BY <1>2, <1>18, <2>1, <2>3 DEF PostDecodeSlot
<1> QED BY <1>8, <1>9, <1>10, <1>11, <1>12, <1>13, <1>14, <1>15, <1>16, <1>17, <1>18 DEF Next, MainStep

\* Every reachable state is well typed, and a slot has a task exactly when it is
\* not idle, whatever the load (server_queue, server_response, server_slot).
THEOREM TypeCorrect == Spec => []TypeOK
<1>1. Init => TypeOK
    BY InitType
<1>2. TypeOK /\ [Next]_vars => TypeOK'
  <2> SUFFICES ASSUME TypeOK, [Next]_vars PROVE TypeOK'
      OBVIOUS
  <2>1. CASE Next
      BY <2>1, QueuesType, MainType, SlotsType, ReadersType DEF TypeOK
  <2>2. CASE UNCHANGED vars
      BY <2>2 DEF vars, queues, results, batch, readers, TypeOK, QueuesOK, MainOK, SlotsOK,
                  ReadersOK, Idle
  <2> QED BY <2>1, <2>2
<1> QED BY <1>1, <1>2, PTL DEF Spec

-----------------------------------------------------------------------------
(* The main thread never waits while a slot has work to do.                *)

\* From the moment update_slots() finds a busy slot until the loop pops again,
\* NEXT_RESPONSE stays queued: readers remove only tasks, and only the slots of
\* the pass itself become idle.
NextResponseQueued ==
    pc \in {"generate", "prompt", "decode", "abort", "post", "wait"} =>
        AllIdle \/ HasNextResponse(queue_tasks)

\* A step of a reader leaves NEXT_RESPONSE in the queue.
LEMMA ReaderKeepsNextResponse ==
    ASSUME TypeOK, NEW r \in Readers, ReaderStep(r) \/ HangUp(r), HasNextResponse(queue_tasks)
    PROVE  HasNextResponse(queue_tasks')
<1>0. queue_tasks \in Seq(Entries)
    BY DEF TypeOK, QueuesOK
<1>1. CASE UNCHANGED queue_tasks
    BY <1>1 DEF HasNextResponse
<1>2. CASE PostTasks(r)
  <2> DEFINE b == [i \in DOMAIN TasksOf[r] |-> Work(TasksOf[r][i])]
  <2>1. TasksOf[r] \in Seq(TaskIds)
    BY TasksAssumption
  <2>2. b \in Seq(Entries)
    BY <2>1, EntriesType, LenProperties, ElementOfSeq
  <2>3. queue_tasks' = queue_tasks \o b
    BY <1>2 DEF PostTasks
  <2> HIDE DEF b
  <2> QED BY <1>0, <2>2, <2>3, ConcatKeeps DEF HasNextResponse
<1>3. CASE PostCancel(r)
  <2>1. PICK id \in to_cancel[r] : queue_tasks' = <<Cancel(id)>> \o Cleaned(queue_tasks, id)
    BY <1>3 DEF PostCancel
  <2>2. Cancel(id) \in Entries
    BY EntriesType DEF TypeOK, ReadersOK
  <2>3. Cleaned(queue_tasks, id) \in Seq(Entries) /\ HasNextResponse(Cleaned(queue_tasks, id))
    BY <1>0, CleanedType
  <2> QED BY <2>1, <2>2, <2>3, PrependType DEF HasNextResponse
<1> QED
  BY <1>1, <1>2, <1>3 DEF ReaderStep, AddWaitingTaskIds, Receive, Finish, HangUp, Stop, DropResults, queues

\* Within a pass, slots that are all idle stay idle and NEXT_RESPONSE is not popped.
LEMMA MainKeepsNextResponse ==
    ASSUME TypeOK, MainStep, pc \notin {"pop", "handle", "update"}
    PROVE  /\ HasNextResponse(queue_tasks) => HasNextResponse(queue_tasks')
           /\ AllIdle => AllIdle'
           /\ pc' # "handle"
<1>0. QueuesOK /\ MainOK /\ SlotsOK
    BY DEF TypeOK
<1>1. ASSUME NEW s, NEW b, Release(s, b)
      PROVE  /\ HasNextResponse(queue_tasks) => HasNextResponse(queue_tasks')
             /\ AllIdle => AllIdle'
  <2>1. AllIdle => AllIdle'
    BY <1>0, <1>1 DEF Release, AllIdle, Idle, Vacated, SlotsOK
  <2> QED BY <1>0, <1>1, <2>1, PopDeferredType DEF Release
<1>2. ASSUME UNCHANGED queue_tasks, ~AllIdle \/ UNCHANGED slot
      PROVE  /\ HasNextResponse(queue_tasks) => HasNextResponse(queue_tasks')
             /\ AllIdle => AllIdle'
    BY <1>2 DEF HasNextResponse, AllIdle, Idle
<1>3. CASE SkipPrompt \/ DecodeNothing \/ DecodeFails \/ WaitForTask
    BY <1>2, <1>3 DEF SkipPrompt, DecodeNothing, DecodeFails, WaitForTask, queues, Advance
<1>4. CASE DecodeOk
  <2>1. AllIdle => UNCHANGED slot
    BY <1>0, <1>4 DEF DecodeOk, AllIdle, Idle, SlotsOK
  <2> QED BY <1>2, <1>4, <2>1 DEF DecodeOk, queues
<1>5. CASE AddSampledToken
  <2>1. \/ UNCHANGED queues /\ (~AllIdle \/ UNCHANGED slot)
        \/ Release(cursor, slot[cursor].i_batch)
    BY <1>0, <1>5 DEF AddSampledToken, FailSlot, AllIdle, Idle, MainOK
  <2>2. pc' # "handle"
    BY <1>5 DEF AddSampledToken, Advance, AfterGenerating
  <2> QED BY <1>1, <1>2, <2>1, <2>2 DEF queues
<1>6. CASE RejectPrompt \/ AbortSlot
  <2>1. \/ UNCHANGED queues /\ UNCHANGED slot
        \/ Release(cursor, slot[cursor].i_batch)
    BY <1>6 DEF RejectPrompt, AbortSlot, FailSlot
  <2>2. pc' # "handle"
    BY <1>6 DEF RejectPrompt, AbortSlot, Advance
  <2> QED BY <1>1, <1>2, <2>1, <2>2 DEF queues
<1>7. CASE AddPromptTokens
  <2>1. UNCHANGED queues /\ ~AllIdle /\ pc' # "handle"
    BY <1>0, <1>7 DEF AddPromptTokens, Fillable, Pending, AllIdle, Idle, MainOK, Advance
  <2> QED BY <1>2, <2>1 DEF queues
<1>8. CASE PostDecodeSlot
  <2>1. \/ UNCHANGED queues /\ (~AllIdle \/ UNCHANGED slot)
        \/ Release(cursor, FALSE) \/ Release(cursor, slot[cursor].i_batch)
    BY <1>0, <1>8 DEF PostDecodeSlot, FailSlot, AllIdle, Idle, MainOK, Sampled
  <2>2. pc' # "handle"
    BY <1>8 DEF PostDecodeSlot, Advance
  <2> QED BY <1>1, <1>2, <2>1, <2>2 DEF queues
<1> QED
  BY <1>3, <1>4, <1>5, <1>6, <1>7, <1>8 DEF MainStep, PopTask, DeferTask, LaunchTask, SlotAction,
     AnswerTask, CancelTask, SkipNextResponse, Handling, UpdateSlots

\* NextResponseQueued is inductive.
LEMMA NextResponseStep ==
    ASSUME TypeOK, NextResponseQueued, Next
    PROVE  NextResponseQueued'
<1>1. CASE Quiet
    BY <1>1 DEF Quiet, vars, queues, NextResponseQueued, AllIdle, Idle, HasNextResponse
<1>2. ASSUME NEW r \in Readers, ReaderStep(r) \/ HangUp(r)
      PROVE  NextResponseQueued'
  <2>1. UNCHANGED <<pc, slot>>
    BY <1>2, ReaderFrame
  <2>2. HasNextResponse(queue_tasks) => HasNextResponse(queue_tasks')
    BY <1>2, ReaderKeepsNextResponse
  <2> QED BY <2>1, <2>2 DEF NextResponseQueued, AllIdle, Idle, HasNextResponse
<1>3. CASE PopTask
    BY <1>3 DEF PopTask, NextResponseQueued
<1>4. CASE DeferTask \/ LaunchTask \/ SlotAction \/ AnswerTask \/ CancelTask \/ SkipNextResponse
    BY <1>4 DEF DeferTask, LaunchTask, SlotAction, AnswerTask, CancelTask, SkipNextResponse,
                Handled, NextResponseQueued
<1>5. CASE UpdateSlots
  <2>1. CASE AllIdle
    BY <1>5, <2>1 DEF UpdateSlots, NextResponseQueued, AllIdle, Idle
  <2>2. CASE ~AllIdle
    <3>1. queue_tasks' = Append(queue_tasks, NextResponse)
      BY <1>5, <2>2 DEF UpdateSlots
    <3>2. queue_tasks \in Seq(Entries) /\ NextResponse \in Entries
      BY EntriesType DEF TypeOK, QueuesOK
    <3>3. /\ queue_tasks' \in Seq(Entries)
          /\ Len(queue_tasks') = Len(queue_tasks) + 1
          /\ queue_tasks'[Len(queue_tasks) + 1] = NextResponse
      BY <3>1, <3>2, AppendProperties
    <3>4. Len(queue_tasks) + 1 \in DOMAIN queue_tasks'
      BY <3>2, <3>3, LenProperties
    <3> QED BY <3>3, <3>4 DEF NextResponseQueued, HasNextResponse
  <2> QED BY <2>1, <2>2
<1>6. CASE MainStep /\ pc \notin {"pop", "handle", "update"}
  <2>1. pc \in {"generate", "prompt", "decode", "abort", "post", "wait"}
    BY <1>6 DEF TypeOK, MainOK, Phases
  <2> QED BY <1>6, <2>1, MainKeepsNextResponse DEF NextResponseQueued, HasNextResponse
<1> QED
  BY <1>1, <1>2, <1>3, <1>4, <1>5, <1>6 DEF Next, MainStep, AddSampledToken, SkipPrompt,
     RejectPrompt, AddPromptTokens, DecodeOk, DecodeNothing, DecodeFails, AbortSlot,
     PostDecodeSlot, WaitForTask

\* start_loop() never blocks on its condition variable while a slot is busy
\* (the NEXT_RESPONSE that update_slots() posts to itself).
THEOREM MainThreadNeverWaitsOnWork == Spec => []NeverWaitsOnWork
<1>1. Init => NextResponseQueued
    BY DEF Init, NextResponseQueued
<1>2. TypeOK /\ NextResponseQueued /\ [Next]_vars => NextResponseQueued'
  <2>1. ASSUME NextResponseQueued, UNCHANGED vars PROVE NextResponseQueued'
    BY <2>1 DEF vars, queues, NextResponseQueued, AllIdle, Idle, HasNextResponse
  <2> QED BY <2>1, NextResponseStep
<1>3. TypeOK /\ NextResponseQueued => NeverWaitsOnWork
    BY DEF NextResponseQueued, NeverWaitsOnWork, HasNextResponse
<1> QED BY <1>1, <1>2, <1>3, TypeCorrect, PTL DEF Spec

-----------------------------------------------------------------------------
(* Deques that hold a task once.                                           *)

\* The entry is in the deque.
In(q, e) == \E i \in DOMAIN q : q[i] = e

\* No task is in the deque at two positions.
Once(q) == \A i, j \in DOMAIN q : q[i].type = "work" /\ q[i] = q[j] => i = j

\* Popping the front leaves the rest of the deque, without the task in front.
LEMMA OnceTail ==
    ASSUME NEW q \in Seq(Entries), q # <<>>, Once(q)
    PROVE  /\ Tail(q) \in Seq(Entries) /\ Once(Tail(q)) /\ In(q, Head(q))
           /\ \A e : In(Tail(q), e) => In(q, e)
           /\ Head(q).type = "work" => ~In(Tail(q), Head(q))
<1> DEFINE t == Tail(q)
<1>1. /\ t \in Seq(Entries) /\ Len(t) = Len(q) - 1
      /\ \A i \in 1 .. Len(t) : t[i] = q[i + 1]
    BY HeadTailProperties
<1>2. Head(q) = q[1]
    OBVIOUS
<1> HIDE DEF t
<1>3. Len(q) \in Nat /\ DOMAIN q = 1 .. Len(q) /\ DOMAIN t = 1 .. Len(q) - 1
    BY <1>1, LenProperties
<1>4. Len(q) # 0
    BY EmptySeq
<1>5. 1 \in DOMAIN q
    BY <1>3, <1>4
<1>6. \A i \in DOMAIN t : i + 1 \in DOMAIN q /\ t[i] = q[i + 1] /\ i \in Int
    BY <1>1, <1>3
<1>7. Once(t)
    BY <1>6 DEF Once
<1>8. \A e : In(t, e) => In(q, e)
    BY <1>6 DEF In
<1>9. ASSUME q[1].type = "work", NEW i \in DOMAIN t, t[i] = q[1] PROVE FALSE
  <2>1. i + 1 = 1
    BY <1>5, <1>6, <1>9 DEF Once
  <2> QED BY <2>1, <1>3, <1>9
<1> QED BY <1>1, <1>2, <1>5, <1>7, <1>8, <1>9 DEF t, In

\* A task that is not in a deque is in it once when the deque has been joined to it.
LEMMA OnceConcat ==
    ASSUME NEW q \in Seq(Entries), NEW b \in Seq(Entries), Once(q), Once(b),
           \A e : e.type = "work" => ~(In(q, e) /\ In(b, e))
    PROVE  q \o b \in Seq(Entries) /\ Once(q \o b) /\ \A e : In(q \o b, e) <=> In(q, e) \/ In(b, e)
<1> DEFINE c == q \o b
<1>1. /\ c \in Seq(Entries) /\ Len(c) = Len(q) + Len(b)
      /\ \A k \in 1 .. Len(q) + Len(b) : c[k] = IF k <= Len(q) THEN q[k] ELSE b[k - Len(q)]
    BY ConcatProperties
<1> HIDE DEF c
<1>2. /\ DOMAIN c = 1 .. Len(q) + Len(b) /\ DOMAIN q = 1 .. Len(q) /\ DOMAIN b = 1 .. Len(b)
      /\ Len(q) \in Nat /\ Len(b) \in Nat
    BY <1>1, LenProperties
<1>3. \A k \in DOMAIN q : k \in DOMAIN c /\ c[k] = q[k]
    BY <1>1, <1>2
<1>4. \A k \in DOMAIN b : Len(q) + k \in DOMAIN c /\ c[Len(q) + k] = b[k]
  <2>1. ASSUME NEW k \in DOMAIN b PROVE Len(q) + k \in DOMAIN c /\ c[Len(q) + k] = b[k]
    <3>1. Len(q) + k \in 1 .. Len(q) + Len(b) /\ ~(Len(q) + k <= Len(q)) /\ (Len(q) + k) - Len(q) = k
      BY <1>2
    <3> QED BY <3>1, <1>1, <1>2
  <2> QED BY <2>1
<1>5. \A k \in DOMAIN c : \/ k \in DOMAIN q /\ c[k] = q[k]
                          \/ k - Len(q) \in DOMAIN b /\ c[k] = b[k - Len(q)] /\ k \in Int
    BY <1>1, <1>2
<1>6. \A e : In(c, e) <=> In(q, e) \/ In(b, e)
    BY <1>3, <1>4, <1>5 DEF In
<1>7. Once(c)
  <2> SUFFICES ASSUME NEW i \in DOMAIN c, NEW j \in DOMAIN c, c[i].type = "work", c[i] = c[j]
               PROVE  i = j
    BY DEF Once
  <2>1. CASE i \in DOMAIN q /\ c[i] = q[i] /\ j \in DOMAIN q /\ c[j] = q[j]
    BY <2>1 DEF Once
  <2>2. CASE /\ i - Len(q) \in DOMAIN b /\ c[i] = b[i - Len(q)] /\ i \in Int
             /\ j - Len(q) \in DOMAIN b /\ c[j] = b[j - Len(q)] /\ j \in Int
    <3>1. i - Len(q) = j - Len(q)
      BY <2>2 DEF Once
    <3> QED BY <2>2, <3>1, <1>2
  <2>3. CASE i \in DOMAIN q /\ c[i] = q[i] /\ j - Len(q) \in DOMAIN b /\ c[j] = b[j - Len(q)]
    BY <2>3 DEF In
  <2>4. CASE j \in DOMAIN q /\ c[j] = q[j] /\ i - Len(q) \in DOMAIN b /\ c[i] = b[i - Len(q)]
    BY <2>4 DEF In
  <2> QED BY <1>5, <2>1, <2>2, <2>3, <2>4
<1> QED BY <1>1, <1>6, <1>7, Zenon DEF c

\* A single entry is a deque of its own.
LEMMA OnceSingle ==
    ASSUME NEW e \in Entries
    PROVE  <<e>> \in Seq(Entries) /\ Once(<<e>>) /\ \A x : In(<<e>>, x) <=> x = e
BY DEF Once, In

\* Prepending adds the entry, once if it was not there.
LEMMA OncePrepend ==
    ASSUME NEW q \in Seq(Entries), NEW e \in Entries, Once(q), e.type = "work" => ~In(q, e)
    PROVE  Once(<<e>> \o q) /\ \A x : In(<<e>> \o q, x) <=> x = e \/ In(q, x)
<1>1. <<e>> \in Seq(Entries) /\ Once(<<e>>) /\ \A x : In(<<e>>, x) <=> x = e
    BY OnceSingle
<1> DEFINE a == <<e>>
<1> HIDE DEF a
<1>2. a \in Seq(Entries) /\ Once(a) /\ \A x : In(a, x) <=> x = e
    BY <1>1 DEF a
<1>3. Once(a \o q) /\ \A x : In(a \o q, x) <=> In(a, x) \/ In(q, x)
    BY <1>2, OnceConcat
<1> QED BY <1>2, <1>3, Zenon DEF a

\* Appending adds the entry, once if it was not there.
LEMMA OnceAppend ==
    ASSUME NEW q \in Seq(Entries), NEW e \in Entries, Once(q), e.type = "work" => ~In(q, e)
    PROVE  Once(Append(q, e)) /\ \A x : In(Append(q, e), x) <=> x = e \/ In(q, x)
<1> DEFINE c == Append(q, e)
<1>1. /\ Len(c) = Len(q) + 1 /\ c \in Seq(Entries)
      /\ \A i \in 1 .. Len(q) : c[i] = q[i]
      /\ c[Len(q) + 1] = e
    BY AppendProperties
<1> HIDE DEF c
<1>2. Len(q) \in Nat /\ DOMAIN q = 1 .. Len(q) /\ DOMAIN c = 1 .. Len(q) + 1
    BY <1>1, LenProperties
<1>3. \A i \in DOMAIN c : (i \in DOMAIN q /\ c[i] = q[i]) \/ (i = Len(q) + 1 /\ c[i] = e)
    BY <1>1, <1>2
<1>4. Len(q) + 1 \in DOMAIN c /\ DOMAIN q \subseteq DOMAIN c /\ \A i \in DOMAIN q : c[i] = q[i]
    BY <1>1, <1>2
<1>5. Once(c) /\ \A x : In(c, x) <=> x = e \/ In(q, x)
    BY <1>1, <1>3, <1>4 DEF Once, In
<1> QED BY <1>5 DEF c

\* What RemoveAt() leaves: the elements before and after the one removed.
LEMMA RemovedElements ==
    ASSUME NEW S, NEW q \in Seq(S), NEW i \in DOMAIN q
    PROVE  /\ RemoveAt(q, i) \in Seq(S)
           /\ \A k \in DOMAIN RemoveAt(q, i) :
                 LET j == IF k < i THEN k ELSE k + 1
                 IN  k \in Int /\ j \in DOMAIN q /\ RemoveAt(q, i)[k] = q[j] /\ j # i
<1> DEFINE a == SubSeq(q, 1, i - 1)
           b == SubSeq(q, i + 1, Len(q))
           c == a \o b
<1>1. i \in 1 .. Len(q) /\ Len(q) \in Nat /\ DOMAIN q = 1 .. Len(q) /\ \A j \in 1 .. Len(q) : q[j] \in S
    BY LenProperties, ElementOfSeq
<1>2. a \in Seq(S) /\ Len(a) = i - 1 /\ \A j \in 1 .. i - 1 : a[j] = q[j]
  <2>1. \A j \in 1 .. i - 1 : q[j] \in S
    BY <1>1
  <2>2. 1 \in Int /\ i - 1 \in Int
    BY <1>1
  <2>3. /\ a \in Seq(S)
        /\ Len(a) = IF 1 <= i - 1 THEN (i - 1) - 1 + 1 ELSE 0
        /\ \A j \in 1 .. (i - 1) - 1 + 1 : a[j] = q[1 + j - 1]
    BY <2>1, <2>2, SubSeqProperties
  <2> QED BY <2>3, <1>1
<1>3. b \in Seq(S) /\ Len(b) = Len(q) - i /\ \A j \in 1 .. Len(q) - i : b[j] = q[i + j]
  <2>1. \A j \in i + 1 .. Len(q) : q[j] \in S
    BY <1>1
  <2>2. i + 1 \in Int /\ Len(q) \in Int
    BY <1>1
  <2>3. /\ b \in Seq(S)
        /\ Len(b) = IF i + 1 <= Len(q) THEN Len(q) - (i + 1) + 1 ELSE 0
        /\ \A j \in 1 .. Len(q) - (i + 1) + 1 : b[j] = q[(i + 1) + j - 1]
    BY <2>1, <2>2, SubSeqProperties
  <2> QED BY <2>3, <1>1
<1> HIDE DEF a, b
<1>4. /\ c \in Seq(S) /\ Len(c) = Len(a) + Len(b)
      /\ \A k \in 1 .. Len(a) + Len(b) : c[k] = IF k <= Len(a) THEN a[k] ELSE b[k - Len(a)]
    BY <1>2, <1>3, ConcatProperties
<1>5. RemoveAt(q, i) = c
    BY DEF RemoveAt, a, b
<1> HIDE DEF c
<1>6. DOMAIN c = 1 .. Len(q) - 1
    BY <1>1, <1>2, <1>3, <1>4, LenProperties
<1>7. ASSUME NEW k \in DOMAIN c, k < i
      PROVE  k \in Int /\ k \in DOMAIN q /\ c[k] = q[k] /\ k # i
    BY <1>1, <1>2, <1>3, <1>4, <1>6, <1>7
<1>8. ASSUME NEW k \in DOMAIN c, ~(k < i)
      PROVE  k \in Int /\ k + 1 \in DOMAIN q /\ c[k] = q[k + 1] /\ k + 1 # i
  <2>1. k \in 1 .. Len(q) - 1 /\ i \in 1 .. Len(q) /\ Len(a) = i - 1 /\ Len(b) = Len(q) - i
    BY <1>1, <1>2, <1>3, <1>6
  <2>2. k \in Int /\ k + 1 \in 1 .. Len(q) /\ k + 1 # i /\ ~(k <= Len(a)) /\ k \in 1 .. Len(a) + Len(b)
    BY <2>1, <1>1, <1>8
  <2>3. c[k] = b[k - Len(a)]
    BY <2>2, <1>4
  <2>4. k - Len(a) \in 1 .. Len(q) - i /\ i + (k - Len(a)) = k + 1
    <3> DEFINE m == Len(a)
               n == Len(q)
    <3>1. k \in 1 .. n - 1 /\ i \in 1 .. n /\ m = i - 1 /\ n \in Nat /\ ~(k < i)
      BY <2>1, <1>1, <1>8
    <3> HIDE DEF m, n
    <3>2. k - m \in 1 .. n - i /\ i + (k - m) = k + 1
      BY <3>1
    <3> QED BY <3>2 DEF m, n
  <2> QED BY <2>2, <2>3, <2>4, <1>1, <1>3
<1> QED BY <1>4, <1>5, <1>7, <1>8

\* A removed task is no longer in the deque, and the others are there once.
LEMMA OnceRemoved ==
    ASSUME NEW q \in Seq(Entries), NEW i \in DOMAIN q, Once(q)
    PROVE  /\ RemoveAt(q, i) \in Seq(Entries) /\ Once(RemoveAt(q, i))
           /\ \A e : In(RemoveAt(q, i), e) => In(q, e)
           /\ q[i].type = "work" => ~In(RemoveAt(q, i), q[i])
<1> DEFINE c == RemoveAt(q, i)
<1>1. /\ c \in Seq(Entries)
      /\ \A k \in DOMAIN c : LET j == IF k < i THEN k ELSE k + 1
                             IN  k \in Int /\ j \in DOMAIN q /\ c[k] = q[j] /\ j # i
    BY RemovedElements
<1> HIDE DEF c
<1>2. \A k \in DOMAIN c : k \in Int /\ \E j \in DOMAIN q : /\ j = (IF k < i THEN k ELSE k + 1)
                                              /\ c[k] = q[j] /\ j # i
    BY <1>1
<1>3. i \in Int
    BY LenProperties
<1>4. Once(c)
  <2> SUFFICES ASSUME NEW k \in DOMAIN c, NEW l \in DOMAIN c, c[k].type = "work", c[k] = c[l]
               PROVE  k = l
    BY DEF Once
  <2>1. PICK j \in DOMAIN q : j = (IF k < i THEN k ELSE k + 1) /\ c[k] = q[j]
    BY <1>2
  <2>2. PICK m \in DOMAIN q : m = (IF l < i THEN l ELSE l + 1) /\ c[l] = q[m]
    BY <1>2
  <2>3. j = m
    BY <2>1, <2>2 DEF Once
  <2>4. j # i /\ m # i
    BY <1>1, <2>1, <2>2
  <2> QED BY <1>2, <1>3, <2>1, <2>2, <2>3, <2>4
<1>5. \A e : In(c, e) => In(q, e)
    BY <1>2 DEF In
<1>6. ASSUME q[i].type = "work", NEW k \in DOMAIN c, c[k] = q[i] PROVE FALSE
    BY <1>2, <1>6 DEF Once
<1> QED BY <1>1, <1>4, <1>5, <1>6 DEF In, c

\* cleanup_pending_task() adds nothing.
LEMMA OnceCleaned ==
    ASSUME NEW q \in Seq(Entries), NEW id, Once(q)
    PROVE  /\ Cleaned(q, id) \in Seq(Entries) /\ Once(Cleaned(q, id))
           /\ \A e : In(Cleaned(q, id), e) => In(q, e)
<1>1. CASE ~ \E i \in DOMAIN q : q[i] = Work(id)
    BY <1>1 DEF Cleaned
<1>2. CASE \E i \in DOMAIN q : q[i] = Work(id)
  <2> DEFINE i == CHOOSE i \in DOMAIN q : q[i] = Work(id)
  <2>1. i \in DOMAIN q
    BY <1>2
  <2>2. Cleaned(q, id) = RemoveAt(q, i)
    BY <1>2 DEF Cleaned
  <2> HIDE DEF i
  <2> QED BY <2>1, <2>2, OnceRemoved
<1> QED BY <1>1, <1>2

-----------------------------------------------------------------------------
(* Where a task is.                                                        *)

\* The task is posted by its request, and its reader has got beyond post_tasks().
TopLevel(id) == \E r \in Readers : id \in ToIds(TasksOf[r])
Posted(id) == \E r \in Readers : id \in IdsOf(r) /\ rpc[r] \notin {"start", "post"}

\* The task is still to be launched or handled.
Ahead(id) == InQueue(id) \/ InDeferred(id) \/ InHand(id)

\* The task is in one queue, in the main thread's hands, or on a slot.
Single(id) ==
    /\ InQueue(id) => ~InDeferred(id) /\ ~InHand(id) /\ ~InSlot(id)
    /\ InDeferred(id) => ~InHand(id) /\ ~InSlot(id)
    /\ InHand(id) => ~InSlot(id)

QueuesOnce == Once(queue_tasks) /\ Once(queue_tasks_deferred)
SlotsOnce == \A s, u \in Slots : slot[s].task = slot[u].task /\ slot[s].task # NoTask => s = u

\* Tasks that are still to be launched are those that readers have posted; their
\* children, which travel inside them, are nowhere yet.
Lineage(id) ==
    /\ Ahead(id) => TopLevel(id) /\ \A c \in ToIds(Children[id]) : ~InSlot(c)
    /\ Alive(id) => Posted(id)

PlacesInv == QueuesOnce /\ SlotsOnce /\ \A id \in TaskIds : Single(id) /\ Lineage(id)

\* The task may still be answered: it is under way, its parent is still to be
\* launched, or it is still to be posted.
Open(id) ==
    \/ Alive(id)
    \/ ~Posted(id)
    \/ \E p \in TaskIds : Ahead(p) /\ id \in ToIds(Children[p])

\* A task that may still be answered has none but partial results, a final result
\* or an error is the last in the queue, and nothing follows once it is received.
AnswersInv ==
    \A id \in TaskIds :
       /\ \A i \in DOMAIN queue_results[id] :
             queue_results[id][i] # "partial" => i = Len(queue_results[id]) /\ ~Open(id)
       /\ \A r \in Readers : id \in received[r] =>
             id \in IdsOf(r) /\ queue_results[id] = <<>> /\ ~Open(id)

TasksInv == PlacesInv /\ AnswersInv

\* An id belongs to one reader, and to one parent or to none.
LEMMA IdsProperties ==
    /\ \A p \in TaskIds : \A c \in ToIds(Children[p]) :
          c \in TaskIds /\ ~TopLevel(c) /\ \A q \in TaskIds : c \in ToIds(Children[q]) => q = p
    /\ \A r, q \in Readers : \A id : id \in IdsOf(r) /\ id \in IdsOf(q) => r = q
    /\ \A r \in Readers : \A p \in ToIds(TasksOf[r]) :
          p \in TaskIds /\ p \in IdsOf(r) /\ ToIds(Children[p]) \subseteq IdsOf(r)
<1>1. \A q \in Seq(TaskIds) : ToIds(q) \subseteq TaskIds
    BY LenProperties, ElementOfSeq DEF ToIds
<1>2. \A p \in TaskIds : ToIds(Children[p]) \subseteq TaskIds
    BY <1>1, TasksAssumption
<1>3. \A r \in Readers : ToIds(TasksOf[r]) \subseteq TaskIds
    BY <1>1, TasksAssumption
<1>4. \A p \in TaskIds : \A c \in ToIds(Children[p]) : ~TopLevel(c)
    BY IdsAssumption DEF TopLevel
<1>5. \A p, q \in TaskIds : \A c : c \in ToIds(Children[p]) /\ c \in ToIds(Children[q]) => q = p
    BY IdsAssumption
<1>6. \A r, q \in Readers : \A id : id \in IdsOf(r) /\ id \in IdsOf(q) => r = q
    BY IdsAssumption
<1>7. \A r \in Readers : \A p \in ToIds(TasksOf[r]) : p \in IdsOf(r) /\ ToIds(Children[p]) \subseteq IdsOf(r)
    BY DEF IdsOf
<1> QED BY <1>2, <1>3, <1>4, <1>5, <1>6, <1>7

\* A reader never goes back before post_tasks().
LEMMA PostedGrows ==
    ASSUME TypeOK, Next, NEW id
    PROVE  Posted(id) => Posted(id)'
<1>0. rpc \in [Readers -> {"start", "post", "recv", "stop", "drop", "cancel", "done"}]
    BY DEF TypeOK, ReadersOK
<1>1. CASE MainStep \/ Quiet
    BY <1>1, MainFrame DEF readers, Quiet, vars, Posted
<1>2. ASSUME NEW r \in Readers, ReaderStep(r) \/ HangUp(r)
      PROVE  \A q \in Readers : rpc[q] \notin {"start", "post"} => rpc'[q] \notin {"start", "post"}
    BY <1>0, <1>2 DEF ReaderStep, AddWaitingTaskIds, PostTasks, Receive, Finish, HangUp, Stop, DropResults, PostCancel
<1> QED BY <1>1, <1>2 DEF Next, Posted

\* Every task but x is where it was, or is gone.
Shrinks(x) ==
    \A id \in TaskIds \ {x} :
       /\ InQueue(id)' => InQueue(id)
       /\ InDeferred(id)' => InDeferred(id)
       /\ InHand(id)' => InHand(id)
       /\ InSlot(id)' => InSlot(id)

\* At most x moves, and not to where it would have to be launched again.
Moves(x) ==
    /\ x \in TaskIds => Single(x)' /\ (Ahead(x)' => Ahead(x)) /\ (Alive(x)' => Alive(x))
    /\ Shrinks(x)

\* When a task moves, the places stay consistent and no closed task opens again.
LEMMA MoveKeepsPlaces ==
    ASSUME TypeOK, Next, PlacesInv, NEW x, Moves(x), QueuesOnce', SlotsOnce'
    PROVE  PlacesInv' /\ \A id \in TaskIds : Open(id)' => Open(id)
<1>1. \A id \in TaskIds : Single(id)'
    BY DEF Moves, Shrinks, Single, PlacesInv
<1>2. \A id \in TaskIds : (Ahead(id)' => Ahead(id)) /\ (Alive(id)' => Alive(id))
    BY DEF Moves, Shrinks, Ahead, Alive
<1>3. \A id \in TaskIds : Posted(id) => Posted(id)'
    BY PostedGrows
<1>4. \A id \in TaskIds : Alive(id)' => Posted(id)'
    BY <1>2, <1>3 DEF PlacesInv, Lineage
<1>5. ASSUME NEW id \in TaskIds, Ahead(id)'
      PROVE  TopLevel(id) /\ \A c \in ToIds(Children[id]) : ~InSlot(c)'
  <2>1. TopLevel(id) /\ \A c \in ToIds(Children[id]) : ~InSlot(c)
    BY <1>2, <1>5 DEF PlacesInv, Lineage
  <2>2. ASSUME NEW c \in ToIds(Children[id]), InSlot(c)' PROVE FALSE
    <3>1. c \in TaskIds /\ ~TopLevel(c)
      BY IdsProperties
    <3>2. Alive(c)
      BY <1>2, <2>2, <3>1 DEF Alive
    <3>3. Ahead(c)
      BY <2>1, <3>2 DEF Alive, Ahead
    <3> QED BY <3>1, <3>3 DEF PlacesInv, Lineage
  <2> QED BY <2>1, <2>2
<1>6. \A id \in TaskIds : Lineage(id)'
    BY <1>4, <1>5 DEF Lineage, TopLevel
<1>7. PlacesInv'
    BY <1>1, <1>6 DEF PlacesInv
<1>8. \A id \in TaskIds : Open(id)' => Open(id)
    BY <1>2, <1>3 DEF Open
<1> QED BY <1>7, <1>8

\* A task that is taken off a slot or out of the main thread's hands is over.
LEMMA GoneIsClosed ==
    ASSUME TypeOK, Next, PlacesInv, NEW id \in TaskIds, Alive(id), ~Alive(id)',
           \A p \in TaskIds : Ahead(p)' => Ahead(p)
    PROVE  ~Open(id)'
<1>1. Posted(id)'
    BY PostedGrows DEF PlacesInv, Lineage
<1>2. ASSUME NEW p \in TaskIds, Ahead(p)', id \in ToIds(Children[p]) PROVE FALSE
  <2>1. Ahead(p) /\ ~TopLevel(id)
    BY <1>2, IdsProperties
  <2>2. ~InSlot(id)
    BY <1>2, <2>1 DEF PlacesInv, Lineage
  <2>3. Ahead(id)
    BY <2>2 DEF Alive, Ahead
  <2> QED BY <2>1, <2>3 DEF PlacesInv, Lineage
<1> QED BY <1>1, <1>2 DEF Open

\* Without a new result or a new receiver, what holds of the results goes on.
LEMMA AnswersKept ==
    ASSUME AnswersInv, \A id \in TaskIds : Open(id)' => Open(id), UNCHANGED <<queue_results, received>>
    PROVE  AnswersInv'
BY DEF AnswersInv

Closing == {<<"final">>, <<"error">>, <<"partial", "final">>}

\* send() to a task that may still be answered, which is over with the last result.
LEMMA AnswersSent ==
    ASSUME QueuesOK, AnswersInv, \A x \in TaskIds : Open(x)' => Open(x),
           UNCHANGED received,
           NEW id \in TaskIds, Open(id), NEW kinds, Send(id, kinds),
           kinds \in {<<>>, <<"partial">>} \/ (kinds \in Closing /\ ~Open(id)')
    PROVE  AnswersInv'
<1> DEFINE q == queue_results[id]
           c == q \o kinds
           K == {"partial", "final", "error"}
<1>0. q \in Seq(K) /\ queue_results \in [TaskIds -> Seq(K)]
    BY DEF QueuesOK
<1>1. CASE UNCHANGED queue_results
    BY <1>1, AnswersKept
<1>2. CASE id \in waiting_task_ids /\ queue_results' = [queue_results EXCEPT ![id] = c]
  <2>1. \A i \in DOMAIN q : q[i] = "partial"
    BY DEF AnswersInv
  <2>2. \A r \in Readers : id \notin received[r]
    BY DEF AnswersInv
  <2>3. /\ kinds \in Seq(K) /\ \A i \in DOMAIN kinds : kinds[i] # "partial" => i = Len(kinds)
        /\ kinds \notin Closing => \A i \in DOMAIN kinds : kinds[i] = "partial"
    <3>1. CASE kinds = <<>>
      BY <3>1
    <3>2. ASSUME NEW k \in K, kinds = <<k>>, kinds \notin Closing => k = "partial"
          PROVE  /\ kinds \in Seq(K) /\ \A i \in DOMAIN kinds : kinds[i] # "partial" => i = Len(kinds)
                 /\ kinds \notin Closing => \A i \in DOMAIN kinds : kinds[i] = "partial"
      <4>1. kinds \in Seq(K) /\ Len(kinds) = 1 /\ DOMAIN kinds = {1} /\ kinds[1] = k
        BY <3>2
      <4> QED BY <3>2, <4>1
    <3>3. CASE kinds = <<"partial", "final">>
      <4>1. kinds \in Seq(K) /\ Len(kinds) = 2 /\ DOMAIN kinds = {1, 2} /\ kinds[1] = "partial"
        BY <3>3
      <4> QED BY <3>3, <4>1 DEF Closing
    <3>4. <<"final">> \in Closing /\ <<"error">> \in Closing
      BY DEF Closing
    <3>5. CASE kinds \in {<<"partial">>, <<"final">>, <<"error">>}
      BY <3>2, <3>4, <3>5
    <3> QED BY <3>1, <3>3, <3>5 DEF Closing
  <2> HIDE DEF K, q
  <2>4. c \in Seq(K) /\ Len(c) = Len(q) + Len(kinds)
        /\ \A i \in 1 .. Len(q) + Len(kinds) : c[i] = IF i <= Len(q) THEN q[i] ELSE kinds[i - Len(q)]
    BY <1>0, <2>3, ConcatProperties
  <2> HIDE DEF c
  <2>5. /\ DOMAIN c = 1 .. Len(q) + Len(kinds) /\ DOMAIN q = 1 .. Len(q) /\ DOMAIN kinds = 1 .. Len(kinds)
        /\ Len(q) \in Nat /\ Len(kinds) \in Nat
    BY <1>0, <2>3, <2>4, LenProperties
  <2>6. ASSUME NEW i \in DOMAIN c, c[i] # "partial" PROVE i = Len(c) /\ ~Open(id)'
    <3>1. ~(i <= Len(q)) /\ c[i] = kinds[i - Len(q)] /\ i - Len(q) \in DOMAIN kinds
      BY <2>1, <2>4, <2>5, <2>6
    <3>2. i - Len(q) = Len(kinds) /\ kinds \in Closing
      BY <2>3, <2>6, <3>1
    <3>3. kinds # <<>> /\ kinds # <<"partial">>
      BY <3>2, <2>5, <2>3, <2>6, <3>1
    <3> QED BY <2>4, <2>5, <3>2, <3>3
  <2>7. \A x \in TaskIds : queue_results'[x] = IF x = id THEN c ELSE queue_results[x]
    BY <1>0, <1>2
  <2> QED BY <2>2, <2>6, <2>7 DEF AnswersInv
<1> QED BY <1>1, <1>2 DEF Send

-----------------------------------------------------------------------------
(* How the operations move tasks.                                          *)

\* An entry of type "work" is the task it names.
LEMMA WorkEntries ==
    /\ \A e \in Entries : e.type = "work" => e.id \in TaskIds /\ e = Work(e.id)
    /\ \A id : Work(id).type = "work" /\ Work(id).id = id
    /\ \A id, jd : Work(id) # Cancel(jd) /\ Work(id) # NextResponse /\ Work(id) # NoEntry
BY DEF Entries, Work, Cancel, NextResponse, NoEntry

\* Being queued or deferred is being in the deque.
LEMMA InQueues ==
    ASSUME NEW id
    PROVE  /\ InQueue(id) <=> In(queue_tasks, Work(id))
           /\ InDeferred(id) <=> In(queue_tasks_deferred, Work(id))
           /\ InQueue(id)' <=> In(queue_tasks', Work(id))
           /\ InDeferred(id)' <=> In(queue_tasks_deferred', Work(id))
BY DEF InQueue, InDeferred, In

\* pop_deferred_task() moves one task from the deferred deque to the queue.
LEMMA PopDeferredPlaces ==
    ASSUME QueuesOK, QueuesOnce, \A id \in TaskIds : Single(id), NEW s, PopDeferredTask(s)
    PROVE  /\ QueuesOnce'
           /\ \E x : /\ x \in TaskIds => InDeferred(x) /\ ~InDeferred(x)'
                     /\ \A id \in TaskIds \ {x} : /\ InQueue(id)' => InQueue(id)
                                                  /\ InDeferred(id)' => InDeferred(id)
<1>0. queue_tasks \in Seq(Entries) /\ queue_tasks_deferred \in Seq(Entries)
    BY DEF QueuesOK
<1>1. CASE UNCHANGED queues
  <2>1. queue_tasks' = queue_tasks /\ queue_tasks_deferred' = queue_tasks_deferred
    BY <1>1 DEF queues
  <2>2. NoTask \notin TaskIds
    BY ReadersAssumption
  <2> QED BY <2>1, <2>2, InQueues DEF QueuesOnce
<1>2. ASSUME NEW i \in DOMAIN queue_tasks_deferred,
             queue_tasks' = <<queue_tasks_deferred[i]>> \o queue_tasks,
             queue_tasks_deferred' = RemoveAt(queue_tasks_deferred, i)
      PROVE  /\ QueuesOnce'
             /\ \E x : /\ x \in TaskIds => InDeferred(x) /\ ~InDeferred(x)'
                       /\ \A id \in TaskIds \ {x} : /\ InQueue(id)' => InQueue(id)
                                                    /\ InDeferred(id)' => InDeferred(id)
  <2>0. PICK e : e = queue_tasks_deferred[i]
    OBVIOUS
  <2>1. e \in Entries /\ In(queue_tasks_deferred, e)
    BY <1>0, <2>0, <1>2, LenProperties, ElementOfSeq DEF In
  <2>2. /\ Once(queue_tasks_deferred')
        /\ \A f : In(queue_tasks_deferred', f) => In(queue_tasks_deferred, f)
        /\ e.type = "work" => ~In(queue_tasks_deferred', e)
    BY <1>0, <2>0, <1>2, OnceRemoved DEF QueuesOnce
  <2>3. ASSUME e.type = "work", In(queue_tasks, e) PROVE FALSE
    <3>1. e.id \in TaskIds /\ e = Work(e.id)
      BY <2>1, <2>3, WorkEntries
    <3>2. InQueue(e.id) /\ InDeferred(e.id)
      BY <2>1, <2>3, <3>1, InQueues
    <3> QED BY <3>1, <3>2 DEF Single
  <2>4. queue_tasks' = <<e>> \o queue_tasks
    BY <1>2, <2>0
  <2>5. Once(queue_tasks') /\ \A f : In(queue_tasks', f) <=> f = e \/ In(queue_tasks, f)
    BY <1>0, <2>1, <2>3, <2>4, OncePrepend DEF QueuesOnce
  <2>6. CASE e.type = "work"
    <3>1. e.id \in TaskIds /\ e = Work(e.id)
      BY <2>1, <2>6, WorkEntries
    <3>2. InDeferred(e.id) /\ ~InDeferred(e.id)'
      BY <2>1, <2>2, <2>6, <3>1, InQueues
    <3>3. \A id \in TaskIds \ {e.id} : Work(id) # e
      BY <3>1, WorkEntries
    <3>4. \A id \in TaskIds \ {e.id} : (InQueue(id)' => InQueue(id)) /\ (InDeferred(id)' => InDeferred(id))
      BY <2>2, <2>5, <3>3, InQueues
    <3> QED BY <2>2, <2>5, <3>2, <3>4 DEF QueuesOnce
  <2>7. CASE e.type # "work"
    <3>1. \A id : Work(id) # e
      BY <2>7, WorkEntries
    <3>2. \A id \in TaskIds : (InQueue(id)' => InQueue(id)) /\ (InDeferred(id)' => InDeferred(id))
      BY <2>2, <2>5, <3>1, InQueues
    <3> QED BY <2>2, <2>5, <3>2, ReadersAssumption DEF QueuesOnce
  <2> QED BY <2>6, <2>7
<1> QED BY <1>1, <1>2 DEF PopDeferredTask

\* release() takes the task off the slot, and pop_deferred_task() moves another one.
LEMMA ReleasePlaces ==
    ASSUME TypeOK, Next, PlacesInv, NEW s \in Slots, NEW b, Release(s, b),
           \A id \in TaskIds : InHand(id)' => InHand(id)
    PROVE  /\ PlacesInv'
           /\ \A id \in TaskIds : (Open(id)' => Open(id)) /\ (Ahead(id)' => Ahead(id))
           /\ \A t \in TaskIds : t = slot[s].task => ~Alive(t)'
<1>0. QueuesOK /\ QueuesOnce /\ SlotsOnce /\ \A id \in TaskIds : Single(id)
    BY DEF TypeOK, PlacesInv
<1>1. slot' = [slot EXCEPT ![s] = Vacated(b)] /\ DOMAIN slot = Slots
    BY DEF Release, TypeOK, SlotsOK
<1>2. \A u \in Slots : slot'[u].task = IF u = s THEN NoTask ELSE slot[u].task
    BY <1>1 DEF Vacated
<1>3. SlotsOnce'
    BY <1>0, <1>2 DEF SlotsOnce
<1>4. \A id \in TaskIds : InSlot(id)' => InSlot(id)
    BY <1>2, ReadersAssumption DEF InSlot
<1>5. QueuesOnce'
    BY <1>0, PopDeferredPlaces DEF Release
<1>6. PICK x : /\ x \in TaskIds => InDeferred(x) /\ ~InDeferred(x)'
               /\ \A id \in TaskIds \ {x} : /\ InQueue(id)' => InQueue(id)
                                            /\ InDeferred(id)' => InDeferred(id)
    BY <1>0, PopDeferredPlaces DEF Release
<1>7. Shrinks(x)
    BY <1>4, <1>6 DEF Shrinks
<1>8. x \in TaskIds => ~InSlot(x)' /\ ~InHand(x)' /\ ~InDeferred(x)' /\ Ahead(x)
    BY <1>0, <1>4, <1>6 DEF Single, Ahead
<1>9. Moves(x)
    BY <1>7, <1>8 DEF Moves, Single, Alive, Ahead
<1>10. PlacesInv' /\ \A id \in TaskIds : Open(id)' => Open(id)
    BY <1>3, <1>5, <1>9, MoveKeepsPlaces
<1>11. \A id \in TaskIds : Ahead(id)' => Ahead(id)
    BY <1>7, <1>8 DEF Shrinks, Ahead
<1>12. ASSUME NEW t \in TaskIds, t = slot[s].task PROVE ~Alive(t)'
  <2>1. t \in TaskIds /\ InSlot(t) /\ ~Ahead(t)
    BY <1>0, <1>12 DEF InSlot, Single, Ahead
  <2>2. ~Ahead(t)'
    BY <1>11, <2>1
  <2>3. ASSUME NEW u \in Slots, slot'[u].task = t PROVE FALSE
    BY <1>0, <1>2, <1>12, <2>3, ReadersAssumption DEF SlotsOnce
  <2>4. ~InSlot(t)'
    BY <2>3 DEF InSlot
  <2> QED BY <2>2, <2>4 DEF Alive, Ahead
<1> QED BY <1>10, <1>11, <1>12

\* Nothing moves.
LEMMA QuietPlaces ==
    ASSUME TypeOK, Next, PlacesInv, QueuesOnce',
           \A id \in TaskIds : /\ InQueue(id)' => InQueue(id)
                               /\ InDeferred(id)' => InDeferred(id)
                               /\ InHand(id)' => InHand(id),
           \A u \in Slots : slot'[u].task = slot[u].task
    PROVE  /\ PlacesInv'
           /\ \A id \in TaskIds : (Open(id)' => Open(id)) /\ (Ahead(id)' => Ahead(id))
<1>1. SlotsOnce'
    BY DEF PlacesInv, SlotsOnce
<1>2. \A id \in TaskIds : InSlot(id)' => InSlot(id)
    BY DEF InSlot
<1>3. Moves(NoTask)
    BY <1>2, ReadersAssumption DEF Moves, Shrinks
<1>4. \A id \in TaskIds : Ahead(id)' => Ahead(id)
    BY DEF Ahead
<1> QED BY <1>1, <1>3, <1>4, MoveKeepsPlaces

\* The deques and the main thread's hands are left alone.
LEMMA StillPlaces ==
    ASSUME TypeOK, Next, PlacesInv, UNCHANGED <<queues, current>>,
           \A u \in Slots : slot'[u].task = slot[u].task
    PROVE  /\ PlacesInv'
           /\ \A id \in TaskIds : (Open(id)' => Open(id)) /\ (Ahead(id)' => Ahead(id))
<1>1. queue_tasks' = queue_tasks /\ queue_tasks_deferred' = queue_tasks_deferred /\ current' = current
    BY DEF queues
<1>2. QueuesOnce'
    BY <1>1 DEF PlacesInv, QueuesOnce
<1>3. \A id \in TaskIds : /\ InQueue(id)' => InQueue(id)
                          /\ InDeferred(id)' => InDeferred(id)
                          /\ InHand(id)' => InHand(id)
    BY <1>1 DEF InQueue, InDeferred, InHand
<1> QED BY <1>2, <1>3, QuietPlaces

\* Without a new result, received or queued, the results stay in order.
LEMMA QuietResults ==
    ASSUME AnswersInv, \A id \in TaskIds : Open(id)' => Open(id),
           UNCHANGED <<results, received>>
    PROVE  AnswersInv'
<1>1. UNCHANGED <<queue_results, received>>
    BY DEF results
<1> QED BY <1>1, AnswersKept

-----------------------------------------------------------------------------
(* The main thread's steps.                                                *)

\* A slot's task gets its last result and the slot is released.
LEMMA AnsweredAndReleased ==
    ASSUME TypeOK, Next, TasksInv, NEW s \in Slots, slot[s].task \in TaskIds, NEW b, Release(s, b),
           NEW kinds \in Closing, Send(slot[s].task, kinds),
           UNCHANGED <<current, received>>
    PROVE  TasksInv'
<1> DEFINE t == slot[s].task
<1>0. QueuesOK /\ PlacesInv /\ AnswersInv
    BY DEF TypeOK, TasksInv
<1>1. \A id \in TaskIds : InHand(id)' => InHand(id)
    BY DEF InHand
<1>2. /\ PlacesInv'
      /\ \A id \in TaskIds : (Open(id)' => Open(id)) /\ (Ahead(id)' => Ahead(id))
      /\ \A x \in TaskIds : x = slot[s].task => ~Alive(x)'
    BY <1>0, <1>1, ReleasePlaces
<1>3. PICK x \in TaskIds : x = t
    OBVIOUS
<1>4. Alive(x) /\ ~Alive(x)'
    BY <1>2, <1>3 DEF Alive, InSlot
<1>5. ~Open(x)'
    BY <1>0, <1>2, <1>4, GoneIsClosed
<1>6. Open(x)
    BY <1>4 DEF Open
<1>7. AnswersInv'
    BY <1>0, <1>2, <1>3, <1>5, <1>6, AnswersSent
<1> QED BY <1>2, <1>7 DEF TasksInv

\* A slot's task may get a partial result and keeps the slot.
LEMMA AnsweredInPart ==
    ASSUME TypeOK, Next, TasksInv, NEW s \in Slots, slot[s].task \in TaskIds,
           NEW kinds \in {<<>>, <<"partial">>}, Send(slot[s].task, kinds),
           UNCHANGED <<queues, current>>, UNCHANGED received,
           \A u \in Slots : slot'[u].task = slot[u].task
    PROVE  TasksInv'
<1>0. QueuesOK /\ PlacesInv /\ AnswersInv
    BY DEF TypeOK, TasksInv
<1>1. PlacesInv' /\ \A id \in TaskIds : Open(id)' => Open(id)
    BY <1>0, StillPlaces
<1>2. PICK x \in TaskIds : x = slot[s].task
    OBVIOUS
<1>3. Open(x)
    BY <1>2 DEF Open, Alive, InSlot
<1>4. AnswersInv'
    BY <1>0, <1>1, <1>2, <1>3, AnswersSent
<1> QED BY <1>1, <1>4 DEF TasksInv

\* Nothing moves and nothing is answered.
LEMMA NothingMoves ==
    ASSUME TypeOK, Next, TasksInv, UNCHANGED <<queues, current>>, UNCHANGED <<results, received>>,
           \A u \in Slots : slot'[u].task = slot[u].task
    PROVE  TasksInv'
<1>0. PlacesInv /\ AnswersInv
    BY DEF TasksInv
<1>1. PlacesInv' /\ \A id \in TaskIds : Open(id)' => Open(id)
    BY <1>0, StillPlaces
<1>2. AnswersInv'
    BY <1>0, <1>1, QuietResults
<1> QED BY <1>1, <1>2 DEF TasksInv

\* The task in the main thread's hands gets its last result.
LEMMA AnsweredInHand ==
    ASSUME TypeOK, Next, TasksInv, pc = "handle", current.type = "work",
           NEW k \in {"final", "error"}, Send(current.id, <<k>>), current' = NoEntry,
           UNCHANGED queues, UNCHANGED slot, UNCHANGED received
    PROVE  TasksInv'
<1>0. QueuesOK /\ PlacesInv /\ AnswersInv
    BY DEF TypeOK, TasksInv
<1>1. current \in Entries
    BY DEF TypeOK, MainOK, NoEntry
<1>2. PICK x \in TaskIds : x = current.id /\ current = Work(x)
    BY <1>1, WorkEntries
<1>3. queue_tasks' = queue_tasks /\ queue_tasks_deferred' = queue_tasks_deferred
    BY DEF queues
<1>4. \A id : ~InHand(id)'
    BY WorkEntries DEF InHand
<1>5. QueuesOnce'
    BY <1>0, <1>3 DEF PlacesInv, QueuesOnce
<1>6. \A id : (InQueue(id)' => InQueue(id)) /\ (InDeferred(id)' => InDeferred(id)) /\ (InSlot(id)' => InSlot(id))
    BY <1>3 DEF InQueue, InDeferred, InSlot
<1>7. /\ PlacesInv'
      /\ \A id \in TaskIds : (Open(id)' => Open(id)) /\ (Ahead(id)' => Ahead(id))
    BY <1>0, <1>4, <1>5, <1>6, QuietPlaces
<1>8. InHand(x) /\ ~InQueue(x) /\ ~InDeferred(x) /\ ~InSlot(x)
    BY <1>0, <1>2 DEF InHand, PlacesInv, Single
<1>9. Alive(x) /\ ~Alive(x)' /\ Open(x)
    BY <1>4, <1>6, <1>8 DEF Alive, Open
<1>10. ~Open(x)'
    BY <1>0, <1>7, <1>9, GoneIsClosed
<1>11. <<k>> \in Closing
    BY DEF Closing
<1>12. AnswersInv'
  <2> DEFINE kinds == <<k>>
  <2>1. kinds \in Closing /\ Send(x, kinds)
    BY <1>2, <1>11
  <2> HIDE DEF kinds
  <2> QED BY <1>0, <1>7, <1>9, <1>10, <2>1, AnswersSent
<1> QED BY <1>7, <1>12 DEF TasksInv

\* defer() takes the task out of the main thread's hands into the deferred deque.
LEMMA DeferredFromHand ==
    ASSUME TypeOK, Next, TasksInv, pc = "handle", current.type = "work", Defer(current),
           current' = NoEntry, UNCHANGED slot, UNCHANGED <<results, received>>
    PROVE  TasksInv'
<1>0. QueuesOK /\ PlacesInv /\ AnswersInv
    BY DEF TypeOK, TasksInv
<1>1. current \in Entries
    BY DEF TypeOK, MainOK, NoEntry
<1>2. PICK x \in TaskIds : x = current.id /\ current = Work(x)
    BY <1>1, WorkEntries
<1>3. queue_tasks' = queue_tasks /\ queue_tasks_deferred' = Append(queue_tasks_deferred, Work(x))
    BY <1>2 DEF Defer
<1>4. \A id : ~InHand(id)'
    BY WorkEntries DEF InHand
<1>5. InHand(x) /\ ~InQueue(x) /\ ~InDeferred(x) /\ ~InSlot(x)
    BY <1>0, <1>2 DEF InHand, PlacesInv, Single
<1>6. ~In(queue_tasks_deferred, Work(x))
    BY <1>5, InQueues
<1>7. /\ Once(queue_tasks_deferred')
      /\ \A f : In(queue_tasks_deferred', f) <=> f = Work(x) \/ In(queue_tasks_deferred, f)
    BY <1>0, <1>1, <1>2, <1>3, <1>6, OnceAppend DEF QueuesOK, PlacesInv, QueuesOnce
<1>8. QueuesOnce'
    BY <1>0, <1>3, <1>7 DEF PlacesInv, QueuesOnce
<1>9. SlotsOnce'
    BY <1>0 DEF PlacesInv, SlotsOnce
<1>10. \A id : (InQueue(id)' => InQueue(id)) /\ (InSlot(id)' => InSlot(id))
    BY <1>3 DEF InQueue, InSlot
<1>11. \A id : Work(id) = Work(x) => id = x
    BY WorkEntries
<1>12. \A id \in TaskIds \ {x} : InDeferred(id)' => InDeferred(id)
    BY <1>7, <1>11, InQueues
<1>13. Moves(x)
    BY <1>4, <1>5, <1>10, <1>12 DEF Moves, Shrinks, Single, Ahead, Alive
<1>14. PlacesInv' /\ \A id \in TaskIds : Open(id)' => Open(id)
    BY <1>0, <1>8, <1>9, <1>13, MoveKeepsPlaces
<1>15. AnswersInv'
    BY <1>0, <1>14, QuietResults
<1> QED BY <1>14, <1>15 DEF TasksInv

\* start_loop() pops the front of the queue.
LEMMA PoppedToHand ==
    ASSUME TypeOK, Next, TasksInv, PopTask
    PROVE  TasksInv'
<1>0. QueuesOK /\ PlacesInv /\ AnswersInv
    BY DEF TypeOK, TasksInv
<1>1. UNCHANGED <<results, received>> /\ slot' = slot /\ queue_tasks_deferred' = queue_tasks_deferred
    BY DEF PopTask, readers
<1>2. CASE queue_tasks = <<>>
    BY <1>1, <1>2, NothingMoves DEF PopTask, queues
<1>3. CASE queue_tasks # <<>>
  <2>1. queue_tasks' = Tail(queue_tasks) /\ current' = Head(queue_tasks)
    BY <1>3 DEF PopTask
  <2>2. /\ Once(queue_tasks') /\ In(queue_tasks, current')
        /\ \A e : In(queue_tasks', e) => In(queue_tasks, e)
        /\ current'.type = "work" => ~In(queue_tasks', current')
    BY <1>0, <1>3, <2>1, OnceTail DEF QueuesOK, PlacesInv, QueuesOnce
  <2>3. QueuesOnce' /\ SlotsOnce'
    BY <1>0, <1>1, <2>2 DEF PlacesInv, QueuesOnce, SlotsOnce
  <2>4. pc = "pop" /\ current = NoEntry
    BY DEF TypeOK, MainOK, PopTask
  <2>5. \A id : ~InHand(id)
    BY <2>4, WorkEntries DEF InHand
  <2>6. \A id : /\ InQueue(id)' => InQueue(id)
                /\ InDeferred(id)' => InDeferred(id)
                /\ InSlot(id)' => InSlot(id)
    BY <1>1, <2>2, InQueues DEF InSlot, InDeferred
  <2>7. PICK e \in Entries : e = current'
    BY <1>0, <1>3, <2>1, HeadTailProperties DEF QueuesOK
  <2>8. \E x : Moves(x)
    <3>1. CASE e.type = "work"
      <4>1. e.id \in TaskIds /\ e = Work(e.id)
        BY <3>1, WorkEntries
      <4>2. InQueue(e.id) /\ ~InQueue(e.id)'
        BY <2>2, <2>7, <3>1, <4>1, InQueues
      <4>3. ~InDeferred(e.id) /\ ~InSlot(e.id)
        BY <1>0, <4>1, <4>2 DEF PlacesInv, Single
      <4>4. \A id \in TaskIds \ {e.id} : ~InHand(id)'
        BY <2>7, <4>1, WorkEntries DEF InHand
      <4>5. Moves(e.id)
        BY <2>6, <4>1, <4>2, <4>3, <4>4 DEF Moves, Shrinks, Single, Ahead, Alive
      <4> QED BY <4>5
    <3>2. CASE e.type # "work"
      <4>1. \A id : ~InHand(id)'
        BY <2>7, <3>2, WorkEntries DEF InHand
      <4>2. Moves(NoTask)
        BY <2>6, <4>1, ReadersAssumption DEF Moves, Shrinks
      <4> QED BY <4>2
    <3> QED BY <3>1, <3>2
  <2>9. PlacesInv' /\ \A id \in TaskIds : Open(id)' => Open(id)
    BY <1>0, <2>3, <2>8, MoveKeepsPlaces
  <2>10. AnswersInv'
    BY <1>0, <1>1, <2>9, QuietResults
  <2> QED BY <2>9, <2>10 DEF TasksInv
<1> QED BY <1>2, <1>3

\* Two free slots have different ranks: each child goes to a slot of its own.
LEMMA RanksDiffer ==
    ASSUME NEW s, NEW u \in FreeSlots(s), NEW v \in FreeSlots(s), Rank(u, s) = Rank(v, s)
    PROVE  u = v
<1> DEFINE R(w) == {x \in FreeSlots(s) : x <= w}
<1>0. u \in Int /\ v \in Int /\ \A x \in FreeSlots(s) : x \in Int
    BY SlotsAssumption DEF FreeSlots, Slots
<1>1. IsFiniteSet(Slots)
    BY SlotsAssumption, FS_Interval DEF Slots
<1>2. IsFiniteSet(FreeSlots(s))
    BY <1>1, FS_Subset DEF FreeSlots
<1>3. IsFiniteSet(R(u)) /\ IsFiniteSet(R(v))
    BY <1>2, FS_Subset
<1>4. u \in R(u) /\ v \in R(v)
    BY <1>0
<1>5. Cardinality(R(u)) = Cardinality(R(v))
    BY DEF Rank
<1>6. CASE u < v
  <2>1. R(u) \subseteq R(v) /\ v \notin R(u)
    <3>1. \A x \in FreeSlots(s) : x <= u => x <= v
      BY <1>0, <1>6
    <3>2. ~(v <= u)
      BY <1>0, <1>6
    <3> QED BY <3>1, <3>2
  <2>2. R(u) = R(v)
    BY <1>3, <1>5, <2>1, FS_Subset
  <2> QED BY <1>4, <2>1, <2>2
<1>7. CASE v < u
  <2>1. R(v) \subseteq R(u) /\ u \notin R(v)
    <3>1. \A x \in FreeSlots(s) : x <= v => x <= u
      BY <1>0, <1>7
    <3>2. ~(u <= v)
      BY <1>0, <1>7
    <3> QED BY <3>1, <3>2
  <2>2. R(u) = R(v)
    BY <1>3, <1>5, <2>1, FS_Subset
  <2> QED BY <1>4, <2>1, <2>2
<1> QED BY <1>0, <1>6, <1>7

\* launch_slots_with_parent_task() puts the task and its children on slots of their own.
LEMMA LaunchedPlaces ==
    ASSUME SlotsOK, NEW p \in TaskIds, NEW s \in Slots, slot' = Launched(p, s)
    PROVE  /\ slot'[s].task = p
           /\ \A u \in Slots \ {s} : slot'[u].task \in ToIds(Children[p]) \/ slot'[u].task = slot[u].task
           /\ SlotsOnce /\ ~InSlot(p) /\ TopLevel(p) /\ (\A c \in ToIds(Children[p]) : ~InSlot(c))
                 => SlotsOnce'
<1> DEFINE chosen(u) == u \in FreeSlots(s) /\ Rank(u, s) <= Len(Children[p])
           child(u) == Children[p][Rank(u, s)]
<1>1. slot \in [Slots -> SlotRecord]
    BY DEF SlotsOK
<1>2. slot'[s].task = p
    BY <1>1 DEF Launched, Occupied, SlotRecord
<1>3. \A u \in Slots \ {s} : slot'[u].task = IF chosen(u) THEN child(u) ELSE slot[u].task
    BY <1>1 DEF Launched, Occupied, SlotRecord
<1>4. ASSUME NEW u \in Slots, chosen(u) PROVE Rank(u, s) \in DOMAIN Children[p]
  <2> DEFINE R == {v \in FreeSlots(s) : v <= u}
  <2>1. IsFiniteSet(Slots)
    BY SlotsAssumption, FS_Interval DEF Slots
  <2>2. IsFiniteSet(R)
    BY <2>1, FS_Subset DEF FreeSlots
  <2>3. u \in R
    BY <1>4, SlotsAssumption DEF Slots
  <2>4. Cardinality(R) \in Nat /\ Cardinality(R) # 0
    BY <2>2, <2>3, FS_CardinalityType, FS_EmptySet
  <2>5. Len(Children[p]) \in Nat /\ DOMAIN Children[p] = 1 .. Len(Children[p])
    BY TasksAssumption, LenProperties
  <2> QED BY <1>4, <2>4, <2>5 DEF Rank
<1>5. \A u \in Slots : chosen(u) => child(u) \in ToIds(Children[p])
    BY <1>4 DEF ToIds
<1>6. \A u, v \in Slots : chosen(u) /\ chosen(v) /\ child(u) = child(v) => u = v
  <2>1. IsInjective(Children[p])
    BY IdsAssumption
  <2>2. \A u, v \in Slots : chosen(u) /\ chosen(v) /\ child(u) = child(v) => Rank(u, s) = Rank(v, s)
    BY <1>4, <2>1 DEF IsInjective
  <2> QED BY <2>2, RanksDiffer
<1> HIDE DEF chosen, child
<1>7. ASSUME SlotsOnce, ~InSlot(p), TopLevel(p), \A c \in ToIds(Children[p]) : ~InSlot(c)
      PROVE  SlotsOnce'
  <2>1. \A c \in ToIds(Children[p]) : c # p
    BY <1>7, IdsProperties
  <2>2. \A u \in Slots : slot[u].task # p /\ slot[u].task \notin ToIds(Children[p])
    BY <1>7 DEF InSlot
  <2>3. SUFFICES ASSUME NEW u \in Slots, NEW v \in Slots, slot'[u].task = slot'[v].task, slot'[u].task # NoTask
                 PROVE  u = v
    BY DEF SlotsOnce
  <2>4. CASE u = s \/ v = s
    BY <1>2, <1>3, <1>5, <2>1, <2>2, <2>3, <2>4
  <2>5. CASE u # s /\ v # s
    BY <1>3, <1>5, <1>6, <1>7, <2>2, <2>3, <2>5 DEF SlotsOnce
  <2> QED BY <2>4, <2>5
<1> QED BY <1>2, <1>3, <1>5, <1>7

\* A launch moves the task in the main thread's hands, with its children, to slots.
LEMMA LaunchedFromHand ==
    ASSUME TypeOK, Next, TasksInv, pc = "handle", current.type = "work",
           NEW s \in Slots, slot' = Launched(current.id, s),
           current' = NoEntry, UNCHANGED queues, UNCHANGED <<results, received>>
    PROVE  TasksInv'
<1>0. QueuesOK /\ PlacesInv /\ AnswersInv /\ SlotsOK
    BY DEF TypeOK, TasksInv
<1>1. current \in Entries
    BY DEF TypeOK, MainOK, NoEntry
<1>2. PICK p \in TaskIds : p = current.id /\ current = Work(p)
    BY <1>1, WorkEntries
<1>3. queue_tasks' = queue_tasks /\ queue_tasks_deferred' = queue_tasks_deferred
    BY DEF queues
<1>4. \A id : ~InHand(id)'
    BY WorkEntries DEF InHand
<1>5. \A id : (InQueue(id)' <=> InQueue(id)) /\ (InDeferred(id)' <=> InDeferred(id))
    BY <1>3 DEF InQueue, InDeferred
<1>6. InHand(p) /\ Ahead(p) /\ ~InQueue(p) /\ ~InDeferred(p) /\ ~InSlot(p)
    BY <1>0, <1>2 DEF InHand, PlacesInv, Single, Ahead
<1>7. TopLevel(p) /\ Posted(p) /\ \A c \in ToIds(Children[p]) : ~InSlot(c)
    BY <1>0, <1>6 DEF PlacesInv, Lineage, Ahead, Alive
<1>8. QueuesOnce'
    BY <1>0, <1>3 DEF PlacesInv, QueuesOnce
<1>9. SlotsOnce'
    BY <1>0, <1>2, <1>6, <1>7, LaunchedPlaces DEF PlacesInv
<1>10. \A id : InSlot(id)' => InSlot(id) \/ id = p \/ id \in ToIds(Children[p])
    BY <1>0, <1>2, LaunchedPlaces DEF InSlot
<1>11. \A c \in ToIds(Children[p]) : c \in TaskIds /\ ~Ahead(c) /\ c # p
    BY <1>0, <1>7, IdsProperties DEF PlacesInv, Lineage
<1>12. ~Ahead(p)' /\ \A id : Ahead(id)' => Ahead(id)
    BY <1>4, <1>5, <1>6 DEF Ahead
<1>13. \A id \in TaskIds : Single(id)'
    BY <1>0, <1>4, <1>5, <1>6, <1>10, <1>11 DEF PlacesInv, Single, Ahead
<1>14. ASSUME NEW id \in TaskIds, Ahead(id)'
       PROVE  TopLevel(id) /\ \A c \in ToIds(Children[id]) : ~InSlot(c)'
  <2>1. Ahead(id) /\ TopLevel(id) /\ \A c \in ToIds(Children[id]) : ~InSlot(c)
    BY <1>0, <1>12, <1>14 DEF PlacesInv, Lineage
  <2>2. id # p
    BY <1>12, <1>14
  <2>3. \A c \in ToIds(Children[id]) : c # p /\ c \notin ToIds(Children[p])
    BY <1>7, <2>2, IdsProperties
  <2> QED BY <1>10, <2>1, <2>3
<1>15. \A c \in ToIds(Children[p]) : Posted(c)
    BY <1>7, IdsProperties DEF Posted, TopLevel
<1>16. ASSUME NEW id \in TaskIds, Alive(id)' PROVE Alive(id) \/ id \in ToIds(Children[p])
    BY <1>6, <1>10, <1>12, <1>16 DEF Alive, Ahead
<1>17. \A id \in TaskIds : Alive(id)' => Posted(id)'
    BY <1>0, <1>15, <1>16, PostedGrows DEF PlacesInv, Lineage
<1>18. \A id \in TaskIds : Lineage(id)'
    BY <1>14, <1>17 DEF Lineage, TopLevel
<1>19. PlacesInv'
    BY <1>8, <1>9, <1>13, <1>18 DEF PlacesInv
<1>20. \A id \in TaskIds : Open(id)' => Open(id)
    BY <1>6, <1>12, <1>16, PostedGrows DEF Open
<1>21. AnswersInv'
    BY <1>0, <1>20, QuietResults
<1> QED BY <1>19, <1>21 DEF TasksInv

\* A launch that fails: the task is dropped, and the error goes to the task itself or
\* to its first child.
LEMMA LaunchFailed ==
    ASSUME TypeOK, Next, TasksInv, pc = "handle", current.type = "work",
           Send(FirstLaunched(current.id), <<"error">>), current' = NoEntry,
           UNCHANGED queues, UNCHANGED slot, UNCHANGED received
    PROVE  TasksInv'
<1>0. QueuesOK /\ PlacesInv /\ AnswersInv
    BY DEF TypeOK, TasksInv
<1>1. CASE ~IsParent(current.id)
    BY <1>1, AnsweredInHand DEF FirstLaunched
<1>2. CASE IsParent(current.id)
  <2>1. current \in Entries
    BY DEF TypeOK, MainOK, NoEntry
  <2>2. PICK p \in TaskIds : p = current.id /\ current = Work(p)
    BY <2>1, WorkEntries
  <2>3. PICK c : c = Children[p][1]
    OBVIOUS
  <2>4. c \in ToIds(Children[p])
    <3>1. Children[p] \in Seq(TaskIds) /\ Children[p] # <<>>
      BY <1>2, <2>2, TasksAssumption DEF IsParent
    <3>2. 1 \in DOMAIN Children[p]
      BY <3>1, EmptySeq, LenProperties
    <3> QED BY <2>3, <3>2 DEF ToIds
  <2>5. queue_tasks' = queue_tasks /\ queue_tasks_deferred' = queue_tasks_deferred
    BY DEF queues
  <2>6. \A id : ~InHand(id)'
    BY WorkEntries DEF InHand
  <2>7. QueuesOnce'
    BY <1>0, <2>5 DEF PlacesInv, QueuesOnce
  <2>8. \A id : (InQueue(id)' => InQueue(id)) /\ (InDeferred(id)' => InDeferred(id)) /\ (InSlot(id)' => InSlot(id))
    BY <2>5 DEF InQueue, InDeferred, InSlot
  <2>9. /\ PlacesInv'
        /\ \A id \in TaskIds : (Open(id)' => Open(id)) /\ (Ahead(id)' => Ahead(id))
    BY <1>0, <2>6, <2>7, <2>8, QuietPlaces
  <2>10. InHand(p) /\ Ahead(p) /\ ~InQueue(p) /\ ~InDeferred(p)
    BY <1>0, <2>2 DEF InHand, PlacesInv, Single, Ahead
  <2>11. ~Ahead(p)'
    BY <2>6, <2>8, <2>10 DEF Ahead
  <2>12. TopLevel(p) /\ Posted(p) /\ ~InSlot(c)
    BY <1>0, <2>4, <2>10 DEF PlacesInv, Lineage, Ahead, Alive
  <2>13. c \in TaskIds /\ ~TopLevel(c) /\ \A q \in TaskIds : c \in ToIds(Children[q]) => q = p
    BY <2>4, IdsProperties
  <2>14. ~Ahead(c)
    BY <1>0, <2>13 DEF PlacesInv, Lineage
  <2>15. ~Alive(c)'
    BY <2>6, <2>8, <2>12, <2>14 DEF Alive, Ahead
  <2>16. Posted(c)'
    <3>1. Posted(c)
      BY <2>4, <2>12, IdsProperties DEF Posted, TopLevel
    <3> QED BY <3>1, PostedGrows
  <2>17. Open(c) /\ ~Open(c)'
    BY <2>4, <2>10, <2>11, <2>13, <2>15, <2>16 DEF Open
  <2>18. AnswersInv'
    <3> DEFINE kinds == <<"error">>
    <3>1. Send(c, kinds) /\ kinds \in Closing
      BY <1>2, <2>2, <2>3 DEF FirstLaunched, Closing
    <3> HIDE DEF kinds
    <3> QED BY <1>0, <2>9, <2>13, <2>17, <3>1, AnswersSent
  <2> QED BY <2>9, <2>18 DEF TasksInv
<1> QED BY <1>1, <1>2

\* Handling a popped task.
LEMMA HandlingTasks ==
    ASSUME TypeOK, Next, TasksInv,
           DeferTask \/ LaunchTask \/ SlotAction \/ AnswerTask \/ CancelTask \/ SkipNextResponse
    PROVE  TasksInv'
<1>1. current' = NoEntry /\ UNCHANGED <<received, waiting_task_ids>>
    BY DEF DeferTask, LaunchTask, SlotAction, AnswerTask, CancelTask, SkipNextResponse, Handled, readers, results
<1>2. CASE DeferTask
  <2>1. pc = "handle" /\ current.type = "work" /\ Defer(current)
    BY <1>2 DEF DeferTask, Handling
  <2>2. UNCHANGED slot /\ UNCHANGED <<results, received>>
    BY <1>1, <1>2 DEF DeferTask
  <2> QED BY <1>1, <2>1, <2>2, DeferredFromHand
<1>3. CASE LaunchTask
  <2>1. /\ pc = "handle" /\ current.type = "work"
        /\ UNCHANGED queues /\ UNCHANGED <<received, waiting_task_ids>>
    BY <1>1, <1>3 DEF LaunchTask, Handling
  <2>2. PICK s \in AvailableSlots(current.id) :
           \/ slot' = Launched(current.id, s) /\ UNCHANGED queue_results
           \/ Send(FirstLaunched(current.id), <<"error">>) /\ UNCHANGED slot
    BY <1>3 DEF LaunchTask
  <2>3. current.id \in TaskIds
    BY <2>1, WorkEntries DEF TypeOK, MainOK, NoEntry
  <2>4. s \in Slots
    BY <2>2, <2>3, TasksAssumption, SlotsAssumption DEF AvailableSlots, SlotById, Slots
  <2>5. CASE slot' = Launched(current.id, s) /\ UNCHANGED queue_results
    <3>1. UNCHANGED <<results, received>>
      BY <2>1, <2>5 DEF results
    <3> QED BY <1>1, <2>1, <2>4, <2>5, <3>1, LaunchedFromHand
  <2>6. CASE Send(FirstLaunched(current.id), <<"error">>) /\ UNCHANGED slot
    BY <1>1, <2>1, <2>6, LaunchFailed
  <2> QED BY <2>2, <2>5, <2>6
<1>4. CASE SlotAction
  <2>1. pc = "handle" /\ current.type = "work" /\ UNCHANGED slot /\ UNCHANGED <<received, waiting_task_ids>>
    BY <1>1, <1>4 DEF SlotAction, Handling
  <2>2. \/ \E k \in {"final", "error"} : Send(current.id, <<k>>) /\ UNCHANGED queues
        \/ Defer(current) /\ UNCHANGED queue_results
    BY <1>4 DEF SlotAction
  <2>3. CASE \E k \in {"final", "error"} : Send(current.id, <<k>>) /\ UNCHANGED queues
    BY <1>1, <2>1, <2>3, AnsweredInHand
  <2>4. CASE Defer(current) /\ UNCHANGED queue_results
    <3>1. UNCHANGED <<results, received>>
      BY <2>1, <2>4 DEF results
    <3> QED BY <1>1, <2>1, <2>4, <3>1, DeferredFromHand
  <2> QED BY <2>2, <2>3, <2>4
<1>5. CASE AnswerTask
  <2>1. /\ pc = "handle" /\ current.type = "work" /\ UNCHANGED slot
        /\ UNCHANGED <<received, waiting_task_ids>> /\ UNCHANGED queues
    BY <1>1, <1>5 DEF AnswerTask, Handling
  <2>2. Send(current.id, <<"final">>)
    BY <1>5 DEF AnswerTask
  <2> QED BY <1>1, <2>1, <2>2, AnsweredInHand
<1>6. ASSUME UNCHANGED queues, UNCHANGED slot, UNCHANGED results
      PROVE  TasksInv'
  <2>0. PlacesInv /\ AnswersInv
    BY DEF TasksInv
  <2>1. \A id : ~InHand(id)'
    BY <1>1, WorkEntries DEF InHand
  <2>2. queue_tasks' = queue_tasks /\ queue_tasks_deferred' = queue_tasks_deferred
    BY <1>6 DEF queues
  <2>3. QueuesOnce' /\ \A id : (InQueue(id)' => InQueue(id)) /\ (InDeferred(id)' => InDeferred(id))
    BY <2>0, <2>2 DEF PlacesInv, QueuesOnce, InQueue, InDeferred
  <2>4. PlacesInv' /\ \A id \in TaskIds : Open(id)' => Open(id)
    BY <1>6, <2>0, <2>1, <2>3, QuietPlaces
  <2>5. AnswersInv'
    BY <1>1, <1>6, <2>0, <2>4, QuietResults
  <2> QED BY <2>4, <2>5 DEF TasksInv
<1>7. CASE SkipNextResponse
    BY <1>6, <1>7 DEF SkipNextResponse
<1>8. CASE CancelTask
  <2>1. UNCHANGED results
    BY <1>8 DEF CancelTask
  <2>2. CASE UNCHANGED <<slot, queues>>
    BY <1>6, <2>1, <2>2
  <2>3. ASSUME NEW s \in Slots, Release(s, slot[s].i_batch)
        PROVE  TasksInv'
    <3>0. PlacesInv /\ AnswersInv
      BY DEF TasksInv
    <3>1. \A id : ~InHand(id)'
      BY <1>1, WorkEntries DEF InHand
    <3>2. PlacesInv' /\ \A id \in TaskIds : Open(id)' => Open(id)
      BY <2>3, <3>0, <3>1, ReleasePlaces
    <3>3. AnswersInv'
      BY <1>1, <2>1, <3>0, <3>2, QuietResults
    <3> QED BY <3>2, <3>3 DEF TasksInv
  <2> QED BY <1>8, <2>2, <2>3 DEF CancelTask
<1> QED BY <1>2, <1>3, <1>4, <1>5, <1>7, <1>8

\* NEXT_RESPONSE is no task.
LEMMA NextResponsePosted ==
    ASSUME TypeOK, Next, TasksInv, UpdateSlots
    PROVE  TasksInv'
<1>0. QueuesOK /\ PlacesInv /\ AnswersInv
    BY DEF TypeOK, TasksInv
<1>1. /\ queue_tasks_deferred' = queue_tasks_deferred /\ current' = current /\ slot' = slot
      /\ UNCHANGED <<results, received>>
    BY DEF UpdateSlots, readers
<1>2. CASE queue_tasks' = queue_tasks
    BY <1>1, <1>2, NothingMoves DEF queues
<1>3. CASE queue_tasks' = Append(queue_tasks, NextResponse)
  <2>1. NextResponse \in Entries /\ NextResponse.type # "work"
    BY EntriesType DEF NextResponse
  <2>2. Once(queue_tasks') /\ \A x : In(queue_tasks', x) <=> x = NextResponse \/ In(queue_tasks, x)
    BY <1>0, <1>3, <2>1, OnceAppend DEF QueuesOK, PlacesInv, QueuesOnce
  <2>3. QueuesOnce'
    BY <1>0, <1>1, <2>2 DEF PlacesInv, QueuesOnce
  <2>4. \A id : InQueue(id)' => InQueue(id)
    BY <2>2, InQueues, WorkEntries
  <2>5. \A id : (InDeferred(id)' => InDeferred(id)) /\ (InHand(id)' => InHand(id))
    BY <1>1 DEF InDeferred, InHand
  <2>6. PlacesInv' /\ \A id \in TaskIds : Open(id)' => Open(id)
    BY <1>0, <1>1, <2>3, <2>4, <2>5, QuietPlaces
  <2>7. AnswersInv'
    BY <1>0, <1>1, <2>6, QuietResults
  <2> QED BY <2>6, <2>7 DEF TasksInv
<1> QED BY <1>2, <1>3 DEF UpdateSlots

\* A last piece of a stream comes before the final result.
LEMMA JoinedResults ==
    <<>> \o <<"final">> = <<"final">> /\ <<"partial">> \o <<"final">> = <<"partial", "final">>
<1> DEFINE K == {"partial", "final"}
           a == <<"partial">>
           b == <<"final">>
           c == <<"partial", "final">>
<1>1. /\ a \in Seq(K) /\ b \in Seq(K) /\ c \in Seq(K)
      /\ Len(a) = 1 /\ Len(b) = 1 /\ Len(c) = 2
      /\ a[1] = "partial" /\ b[1] = "final" /\ c[1] = "partial" /\ c[2] = "final"
    OBVIOUS
<1> HIDE DEF K, a, b, c
<1>2. <<>> \o b = b
    BY <1>1, ConcatEmptySeq
<1>3. /\ a \o b \in Seq(K) /\ Len(a \o b) = Len(a) + Len(b)
      /\ \A i \in 1 .. Len(a) + Len(b) : (a \o b)[i] = IF i <= Len(a) THEN a[i] ELSE b[i - Len(a)]
    BY <1>1, ConcatProperties
<1>4. \A i \in 1 .. Len(a \o b) : (a \o b)[i] = c[i]
    BY <1>1, <1>3
<1>5. a \o b = c
    BY <1>1, <1>3, <1>4, SeqEqual
<1> QED BY <1>2, <1>5 DEF a, b, c

\* The sweeps of a pass.
LEMMA SweepTasks ==
    ASSUME TypeOK, Next, TasksInv,
           \/ AddSampledToken \/ SkipPrompt \/ RejectPrompt \/ AddPromptTokens
           \/ DecodeOk \/ DecodeNothing \/ DecodeFails \/ AbortSlot \/ PostDecodeSlot \/ WaitForTask
    PROVE  TasksInv'
<1>0. SlotsOK /\ cursor \in Slots /\ slot \in [Slots -> SlotRecord]
    BY DEF TypeOK, MainOK, SlotsOK
<1>1. current' = current /\ UNCHANGED <<received, waiting_task_ids>>
    BY DEF AddSampledToken, SkipPrompt, RejectPrompt, AddPromptTokens, DecodeOk, DecodeNothing,
           DecodeFails, AbortSlot, PostDecodeSlot, WaitForTask, readers, results
<1>2. ~Idle(cursor) => slot[cursor].task \in TaskIds
    BY <1>0 DEF SlotsOK, SlotRecord
<1>3. <<"final">> \in Closing /\ <<"error">> \in Closing /\ <<"partial", "final">> \in Closing
    BY DEF Closing
<1>4. ASSUME UNCHANGED queues, UNCHANGED queue_results, \A u \in Slots : slot'[u].task = slot[u].task
      PROVE  TasksInv'
    BY <1>1, <1>4, NothingMoves DEF results
<1>5. ASSUME ~Idle(cursor), NEW b, Release(cursor, b), NEW kinds \in Closing, Send(slot[cursor].task, kinds)
      PROVE  TasksInv'
    BY <1>0, <1>1, <1>2, <1>5, AnsweredAndReleased
<1>6. ASSUME ~Idle(cursor), FailSlot(cursor) PROVE TasksInv'
  <2> DEFINE kinds == <<"error">>
  <2>1. kinds \in Closing /\ Send(slot[cursor].task, kinds) /\ Release(cursor, slot[cursor].i_batch)
    BY <1>3, <1>6 DEF FailSlot
  <2> HIDE DEF kinds
  <2> QED BY <1>5, <1>6, <2>1
<1>7. CASE SkipPrompt \/ DecodeNothing \/ DecodeFails \/ WaitForTask
    BY <1>4, <1>7 DEF SkipPrompt, DecodeNothing, DecodeFails, WaitForTask, results
<1>8. CASE AddSampledToken
  <2>1. \/ UNCHANGED queues /\ UNCHANGED queue_results /\ UNCHANGED slot
        \/ UNCHANGED queues /\ UNCHANGED queue_results /\ slot' = [slot EXCEPT ![cursor].i_batch = TRUE]
        \/ slot[cursor].state = "GENERATING" /\ FailSlot(cursor)
    BY <1>8 DEF AddSampledToken
  <2>2. slot' = [slot EXCEPT ![cursor].i_batch = TRUE] => \A u \in Slots : slot'[u].task = slot[u].task
    BY <1>0 DEF SlotRecord
  <2> QED BY <1>4, <1>6, <2>1, <2>2 DEF Idle
<1>9. CASE RejectPrompt
  <2>1. ~Idle(cursor) /\ Release(cursor, slot[cursor].i_batch)
    BY <1>9 DEF RejectPrompt, Idle
  <2>2. \E kinds \in Closing : Send(slot[cursor].task, kinds)
    BY <1>3, <1>9 DEF RejectPrompt
  <2> QED BY <1>5, <2>1, <2>2
<1>10. CASE AddPromptTokens
  <2>1. ~Idle(cursor) /\ UNCHANGED queues
    BY <1>10 DEF AddPromptTokens, Fillable, Pending, Idle
  <2>2. Send(slot[cursor].task, <<"partial">>) \/ UNCHANGED queue_results
    BY <1>10 DEF AddPromptTokens
  <2>3. \A u \in Slots : slot'[u].task = slot[u].task
    <3>1. \/ slot' = [slot EXCEPT ![cursor].state = "PROCESSING_PROMPT"]
          \/ \E n, done : slot' = [slot EXCEPT ![cursor] = Filled(@, n, done)]
      BY <1>10 DEF AddPromptTokens
    <3>2. CASE slot' = [slot EXCEPT ![cursor].state = "PROCESSING_PROMPT"]
      BY <1>0, <3>2 DEF SlotRecord
    <3>3. ASSUME NEW n, NEW done, slot' = [slot EXCEPT ![cursor] = Filled(@, n, done)]
          PROVE  \A u \in Slots : slot'[u].task = slot[u].task
      <4>1. Filled(slot[cursor], n, done).task = slot[cursor].task
        BY <1>0 DEF Filled, SlotRecord
      <4>2. \A u \in Slots : slot'[u] = IF u = cursor THEN Filled(slot[cursor], n, done) ELSE slot[u]
        BY <1>0, <3>3
      <4> QED BY <4>1, <4>2
    <3> QED BY <3>1, <3>2, <3>3
  <2>4. CASE UNCHANGED queue_results
    BY <1>4, <2>1, <2>3, <2>4
  <2>5. CASE Send(slot[cursor].task, <<"partial">>)
    <3> DEFINE kinds == <<"partial">>
    <3>1. kinds \in {<<>>, <<"partial">>} /\ Send(slot[cursor].task, kinds)
      BY <2>5
    <3> HIDE DEF kinds
    <3>2. UNCHANGED <<queues, current>>
      BY <1>1, <2>1
    <3> QED BY <1>0, <1>1, <1>2, <2>1, <2>3, <3>1, <3>2, AnsweredInPart
  <2> QED BY <2>2, <2>4, <2>5
<1>11. CASE DecodeOk
  <2>1. \A s \in Slots : Copied(slot[s]).task = slot[s].task
    BY <1>0 DEF Copied, SlotRecord
  <2>2. \A s \in Slots : slot'[s] = Copied(slot[s]) \/ slot'[s] = slot[s]
    BY <1>11 DEF DecodeOk
  <2>3. \A u \in Slots : slot'[u].task = slot[u].task
    BY <2>1, <2>2
  <2> QED BY <1>4, <1>11, <2>3 DEF DecodeOk, results
<1>12. CASE AbortSlot
    BY <1>4, <1>6, <1>12 DEF AbortSlot
<1>13. CASE PostDecodeSlot
  <2>1. Sampled(cursor) => ~Idle(cursor)
    BY DEF Sampled, Idle
  <2>2. PICK streamed \in {<<"partial">>, <<>>} :
           \/ UNCHANGED queue_results /\ UNCHANGED slot /\ UNCHANGED queues
           \/ Sampled(cursor) /\ Send(slot[cursor].task, streamed \o <<"final">>) /\ Release(cursor, FALSE)
           \/ /\ Sampled(cursor) /\ slot' = [slot EXCEPT ![cursor] = Continued(@)]
              /\ Send(slot[cursor].task, streamed) /\ UNCHANGED queues
           \/ Sampled(cursor) /\ FailSlot(cursor)
    BY <1>13 DEF PostDecodeSlot
  <2>3. CASE UNCHANGED queue_results /\ UNCHANGED slot /\ UNCHANGED queues
    BY <1>4, <2>3
  <2>4. CASE Sampled(cursor) /\ Send(slot[cursor].task, streamed \o <<"final">>) /\ Release(cursor, FALSE)
    <3>1. PICK kinds : kinds = streamed \o <<"final">>
      OBVIOUS
    <3>2. kinds = <<"final">> \/ kinds = <<"partial", "final">>
      BY <2>2, <3>1, JoinedResults
    <3>3. kinds \in Closing
      BY <1>3, <3>2
    <3> QED BY <1>5, <2>1, <2>4, <3>1, <3>3
  <2>5. CASE /\ Sampled(cursor) /\ slot' = [slot EXCEPT ![cursor] = Continued(@)]
             /\ Send(slot[cursor].task, streamed) /\ UNCHANGED queues
    <3>1. Continued(slot[cursor]).task = slot[cursor].task
      BY <1>0 DEF Continued, SlotRecord
    <3>2. \A u \in Slots : slot'[u] = IF u = cursor THEN Continued(slot[cursor]) ELSE slot[u]
      BY <1>0, <2>5
    <3>3. \A u \in Slots : slot'[u].task = slot[u].task
      BY <3>1, <3>2
    <3>4. streamed \in {<<>>, <<"partial">>}
      BY <2>2
    <3>5. UNCHANGED <<queues, current>>
      BY <1>1, <2>5
    <3> QED BY <1>0, <1>1, <1>2, <2>1, <2>5, <3>3, <3>4, <3>5, AnsweredInPart
  <2>6. CASE Sampled(cursor) /\ FailSlot(cursor)
    BY <1>6, <2>1, <2>6
  <2> QED BY <2>2, <2>3, <2>4, <2>5, <2>6
<1> QED BY <1>7, <1>8, <1>9, <1>10, <1>11, <1>12, <1>13

-----------------------------------------------------------------------------
(* The steps of readers.                                                   *)

\* post_tasks() queues tasks that were nowhere before, and whose children are nowhere.
LEMMA TasksPosted ==
    ASSUME TypeOK, Next, TasksInv, NEW r \in Readers, PostTasks(r)
    PROVE  TasksInv'
<1> DEFINE T == ToIds(TasksOf[r])
           b == [i \in DOMAIN TasksOf[r] |-> Work(TasksOf[r][i])]
<1>0. QueuesOK /\ PlacesInv /\ AnswersInv
    BY DEF TypeOK, TasksInv
<1>1. /\ queue_tasks' = queue_tasks \o b /\ queue_tasks_deferred' = queue_tasks_deferred
      /\ current' = current /\ slot' = slot /\ UNCHANGED <<results, received>>
      /\ rpc[r] = "post" /\ rpc' = [rpc EXCEPT ![r] = "recv"]
    BY DEF PostTasks
<1>2. TasksOf[r] \in Seq(TaskIds) /\ IsInjective(TasksOf[r])
    BY TasksAssumption, IdsAssumption
<1>3. b \in Seq(Entries)
    BY <1>2, EntriesType, LenProperties, ElementOfSeq
<1>4. Once(b) /\ \A e : In(b, e) <=> \E id \in T : e = Work(id)
  <2>1. DOMAIN b = DOMAIN TasksOf[r] /\ \A i \in DOMAIN b : b[i] = Work(TasksOf[r][i])
    OBVIOUS
  <2>2. Once(b)
    BY <1>2, <2>1, WorkEntries DEF Once, IsInjective
  <2>3. \A e : In(b, e) <=> \E id \in T : e = Work(id)
    BY <2>1 DEF In, ToIds
  <2> QED BY <2>2, <2>3
<1> HIDE DEF b
<1>5. \A id \in IdsOf(r) : ~Posted(id) /\ ~Alive(id)
  <2>1. \A id \in IdsOf(r) : ~Posted(id)
    BY <1>1, IdsProperties DEF Posted
  <2> QED BY <1>0, <2>1, IdsOfType DEF PlacesInv, Lineage
<1>6. \A id \in T : id \in TaskIds /\ id \in IdsOf(r) /\ TopLevel(id) /\ ToIds(Children[id]) \subseteq IdsOf(r)
    BY IdsProperties DEF TopLevel
<1>7. \A id \in T : ~InQueue(id) /\ ~InDeferred(id) /\ ~InHand(id) /\ ~InSlot(id)
    BY <1>5, <1>6 DEF Alive
<1>8. \A id \in T : ~In(queue_tasks, Work(id))
    BY <1>7, InQueues
<1>9. Once(queue_tasks') /\ \A e : In(queue_tasks', e) <=> In(queue_tasks, e) \/ In(b, e)
    BY <1>0, <1>1, <1>3, <1>4, <1>8, OnceConcat DEF QueuesOK, PlacesInv, QueuesOnce
<1>10. QueuesOnce' /\ SlotsOnce'
    BY <1>0, <1>1, <1>9 DEF PlacesInv, QueuesOnce, SlotsOnce
<1>11. /\ \A id : InQueue(id)' <=> InQueue(id) \/ id \in T
       /\ \A id : (InDeferred(id)' <=> InDeferred(id)) /\ (InHand(id)' <=> InHand(id)) /\ (InSlot(id)' <=> InSlot(id))
    BY <1>1, <1>4, <1>9, InQueues, WorkEntries DEF InDeferred, InHand, InSlot
<1>12. \A id \in TaskIds : Single(id)'
    BY <1>0, <1>7, <1>11 DEF PlacesInv, Single
<1>13. ASSUME NEW id \in TaskIds PROVE Lineage(id)'
  <2>1. ASSUME Alive(id)' PROVE Posted(id)'
    <3>1. CASE Alive(id)
      BY <1>0, <3>1, PostedGrows DEF PlacesInv, Lineage
    <3>2. CASE id \in T
      BY <1>1, <1>6, <3>2 DEF Posted, TypeOK, ReadersOK
    <3> QED BY <1>11, <2>1, <3>1, <3>2 DEF Alive
  <2>2. ASSUME Ahead(id)' PROVE TopLevel(id) /\ \A c \in ToIds(Children[id]) : ~InSlot(c)
    <3>1. CASE Ahead(id)
      BY <1>0, <3>1 DEF PlacesInv, Lineage
    <3>2. CASE id \in T
      BY <1>5, <1>6, <3>2 DEF Alive
    <3> QED BY <1>11, <2>2, <3>1, <3>2 DEF Ahead
  <2> QED BY <1>11, <2>1, <2>2 DEF Lineage, TopLevel
<1>14. PlacesInv'
    BY <1>10, <1>12, <1>13 DEF PlacesInv
<1>15. ASSUME NEW id \in TaskIds, Open(id)' PROVE Open(id)
  <2>1. CASE id \in IdsOf(r)
    BY <1>5, <2>1 DEF Open
  <2>2. CASE id \notin IdsOf(r)
    <3>1. id \notin T /\ \A p \in T : id \notin ToIds(Children[p])
      BY <1>6, <2>2
    <3> QED BY <1>11, <1>15, <3>1, PostedGrows DEF Open, Alive, Ahead
  <2> QED BY <2>1, <2>2
<1>16. AnswersInv'
    BY <1>0, <1>1, <1>15, QuietResults
<1> QED BY <1>14, <1>16 DEF TasksInv

\* A CANCEL removes its target from both deques and is no task itself.
LEMMA CancelPosted ==
    ASSUME TypeOK, Next, TasksInv, NEW r \in Readers, PostCancel(r)
    PROVE  TasksInv'
<1>0. QueuesOK /\ PlacesInv /\ AnswersInv
    BY DEF TypeOK, TasksInv
<1>1. current' = current /\ slot' = slot /\ UNCHANGED <<results, received>>
    BY DEF PostCancel
<1>2. PICK id \in to_cancel[r] : /\ queue_tasks' = <<Cancel(id)>> \o Cleaned(queue_tasks, id)
                                 /\ queue_tasks_deferred' = Cleaned(queue_tasks_deferred, id)
    BY DEF PostCancel
<1>3. Cancel(id) \in Entries /\ Cancel(id).type # "work"
    BY EntriesType DEF TypeOK, ReadersOK, Cancel
<1>4. /\ Cleaned(queue_tasks, id) \in Seq(Entries) /\ Once(Cleaned(queue_tasks, id))
      /\ \A e : In(Cleaned(queue_tasks, id), e) => In(queue_tasks, e)
    BY <1>0, OnceCleaned DEF QueuesOK, PlacesInv, QueuesOnce
<1>5. /\ Once(Cleaned(queue_tasks_deferred, id))
      /\ \A e : In(Cleaned(queue_tasks_deferred, id), e) => In(queue_tasks_deferred, e)
    BY <1>0, OnceCleaned DEF QueuesOK, PlacesInv, QueuesOnce
<1>6. Once(queue_tasks') /\ \A e : In(queue_tasks', e) <=> e = Cancel(id) \/ In(Cleaned(queue_tasks, id), e)
    BY <1>2, <1>3, <1>4, OncePrepend
<1>7. QueuesOnce'
    BY <1>2, <1>5, <1>6 DEF QueuesOnce
<1>8. \A x : InQueue(x)' => InQueue(x)
    BY <1>4, <1>6, InQueues, WorkEntries
<1>9. \A x : InDeferred(x)' => InDeferred(x)
    BY <1>2, <1>5, InQueues
<1>10. \A x : InHand(x)' => InHand(x)
    BY <1>1 DEF InHand
<1>11. PlacesInv' /\ \A x \in TaskIds : Open(x)' => Open(x)
    BY <1>0, <1>1, <1>7, <1>8, <1>9, <1>10, QuietPlaces
<1>12. AnswersInv'
    BY <1>0, <1>1, <1>11, QuietResults
<1> QED BY <1>11, <1>12 DEF TasksInv

\* A reader that changes only its own state or the list of ids it waits for moves nothing.
LEMMA ReaderMovesNothing ==
    ASSUME TypeOK, Next, TasksInv, UNCHANGED <<queues, current>>, UNCHANGED slot
    PROVE  PlacesInv' /\ \A id \in TaskIds : Open(id)' => Open(id)
BY StillPlaces DEF TasksInv

\* next() takes the oldest result of a task; after a final one there is none.
LEMMA ResultReceived ==
    ASSUME TypeOK, Next, TasksInv, NEW r \in Readers, Receive(r)
    PROVE  TasksInv'
<1> DEFINE K == {"partial", "final", "error"}
<1>0. QueuesOK /\ AnswersInv
    BY DEF TypeOK, TasksInv
<1>1. PlacesInv' /\ \A id \in TaskIds : Open(id)' => Open(id)
    BY ReaderMovesNothing DEF Receive
<1>2. PICK id \in IdsOf(r) :
         /\ queue_results[id] # <<>>
         /\ queue_results' = [queue_results EXCEPT ![id] = Tail(queue_results[id])]
         /\ received' = IF Head(queue_results[id]) = "final"
                        THEN [received EXCEPT ![r] = received[r] \cup {id}]
                        ELSE received
    BY DEF Receive, TypeOK, ReadersOK, QueuesOK
<1>3. id \in TaskIds
    BY IdsOfType
<1>4. queue_results \in [TaskIds -> Seq(K)] /\ received \in [Readers -> SUBSET TaskIds]
    BY DEF TypeOK, QueuesOK, ReadersOK
<1>5. PICK q \in Seq(K) : q = queue_results[id]
    BY <1>3, <1>4
<1>6. PICK t \in Seq(K) : t = Tail(q) /\ Len(t) = Len(q) - 1 /\ \A i \in 1 .. Len(t) : t[i] = q[i + 1]
  <2>1. q # <<>>
    BY <1>2, <1>5
  <2> HIDE DEF K
  <2> QED BY <2>1, HeadTailProperties
<1>7. Head(q) = q[1] /\ DOMAIN q = 1 .. Len(q) /\ DOMAIN t = 1 .. Len(t) /\ Len(q) \in Nat /\ Len(q) # 0
  <2>1. q # <<>>
    BY <1>2, <1>5
  <2> HIDE DEF K
  <2> QED BY <2>1, EmptySeq, LenProperties
<1>8. \A x \in TaskIds : queue_results'[x] = IF x = id THEN t ELSE queue_results[x]
    BY <1>2, <1>4, <1>5, <1>6
<1>9. \A x \in TaskIds, p \in Readers :
         x \in received'[p] <=> x \in received[p] \/ (x = id /\ p = r /\ q[1] = "final")
    BY <1>2, <1>4, <1>5, <1>7
<1>10. \A i \in DOMAIN q : q[i] # "partial" => i = Len(q) /\ ~Open(id)
    BY <1>0, <1>3, <1>5 DEF AnswersInv
<1>11. \A i \in DOMAIN t : t[i] # "partial" => i = Len(t) /\ ~Open(id)
  <2> SUFFICES ASSUME NEW i \in DOMAIN t, t[i] # "partial" PROVE i = Len(t) /\ ~Open(id)
    OBVIOUS
  <2>1. i \in Int /\ i + 1 \in DOMAIN q /\ t[i] = q[i + 1]
    BY <1>6, <1>7
  <2>2. i + 1 = Len(q) /\ ~Open(id)
    BY <1>10, <2>1
  <2> QED BY <1>6, <1>7, <2>1, <2>2
<1>12. q[1] = "final" => t = <<>> /\ ~Open(id)
  <2> SUFFICES ASSUME q[1] = "final" PROVE t = <<>> /\ ~Open(id)
    OBVIOUS
  <2>1. 1 = Len(q) /\ ~Open(id)
    BY <1>7, <1>10
  <2>2. Len(t) = 0
    BY <1>6, <2>1
  <2> HIDE DEF K
  <2> QED BY <2>1, <2>2, EmptySeq
<1>13. \A p \in Readers : id \notin received[p]
    BY <1>0, <1>2, <1>3 DEF AnswersInv
<1>14. AnswersInv'
  <2> SUFFICES ASSUME NEW x \in TaskIds
               PROVE  /\ \A i \in DOMAIN queue_results'[x] :
                            queue_results'[x][i] # "partial" => i = Len(queue_results'[x]) /\ ~Open(x)'
                      /\ \A p \in Readers : x \in received'[p] =>
                            x \in IdsOf(p) /\ queue_results'[x] = <<>> /\ ~Open(x)'
    BY DEF AnswersInv
  <2>1. CASE x = id
    BY <1>1, <1>2, <1>3, <1>8, <1>9, <1>11, <1>12, <1>13, <2>1
  <2>2. CASE x # id
    BY <1>0, <1>1, <1>8, <1>9, <2>2 DEF AnswersInv
  <2> QED BY <2>1, <2>2
<1> QED BY <1>1, <1>14 DEF TasksInv

\* The ids of a reader are finitely many.
LEMMA IdsOfFinite == \A r \in Readers : IsFiniteSet(IdsOf(r))
<1>1. ASSUME NEW q \in Seq(TaskIds) PROVE IsFiniteSet(ToIds(q))
  <2>1. ToIds(q) = {q[i] : i \in 1 .. Len(q)} /\ Len(q) \in Nat
    BY LenProperties DEF ToIds
  <2>2. q \in Surjection(1 .. Len(q), ToIds(q))
    BY <2>1, LenProperties DEF Surjection
  <2>3. IsFiniteSet(1 .. Len(q))
    BY <2>1, FS_Interval
  <2> QED BY <2>2, <2>3, FS_Surjection
<1>2. ASSUME NEW r \in Readers PROVE IsFiniteSet(IdsOf(r))
  <2> DEFINE C == {ToIds(Children[id]) : id \in ToIds(TasksOf[r])}
  <2>1. TasksOf[r] \in Seq(TaskIds) /\ \A id \in ToIds(TasksOf[r]) : Children[id] \in Seq(TaskIds)
    BY TasksAssumption, IdsProperties
  <2>2. IsFiniteSet(ToIds(TasksOf[r])) /\ \A S \in C : IsFiniteSet(S)
    BY <1>1, <2>1
  <2>3. IsFiniteSet(C)
    <3> DEFINE f == [id \in ToIds(TasksOf[r]) |-> ToIds(Children[id])]
    <3>1. f \in Surjection(ToIds(TasksOf[r]), C)
      BY DEF Surjection
    <3> QED BY <2>2, <3>1, FS_Surjection
  <2>4. IsFiniteSet(UNION C)
    BY <2>2, <2>3, FS_UNION
  <2>5. IdsOf(r) = ToIds(TasksOf[r]) \cup UNION C
    BY DEF IdsOf
  <2> QED BY <2>2, <2>4, <2>5, FS_Union
<1> QED BY <1>2

\* stop() drops what is queued for an id.
LEMMA ResultsDropped ==
    ASSUME TypeOK, Next, TasksInv, NEW r \in Readers, DropResults(r)
    PROVE  TasksInv'
<1>0. QueuesOK /\ AnswersInv
    BY DEF TypeOK, TasksInv
<1>1. PlacesInv' /\ \A id \in TaskIds : Open(id)' => Open(id)
    BY ReaderMovesNothing DEF DropResults
<1>2. PICK id \in IdsOf(r) : queue_results' = [queue_results EXCEPT ![id] = <<>>]
    BY DEF DropResults
<1>3. received' = received
    BY DEF DropResults
<1>4. \A x \in TaskIds : queue_results'[x] = IF x = id THEN <<>> ELSE queue_results[x]
    BY <1>0, <1>2 DEF QueuesOK
<1>5. AnswersInv'
  <2> SUFFICES ASSUME NEW x \in TaskIds
               PROVE  /\ \A i \in DOMAIN queue_results'[x] :
                            queue_results'[x][i] # "partial" => i = Len(queue_results'[x]) /\ ~Open(x)'
                      /\ \A p \in Readers : x \in received'[p] =>
                            x \in IdsOf(p) /\ queue_results'[x] = <<>> /\ ~Open(x)'
    BY DEF AnswersInv
  <2>1. CASE x = id
    <3>1. queue_results'[x] = <<>> /\ DOMAIN queue_results'[x] = {}
      BY <1>4, <2>1
    <3> QED BY <1>0, <1>1, <1>3, <3>1 DEF AnswersInv
  <2>2. CASE x # id
    BY <1>0, <1>1, <1>3, <1>4, <2>2 DEF AnswersInv
  <2> QED BY <2>1, <2>2
<1> QED BY <1>1, <1>5 DEF TasksInv

\* The steps of readers that touch no result.
LEMMA ReaderQuiet ==
    ASSUME TypeOK, Next, TasksInv, NEW r \in Readers,
           AddWaitingTaskIds(r) \/ Finish(r) \/ HangUp(r) \/ Stop(r)
    PROVE  TasksInv'
<1>1. PlacesInv' /\ \A id \in TaskIds : Open(id)' => Open(id)
    BY ReaderMovesNothing DEF AddWaitingTaskIds, Finish, HangUp, Stop
<1>2. UNCHANGED <<queue_results, received>>
    BY DEF AddWaitingTaskIds, Finish, HangUp, Stop, results
<1>3. AnswersInv'
    BY <1>1, <1>2, AnswersKept DEF TasksInv
<1> QED BY <1>1, <1>3 DEF TasksInv

-----------------------------------------------------------------------------
(* Tasks are moved, not copied, and answered once.                         *)

\* Every step preserves where tasks are and how they are answered.
LEMMA TasksStep ==
    ASSUME TypeOK, [Next]_vars, TasksInv
    PROVE  TasksInv'
<1>1. CASE UNCHANGED vars
    BY <1>1 DEF vars, queues, results, readers, TasksInv, PlacesInv, QueuesOnce, SlotsOnce, Single,
       Lineage, Ahead, Alive, InQueue, InDeferred, InHand, InSlot, Posted, AnswersInv, Open
<1>2. ASSUME Next, NEW r \in Readers, ReaderStep(r) \/ HangUp(r) PROVE TasksInv'
    BY <1>2, TasksPosted, CancelPosted, ResultReceived, ResultsDropped, ReaderQuiet DEF ReaderStep
<1>3. ASSUME Next, MainStep PROVE TasksInv'
    BY <1>3, PoppedToHand, HandlingTasks, NextResponsePosted, SweepTasks DEF MainStep
<1> QED BY <1>1, <1>2, <1>3 DEF Next, Quiet

\* At the start there are no tasks and no results.
LEMMA InitTasks == Init => TasksInv
<1> SUFFICES ASSUME Init PROVE TasksInv
    OBVIOUS
<1>1. DOMAIN <<>> = {}
    OBVIOUS
<1>2. \A id \in TaskIds : ~InQueue(id) /\ ~InDeferred(id) /\ ~InHand(id) /\ ~InSlot(id)
    BY <1>1, ReadersAssumption, WorkEntries DEF Init, InQueue, InDeferred, InHand, InSlot
<1>3. PlacesInv
    BY <1>1, <1>2 DEF Init, PlacesInv, QueuesOnce, Once, SlotsOnce, Single, Lineage, Ahead, Alive
<1>4. AnswersInv
    BY <1>1 DEF Init, AnswersInv
<1> QED BY <1>3, <1>4 DEF TasksInv

\* Where tasks are and how they are answered, in every state.
THEOREM TasksAlways == Spec => []TasksInv
<1>1. TypeOK /\ TasksInv /\ [Next]_vars => TasksInv'
    BY TasksStep
<1> QED BY <1>1, InitTasks, TypeCorrect, PTL DEF Spec

-----------------------------------------------------------------------------
(* Results are queued for readers that still take or drop them.            *)

\* An id that is waited for is that of a reader that has registered it and has not
\* gone through the first step of stop().
WaitedFor ==
    \A id \in waiting_task_ids :
        \E r \in Readers : id \in IdsOf(r) /\ rpc[r] \in {"post", "recv", "stop"}

\* A reader with no next result has received one for each of its ids, and nothing
\* is queued for them.
LEMMA AllReceived ==
    ASSUME TypeOK, AnswersInv, NEW r \in Readers, ~HasNext(r)
    PROVE  \A id \in IdsOf(r) : queue_results[id] = <<>>
<1>1. received[r] \subseteq IdsOf(r)
    BY DEF AnswersInv, TypeOK, ReadersOK
<1>2. IsFiniteSet(IdsOf(r)) /\ IsFiniteSet(received[r]) /\ Cardinality(received[r]) <= Cardinality(IdsOf(r))
    BY <1>1, IdsOfFinite, FS_Subset
<1>3. Cardinality(received[r]) \in Nat /\ Cardinality(IdsOf(r)) \in Nat
    BY <1>2, FS_CardinalityType
<1>4. Cardinality(received[r]) = Cardinality(IdsOf(r))
    BY <1>2, <1>3 DEF HasNext
<1>5. received[r] = IdsOf(r)
    BY <1>1, <1>2, <1>4, FS_Subset
<1> QED BY <1>5, IdsOfType DEF AnswersInv

\* A result for an id is new only when the id is waited for.
NewIsWaited ==
    \A id \in TaskIds : queue_results'[id] # <<>> => queue_results[id] # <<>> \/ id \in waiting_task_ids

LEMMA SendIsWaited ==
    ASSUME QueuesOK, NEW id, NEW kinds, Send(id, kinds)
    PROVE  NewIsWaited
BY DEF Send, NewIsWaited, QueuesOK

\* The main thread queues results with send() only.
LEMMA MainIsWaited ==
    ASSUME TypeOK, MainStep
    PROVE  NewIsWaited /\ UNCHANGED waiting_task_ids
<1>0. QueuesOK
    BY DEF TypeOK
<1>1. ASSUME UNCHANGED results PROVE NewIsWaited /\ UNCHANGED waiting_task_ids
    BY <1>1 DEF NewIsWaited, results
<1>2. UNCHANGED queue_results => NewIsWaited
    BY DEF NewIsWaited
<1>3. CASE \/ PopTask \/ DeferTask \/ CancelTask \/ SkipNextResponse \/ UpdateSlots \/ SkipPrompt
           \/ DecodeOk \/ DecodeNothing \/ DecodeFails \/ WaitForTask
    BY <1>1, <1>3 DEF PopTask, DeferTask, CancelTask, SkipNextResponse, UpdateSlots, SkipPrompt,
                     DecodeOk, DecodeNothing, DecodeFails, WaitForTask
<1>4. CASE LaunchTask
    BY <1>0, <1>2, <1>4, SendIsWaited DEF LaunchTask
<1>5. CASE SlotAction
    BY <1>0, <1>2, <1>5, SendIsWaited DEF SlotAction
<1>6. CASE AnswerTask
    BY <1>0, <1>6, SendIsWaited DEF AnswerTask
<1>7. CASE AddSampledToken
    BY <1>0, <1>2, <1>7, SendIsWaited DEF AddSampledToken, FailSlot
<1>8. CASE RejectPrompt
    BY <1>0, <1>8, SendIsWaited DEF RejectPrompt
<1>9. CASE AddPromptTokens
    BY <1>0, <1>2, <1>9, SendIsWaited DEF AddPromptTokens
<1>10. CASE AbortSlot
    BY <1>0, <1>2, <1>10, SendIsWaited DEF AbortSlot, FailSlot
<1>11. CASE PostDecodeSlot
    BY <1>0, <1>2, <1>11, SendIsWaited DEF PostDecodeSlot, FailSlot
<1> QED BY <1>3, <1>4, <1>5, <1>6, <1>7, <1>8, <1>9, <1>10, <1>11 DEF MainStep

\* A step of the main thread leaves the readers where they are.
LEMMA MainAwaited ==
    ASSUME TypeOK, WaitedFor, ResultsAwaited, MainStep
    PROVE  WaitedFor' /\ ResultsAwaited'
<1>1. NewIsWaited /\ UNCHANGED waiting_task_ids /\ UNCHANGED <<rpc, to_cancel>>
    BY MainIsWaited, MainFrame DEF readers
<1>2. WaitedFor'
    BY <1>1 DEF WaitedFor
<1>3. ASSUME NEW id \in TaskIds, queue_results'[id] # <<>>
      PROVE  \E r \in Readers : id \in IdsOf(r) /\ Collects(r, id)'
  <2>1. CASE queue_results[id] # <<>>
    BY <1>1, <2>1 DEF ResultsAwaited, Collects
  <2>2. CASE id \in waiting_task_ids
    BY <1>1, <2>2 DEF WaitedFor, Collects
  <2> QED BY <1>1, <1>3, <2>1, <2>2 DEF NewIsWaited
<1> QED BY <1>2, <1>3 DEF ResultsAwaited

\* A step of a reader adds no result and moves no other reader.
LEMMA ReaderAwaited ==
    ASSUME TypeOK, AnswersInv, WaitedFor, ResultsAwaited, NEW r \in Readers, ReaderStep(r) \/ HangUp(r)
    PROVE  WaitedFor' /\ ResultsAwaited'
<1>0. /\ rpc \in [Readers -> {"start", "post", "recv", "stop", "drop", "cancel", "done"}]
      /\ to_cancel \in [Readers -> SUBSET TaskIds]
      /\ queue_results \in [TaskIds -> Seq({"partial", "final", "error"})]
    BY DEF TypeOK, ReadersOK, QueuesOK
\* What has to be shown of the reader that steps; the others stand where they stood.
<1>1. ASSUME \A q \in Readers \ {r} : rpc'[q] = rpc[q] /\ to_cancel'[q] = to_cancel[q],
             \A id \in waiting_task_ids' : id \in waiting_task_ids \/ (id \in IdsOf(r) /\ rpc'[r] \in {"post", "recv", "stop"}),
             \A id \in TaskIds : queue_results'[id] # <<>> => queue_results[id] # <<>>,
             \A id \in waiting_task_ids \ IdsOf(r) : id \in waiting_task_ids',
             \A id \in IdsOf(r) : id \in waiting_task_ids' /\ rpc[r] \in {"post", "recv", "stop"}
                => rpc'[r] \in {"post", "recv", "stop"},
             \A id \in IdsOf(r) : Collects(r, id) /\ queue_results'[id] # <<>> => Collects(r, id)'
      PROVE  WaitedFor' /\ ResultsAwaited'
  <2>1. WaitedFor'
    BY <1>1 DEF WaitedFor
  <2>2. ASSUME NEW id \in TaskIds, queue_results'[id] # <<>>
        PROVE  \E q \in Readers : id \in IdsOf(q) /\ Collects(q, id)'
    <3>1. PICK q \in Readers : id \in IdsOf(q) /\ Collects(q, id)
      BY <1>1, <2>2 DEF ResultsAwaited
    <3>2. CASE q = r
      BY <1>1, <2>2, <3>1, <3>2
    <3>3. CASE q # r
      <4>1. id \notin IdsOf(r)
        BY <3>1, <3>3, IdsProperties
      <4>2. Collects(q, id)'
        BY <1>1, <3>1, <3>3, <4>1 DEF Collects
      <4> QED BY <3>1, <4>2
    <3> QED BY <3>2, <3>3
  <2> QED BY <2>1, <2>2 DEF ResultsAwaited
<1>2. CASE AddWaitingTaskIds(r)
  <2>1. /\ rpc[r] = "start" /\ rpc' = [rpc EXCEPT ![r] = "post"]
        /\ waiting_task_ids' = waiting_task_ids \cup IdsOf(r)
        /\ UNCHANGED <<queue_results, to_cancel>>
    BY <1>2 DEF AddWaitingTaskIds
  <2>2. rpc'[r] = "post" /\ \A q \in Readers \ {r} : rpc'[q] = rpc[q]
    BY <1>0, <2>1
  <2>3. \A id : ~Collects(r, id)
    BY <2>1 DEF Collects
  <2> QED BY <1>1, <2>1, <2>2, <2>3
<1>3. CASE PostTasks(r) \/ Receive(r) \/ Finish(r) \/ HangUp(r)
  <2>1. /\ rpc[r] \in {"post", "recv"} /\ UNCHANGED <<waiting_task_ids, to_cancel>>
        /\ rpc' = rpc \/ \E phase \in {"recv", "stop"} : rpc' = [rpc EXCEPT ![r] = phase]
    BY <1>3 DEF PostTasks, Receive, Finish, HangUp, results
  <2>2. rpc'[r] \in {"post", "recv", "stop"} /\ \A q \in Readers \ {r} : rpc'[q] = rpc[q]
    BY <1>0, <2>1
  <2>3. \A id \in TaskIds : queue_results'[id] # <<>> => queue_results[id] # <<>>
    <3>1. CASE UNCHANGED queue_results
      BY <3>1
    <3>2. CASE Receive(r)
      <4>1. PICK x \in IdsOf(r) : queue_results[x] # <<>> /\ queue_results' = [queue_results EXCEPT ![x] = Tail(queue_results[x])]
        BY <3>2 DEF Receive
      <4> QED BY <1>0, <4>1
    <3> QED BY <1>3, <3>1, <3>2 DEF PostTasks, Finish, HangUp, results
  <2>4. \A id : Collects(r, id) => Collects(r, id)'
    BY <2>1, <2>2 DEF Collects
  <2> QED BY <1>1, <2>1, <2>2, <2>3, <2>4
<1>4. CASE Stop(r)
  <2>1. /\ rpc[r] = "stop" /\ waiting_task_ids' = waiting_task_ids \ IdsOf(r)
        /\ to_cancel' = [to_cancel EXCEPT ![r] = {}]
        /\ rpc' = [rpc EXCEPT ![r] = IF HasNext(r) THEN "drop" ELSE "done"]
        /\ UNCHANGED queue_results
    BY <1>4 DEF Stop
  <2>2. /\ rpc'[r] = IF HasNext(r) THEN "drop" ELSE "done"
        /\ to_cancel'[r] = {}
        /\ \A q \in Readers \ {r} : rpc'[q] = rpc[q] /\ to_cancel'[q] = to_cancel[q]
    BY <1>0, <2>1
  <2>3. \A id \in IdsOf(r) : queue_results'[id] # <<>> => Collects(r, id)'
    <3>1. CASE HasNext(r)
      BY <2>2, <3>1 DEF Collects
    <3>2. CASE ~HasNext(r)
      BY <2>1, <3>2, AllReceived
    <3> QED BY <3>1, <3>2
  <2> QED BY <1>1, <2>1, <2>2, <2>3
<1>5. CASE DropResults(r)
  <2>1. PICK x \in IdsOf(r) \ to_cancel[r] :
           /\ waiting_task_ids' = waiting_task_ids \ {x}
           /\ queue_results' = [queue_results EXCEPT ![x] = <<>>]
           /\ to_cancel' = [to_cancel EXCEPT ![r] = to_cancel[r] \cup {x}]
           /\ rpc' = IF to_cancel[r] \cup {x} = IdsOf(r) THEN [rpc EXCEPT ![r] = "cancel"] ELSE rpc
    BY <1>5 DEF DropResults
  <2>2. rpc[r] = "drop" /\ x \in TaskIds
    BY <1>5, IdsOfType DEF DropResults
  <2>3. /\ to_cancel'[r] = to_cancel[r] \cup {x}
        /\ rpc'[r] = IF to_cancel[r] \cup {x} = IdsOf(r) THEN "cancel" ELSE "drop"
        /\ \A q \in Readers \ {r} : rpc'[q] = rpc[q] /\ to_cancel'[q] = to_cancel[q]
    BY <1>0, <2>1, <2>2
  <2>4. \A id \in TaskIds : queue_results'[id] = IF id = x THEN <<>> ELSE queue_results[id]
    BY <1>0, <2>1
  <2>5. ASSUME NEW id \in IdsOf(r), Collects(r, id), queue_results'[id] # <<>>
        PROVE  Collects(r, id)'
    <3>1. id \in TaskIds /\ id # x
      BY <2>4, <2>5, IdsOfType
    <3>2. id \notin to_cancel[r] \cup {x}
      BY <2>2, <2>5, <3>1 DEF Collects
    <3> QED BY <2>3, <3>2 DEF Collects
  <2> QED BY <1>1, <2>1, <2>2, <2>3, <2>4, <2>5
<1>6. CASE PostCancel(r)
  <2>1. /\ rpc[r] = "cancel" /\ UNCHANGED results
        /\ \E id \in to_cancel[r] :
              /\ to_cancel' = [to_cancel EXCEPT ![r] = to_cancel[r] \ {id}]
              /\ rpc' = rpc \/ rpc' = [rpc EXCEPT ![r] = "done"]
    BY <1>6 DEF PostCancel
  <2>2. \A q \in Readers \ {r} : rpc'[q] = rpc[q] /\ to_cancel'[q] = to_cancel[q]
    BY <1>0, <2>1
  <2>3. \A id : ~Collects(r, id)
    BY <2>1 DEF Collects
  <2> QED BY <1>1, <2>1, <2>2, <2>3 DEF results
<1> QED BY <1>2, <1>3, <1>4, <1>5, <1>6 DEF ReaderStep

\* A result is queued only while its reader will still take or drop it: between the
\* two halves of stop() there are results that nobody waits for, but none is added
\* then and none is left when the reader is done.
THEOREM EveryResultAwaited == Spec => []ResultsAwaited
<1>1. Init => WaitedFor /\ ResultsAwaited
    BY DEF Init, WaitedFor, ResultsAwaited
<1>2. ASSUME TypeOK, TasksInv, WaitedFor, ResultsAwaited, [Next]_vars
      PROVE  WaitedFor' /\ ResultsAwaited'
  <2>1. CASE UNCHANGED vars
    BY <1>2, <2>1 DEF vars, results, readers, WaitedFor, ResultsAwaited, Collects
  <2>2. CASE MainStep
    BY <1>2, <2>2, MainAwaited
  <2>3. ASSUME NEW r \in Readers, ReaderStep(r) \/ HangUp(r)
        PROVE  WaitedFor' /\ ResultsAwaited'
    BY <1>2, <2>3, ReaderAwaited DEF TasksInv
  <2> QED BY <1>2, <2>1, <2>2, <2>3 DEF Next, Quiet
<1> QED BY <1>1, <1>2, TypeCorrect, TasksAlways, PTL DEF Spec

\* A set with at most one element counts at most one.
LEMMA AtMostOne ==
    ASSUME NEW S, \A x, y \in S : x = y
    PROVE  Cardinality(S) \in {0, 1} /\ (S = {} <=> Cardinality(S) = 0)
<1>1. CASE S = {}
  <2>1. Cardinality(S) = 0
    BY <1>1, FS_EmptySet
  <2> QED BY <1>1, <2>1
<1>2. CASE S # {}
  <2>1. PICK x : S = {x}
    BY <1>2
  <2>2. Cardinality({x}) = 1
    BY FS_Singleton
  <2>3. Cardinality(S) = 1
    BY <2>1, <2>2
  <2> QED BY <1>2, <2>3
<1> QED BY <1>1, <1>2

\* A task is moved, never copied: one queue at one position, the main thread's
\* hands, or one slot (start_loop, defer, pop_deferred_task, launch).
THEOREM TasksMovedNotCopied == Spec => []OnePlacePerTask
<1>1. ASSUME TypeOK, TasksInv PROVE OnePlacePerTask
  <2> SUFFICES ASSUME NEW id \in TaskIds
               PROVE  Cardinality({i \in DOMAIN queue_tasks : queue_tasks[i] = Work(id)})
                      + Cardinality({i \in DOMAIN queue_tasks_deferred : queue_tasks_deferred[i] = Work(id)})
                      + Cardinality({s \in Slots : slot[s].task = id})
                      + (IF InHand(id) THEN 1 ELSE 0) <= 1
    BY DEF OnePlacePerTask
  <2> DEFINE Q == {i \in DOMAIN queue_tasks : queue_tasks[i] = Work(id)}
             D == {i \in DOMAIN queue_tasks_deferred : queue_tasks_deferred[i] = Work(id)}
             S == {s \in Slots : slot[s].task = id}
  <2>1. QueuesOnce /\ SlotsOnce /\ Single(id)
    BY <1>1 DEF TasksInv, PlacesInv
  <2>2. Work(id).type = "work" /\ id # NoTask
    BY WorkEntries, ReadersAssumption
  <2>3. (\A x, y \in Q : x = y) /\ (\A x, y \in D : x = y) /\ (\A x, y \in S : x = y)
    BY <2>1, <2>2 DEF QueuesOnce, Once, SlotsOnce
  <2>4. (Q # {} <=> InQueue(id)) /\ (D # {} <=> InDeferred(id)) /\ (S # {} <=> InSlot(id))
    BY DEF InQueue, InDeferred, InSlot
  <2> HIDE DEF Q, D, S
  <2>5. /\ Cardinality(Q) \in {0, 1} /\ (Q = {} <=> Cardinality(Q) = 0)
        /\ Cardinality(D) \in {0, 1} /\ (D = {} <=> Cardinality(D) = 0)
        /\ Cardinality(S) \in {0, 1} /\ (S = {} <=> Cardinality(S) = 0)
    BY <2>3, AtMostOne
  <2>6. Cardinality(Q) + Cardinality(D) + Cardinality(S) + (IF InHand(id) THEN 1 ELSE 0) <= 1
    BY <2>1, <2>4, <2>5 DEF Single
  <2> QED BY <2>6 DEF Q, D, S
<1> QED BY <1>1, TypeCorrect, TasksAlways, PTL

\* A task is answered at most once, and is over when it is: no second result can
\* hit "duplicate result received" in wait_for_all().
THEOREM TasksAnsweredOnce == Spec => []AnsweredOnce
<1>1. ASSUME TypeOK, TasksInv PROVE AnsweredOnce
  <2> SUFFICES ASSUME NEW id \in TaskIds PROVE Answers(id) <= 1 /\ (Answers(id) = 1 => ~Alive(id))
    BY DEF AnsweredOnce
  <2> DEFINE A == {i \in DOMAIN queue_results[id] : queue_results[id][i] # "partial"}
             R == {r \in Readers : id \in received[r]}
  <2>1. /\ \A i \in A : i = Len(queue_results[id]) /\ ~Open(id)
        /\ \A r \in R : id \in IdsOf(r) /\ queue_results[id] = <<>> /\ ~Open(id)
    BY <1>1 DEF TasksInv, AnswersInv
  <2>2. (\A x, y \in A : x = y) /\ (\A x, y \in R : x = y)
    BY <2>1, IdsProperties
  <2>3. R # {} => A = {}
    BY <2>1
  <2>4. A # {} \/ R # {} => ~Alive(id)
    BY <2>1 DEF Open
  <2> HIDE DEF A, R
  <2>5. /\ Cardinality(A) \in {0, 1} /\ (A = {} <=> Cardinality(A) = 0)
        /\ Cardinality(R) \in {0, 1} /\ (R = {} <=> Cardinality(R) = 0)
    BY <2>2, AtMostOne
  <2>6. Answers(id) = Cardinality(A) + Cardinality(R)
    BY DEF Answers, A, R
  <2> QED BY <2>3, <2>4, <2>5, <2>6
<1> QED BY <1>1, TypeCorrect, TasksAlways, PTL

-----------------------------------------------------------------------------
(***************************************************************************)
(* One pass of update_slots(): what a batch is made of, for every load,    *)
(* number of slots and batch size.                                         *)
(***************************************************************************)

\* Between two passes no slot has an output to consume; a sweep leaves none behind.
OutputsConsumed ==
    /\ pc \in {"pop", "handle", "update", "wait"} => \A s \in Slots : ~Sampled(s)
    /\ pc = "generate" => \A s \in Slots : s >= cursor => ~Sampled(s)
    /\ pc = "decode" => cursor = 0
    /\ pc \in {"post", "abort"} => \A s \in Slots : s < cursor => ~Sampled(s)

\* The slot that opened the batch keeps its task: a sweep over generating slots
\* has left it behind, a sweep over prompts releases only slots it has not filled.
HeadInBatch ==
    /\ pc = "generate" => slot_batched < cursor
    /\ pc \in {"generate", "prompt", "decode"} /\ slot_batched # NoSlot =>
          slot[slot_batched].state \in {"GENERATING", "PROCESSING_PROMPT", "DONE_PROMPT"}

\* Whatever is sampled after the decode is of the class that opened the batch.
OutputsOfOneClass ==
    pc \in {"generate", "prompt", "decode"} =>
        \A s \in Slots : Sampled(s) =>
            /\ n_tokens > 0 /\ slot_batched # NoSlot
            /\ Class[slot[s].task] = Class[slot[slot_batched].task]

\* A prompt that is under way is not empty.
PromptsNotEmpty ==
    \A s \in Slots : slot[s].state = "PROCESSING_PROMPT" => NPrompt[slot[s].task] > 0

BatchInv == OutputsConsumed /\ HeadInBatch /\ OutputsOfOneClass /\ PromptsNotEmpty

\* No batch, no output: the invariant holds initially.
LEMMA BatchInit == Init => BatchInv
BY SlotsAssumption DEF Init, BatchInv, OutputsConsumed, HeadInBatch, OutputsOfOneClass,
   PromptsNotEmpty, Sampled, Slots

\* The invariant depends on the main thread's variables only.
LEMMA BatchStutter ==
    ASSUME BatchInv, UNCHANGED <<pc, cursor, slot, batch>>
    PROVE  BatchInv'
BY DEF BatchInv, OutputsConsumed, HeadInBatch, OutputsOfOneClass, PromptsNotEmpty, Sampled, batch

\* Release changes one slot, and leaves nothing to sample there.
LEMMA ReleaseEffect ==
    ASSUME SlotsOK, NEW s \in Slots, NEW b, Release(s, b)
    PROVE  /\ slot'[s].state = "IDLE"
           /\ \A u \in Slots : u # s => slot'[u] = slot[u]
BY DEF SlotsOK, Release, Vacated

\* A sweep goes to the next slot or ends after the last one.
LEMMA AdvanceEffect ==
    ASSUME MainOK, NEW phase, Advance(phase)
    PROVE  \/ pc' = pc /\ cursor' = cursor + 1
           \/ pc' = phase /\ cursor' = 0 /\ \A s \in Slots : s < cursor \/ s = cursor
BY SlotsAssumption DEF MainOK, Advance, Slots

\* Between two passes: no slot becomes one with an output to consume.
LEMMA BetweenPasses ==
    ASSUME TypeOK, BatchInv, NEW n \in {"pop", "handle", "update", "wait"}, pc' = n,
           \A s \in Slots : ~Sampled(s),
           \A s \in Slots : slot'[s] = slot[s] \/ slot'[s].state \in {"IDLE", "STARTED", "WAIT_OTHER"}
    PROVE  BatchInv'
BY DEF BatchInv, OutputsConsumed, HeadInBatch, OutputsOfOneClass, PromptsNotEmpty, Sampled

\* Draining the task queue between two passes keeps the invariant.
LEMMA BatchBetween ==
    ASSUME TypeOK, BatchInv,
           \/ PopTask \/ DeferTask \/ LaunchTask \/ SlotAction \/ AnswerTask \/ CancelTask
           \/ SkipNextResponse \/ DecodeNothing \/ WaitForTask
    PROVE  BatchInv'
<1>1. SlotsOK /\ current \in Entries \cup {NoEntry}
    BY DEF TypeOK, MainOK
<1>2. pc # "decode" => \A s \in Slots : ~Sampled(s)
    BY DEF BatchInv, OutputsConsumed, PopTask, DeferTask, LaunchTask, SlotAction, AnswerTask,
           CancelTask, SkipNextResponse, DecodeNothing, WaitForTask, Handling
<1>3. CASE PopTask \/ DeferTask \/ SlotAction \/ AnswerTask \/ SkipNextResponse \/ WaitForTask
  <2>1. pc # "decode" /\ UNCHANGED slot /\ pc' \in {"pop", "handle", "update", "wait"}
    BY <1>3 DEF PopTask, DeferTask, SlotAction, AnswerTask, SkipNextResponse, WaitForTask, Handling, Handled
  <2> QED BY <1>2, <2>1, BetweenPasses
<1>4. CASE LaunchTask
  <2>1. PICK s \in Slots : slot' = Launched(current.id, s) \/ UNCHANGED slot
    <3>1. current.id \in TaskIds
      BY <1>1, <1>4, EntriesType DEF LaunchTask, Handling, NoEntry
    <3>2. AvailableSlots(current.id) \subseteq Slots
      BY <3>1, TasksAssumption, SlotsAssumption DEF AvailableSlots, SlotById, Slots
    <3> QED BY <1>4, <3>2 DEF LaunchTask
  <2>2. \A u \in Slots : slot'[u] = slot[u] \/ slot'[u].state \in {"STARTED", "WAIT_OTHER"}
    <3>1. \A rec \in SlotRecord : \A x, st : Occupied(rec, x, st).state = st
      BY DEF Occupied, SlotRecord
    <3>2. \A u \in Slots : slot[u] \in SlotRecord
      BY <1>1 DEF SlotsOK
    <3> QED BY <2>1, <3>1, <3>2 DEF Launched
  <2>3. pc # "decode" /\ pc' = "pop"
    BY <1>4 DEF LaunchTask, Handling, Handled
  <2> QED BY <1>2, <2>2, <2>3, BetweenPasses
<1>5. CASE CancelTask
  <2>1. pc # "decode" /\ pc' = "pop"
    BY <1>5 DEF CancelTask, Handled
  <2>2. UNCHANGED slot \/ \E s \in Slots : Release(s, slot[s].i_batch)
    BY <1>5 DEF CancelTask
  <2>3. \A u \in Slots : slot'[u] = slot[u] \/ slot'[u].state = "IDLE"
    BY <1>1, <2>2, ReleaseEffect
  <2> QED BY <1>2, <2>1, <2>3, BetweenPasses
<1>6. CASE DecodeNothing
  <2>1. UNCHANGED slot /\ pc' = "wait" /\ \A s \in Slots : ~Sampled(s)
    BY <1>6 DEF DecodeNothing, BatchInv, OutputsOfOneClass
  <2> QED BY <2>1, BetweenPasses
<1> QED BY <1>3, <1>4, <1>5, <1>6

\* A new pass starts with an empty batch.
LEMMA BatchUpdate ==
    ASSUME TypeOK, BatchInv, UpdateSlots
    PROVE  BatchInv'
<1>1. UNCHANGED slot /\ (\A s \in Slots : ~Sampled(s)) /\ 0 \in Int
    BY DEF UpdateSlots, BatchInv, OutputsConsumed
<1>2. CASE pc' = "wait"
    BY <1>1, <1>2, BetweenPasses
<1>3. CASE pc' = "generate" /\ slot_batched' = NoSlot /\ cursor' = 0
    BY <1>1, <1>3 DEF BatchInv, OutputsConsumed, HeadInBatch, OutputsOfOneClass, PromptsNotEmpty,
                      Sampled, NoSlot
<1> QED BY <1>2, <1>3 DEF UpdateSlots

\* decode() ends the sweep over the prompts; no output is consumed yet.
LEMMA BatchDecode ==
    ASSUME TypeOK, BatchInv, DecodeOk \/ DecodeFails
    PROVE  BatchInv'
<1>0. MainOK /\ SlotsOK
    BY DEF TypeOK
<1>1. pc = "decode" /\ pc' \in {"post", "abort"} /\ UNCHANGED <<cursor, batch>>
    BY DEF DecodeOk, DecodeFails
<1>2. cursor' = 0 /\ \A s \in Slots : ~ s < cursor'
    BY <1>1, SlotsAssumption DEF BatchInv, OutputsConsumed, Slots
<1>3. \A s \in Slots : slot'[s] = slot[s] \/ slot'[s].state = "DONE_PROMPT"
  <2>1. \A rec \in SlotRecord : Copied(rec).state = "DONE_PROMPT"
    BY DEF Copied, SlotRecord
  <2> QED BY <1>0, <2>1 DEF SlotsOK, DecodeOk, DecodeFails
<1>4. OutputsConsumed' /\ HeadInBatch' /\ OutputsOfOneClass'
    BY <1>1, <1>2 DEF OutputsConsumed, HeadInBatch, OutputsOfOneClass
<1>5. PromptsNotEmpty'
    BY <1>3 DEF BatchInv, PromptsNotEmpty
<1> QED BY <1>4, <1>5 DEF BatchInv

\* A sweep over generating slots: the cursor is beyond every slot in the batch.
LEMMA BatchGenerate ==
    ASSUME TypeOK, BatchInv, AddSampledToken
    PROVE  BatchInv'
<1>0. MainOK /\ SlotsOK /\ cursor \in Slots /\ cursor \in Nat /\ pc = "generate"
    BY SlotsAssumption DEF TypeOK, MainOK, Slots, AddSampledToken
<1>1. PICK phase \in {"prompt", "decode"} : Advance(phase)
    BY DEF AddSampledToken, AfterGenerating
<1>2. /\ slot_batched < cursor /\ slot_batched \in Slots \cup {NoSlot}
      /\ \A s \in Slots : s >= cursor => ~Sampled(s)
    BY <1>0 DEF BatchInv, HeadInBatch, OutputsConsumed, MainOK
<1>3. \/ pc' = pc /\ cursor' = cursor + 1
      \/ pc' = phase /\ cursor' = 0 /\ \A s \in Slots : s < cursor \/ s = cursor
    BY <1>0, <1>1, AdvanceEffect
<1>4. \A s \in Slots : s \in Int
    BY DEF Slots
\* What the step does to the slots: all but the one at the cursor stay as they are.
<1>5. ASSUME \A s \in Slots : s # cursor => slot'[s] = slot[s],
             slot_batched' < cursor + 1, slot_batched' \in Slots \cup {NoSlot},
             slot_batched' # NoSlot =>
                 slot'[slot_batched'].state \in {"GENERATING", "PROCESSING_PROMPT", "DONE_PROMPT"},
             slot'[cursor].state # "PROCESSING_PROMPT" \/ slot'[cursor] = slot[cursor],
             \A s \in Slots : Sampled(s)' =>
                 /\ s <= cursor
                 /\ n_tokens' > 0 /\ slot_batched' # NoSlot
                 /\ Class[slot'[s].task] = Class[slot'[slot_batched'].task]
      PROVE  BatchInv'
  <2>1. OutputsConsumed'
    <3>1. CASE pc' = phase /\ cursor' = 0
      BY <3>1 DEF OutputsConsumed
    <3>2. CASE pc' = pc /\ cursor' = cursor + 1
      <4>1. \A s \in Slots : s >= cursor' => ~Sampled(s)'
        BY <1>0, <1>4, <1>5, <3>2
      <4> QED BY <1>0, <3>2, <4>1 DEF OutputsConsumed
    <3> QED BY <1>3, <3>1, <3>2
  <2>2. HeadInBatch'
    BY <1>0, <1>3, <1>5 DEF HeadInBatch
  <2>3. OutputsOfOneClass'
    BY <1>5 DEF OutputsOfOneClass
  <2>4. PromptsNotEmpty'
    BY <1>5 DEF BatchInv, PromptsNotEmpty
  <2> QED BY <2>1, <2>2, <2>3, <2>4 DEF BatchInv
<1>6. OutputsOfOneClass /\ HeadInBatch
    BY DEF BatchInv
<1>7. CASE UNCHANGED <<slot, batch>>
  <2>1. \A s \in Slots : Sampled(s) => s < cursor
    BY <1>0, <1>2, <1>4
  <2>2. \A s \in Slots : Sampled(s)' <=> Sampled(s)
    BY <1>7 DEF Sampled
  <2> QED BY <1>0, <1>2, <1>4, <1>5, <1>6, <1>7, <2>1, <2>2 DEF OutputsOfOneClass, HeadInBatch, batch, NoSlot
<1>8. CASE /\ slot[cursor].state = "GENERATING" /\ Batchable(cursor)
           /\ n_tokens' = n_tokens + 1
           /\ slot' = [slot EXCEPT ![cursor].i_batch = TRUE]
           /\ OpenBatch(cursor)
  <2>1. /\ \A s \in Slots : s # cursor => slot'[s] = slot[s]
        /\ slot'[cursor].state = "GENERATING" /\ slot'[cursor].task = slot[cursor].task
    BY <1>0, <1>8 DEF SlotsOK, SlotRecord
  <2>2. slot_batched' = IF slot_batched = NoSlot THEN cursor ELSE slot_batched
    BY <1>8 DEF OpenBatch
  <2>3. slot_batched' # NoSlot /\ slot_batched' \in Slots /\ slot_batched' < cursor + 1
    BY <1>0, <1>2, <1>4, <2>2 DEF NoSlot
  <2>4. slot'[slot_batched'].state \in {"GENERATING", "PROCESSING_PROMPT", "DONE_PROMPT"}
    BY <1>0, <1>2, <1>6, <2>1, <2>2 DEF HeadInBatch
  <2>5. Class[slot'[cursor].task] = Class[slot'[slot_batched'].task]
    BY <1>0, <1>2, <1>8, <2>1, <2>2 DEF Batchable
  <2>6. n_tokens' > 0
    BY <1>0, <1>8 DEF MainOK
  <2>7. ASSUME NEW s \in Slots, Sampled(s)'
        PROVE  s <= cursor /\ Class[slot'[s].task] = Class[slot'[slot_batched'].task]
    <3>1. CASE s = cursor
      BY <1>0, <2>5, <3>1
    <3>2. CASE s # cursor
      <4>1. Sampled(s) /\ s < cursor
        BY <1>0, <1>2, <1>4, <2>1, <2>7, <3>2 DEF Sampled
      <4>2. slot_batched # NoSlot /\ Class[slot[s].task] = Class[slot[slot_batched].task]
        BY <1>0, <1>6, <4>1 DEF OutputsOfOneClass
      <4> QED BY <1>0, <1>2, <1>4, <2>1, <2>2, <3>2, <4>1, <4>2
    <3> QED BY <3>1, <3>2
  <2> QED BY <1>5, <2>1, <2>3, <2>4, <2>6, <2>7
<1>9. CASE Release(cursor, slot[cursor].i_batch) /\ UNCHANGED batch
  <2>1. slot'[cursor].state = "IDLE" /\ \A s \in Slots : s # cursor => slot'[s] = slot[s]
    BY <1>0, <1>9, ReleaseEffect
  <2>2. slot_batched # cursor /\ UNCHANGED <<slot_batched, n_tokens>>
    BY <1>0, <1>2, <1>4, <1>9 DEF batch
  <2>3. \A s \in Slots : Sampled(s)' => s # cursor /\ Sampled(s)
    BY <2>1 DEF Sampled
  <2>4. \A s \in Slots : Sampled(s)' => s < cursor
    BY <1>0, <1>2, <1>4, <2>3
  <2>5. slot_batched # NoSlot => slot'[slot_batched] = slot[slot_batched]
    BY <1>2, <2>1, <2>2
  <2>6. slot_batched' < cursor + 1
    BY <1>0, <1>2, <1>4, <2>2 DEF NoSlot
  <2> QED
    BY <1>0, <1>2, <1>4, <1>5, <1>6, <2>1, <2>2, <2>3, <2>4, <2>5, <2>6 DEF OutputsOfOneClass, HeadInBatch
<1> QED BY <1>7, <1>8, <1>9 DEF AddSampledToken, FailSlot

\* A sweep over prompts, one slot at a time.
LEMMA PromptSweep ==
    ASSUME TypeOK, BatchInv, pc = "prompt", Advance("decode"),
           \A s \in Slots : s # cursor => slot'[s] = slot[s],
           HeadInBatch /\ slot_batched' # NoSlot =>
               slot'[slot_batched'].state \in {"GENERATING", "PROCESSING_PROMPT", "DONE_PROMPT"},
           \A s \in Slots : Sampled(s)' =>
               /\ n_tokens' > 0 /\ slot_batched' # NoSlot
               /\ Class[slot'[s].task] = Class[slot'[slot_batched'].task],
           slot'[cursor].state = "PROCESSING_PROMPT" => NPrompt[slot'[cursor].task] > 0
    PROVE  BatchInv'
<1>0. MainOK
    BY DEF TypeOK
<1>1. \/ pc' = "prompt"
      \/ pc' = "decode" /\ cursor' = 0
    BY <1>0, AdvanceEffect
<1> QED BY <1>1 DEF BatchInv, OutputsConsumed, HeadInBatch, OutputsOfOneClass, PromptsNotEmpty

\* A slot that is skipped leaves the batch as it is.
LEMMA BatchSkip ==
    ASSUME TypeOK, BatchInv, SkipPrompt
    PROVE  BatchInv'
<1>1. pc = "prompt" /\ Advance("decode") /\ UNCHANGED <<slot, batch>> /\ cursor \in Slots
    BY DEF SkipPrompt, TypeOK, MainOK
<1>2. \A s \in Slots : Sampled(s)' <=> Sampled(s)
    BY <1>1 DEF Sampled
<1> QED
  BY <1>1, <1>2, PromptSweep DEF BatchInv, HeadInBatch, OutputsOfOneClass, PromptsNotEmpty, batch

\* A rejected prompt has not started: its slot is not the one that opened the batch.
LEMMA BatchReject ==
    ASSUME TypeOK, BatchInv, RejectPrompt
    PROVE  BatchInv'
<1>0. SlotsOK /\ cursor \in Slots /\ slot_batched \in Slots \cup {NoSlot}
    BY DEF TypeOK, MainOK
<1>1. /\ pc = "prompt" /\ Advance("decode") /\ UNCHANGED batch
      /\ slot[cursor].state = "STARTED" /\ Release(cursor, slot[cursor].i_batch)
    BY DEF RejectPrompt
<1>2. slot'[cursor].state = "IDLE" /\ \A s \in Slots : s # cursor => slot'[s] = slot[s]
    BY <1>0, <1>1, ReleaseEffect
<1>3. HeadInBatch /\ OutputsOfOneClass
    BY DEF BatchInv
<1>4. slot_batched # NoSlot => slot_batched # cursor /\ slot'[slot_batched] = slot[slot_batched]
    BY <1>0, <1>1, <1>2, <1>3 DEF HeadInBatch
<1>5. \A s \in Slots : Sampled(s)' => s # cursor /\ Sampled(s) /\ slot'[s] = slot[s]
    BY <1>2 DEF Sampled
<1>6. UNCHANGED <<slot_batched, n_tokens>>
    BY <1>1 DEF batch
<1> QED
  BY <1>1, <1>2, <1>3, <1>4, <1>5, <1>6, PromptSweep DEF HeadInBatch, OutputsOfOneClass

\* Tokens of a prompt join an empty batch, or one of their class.
LEMMA BatchAdd ==
    ASSUME TypeOK, BatchInv, AddPromptTokens
    PROVE  BatchInv'
<1> DEFINE id == slot[cursor].task
<1>0. SlotsOK /\ MainOK /\ cursor \in Slots /\ n_tokens \in Nat /\ slot_batched \in Slots \cup {NoSlot}
    BY DEF TypeOK, MainOK
<1>1. /\ pc = "prompt" /\ Advance("decode") /\ Batchable(cursor)
      /\ slot[cursor].state \in {"STARTED", "PROCESSING_PROMPT"}
      /\ slot[cursor].state = "STARTED" => NPrompt[id] # 0
    BY DEF AddPromptTokens, Fillable, Pending
<1>2. slot[cursor] \in SlotRecord /\ id \in TaskIds
    BY <1>0, <1>1 DEF SlotsOK, SlotRecord, Idle
<1>3. NPrompt[id] \in Nat /\ NPrompt[id] > 0
    BY <1>0, <1>1, <1>2, TasksAssumption DEF BatchInv, PromptsNotEmpty
<1>4. HeadInBatch /\ OutputsOfOneClass
    BY DEF BatchInv
<1>5. ~Sampled(cursor)
    BY <1>1 DEF Sampled
<1>6. CASE /\ slot' = [slot EXCEPT ![cursor].state = "PROCESSING_PROMPT"]
           /\ UNCHANGED batch
  <2>1. /\ slot'[cursor].state = "PROCESSING_PROMPT" /\ slot'[cursor].task = id
        /\ \A s \in Slots : s # cursor => slot'[s] = slot[s]
    BY <1>0, <1>2, <1>6 DEF SlotsOK, SlotRecord
  <2>2. \A s \in Slots : Sampled(s)' => s # cursor /\ Sampled(s) /\ slot'[s] = slot[s]
    BY <2>1 DEF Sampled
  <2>3. \A s \in Slots : slot'[s].task = slot[s].task
    BY <2>1
  <2>4. UNCHANGED <<slot_batched, n_tokens>>
    BY <1>6 DEF batch
  <2>5. slot_batched # NoSlot =>
            slot'[slot_batched].state \in {"GENERATING", "PROCESSING_PROMPT", "DONE_PROMPT"}
    BY <1>0, <1>1, <1>4, <2>1 DEF HeadInBatch
  <2>6. \A s \in Slots : Sampled(s)' =>
            /\ n_tokens' > 0 /\ slot_batched' # NoSlot
            /\ Class[slot'[s].task] = Class[slot'[slot_batched'].task]
    BY <1>0, <1>1, <1>4, <2>2, <2>3, <2>4 DEF OutputsOfOneClass
  <2> QED BY <1>1, <1>3, <2>1, <2>4, <2>5, <2>6, PromptSweep
<1>7. CASE /\ \E n_past, n \in Nat, done \in BOOLEAN :
                /\ n > 0 /\ n_tokens' = n_tokens + n
                /\ slot' = [slot EXCEPT ![cursor] = Filled(@, n_past + n, done)]
           /\ OpenBatch(cursor)
  <2>1. PICK n_past \in Nat, n \in Nat, done \in BOOLEAN :
           /\ n > 0 /\ n_tokens' = n_tokens + n
           /\ slot' = [slot EXCEPT ![cursor] = Filled(slot[cursor], n_past + n, done)]
    BY <1>0, <1>7 DEF SlotsOK
  <2>2. \A m \in Nat : /\ Filled(slot[cursor], m, done).task = id
                       /\ Filled(slot[cursor], m, done).state \in {"PROCESSING_PROMPT", "DONE_PROMPT"}
    BY <1>2 DEF Filled, SlotRecord
  <2>3. /\ slot'[cursor].state \in {"PROCESSING_PROMPT", "DONE_PROMPT"} /\ slot'[cursor].task = id
        /\ \A s \in Slots : s # cursor => slot'[s] = slot[s]
    BY <1>0, <2>1, <2>2 DEF SlotsOK
  <2>4. slot_batched' = IF slot_batched = NoSlot THEN cursor ELSE slot_batched
    BY <1>7 DEF OpenBatch
  <2>5. \A s \in Slots : slot'[s].task = slot[s].task
    BY <2>3
  <2>6. slot_batched' \in Slots /\ slot_batched' # NoSlot
    BY <1>0, <2>4, SlotsAssumption DEF Slots, NoSlot
  <2>7. slot'[slot_batched'].state \in {"GENERATING", "PROCESSING_PROMPT", "DONE_PROMPT"}
    BY <1>0, <1>4, <1>1, <2>3, <2>4 DEF HeadInBatch
  <2>8. Class[id] = Class[slot'[slot_batched'].task]
    BY <1>0, <1>1, <2>4, <2>5 DEF Batchable
  <2>9. ASSUME NEW s \in Slots, Sampled(s)'
        PROVE  Class[slot'[s].task] = Class[slot'[slot_batched'].task]
    <3>1. CASE s = cursor
      BY <2>3, <2>8, <3>1
    <3>2. CASE s # cursor
      <4>1. Sampled(s)
        BY <2>3, <2>9, <3>2 DEF Sampled
      <4>2. slot_batched # NoSlot /\ Class[slot[s].task] = Class[slot[slot_batched].task]
        BY <1>1, <1>4, <4>1 DEF OutputsOfOneClass
      <4> QED BY <1>0, <2>4, <2>5, <4>2
    <3> QED BY <3>1, <3>2
  <2>10. n_tokens' > 0
    BY <1>0, <2>1
  <2> QED BY <1>1, <1>3, <2>3, <2>6, <2>7, <2>9, <2>10, PromptSweep
<1>8. n_tokens \in Nat /\ NBatch \in Nat
    BY <1>0, SlotsAssumption
<1>9. /\ \A m \in Nat, k \in Nat : (m + k = NPrompt[id]) \in BOOLEAN
      /\ \A m \in IF slot[cursor].state = "STARTED" /\ CanSplit(id)
                  THEN 0 .. NPrompt[id] - 1 ELSE {slot[cursor].n_prompt} : m \in Nat
      /\ \A k \in IF CanSplit(id) THEN 1 .. NBatch - n_tokens ELSE {NPrompt[id]} : k \in Nat /\ k > 0
    BY <1>2, <1>3, <1>8 DEF SlotRecord
<1>10. CASE /\ OpenBatch(cursor)
            /\ \E n_past \in IF slot[cursor].state = "STARTED" /\ CanSplit(id)
                             THEN 0 .. NPrompt[id] - 1 ELSE {slot[cursor].n_prompt} :
               \E n \in IF CanSplit(id) THEN 1 .. NBatch - n_tokens ELSE {NPrompt[id]} :
                  /\ n_tokens' = n_tokens + n
                  /\ slot' = [slot EXCEPT ![cursor] = Filled(@, n_past + n, n_past + n = NPrompt[id])]
  <2>1. PICK m \in Nat, k \in Nat :
           /\ k > 0 /\ n_tokens' = n_tokens + k
           /\ slot' = [slot EXCEPT ![cursor] = Filled(@, m + k, m + k = NPrompt[id])]
    BY ZenonT(60), <1>9, <1>10
  <2>2. PICK done \in BOOLEAN : done = (m + k = NPrompt[id])
    OBVIOUS
  <2>3. slot' = [slot EXCEPT ![cursor] = Filled(@, m + k, done)]
    BY <2>1, <2>2
  <2> QED BY <1>7, <1>10, <2>1, <2>3
<1>11. \/ /\ slot' = [slot EXCEPT ![cursor].state = "PROCESSING_PROMPT"]
          /\ UNCHANGED batch
       \/ /\ OpenBatch(cursor)
          /\ \E n_past \in IF slot[cursor].state = "STARTED" /\ CanSplit(id)
                           THEN 0 .. NPrompt[id] - 1 ELSE {slot[cursor].n_prompt} :
             \E n \in IF CanSplit(id) THEN 1 .. NBatch - n_tokens ELSE {NPrompt[id]} :
                /\ n_tokens' = n_tokens + n
                /\ slot' = [slot EXCEPT ![cursor] = Filled(@, n_past + n, n_past + n = NPrompt[id])]
    BY DEF AddPromptTokens
<1> QED BY <1>6, <1>10, <1>11

\* post_decode() and abort_all_slots(): the slots behind the cursor are done with.
LEMMA BatchConsume ==
    ASSUME TypeOK, BatchInv, PostDecodeSlot \/ AbortSlot
    PROVE  BatchInv'
<1>0. SlotsOK /\ MainOK /\ cursor \in Slots /\ cursor \in Nat
    BY SlotsAssumption DEF TypeOK, MainOK, Slots
<1>1. pc \in {"post", "abort"} /\ Advance("wait") /\ \A s \in Slots : s < cursor => ~Sampled(s)
    BY DEF PostDecodeSlot, AbortSlot, BatchInv, OutputsConsumed
<1>2. \A s \in Slots : s \in Int
    BY DEF Slots
<1>3. /\ slot'[cursor].state # "PROCESSING_PROMPT" \/ UNCHANGED slot
      /\ \A s \in Slots : s = cursor => ~Sampled(s)'
      /\ \A s \in Slots : s # cursor => slot'[s] = slot[s]
  <2>1. ASSUME NEW b, Release(cursor, b)
        PROVE  /\ slot'[cursor].state = "IDLE" /\ \A s \in Slots : s # cursor => slot'[s] = slot[s]
    BY <1>0, <2>1, ReleaseEffect
  <2>2. CASE AbortSlot
    <3>1. CASE Idle(cursor) /\ UNCHANGED slot
      BY <3>1 DEF Sampled, Idle
    <3>2. CASE Release(cursor, slot[cursor].i_batch)
      BY <2>1, <3>2 DEF Sampled
    <3> QED BY <2>2, <3>1, <3>2 DEF AbortSlot, FailSlot
  <2>3. CASE PostDecodeSlot
    <3>1. CASE ~Sampled(cursor) /\ UNCHANGED slot
      BY <3>1 DEF Sampled
    <3>2. CASE Release(cursor, FALSE) \/ Release(cursor, slot[cursor].i_batch)
      BY <2>1, <3>2 DEF Sampled
    <3>3. CASE slot' = [slot EXCEPT ![cursor] = Continued(@)]
      <4>1. /\ slot'[cursor] = Continued(slot[cursor])
            /\ \A s \in Slots : s # cursor => slot'[s] = slot[s]
        BY <1>0, <3>3 DEF SlotsOK
      <4>2. ~Continued(slot[cursor]).i_batch /\ Continued(slot[cursor]).state = "GENERATING"
        BY <1>0 DEF Continued, SlotsOK, SlotRecord
      <4> QED BY <4>1, <4>2 DEF Sampled
    <3> QED BY <2>3, <3>1, <3>2, <3>3 DEF PostDecodeSlot, FailSlot
  <2> QED BY <2>2, <2>3
<1>4. \A s \in Slots : s < cursor \/ s = cursor => ~Sampled(s)'
    BY <1>1, <1>2, <1>3, <1>0 DEF Sampled
<1>5. \/ pc' = pc /\ cursor' = cursor + 1
      \/ pc' = "wait" /\ \A s \in Slots : s < cursor \/ s = cursor
    BY <1>0, <1>1, AdvanceEffect
<1>6. OutputsConsumed'
  <2>1. CASE pc' = "wait" /\ \A s \in Slots : s < cursor \/ s = cursor
    BY <1>4, <2>1 DEF OutputsConsumed
  <2>2. CASE pc' = pc /\ cursor' = cursor + 1
    <3>1. \A s \in Slots : s < cursor' => ~Sampled(s)'
      BY <1>0, <1>2, <1>4, <2>2
    <3> QED BY <1>1, <2>2, <3>1 DEF OutputsConsumed
  <2> QED BY <1>5, <2>1, <2>2
<1>7. HeadInBatch' /\ OutputsOfOneClass'
    BY <1>1, <1>5 DEF HeadInBatch, OutputsOfOneClass
<1>8. PromptsNotEmpty'
    BY <1>3 DEF BatchInv, PromptsNotEmpty
<1> QED BY <1>6, <1>7, <1>8 DEF BatchInv

\* BatchInv is inductive.
LEMMA BatchStep == TypeOK /\ BatchInv /\ [Next]_vars => BatchInv'
<1> SUFFICES ASSUME TypeOK, BatchInv, [Next]_vars PROVE BatchInv'
    OBVIOUS
<1>1. CASE UNCHANGED vars
    BY <1>1, BatchStutter DEF vars
<1>2. CASE Quiet
    BY <1>2, BatchStutter DEF Quiet, vars
<1>3. ASSUME NEW r \in Readers, ReaderStep(r) \/ HangUp(r) PROVE BatchInv'
    BY <1>3, ReaderFrame, BatchStutter
<1>4. CASE MainStep
    BY <1>4, BatchBetween, BatchUpdate, BatchGenerate, BatchSkip, BatchReject, BatchAdd,
       BatchDecode, BatchConsume DEF MainStep
<1> QED BY <1>1, <1>2, <1>3, <1>4 DEF Next

\* decode() computes with one lora and one embedding mode, those of slot_batched:
\* every output the batch asks for is of a slot of that class.
THEOREM BatchOfOneClass == Spec => []OneClassPerBatch
<1>1. TypeOK /\ BatchInv => OneClassPerBatch
    BY DEF BatchInv, OutputsOfOneClass, OneClassPerBatch
<1> QED BY <1>1, BatchInit, BatchStep, TypeCorrect, PTL DEF Spec

\* LHM_ASSERT(task) in need_embd() and can_batch_with() never fires while a batch
\* is filled or handed to its first sub-batch.
THEOREM BatchHeadKeepsTask == Spec => []BatchHeadHasTask
<1>1. TypeOK /\ BatchInv => BatchHeadHasTask
    BY DEF BatchInv, HeadInBatch, BatchHeadHasTask, Idle
<1> QED BY <1>1, BatchInit, BatchStep, TypeCorrect, PTL DEF Spec

=============================================================================
