------------------------- MODULE QueueSleep_proofs -------------------------
(***************************************************************************)
(* Sleeping and waking up, for any number of workers and sleeps.           *)
(***************************************************************************)
EXTENDS QueueSleep, SequenceTheorems, TLAPS

\* Notifications choose waiting threads only, and take back none.
LEMMA NotifyOneType ==
    ASSUME notified \subseteq Waiting, NotifyOne
    PROVE  notified' \subseteq Waiting /\ notified \subseteq notified'
BY DEF NotifyOne

\* The main thread is no worker, so it is found where a worker is not.
LEMMA MainIsNoWorker ==
    ASSUME NEW w \in Workers
    PROVE  w # Main /\ w \in Threads /\ Main \in Threads
BY ThreadsAssumption DEF Threads

\* A posted task is new to the queue: its worker was not waiting for a result.
LEMMA PostType ==
    ASSUME TypeOK, NEW w \in Workers, Post(w)
    PROVE  TypeOK'
<1> USE MainIsNoWorker
<1>1. /\ pc[w] = "tokenize" /\ queue_tasks \in Seq(Workers)
      /\ queue_tasks' = Append(queue_tasks, w) /\ pc' = [pc EXCEPT ![w] = "recv"]
      /\ pc \in [Threads -> MainPhases \cup WorkerPhases]
    BY DEF Post, Goto, TypeOK
<1>2. /\ queue_tasks' \in Seq(Workers)
      /\ Len(queue_tasks') = Len(queue_tasks) + 1 /\ Len(queue_tasks) \in Nat
      /\ \A i \in 1 .. Len(queue_tasks) : queue_tasks'[i] = queue_tasks[i]
      /\ queue_tasks'[Len(queue_tasks) + 1] = w
    BY <1>1, AppendProperties, LenProperties
<1>3. /\ DOMAIN queue_tasks = 1 .. Len(queue_tasks)
      /\ DOMAIN queue_tasks' = 1 .. Len(queue_tasks) + 1
    BY <1>1, <1>2, LenProperties
<1>4. \A i \in 1 .. Len(queue_tasks) : /\ pc[queue_tasks[i]] = "recv" /\ queue_tasks[i] \in Workers
                                       /\ queue_tasks[i] # w
    BY <1>1, <1>3, ElementOfSeq DEF TypeOK
<1>5. \A i \in DOMAIN queue_tasks' :
          /\ pc'[queue_tasks'[i]] = "recv"
          /\ \A j \in DOMAIN queue_tasks' : queue_tasks'[i] = queue_tasks'[j] => i = j
  <2>1. \A i \in DOMAIN queue_tasks' : i \in 1 .. Len(queue_tasks) \/ i = Len(queue_tasks) + 1
    BY <1>2, <1>3
  <2>2. \A i, j \in 1 .. Len(queue_tasks) : queue_tasks[i] = queue_tasks[j] => i = j
    BY <1>3 DEF TypeOK
  <2>3. \A i \in DOMAIN queue_tasks' : pc'[queue_tasks'[i]] = "recv"
    BY <2>1, <1>1, <1>2, <1>4
  <2> QED BY <2>1, <2>2, <2>3, <1>2, <1>4
<1>6. notified' \subseteq Waiting' /\ UNCHANGED <<state, overtaken>>
  <2>1. notified' \subseteq Waiting
    BY NotifyOneType DEF Post, TypeOK
  <2>2. \A t \in Waiting : t # w /\ pc'[t] = pc[t]
    BY <1>1 DEF Waiting
  <2> QED BY <2>1, <2>2 DEF Waiting, Post
<1>7. /\ pc' \in [Threads -> MainPhases \cup WorkerPhases]
      /\ pc'[Main] \in MainPhases /\ \A v \in Workers : pc'[v] \in WorkerPhases
    BY <1>1 DEF TypeOK, MainPhases, WorkerPhases
<1> QED BY <1>2, <1>5, <1>6, <1>7 DEF TypeOK, state

\* A popped task was in the queue once: no other task waits for its worker.
LEMMA PopType ==
    ASSUME TypeOK, Pop
    PROVE  TypeOK'
<1> USE MainIsNoWorker
<1>1. /\ pc[Main] = "pop" /\ queue_tasks \in Seq(Workers)
      /\ pc \in [Threads -> MainPhases \cup WorkerPhases]
      /\ Main \in Threads
      /\ UNCHANGED <<state, notified, overtaken>>
    BY DEF Pop, TypeOK, Threads
<1>2. \A i \in DOMAIN queue_tasks : queue_tasks[i] \in Workers /\ pc[queue_tasks[i]] = "recv"
    BY <1>1, ElementOfSeq, LenProperties DEF TypeOK
<1>3. ASSUME NEW phase \in {"exit", "update"}, Goto(Main, phase), UNCHANGED queue_tasks
      PROVE  TypeOK'
  <2>1. \A t \in Threads : t # Main => pc'[t] = pc[t]
    BY <1>1, <1>3 DEF Goto
  <2>2. Main \notin Waiting
    BY <1>1 DEF Waiting
  <2>3. notified' \subseteq Waiting'
    BY <2>1, <2>2, <1>1 DEF Waiting, TypeOK
  <2>4. /\ pc' \in [Threads -> MainPhases \cup WorkerPhases]
        /\ pc'[Main] \in MainPhases /\ \A v \in Workers : pc'[v] \in WorkerPhases
    BY <1>1, <1>3 DEF Goto, TypeOK, MainPhases, WorkerPhases
  <2>5. \A i \in DOMAIN queue_tasks' : pc'[queue_tasks'[i]] = "recv"
    BY <2>1, <1>2, <1>3
  <2> QED BY <2>3, <2>4, <2>5, <1>1, <1>3 DEF TypeOK, state
<1>4. ASSUME queue_tasks # <<>>, Goto(Head(queue_tasks), "done"), queue_tasks' = Tail(queue_tasks)
      PROVE  TypeOK'
  <2> DEFINE w == Head(queue_tasks)
  <2>1. /\ Len(queue_tasks) \in Nat /\ Len(queue_tasks) > 0
        /\ DOMAIN queue_tasks = 1 .. Len(queue_tasks)
        /\ w = queue_tasks[1]
    BY <1>1, <1>4, EmptySeq, LenProperties
  <2>2. /\ queue_tasks' \in Seq(Workers) /\ Len(queue_tasks') = Len(queue_tasks) - 1
        /\ \A i \in 1 .. Len(queue_tasks') : queue_tasks'[i] = queue_tasks[i + 1]
    BY <1>1, <1>4, HeadTailProperties
  <2>3. DOMAIN queue_tasks' = 1 .. Len(queue_tasks) - 1
    BY <2>2, LenProperties
  <2>4. w \in Workers /\ pc[w] = "recv"
    BY <2>1, <1>2
  <2> HIDE DEF w
  <2>5. pc' = [pc EXCEPT ![w] = "done"]
    BY <1>4 DEF Goto, w
  <2>6. \A i \in DOMAIN queue_tasks' :
            /\ i + 1 \in DOMAIN queue_tasks /\ queue_tasks'[i] = queue_tasks[i + 1]
            /\ queue_tasks[i + 1] # w
    BY <2>1, <2>2, <2>3 DEF TypeOK
  <2>7. \A i \in DOMAIN queue_tasks' :
            /\ pc'[queue_tasks'[i]] = "recv"
            /\ \A j \in DOMAIN queue_tasks' : queue_tasks'[i] = queue_tasks'[j] => i = j
    <3>1. \A i \in DOMAIN queue_tasks' : pc'[queue_tasks'[i]] = "recv"
      BY <2>5, <2>6, <1>1, <1>2
    <3>2. ASSUME NEW i \in DOMAIN queue_tasks', NEW j \in DOMAIN queue_tasks',
                 queue_tasks'[i] = queue_tasks'[j]
          PROVE  i = j
      <4>1. i + 1 = j + 1
        BY <2>6, <3>2 DEF TypeOK
      <4> QED BY <4>1, <2>1, <2>3
    <3> QED BY <3>1, <3>2
  <2>8. notified' \subseteq Waiting'
    <3>1. \A t \in Waiting : t # w /\ pc'[t] = pc[t]
      BY <2>4, <2>5, <1>1 DEF Waiting
    <3> QED BY <3>1, <1>1 DEF Waiting, TypeOK
  <2>9. /\ pc' \in [Threads -> MainPhases \cup WorkerPhases]
        /\ pc'[Main] \in MainPhases /\ \A v \in Workers : pc'[v] \in WorkerPhases
    BY <2>4, <2>5, <1>1 DEF TypeOK, MainPhases, WorkerPhases
  <2> QED BY <2>2, <2>7, <2>8, <2>9, <1>1 DEF TypeOK, state
<1> QED BY <1>3, <1>4 DEF Pop

\* A step that leaves the queue alone and moves one thread that waits for no result.
LEMMA MoveType ==
    ASSUME TypeOK, NEW t \in Threads, NEW phase, Goto(t, phase), UNCHANGED queue_tasks,
           pc[t] # "recv",
           t = Main => phase \in MainPhases,
           t # Main => phase \in WorkerPhases,
           {running, sleeping, req_stop_sleeping, model_loaded}' \subseteq BOOLEAN,
           notified' \subseteq Waiting', overtaken' \subseteq Workers
    PROVE  TypeOK'
<1> USE MainIsNoWorker
<1>1. \A i \in DOMAIN queue_tasks : queue_tasks[i] \in Workers /\ pc[queue_tasks[i]] = "recv"
    BY ElementOfSeq, LenProperties DEF TypeOK
<1>2. \A u \in Threads : pc'[u] = IF u = t THEN phase ELSE pc[u]
    BY DEF Goto, TypeOK
<1>3. \A i \in DOMAIN queue_tasks' : pc'[queue_tasks'[i]] = "recv"
    BY <1>1, <1>2
<1>4. /\ pc' \in [Threads -> MainPhases \cup WorkerPhases]
      /\ pc'[Main] \in MainPhases /\ \A v \in Workers : pc'[v] \in WorkerPhases
  <2>1. pc' \in [Threads -> MainPhases \cup WorkerPhases]
    BY DEF Goto, TypeOK
  <2> QED BY <2>1, <1>2 DEF TypeOK, Threads
<1> QED BY <1>3, <1>4 DEF TypeOK

-----------------------------------------------------------------------------
(* Type correctness.                                                       *)

\* Initially the queue is empty and nobody waits.
LEMMA InitType == Init => TypeOK
<1> SUFFICES ASSUME Init PROVE TypeOK
    OBVIOUS
<1>1. queue_tasks \in Seq(Workers) /\ DOMAIN queue_tasks = {}
    BY EmptySeq DEF Init
<1>2. /\ pc \in [Threads -> MainPhases \cup WorkerPhases]
      /\ pc[Main] \in MainPhases /\ \A w \in Workers : pc[w] \in WorkerPhases
    BY MainIsNoWorker DEF Init, MainPhases, WorkerPhases, Threads
<1> QED BY <1>1, <1>2 DEF TypeOK, Init

\* Each step of a thread leads to a phase of that thread.
LEMMA NextType == TypeOK /\ [Next]_vars => TypeOK'
<1> SUFFICES ASSUME TypeOK, [Next]_vars PROVE TypeOK'
    OBVIOUS
<1>1. /\ Main \in Threads /\ Workers \subseteq Threads /\ Main \notin Workers
      /\ notified \subseteq Waiting
    BY ThreadsAssumption DEF Threads, TypeOK
\* One thread moves; the notified threads that wait go on waiting.
<1>2. ASSUME NEW t \in Threads, NEW phase, Goto(t, phase),
             \A u \in notified' : u # t => u \in Waiting,
             t \in notified' => phase \in {"await", "doze", "asleep"}
      PROVE  notified' \subseteq Waiting'
  <2>1. \A u \in Threads : pc'[u] = IF u = t THEN phase ELSE pc[u]
    BY <1>2 DEF Goto, TypeOK
  <2>2. Waiting' = {u \in Threads : pc'[u] \in {"await", "doze", "asleep"}}
    BY DEF Waiting, Threads
  <2>3. \A u \in notified' : u \in Waiting'
    BY <2>1, <2>2, <1>2 DEF Waiting
  <2> QED BY <2>3
<1>3. ASSUME UNCHANGED pc PROVE Waiting' = Waiting
    BY <1>3 DEF Waiting
<1>0. overtaken' \subseteq Workers
  <2>1. CASE Check
    <3>1. CASE overtaken' = overtaken
      BY <3>1 DEF TypeOK
    <3>2. CASE overtaken' = notified /\ pc[Main] = "check"
      BY <3>2, <1>1 DEF Threads, Waiting
    <3> QED BY <2>1, <3>1, <3>2 DEF Check
  <2>2. ASSUME ~Check PROVE overtaken' \in {overtaken, {}}
    BY <2>2 DEF Next, MainStep, WorkerStep, Arrive, LeaveAwait, WaitOn, Post, Terminate, Pop, Update,
                LeaveDoze, LeaveSleep, WakeUp, vars
  <2> QED BY <2>1, <2>2 DEF TypeOK
<1>4. ASSUME UNCHANGED <<queue_tasks, pc>>, notified' \subseteq Waiting,
             {running, sleeping, req_stop_sleeping, model_loaded}' \subseteq BOOLEAN
      PROVE  TypeOK'
    BY <1>0, <1>3, <1>4 DEF TypeOK
<1>5. ASSUME NEW w \in Workers, Arrive(w) PROVE TypeOK'
  <2>1. pc[w] = "arrive" /\ w \notin Waiting
    BY <1>5 DEF Arrive, Waiting
  <2>2. notified' \subseteq Waiting
    BY <1>5, NotifyOneType, <1>1 DEF Arrive
  <2>3. PICK phase \in {"tokenize", "await"} : Goto(w, phase)
    BY <1>5 DEF Arrive
  <2>4. notified' \subseteq Waiting'
    BY <2>1, <2>2, <2>3, <1>1, <1>2
  <2>5. {running, sleeping, req_stop_sleeping, model_loaded}' \subseteq BOOLEAN
    BY <1>5 DEF Arrive, TypeOK
  <2>6. UNCHANGED queue_tasks
    BY <1>5 DEF Arrive
  <2> QED BY <2>1, <2>3, <2>4, <2>5, <2>6, <1>0, <1>1, MoveType DEF WorkerPhases
<1>6. ASSUME NEW w \in Workers, LeaveAwait(w) PROVE TypeOK'
  <2>1. CASE WaitOn(w)
    <3>1. UNCHANGED <<queue_tasks, pc>> /\ notified' \subseteq Waiting
      BY <2>1, <1>1 DEF WaitOn
    <3>2. {running, sleeping, req_stop_sleeping, model_loaded}' \subseteq BOOLEAN
      BY <2>1 DEF WaitOn, state, TypeOK
    <3> QED BY <3>1, <3>2, <1>4
  <2>2. CASE ~WaitOn(w)
    <3>1. Goto(w, "tokenize") /\ notified' = notified \ {w} /\ UNCHANGED <<queue_tasks, state>>
      BY <1>6, <2>2 DEF LeaveAwait
    <3>2. pc[w] # "recv"
      BY <1>6 DEF LeaveAwait, Wakes
    <3>3. notified' \subseteq Waiting'
      BY <3>1, <1>1, <1>2
    <3>4. {running, sleeping, req_stop_sleeping, model_loaded}' \subseteq BOOLEAN
      BY <3>1 DEF state, TypeOK
    <3> QED BY <3>1, <3>2, <3>3, <3>4, <1>0, <1>1, MoveType DEF WorkerPhases
  <2> QED BY <2>1, <2>2
<1>7. ASSUME Terminate PROVE TypeOK'
    BY <1>7, <1>4 DEF Terminate, NotifyAll, TypeOK
<1>8. ASSUME Update PROVE TypeOK'
  <2>1. /\ pc[Main] = "update" /\ Goto(Main, "check")
        /\ UNCHANGED <<queue_tasks, running, sleeping, req_stop_sleeping, model_loaded, notified>>
    BY <1>8 DEF Update, state
  <2>2. Main \notin Waiting
    BY <2>1 DEF Waiting
  <2>3. notified' \subseteq Waiting'
    BY <2>1, <2>2, <1>1, <1>2
  <2>4. {running, sleeping, req_stop_sleeping, model_loaded}' \subseteq BOOLEAN
    BY <2>1 DEF TypeOK
  <2> QED BY <2>1, <2>3, <2>4, <1>0, <1>1, MoveType DEF MainPhases
<1>9. ASSUME Check PROVE TypeOK'
  <2>1. pc[Main] = "check" /\ UNCHANGED <<queue_tasks, notified>>
    BY <1>9 DEF Check
  <2>2. PICK phase \in {"pop", "doze", "asleep"} : Goto(Main, phase)
    BY <1>9 DEF Check
  <2>3. Main \notin Waiting
    BY <2>1 DEF Waiting
  <2>4. notified' \subseteq Waiting'
    BY <2>1, <2>2, <2>3, <1>1, <1>2
  <2>5. {running, sleeping, req_stop_sleeping, model_loaded}' \subseteq BOOLEAN
    BY <1>9 DEF Check, TypeOK, state
  <2> QED BY <2>1, <2>2, <2>4, <2>5, <1>0, <1>1, MoveType DEF MainPhases
<1>10. ASSUME LeaveDoze PROVE TypeOK'
  <2>1. pc[Main] = "doze" /\ UNCHANGED <<queue_tasks, state>> /\ notified' = notified \ {Main}
    BY <1>10 DEF LeaveDoze
  <2>2. PICK phase \in {"pop", "check"} : Goto(Main, phase)
    BY <1>10 DEF LeaveDoze
  <2>3. notified' \subseteq Waiting'
    BY <2>1, <2>2, <1>1, <1>2
  <2>4. {running, sleeping, req_stop_sleeping, model_loaded}' \subseteq BOOLEAN
    BY <2>1 DEF TypeOK, state
  <2> QED BY <2>1, <2>2, <2>3, <2>4, <1>0, <1>1, MoveType DEF MainPhases
<1>11. ASSUME LeaveSleep PROVE TypeOK'
  <2>1. pc[Main] = "asleep" /\ Main \in notified
    BY <1>11 DEF LeaveSleep, Wakes
  <2>2. CASE WaitOn(Main)
    <3>1. UNCHANGED <<queue_tasks, pc>> /\ notified' \subseteq Waiting
      BY <2>2, <1>1 DEF WaitOn
    <3>2. {running, sleeping, req_stop_sleeping, model_loaded}' \subseteq BOOLEAN
      BY <2>2 DEF WaitOn, state, TypeOK
    <3> QED BY <3>1, <3>2, <1>4
  <2>3. CASE ~WaitOn(Main)
    <3>1. /\ Goto(Main, "pop") /\ UNCHANGED queue_tasks
          /\ notified' \subseteq Waiting \ {Main}
          /\ {running, sleeping, req_stop_sleeping, model_loaded}' \subseteq BOOLEAN
      BY <1>11, <2>3, <1>1 DEF LeaveSleep, WakeUp, TypeOK, state
    <3>2. notified' \subseteq Waiting'
      BY <3>1, <1>1, <1>2
    <3> QED BY <2>1, <3>1, <3>2, <1>0, <1>1, MoveType DEF MainPhases
  <2> QED BY <2>2, <2>3
<1>12. CASE UNCHANGED vars
    BY <1>12, <1>3 DEF vars, state, TypeOK
<1> QED
    BY <1>5, <1>6, <1>7, <1>8, <1>9, <1>10, <1>11, <1>12, PostType, PopType
    DEF Next, MainStep, WorkerStep

\* The state is well typed: in particular each request waits for a task that is in
\* the queue once.
THEOREM TypeCorrect == Spec => []TypeOK
<1> QED BY InitType, NextType, PTL DEF Spec

-----------------------------------------------------------------------------
(* Sleeping.                                                               *)

\* Only falling asleep and waking up change who sleeps, and both change the queue
\* and the context together.
LEMMA NextSleepStates == TypeOK /\ SleepStatesAgree /\ [Next]_vars => SleepStatesAgree'
<1> SUFFICES ASSUME TypeOK, SleepStatesAgree, [Next]_vars PROVE SleepStatesAgree'
    OBVIOUS
<1>1. ASSUME UNCHANGED <<sleeping, model_loaded>> PROVE SleepStatesAgree'
    BY <1>1 DEF SleepStatesAgree
<1>2. ASSUME NEW w \in Workers, WorkerStep(w) PROVE UNCHANGED <<sleeping, model_loaded>>
    BY <1>2 DEF WorkerStep, Arrive, LeaveAwait, WaitOn, Post, state
<1>3. ASSUME Terminate \/ Pop \/ Update \/ LeaveDoze PROVE UNCHANGED <<sleeping, model_loaded>>
    BY <1>3 DEF Terminate, Pop, Update, LeaveDoze, state
<1>4. CASE Check
    BY <1>4 DEF Check, SleepStatesAgree, state
<1>5. CASE LeaveSleep
    BY <1>5 DEF LeaveSleep, WaitOn, WakeUp, SleepStatesAgree, state
<1>6. CASE UNCHANGED vars
    BY <1>6, <1>1 DEF vars, state
<1> QED BY <1>1, <1>2, <1>3, <1>4, <1>5, <1>6 DEF Next, MainStep

\* The queue sleeps exactly while the context has no model, through any number of
\* sleeps and wake-ups and whenever termination comes: the assertion of
\* handle_sleeping_state() holds.
THEOREM SleepStatesAlwaysAgree == Spec => []SleepStatesAgree
<1>1. Init => SleepStatesAgree
    BY DEF Init, SleepStatesAgree
<1> QED BY <1>1, InitType, NextType, NextSleepStates, PTL DEF Spec

\* While the loop runs the queue sleeps where the main thread waits for a request,
\* and a wake-up forgets who was overtaken.
SleepInv == running => /\ sleeping <=> pc[Main] = "asleep"
                       /\ ~sleeping => overtaken = {}

\* A request that is pending has chosen the main thread.
RequestTold == running /\ overtaken = {} /\ sleeping /\ req_stop_sleeping => Main \in notified

RequestInv == SleepInv /\ RequestTold /\ RequestReachesMain

\* With nobody overtaken, a request finds no waiting thread but the main thread that
\* is not notified already, so notify_one() has no choice.
LEMMA RequestMade ==
    ASSUME TypeOK, RequestInv, running, overtaken = {}, sleeping, ~req_stop_sleeping, NotifyOne
    PROVE  Main \in notified'
<1>1. Main \in Waiting
    BY MainIsNoWorker DEF RequestInv, SleepInv, Waiting, Threads
<1>2. \A t \in Waiting \ notified : t = Main
    BY DEF RequestInv, RequestReachesMain, Waiting, Threads, TypeOK, MainPhases, WorkerPhases
<1> QED BY <1>1, <1>2 DEF NotifyOne

\* The main thread is notified of each request, and only waking up takes its
\* notification away: then all waiting workers are notified.
LEMMA NextRequests == TypeOK /\ RequestInv /\ [Next]_vars => RequestInv'
<1> SUFFICES ASSUME TypeOK, RequestInv, [Next]_vars, running' PROVE RequestInv'
    BY DEF RequestInv, SleepInv, RequestTold, RequestReachesMain
<1> DEFINE Told(w) == IF sleeping THEN req_stop_sleeping /\ Main \in notified ELSE w \in notified
<1>1. /\ running
      /\ sleeping <=> pc[Main] = "asleep"
      /\ ~sleeping => overtaken = {}
      /\ overtaken = {} /\ sleeping /\ req_stop_sleeping => Main \in notified
      /\ overtaken = {} => \A w \in Workers : pc[w] = "await" => Told(w)
  <2>1. running
    BY DEF Next, MainStep, WorkerStep, Arrive, LeaveAwait, WaitOn, Post, Terminate, Pop, Update,
           Check, LeaveDoze, LeaveSleep, WakeUp, vars, state
  <2> QED BY <2>1 DEF RequestInv, SleepInv, RequestTold, RequestReachesMain
<1>2. /\ Main \in Threads /\ Workers \subseteq Threads /\ Main \notin Workers
      /\ pc \in [Threads -> MainPhases \cup WorkerPhases] /\ notified \subseteq Waiting
      /\ queue_tasks \in Seq(Workers)
    BY ThreadsAssumption DEF Threads, TypeOK
<1> HIDE DEF Told
\* A step that keeps the notifications and moves nobody into the wait.
<1>3. ASSUME UNCHANGED <<sleeping, req_stop_sleeping, overtaken>>, notified \subseteq notified',
             pc'[Main] = "asleep" <=> pc[Main] = "asleep",
             \A w \in Workers : pc'[w] = "await" => pc[w] = "await"
      PROVE  RequestInv'
    BY <1>1, <1>3 DEF RequestInv, SleepInv, RequestTold, RequestReachesMain, Told
\* A thread uses its notification up and does not wait for the queue any more.
<1>4. ASSUME NEW t \in Threads, UNCHANGED <<sleeping, req_stop_sleeping, overtaken>>,
             notified' = notified \ {t}, ~(sleeping /\ t = Main /\ req_stop_sleeping),
             pc'[Main] = "asleep" <=> pc[Main] = "asleep",
             \A w \in Workers : pc'[w] = "await" => pc[w] = "await" /\ w # t
      PROVE  RequestInv'
    BY <1>1, <1>4 DEF RequestInv, SleepInv, RequestTold, RequestReachesMain, Told
<1>5. ASSUME NEW v \in Workers, Arrive(v) PROVE RequestInv'
  <2>1. /\ pc'[Main] = pc[Main] /\ UNCHANGED <<sleeping, overtaken>>
        /\ \A w \in Workers : w # v => pc'[w] = pc[w]
    BY <1>2, <1>5 DEF Arrive, Goto
  <2>2. notified \subseteq notified'
    BY <1>2, <1>5, NotifyOneType DEF Arrive
  <2>3. CASE ~sleeping
    <3>1. UNCHANGED req_stop_sleeping /\ pc'[v] = "tokenize"
      BY <1>2, <1>5, <2>3 DEF Arrive, Goto
    <3> QED BY <1>3, <2>1, <2>2, <3>1
  <2>4. CASE sleeping
    <3>1. req_stop_sleeping'
      BY <1>5, <2>4 DEF Arrive, TypeOK
    <3>2. overtaken = {} => Main \in notified'
      <4>1. CASE req_stop_sleeping
        BY <1>1, <2>2, <2>4, <4>1
      <4>2. CASE ~req_stop_sleeping
        BY <1>1, <1>5, <2>4, <4>2, RequestMade DEF Arrive
      <4> QED BY <4>1, <4>2
    <3> QED BY <1>1, <2>1, <2>4, <3>1, <3>2 DEF RequestInv, SleepInv, RequestTold, RequestReachesMain
  <2> QED BY <2>3, <2>4
<1>6. ASSUME NEW v \in Workers, LeaveAwait(v) PROVE RequestInv'
  <2>1. /\ v \in Threads /\ v # Main /\ pc'[Main] = pc[Main] /\ notified' = notified \ {v}
        /\ UNCHANGED <<sleeping, req_stop_sleeping, overtaken>>
    BY <1>2, <1>6 DEF LeaveAwait, WaitOn, Goto, state
  <2>2. CASE sleeping
    <3>1. \A w \in Workers : pc'[w] = pc[w]
      BY <1>6, <2>2 DEF LeaveAwait, WaitOn
    <3>2. overtaken = {} => req_stop_sleeping /\ Main \in notified
      BY <1>1, <1>6, <2>2 DEF Told, LeaveAwait, Wakes
    <3> QED BY <1>1, <2>1, <2>2, <3>1, <3>2 DEF RequestInv, SleepInv, RequestTold, RequestReachesMain, Told
  <2>3. CASE ~sleeping
    <3>1. \A w \in Workers : pc'[w] = "await" => pc[w] = "await" /\ w # v
      BY <1>2, <1>6, <2>3 DEF LeaveAwait, Goto
    <3> QED BY <1>4, <2>1, <3>1
  <2> QED BY <2>2, <2>3
<1>7. ASSUME NEW v \in Workers, Post(v) PROVE RequestInv'
  <2>1. /\ pc'[Main] = pc[Main] /\ \A w \in Workers : pc'[w] = "await" => pc[w] = "await"
        /\ UNCHANGED <<sleeping, req_stop_sleeping, overtaken>>
    BY <1>2, <1>7 DEF Post, Goto, state
  <2>2. notified \subseteq notified'
    BY <1>2, <1>7, NotifyOneType DEF Post
  <2> QED BY <1>3, <2>1, <2>2
<1>8. ~Terminate
    BY DEF Terminate
<1>9. CASE Pop
  <2>1. \/ Goto(Main, "exit") \/ Goto(Main, "update") \/ Goto(Head(queue_tasks), "done")
    BY <1>9 DEF Pop
  <2>2. \A t \in Threads : pc'[t] \in {"asleep", "await"} => pc'[t] = pc[t]
    BY <1>2, <2>1 DEF Goto
  <2>3. pc[Main] = "pop" /\ UNCHANGED <<state, notified, overtaken>>
    BY <1>9 DEF Pop
  <2> QED BY <1>2, <1>3, <2>2, <2>3 DEF state
<1>10. CASE Update
    BY <1>2, <1>3, <1>10 DEF Update, Goto, state
<1>11. CASE Check
  <2>1. pc[Main] = "check" /\ UNCHANGED notified /\ \A w \in Workers : pc'[w] = pc[w]
    BY <1>2, <1>11 DEF Check, Goto
  <2>2. CASE UNCHANGED <<state, overtaken>> /\ pc'[Main] # "asleep"
    BY <1>3, <2>1, <2>2 DEF state
  <2>3. CASE Goto(Main, "asleep") /\ sleeping' = TRUE /\ req_stop_sleeping' = FALSE /\ overtaken' = notified
    <3>1. pc'[Main] = "asleep"
      BY <1>2, <2>3 DEF Goto
    <3>2. \A w \in Workers : pc[w] = "await" => w \in notified
      BY <1>1, <2>1 DEF Told
    <3> QED BY <2>1, <2>3, <3>1, <3>2 DEF RequestInv, SleepInv, RequestTold, RequestReachesMain
  <2>4. \A phase : Goto(Main, phase) => pc'[Main] = phase
    BY <1>2 DEF Goto
  <2> QED BY <1>11, <2>2, <2>3, <2>4 DEF Check
<1>12. CASE LeaveDoze
  <2>1. /\ pc[Main] = "doze" /\ pc'[Main] # "asleep" /\ notified' = notified \ {Main}
        /\ \A w \in Workers : pc'[w] = pc[w]
        /\ UNCHANGED <<sleeping, req_stop_sleeping, overtaken>>
    BY <1>2, <1>12 DEF LeaveDoze, Goto, state
  <2> QED BY <1>1, <1>2, <1>4, <2>1
<1>13. CASE LeaveSleep
  <2>1. pc[Main] = "asleep" /\ sleeping
    BY <1>1, <1>13 DEF LeaveSleep, Wakes
  <2>2. CASE ~req_stop_sleeping
    <3>1. notified' = notified \ {Main} /\ UNCHANGED <<pc, sleeping, req_stop_sleeping, overtaken>>
      BY <1>1, <1>13, <2>2 DEF LeaveSleep, WaitOn, state
    <3> QED BY <1>2, <1>4, <2>2, <3>1
  <2>3. CASE req_stop_sleeping
    <3>1. /\ Goto(Main, "pop") /\ ~sleeping' /\ notified' = Waiting \ {Main} /\ overtaken' = {}
      BY <1>1, <1>13, <2>3 DEF LeaveSleep, WakeUp
    <3>2. pc'[Main] = "pop" /\ \A w \in Workers : pc'[w] = pc[w]
      BY <1>2, <3>1 DEF Goto
    <3>3. \A w \in Workers : pc'[w] = "await" => w \in notified'
      BY <1>2, <3>1, <3>2 DEF Waiting
    <3> QED BY <3>1, <3>2, <3>3 DEF RequestInv, SleepInv, RequestTold, RequestReachesMain
  <2> QED BY <2>2, <2>3
<1>14. CASE UNCHANGED vars
    BY <1>3, <1>14 DEF vars, state
<1> QED
    BY <1>5, <1>6, <1>7, <1>8, <1>9, <1>10, <1>11, <1>12, <1>13, <1>14
    DEF Next, MainStep, WorkerStep

\* As long as the workers of the last wake-up have run before the queue sleeps again,
\* the notification of a request reaches the main thread and no worker waits without
\* a request that is pending, with any number of workers and sleeps.  (For workers
\* that are overtaken this is false of the code: OnlyMainWaits.)
THEOREM RequestsReachMain == Spec => []RequestReachesMain
<1>1. Init => RequestInv
  <2>1. ASSUME Init PROVE pc[Main] = "pop" /\ \A w \in Workers : pc[w] = "arrive"
    BY <2>1, MainIsNoWorker DEF Init, Threads
  <2> QED BY <2>1 DEF Init, RequestInv, SleepInv, RequestTold, RequestReachesMain
<1>2. RequestInv => RequestReachesMain
    BY DEF RequestInv
<1> QED BY <1>1, <1>2, InitType, NextType, NextRequests, PTL DEF Spec
=============================================================================
