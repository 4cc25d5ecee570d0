----------------------------- MODULE QueueSleep -----------------------------
(***************************************************************************)
(* How start_loop() waits, sleeps and ends: one mutex and one condition    *)
(* variable, shared by the main thread and the HTTP workers that wake it   *)
(* (wait_until_no_sleep), post tasks to it and, from a signal handler,     *)
(* terminate it.                                                           *)
(*                                                                         *)
(* A step is what one thread does under one acquisition of mutex_tasks, or *)
(* between two of them.  A thread that waits on condition_tasks goes on    *)
(* after a notification has chosen it and its predicate holds.             *)
(*                                                                         *)
(* Abstracted: what a task does (ServerLoop; here it is answered when it   *)
(* is popped) and time (any check may find that the idle time is over).    *)
(***************************************************************************)
EXTENDS Naturals, Sequences, FiniteSets

CONSTANTS
    Workers,      \* HTTP worker threads, each with one request
    Main,         \* the thread that runs start_loop()
    MaySleep,     \* idle_sleep_ms >= 0
    MayTerminate  \* may SIGINT or SIGTERM arrive?

ASSUME ThreadsAssumption == Main \notin Workers
ASSUME FlagsAssumption == MaySleep \in BOOLEAN /\ MayTerminate \in BOOLEAN

VARIABLES
    queue_tasks,       \* server_queue::queue_tasks, one task per worker
    running,           \* server_queue::running
    sleeping,          \* server_queue::sleeping
    req_stop_sleeping, \* server_queue::req_stop_sleeping
    model_loaded,      \* ~server_context_impl::sleeping: the model is in memory
    pc,                \* where each thread is
    notified,          \* waiting threads a notification has chosen
    overtaken          \* history: workers that had been told to go on when the queue
                       \* fell asleep again

state == <<running, sleeping, req_stop_sleeping, model_loaded>>
vars == <<queue_tasks, state, pc, notified, overtaken>>

Threads == Workers \cup {Main}
MainPhases == {"pop", "update", "check", "doze", "asleep", "exit"}
WorkerPhases == {"arrive", "await", "tokenize", "recv", "done"}

Init ==
    /\ queue_tasks = <<>>
    /\ running = TRUE /\ sleeping = FALSE /\ req_stop_sleeping = FALSE /\ model_loaded = TRUE
    /\ pc = [t \in Threads |-> IF t = Main THEN "pop" ELSE "arrive"]
    /\ notified = {} /\ overtaken = {}

-----------------------------------------------------------------------------
(* condition_tasks                                                         *)

Waiting == {t \in Threads : pc[t] \in {"await", "doze", "asleep"}}

\* notify_one() picks one of the waiting threads, if there is one.
NotifyOne ==
    IF Waiting \ notified = {} THEN UNCHANGED notified
    ELSE \E t \in Waiting \ notified : notified' = notified \cup {t}

NotifyAll == notified' = Waiting

Goto(t, phase) == pc' = [pc EXCEPT ![t] = phase]

\* A notified thread tests its predicate, and waits on if it does not hold.
Wakes(t, phase) == pc[t] = phase /\ t \in notified
WaitOn(t) == notified' = notified \ {t} /\ UNCHANGED <<queue_tasks, state, pc, overtaken>>

-----------------------------------------------------------------------------
(* HTTP workers.                                                           *)

\* wait_until_no_sleep()
Arrive(w) ==
    /\ pc[w] = "arrive"
    /\ IF ~sleeping
       THEN Goto(w, "tokenize") /\ UNCHANGED <<req_stop_sleeping, notified>>
       ELSE /\ Goto(w, "await")
            /\ IF req_stop_sleeping
               THEN UNCHANGED <<req_stop_sleeping, notified>>
               ELSE req_stop_sleeping' = TRUE /\ NotifyOne
    /\ UNCHANGED <<queue_tasks, running, sleeping, model_loaded, overtaken>>

LeaveAwait(w) ==
    /\ Wakes(w, "await")
    /\ IF sleeping
       THEN WaitOn(w)
       ELSE /\ Goto(w, "tokenize") /\ notified' = notified \ {w}
            /\ UNCHANGED <<queue_tasks, state, overtaken>>

\* The worker has read the model (tokenize_input_prompts); now it posts.
Post(w) ==
    /\ pc[w] = "tokenize"
    /\ queue_tasks' = Append(queue_tasks, w)
    /\ NotifyOne
    /\ Goto(w, "recv")
    /\ UNCHANGED <<state, overtaken>>

WorkerStep(w) == Arrive(w) \/ LeaveAwait(w) \/ Post(w)

\* Mutant of Terminate: one waiting thread is notified.
TerminateOne ==
    /\ MayTerminate /\ running
    /\ running' = FALSE /\ NotifyOne
    /\ UNCHANGED <<queue_tasks, sleeping, req_stop_sleeping, model_loaded, pc, overtaken>>

\* The signal handler calls terminate().  (The second signal exits at once.)
Terminate ==
    /\ MayTerminate /\ running
    /\ running' = FALSE /\ NotifyAll
    /\ UNCHANGED <<queue_tasks, sleeping, req_stop_sleeping, model_loaded, pc, overtaken>>

-----------------------------------------------------------------------------
(* start_loop()                                                            *)

\* Mutant of Pop: the task that is handled stays in the queue.
PopWithoutErase ==
    /\ pc[Main] = "pop"
    /\ IF ~running
       THEN Goto(Main, "exit")
       ELSE IF queue_tasks = <<>>
       THEN Goto(Main, "update")
       ELSE Goto(Head(queue_tasks), "done")
    /\ UNCHANGED <<queue_tasks, state, notified, overtaken>>

\* Drain the queue; a popped task is answered (send() wakes its worker).
Pop ==
    /\ pc[Main] = "pop"
    /\ IF ~running
       THEN Goto(Main, "exit") /\ UNCHANGED queue_tasks
       ELSE IF queue_tasks = <<>>
       THEN Goto(Main, "update") /\ UNCHANGED queue_tasks
       ELSE Goto(Head(queue_tasks), "done") /\ queue_tasks' = Tail(queue_tasks)
    /\ UNCHANGED <<state, notified, overtaken>>

Update ==
    /\ pc[Main] = "update"
    /\ Goto(Main, "check")
    /\ UNCHANGED <<queue_tasks, state, notified, overtaken>>

\* Nothing to do: doze for a second, or go to sleep and destroy the model.
Check ==
    /\ pc[Main] = "check"
    /\ \/ /\ ~running \/ queue_tasks # <<>>
          /\ Goto(Main, "pop") /\ UNCHANGED <<state, overtaken>>
       \/ /\ running /\ queue_tasks = <<>>
          /\ Goto(Main, "doze") /\ UNCHANGED <<state, overtaken>>
       \/ /\ running /\ queue_tasks = <<>> /\ MaySleep
          /\ Goto(Main, "asleep")
          /\ sleeping' = TRUE /\ req_stop_sleeping' = FALSE /\ model_loaded' = FALSE
          /\ overtaken' = notified
          /\ UNCHANGED running
    /\ UNCHANGED <<queue_tasks, notified>>

\* wait_for() returns when a task has arrived or the loop is over; after a second
\* it tests that once more and otherwise looks at the idle time again.
LeaveDoze ==
    /\ pc[Main] = "doze"
    /\ Goto(Main, IF queue_tasks # <<>> \/ ~running THEN "pop" ELSE "check")
    /\ notified' = notified \ {Main}
    /\ UNCHANGED <<queue_tasks, state, overtaken>>

\* Mutants of WakeUp: the model is not reloaded; one of the waiting workers is
\* notified.
WakeWithoutModel ==
    /\ req_stop_sleeping' = FALSE /\ sleeping' = FALSE
    /\ notified' = Waiting \ {Main} /\ overtaken' = {}
    /\ UNCHANGED <<running, model_loaded>>

WakeOne ==
    /\ req_stop_sleeping' = FALSE /\ sleeping' = FALSE /\ model_loaded' = TRUE
    /\ IF Waiting \ (notified \cup {Main}) = {} THEN notified' = notified \ {Main}
       ELSE \E t \in Waiting \ (notified \cup {Main}) : notified' = (notified \ {Main}) \cup {t}
    /\ overtaken' = {}
    /\ UNCHANGED running

\* Awake again: reload the model, let all waiting workers go on.
WakeUp ==
    /\ req_stop_sleeping' = FALSE /\ sleeping' = FALSE /\ model_loaded' = TRUE
    /\ notified' = Waiting \ {Main} /\ overtaken' = {}
    /\ UNCHANGED running

\* Termination leaves the sleeping state as it is.
LeaveSleep ==
    /\ Wakes(Main, "asleep")
    /\ \/ /\ running /\ ~req_stop_sleeping
          /\ WaitOn(Main)
       \/ /\ ~running
          /\ Goto(Main, "pop") /\ notified' = notified \ {Main}
          /\ UNCHANGED <<queue_tasks, state, overtaken>>
       \/ /\ running /\ req_stop_sleeping
          /\ Goto(Main, "pop") /\ WakeUp
          /\ UNCHANGED queue_tasks

MainStep == Pop \/ Update \/ Check \/ LeaveDoze \/ LeaveSleep

Next == MainStep \/ Terminate \/ \E w \in Workers : WorkerStep(w)

Spec == Init /\ [][Next]_vars

\* Every thread that can go on does; nobody has to send a signal.
FairSpec == Spec /\ WF_vars(MainStep) /\ \A w \in Workers : WF_vars(WorkerStep(w))

-----------------------------------------------------------------------------
(* Properties.                                                             *)

\* Every variable has its type, a queued task is there once and has a worker that
\* waits for its result, and only waiting threads are notified.
TypeOK ==
    /\ queue_tasks \in Seq(Workers)
    /\ \A i \in DOMAIN queue_tasks :
          /\ pc[queue_tasks[i]] = "recv"
          /\ \A j \in DOMAIN queue_tasks : queue_tasks[i] = queue_tasks[j] => i = j
    /\ {running, sleeping, req_stop_sleeping, model_loaded} \subseteq BOOLEAN
    /\ pc \in [Threads -> MainPhases \cup WorkerPhases]
    /\ pc[Main] \in MainPhases /\ \A w \in Workers : pc[w] \in WorkerPhases
    /\ notified \subseteq Waiting /\ overtaken \subseteq Workers

\* LHM_ASSERT(sleeping != new_state) of handle_sleeping_state(): the queue and the
\* context agree on who sleeps, so the model is destroyed and loaded in turn.
SleepStatesAgree == sleeping <=> ~model_loaded

\* "if sleeping, request exiting sleep state and wait until it is done": the
\* notification of a request is one for all that wait, and it goes to the main
\* thread: no worker swallows it.  While the queue sleeps a worker waits only with
\* the request pending and the main thread told of it, and awake only with its own
\* notification, through any number of sleeps -- unless the queue fell asleep again
\* before the workers of the last wake-up ran, which OnlyMainWaits is about.
RequestReachesMain ==
    running /\ overtaken = {} =>
       \A w \in Workers : pc[w] = "await" =>
          IF sleeping THEN req_stop_sleeping /\ Main \in notified ELSE w \in notified

\* "only main thread is waiting on this": the notify_one() of a request to wake up
\* chooses the main thread, whenever the request is made.
OnlyMainWaits == [][running /\ ~req_stop_sleeping /\ req_stop_sleeping' => Main \in notified']_vars

\* "end the start_loop routine": after terminate() the loop ends, wherever the main
\* thread waits.
Terminates == ~running ~> pc[Main] = "exit"

\* "only use these pointers outside of this class when not in sleeping state": a
\* worker that reads the model finds it.
ModelInUse == \A w \in Workers : pc[w] = "tokenize" => model_loaded

\* "Wait until a new task arrives; process the task": a posted task is answered.
TasksAnswered == \A w \in Workers : pc[w] = "recv" ~> pc[w] = "done"
=============================================================================
