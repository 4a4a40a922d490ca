----------------------------- MODULE ThreadPool -----------------------------
(***************************************************************************)
(* The thread pool of codes/apue/threadpool/main.c: worker threads that    *)
(* share a doubly linked list of tasks under one mutex and one condition   *)
(* variable, and the main thread, which creates the pool, adds its tasks   *)
(* and releases it.                                                        *)
(*                                                                         *)
(* A step is what a thread does between two points where another one can   *)
(* come in: it takes the mutex, works under it and gives it up, or runs    *)
(* code that needs no mutex.                                               *)
(***************************************************************************)
EXTENDS Integers, FiniteSets

CONSTANTS
    NWorkers,       \* the argument of create_thread_pool
    NTasks,         \* how many tasks main adds
    MayFail,        \* the workers whose pthread_create may fail
    MallocMayFail,  \* malloc may return NULL in add_task
    MaxSpurious,    \* bound on the spurious wakeups of pthread_cond_wait
    Main,           \* the main thread
    NULL,           \* the null pointer, and no thread
    Garbage         \* an uninitialized pointer

(* max_worker is an int argument kept in a uint16_t; the program passes 4.  *)
ASSUME ThreadPoolAssumption ==
    /\ NWorkers \in Nat /\ 1 <= NWorkers /\ NWorkers <= 65535
    /\ NTasks \in Nat
    /\ MayFail \subseteq 1..NWorkers
    /\ MayFail # 1..NWorkers
    /\ MallocMayFail \in BOOLEAN
    /\ MaxSpurious \in Nat
    /\ Main \notin Nat /\ NULL \notin Nat /\ Garbage \notin Nat
    /\ Main # NULL /\ Garbage # NULL

Workers == 1..NWorkers
Tasks == 1..NTasks   \* in the order in which main adds them

max_worker == NWorkers % 65536   \* a uint16_t

VARIABLES
    queue, queue_tail,  \* tp->queue, tp->queue_tail
    prev, next,         \* task->prev, task->next
    stop,               \* tp->stop
    noact_workder,      \* tp->noact_workder
    lock,               \* the thread that holds tp->lock
    waiting,            \* the workers that sleep on tp->cond
    created,            \* the workers pthread_create started
    pc,                 \* where each worker is
    thread_task,        \* the local variable of each worker
    mpc,                \* where main is
    mi,                 \* the loop variable or the next task of main
    freed,              \* the pool has been freed
    crashed,            \* the process has died
    life,               \* the fate of each task
    spurious            \* spurious wakeups so far

listVars == <<queue, queue_tail, prev, next>>
mainVars == <<mpc, mi, noact_workder, created, freed>>
vars == <<listVars, stop, lock, waiting, pc, thread_task, mainVars, crashed,
          life, spurious>>

WorkerPlaces == {"absent", "lock", "check", "wait", "relock", "got", "func",
                 "exited"}
MainPlaces == {"create", "alloc", "append", "appending", "signal", "stop",
               "stopping", "broadcast", "join", "done"}
Lives == {"new", "fresh", "queued", "taken", "running", "done"}

TypeOK ==
    /\ queue \in Tasks \cup {NULL} /\ queue_tail \in Tasks \cup {NULL}
    /\ prev \in [Tasks -> Tasks \cup {NULL}]
    /\ next \in [Tasks -> Tasks \cup {NULL}]
    /\ stop \in BOOLEAN
    /\ noact_workder \in 0..NWorkers
    /\ lock \in Workers \cup {Main, NULL}
    /\ waiting \subseteq Workers
    /\ created \subseteq Workers
    /\ pc \in [Workers -> WorkerPlaces]
    /\ thread_task \in [Workers -> Tasks \cup {NULL, Garbage}]
    /\ mpc \in MainPlaces
    /\ mi \in Nat
    /\ freed \in BOOLEAN /\ crashed \in BOOLEAN
    /\ life \in [Tasks -> Lives]
    /\ spurious \in 0..MaxSpurious

(* create_thread_pool before its loop; the mutex and the condition variable
   are initialized.                                                        *)
Init == /\ queue = NULL /\ queue_tail = NULL
        /\ prev = [t \in Tasks |-> NULL] /\ next = [t \in Tasks |-> NULL]
        /\ stop = FALSE
        /\ noact_workder = NWorkers
        /\ lock = NULL
        /\ waiting = {}
        /\ created = {}
        /\ pc = [w \in Workers |-> "absent"]
        /\ thread_task = [w \in Workers |-> Garbage]
        /\ mpc = "create" /\ mi = 1
        /\ freed = FALSE /\ crashed = FALSE
        /\ life = [t \in Tasks |-> "new"]
        /\ spurious = 0

Acquire(p) == lock = NULL /\ lock' = p

Release(p) == lock = p /\ lock' = NULL

Go(w, from, to) == pc[w] = from /\ pc' = [pc EXCEPT ![w] = to]

-----------------------------------------------------------------------------
(* thread_pool_item, the function of a worker.                             *)

Lock(w) == /\ Go(w, "lock", "check")
           /\ Acquire(w)
           /\ UNCHANGED <<listVars, stop, waiting, thread_task, mainVars,
                          crashed, life, spurious>>

(* The condition of the while loop.                                        *)
MustWait == queue = NULL /\ ~stop

(* pthread_cond_wait gives up the mutex and sleeps in one step.            *)
Wait(w) == /\ MustWait
           /\ Go(w, "check", "wait")
           /\ Release(w)
           /\ waiting' = waiting \cup {w}
           /\ UNCHANGED <<listVars, stop, thread_task, mainVars, crashed,
                          life, spurious>>

(* pthread_cond_wait may return without a signal.                          *)
SpuriousWakeup(w) == /\ w \in waiting
                     /\ spurious < MaxSpurious
                     /\ spurious' = spurious + 1
                     /\ waiting' = waiting \ {w}
                     /\ Go(w, "wait", "relock")
                     /\ UNCHANGED <<listVars, stop, lock, thread_task, mainVars,
                                    crashed, life>>

Relock(w) == /\ Go(w, "relock", "check")
             /\ Acquire(w)
             /\ UNCHANGED <<listVars, stop, waiting, thread_task, mainVars,
                            crashed, life, spurious>>

(* A worker that leaves as soon as the pool is stopped.                    *)
MayExitOnStop == stop

MayExit == stop /\ queue = NULL

(* An exit that forgets to give the mutex up.                              *)
ExitKeepsLock(w) == /\ ~MustWait
                    /\ MayExit
                    /\ Go(w, "check", "exited")
                    /\ UNCHANGED <<listVars, stop, lock, waiting, thread_task,
                                   mainVars, crashed, life, spurious>>

Exit(w) == /\ ~MustWait
           /\ MayExit
           /\ Go(w, "check", "exited")
           /\ Release(w)
           /\ UNCHANGED <<listVars, stop, waiting, thread_task, mainVars,
                          crashed, life, spurious>>

(* A pop that forgets to clear the head with the last task.                *)
UnlinkTailKeepsHead ==
    IF queue_tail = NULL
    THEN UNCHANGED listVars
    ELSE /\ queue_tail' = prev[queue_tail]
         /\ next' = IF prev[queue_tail] # NULL
                    THEN [next EXCEPT ![prev[queue_tail]] = NULL] ELSE next
         /\ UNCHANGED <<queue, prev>>

(* The worker takes the task at the tail of the list.                      *)
UnlinkTail ==
    IF queue_tail = NULL
    THEN UNCHANGED listVars
    ELSE /\ queue_tail' = prev[queue_tail]
         /\ next' = IF prev[queue_tail] # NULL
                    THEN [next EXCEPT ![prev[queue_tail]] = NULL] ELSE next
         /\ queue' = IF prev[queue_tail] = NULL THEN NULL ELSE queue
         /\ UNCHANGED prev

(* Without a tail thread_task keeps what it was, uninitialized at first.   *)
Take(w) == /\ ~MustWait
           /\ ~MayExit
           /\ Go(w, "check", "got")
           /\ UnlinkTail
           /\ thread_task' = [thread_task EXCEPT ![w] =
                                IF queue_tail = NULL THEN @ ELSE queue_tail]
           /\ life' = [t \in Tasks |->
                         IF t = queue_tail THEN "taken" ELSE life[t]]
           /\ Release(w)
           /\ UNCHANGED <<stop, waiting, mainVars, crashed, spurious>>

(* The worker calls the function of the task, without the mutex.           *)
Call(w) ==
    LET t == thread_task[w]
    IN  /\ Go(w, "got", IF t = NULL THEN "lock" ELSE "func")
        /\ crashed' = (t = Garbage)
        /\ prev' = [u \in Tasks |-> IF u = t THEN NULL ELSE prev[u]]
        /\ life' = [u \in Tasks |-> IF u = t THEN "running" ELSE life[u]]
        /\ UNCHANGED <<queue, queue_tail, next, stop, lock, waiting,
                       thread_task, mainVars, spurious>>

(* The function of the task returns.                                       *)
Return(w) == /\ Go(w, "func", "lock")
             /\ life' = [t \in Tasks |->
                           IF t = thread_task[w] THEN "done" ELSE life[t]]
             /\ UNCHANGED <<listVars, stop, lock, waiting, thread_task,
                            mainVars, crashed, spurious>>

-----------------------------------------------------------------------------
(* main: create_thread_pool, add_task NTasks times, release_thread_poll.   *)

(* One turn of the loop of create_thread_pool.  A pthread_create that fails
   is only logged.                                                         *)
CreateWorker ==
    /\ mpc = "create"
    /\ mi <= NWorkers
    /\ mi' = mi + 1
    /\ \/ /\ created' = created \cup {mi}
          /\ pc' = [pc EXCEPT ![mi] = "lock"]
       \/ /\ mi \in MayFail
          /\ UNCHANGED <<created, pc>>
    /\ UNCHANGED <<listVars, stop, noact_workder, lock, waiting, thread_task,
                   mpc, freed, crashed, life, spurious>>

PoolCreated == /\ mpc = "create"
               /\ mi > NWorkers
               /\ mpc' = "alloc"
               /\ mi' = 1
               /\ UNCHANGED <<listVars, stop, noact_workder, lock, waiting,
                              created, pc, thread_task, freed, crashed, life,
                              spurious>>

(* A task that is not filled but for its function and argument.            *)
AllocTaskUnfilled ==
    /\ mpc = "alloc"
    /\ mi <= NTasks
    /\ mpc' = "append"
    /\ next' = [next EXCEPT ![mi] = Garbage]
    /\ prev' = [prev EXCEPT ![mi] = Garbage]
    /\ life' = [life EXCEPT ![mi] = "fresh"]
    /\ UNCHANGED <<queue, queue_tail, stop, lock, waiting, pc, thread_task, mi,
                   noact_workder, created, freed, crashed, spurious>>

(* add_task: the task is allocated and filled before the mutex is taken.
   The fields are written without a look at what malloc returned.          *)
AllocTask ==
    /\ mpc = "alloc"
    /\ mi <= NTasks
    /\ \/ /\ mpc' = "append"
          /\ next' = [next EXCEPT ![mi] = NULL]
          /\ prev' = [prev EXCEPT ![mi] = NULL]
          /\ life' = [life EXCEPT ![mi] = "fresh"]
          /\ UNCHANGED crashed
       \/ /\ MallocMayFail
          /\ crashed' = TRUE
          /\ UNCHANGED <<mpc, next, prev, life>>
    /\ UNCHANGED <<queue, queue_tail, stop, lock, waiting, pc, thread_task, mi,
                   noact_workder, created, freed, spurious>>

LockToAppend == /\ mpc = "append"
                /\ mpc' = "appending"
                /\ Acquire(Main)
                /\ UNCHANGED <<listVars, stop, waiting, pc, thread_task, mi,
                               noact_workder, created, freed, crashed, life,
                               spurious>>

(* An append that leaves the new tail unlinked from the old one.           *)
LinkAtTailNoPrev(t) ==
    IF queue_tail = NULL
    THEN queue' = t /\ queue_tail' = t /\ UNCHANGED <<prev, next>>
    ELSE /\ next' = [next EXCEPT ![queue_tail] = t]
         /\ queue_tail' = t
         /\ UNCHANGED <<queue, prev>>

LinkAtTail(t) ==
    IF queue_tail = NULL
    THEN queue' = t /\ queue_tail' = t /\ UNCHANGED <<prev, next>>
    ELSE /\ prev' = [prev EXCEPT ![t] = queue_tail]
         /\ next' = [next EXCEPT ![queue_tail] = t]
         /\ queue_tail' = t
         /\ UNCHANGED queue

Append == /\ mpc = "appending"
          /\ LinkAtTail(mi)
          /\ life' = [life EXCEPT ![mi] = "queued"]
          /\ Release(Main)
          /\ mpc' = "signal"
          /\ UNCHANGED <<stop, waiting, pc, thread_task, mi, noact_workder,
                         created, freed, crashed, spurious>>

(* An add_task that does not signal.                                       *)
WakeNone == waiting' = waiting /\ pc' = pc

(* pthread_cond_signal after the mutex is given up wakes one of the workers
   that sleep, if there is one.                                            *)
WakeOne == IF waiting = {}
           THEN UNCHANGED <<waiting, pc>>
           ELSE \E w \in waiting : /\ waiting' = waiting \ {w}
                                   /\ pc' = [pc EXCEPT ![w] = "relock"]

Signal == /\ mpc = "signal"
          /\ WakeOne
          /\ mpc' = "alloc"
          /\ mi' = mi + 1
          /\ UNCHANGED <<listVars, stop, lock, thread_task, noact_workder,
                         created, freed, crashed, life, spurious>>

(* release_thread_poll, after the last add_task.                           *)
BeginRelease == /\ mpc = "alloc"
                /\ mi > NTasks
                /\ mpc' = "stop"
                /\ UNCHANGED <<listVars, stop, lock, waiting, pc, thread_task,
                               mi, noact_workder, created, freed, crashed,
                               life, spurious>>

LockToStop == /\ mpc = "stop"
              /\ mpc' = "stopping"
              /\ Acquire(Main)
              /\ UNCHANGED <<listVars, stop, waiting, pc, thread_task, mi,
                             noact_workder, created, freed, crashed, life,
                             spurious>>

Stop == /\ mpc = "stopping"
        /\ stop' = TRUE
        /\ Release(Main)
        /\ mpc' = "broadcast"
        /\ UNCHANGED <<listVars, waiting, pc, thread_task, mi, noact_workder,
                       created, freed, crashed, life, spurious>>

(* A release that signals instead of broadcasting.                         *)
WakeAllSignal == WakeOne

WakeAll == /\ waiting' = {}
           /\ pc' = [w \in Workers |-> IF w \in waiting THEN "relock"
                                                        ELSE pc[w]]

Broadcast == /\ mpc = "broadcast"
             /\ WakeAll
             /\ mpc' = "join"
             /\ mi' = 1
             /\ UNCHANGED <<listVars, stop, lock, thread_task, noact_workder,
                            created, freed, crashed, life, spurious>>

(* One turn of the loop that joins.  The thread id of a worker that was not
   created is 0, or undefined: pthread_join of it returns an error that
   nobody reads, or crashes.                                               *)
Join == /\ mpc = "join"
        /\ mi <= max_worker
        /\ \/ /\ mi \in created
              /\ pc[mi] = "exited"
              /\ UNCHANGED crashed
           \/ /\ mi \notin created
              /\ crashed' \in BOOLEAN
        /\ mi' = mi + 1
        /\ UNCHANGED <<listVars, stop, lock, waiting, pc, thread_task, mpc,
                       noact_workder, created, freed, life, spurious>>

(* A release that joins one worker too few.                                *)
JoinedTooFew == mi >= max_worker

Joined == mi > max_worker

Free == /\ mpc = "join"
        /\ Joined
        /\ freed' = TRUE
        /\ mpc' = "done"
        /\ UNCHANGED <<listVars, stop, lock, waiting, pc, thread_task, mi,
                       noact_workder, created, crashed, life, spurious>>

-----------------------------------------------------------------------------
WorkerStep(w) == \/ Lock(w) \/ Wait(w) \/ Relock(w) \/ Exit(w) \/ Take(w)
                 \/ Call(w) \/ Return(w)

MainStep == \/ CreateWorker \/ PoolCreated
            \/ AllocTask \/ LockToAppend \/ Append \/ Signal
            \/ BeginRelease \/ LockToStop \/ Stop \/ Broadcast \/ Join \/ Free

Next == /\ ~crashed
        /\ \/ MainStep
           \/ \E w \in Workers : WorkerStep(w) \/ SpuriousWakeup(w)

(* The threads are scheduled preemptively, the functions of the tasks
   return, and the mutex is contended only finitely often.                 *)
Fairness == /\ WF_vars(~crashed /\ MainStep)
            /\ \A w \in Workers : WF_vars(~crashed /\ WorkerStep(w))

Spec == Init /\ [][Next]_vars

FairSpec == Spec /\ Fairness

-----------------------------------------------------------------------------
Queued == {t \in Tasks : life[t] = "queued"}

(* The list holds the queued tasks and nothing else, in the order in which
   they were added: no queued task lies between two neighbours, the pointers
   agree in both directions, and the list is empty at both ends or at
   neither.                                                                *)
ListSound ==
    /\ queue = NULL <=> Queued = {}
    /\ queue_tail = NULL <=> Queued = {}
    /\ Queued # {} => queue \in Queued /\ queue_tail \in Queued
    /\ \A t \in Queued :
         /\ queue <= t /\ t <= queue_tail
         /\ prev[t] = NULL <=> t = queue
         /\ next[t] = NULL <=> t = queue_tail
         /\ t # queue => /\ prev[t] \in Queued
                         /\ prev[t] < t
                         /\ next[prev[t]] = t
                         /\ \A u \in Queued : u <= prev[t] \/ t <= u
         /\ t # queue_tail => next[t] \in Queued /\ prev[next[t]] = t

(* A worker that is about to call a function or is in one has a task of its
   own: not an uninitialized pointer, not the one of an earlier turn, not
   one that another worker has or that is still in the list.               *)
Holds(w) == pc[w] \in {"got", "func"}

TaskHeldByOne ==
    \A w \in Workers : Holds(w) =>
        /\ thread_task[w] \in Tasks
        /\ life[thread_task[w]] = IF pc[w] = "got" THEN "taken" ELSE "running"
        /\ \A v \in Workers \ {w} : Holds(v) => thread_task[v] # thread_task[w]

(* The mutex and the sleepers agree with what the threads are doing.       *)
MutexSound ==
    /\ \A w \in Workers : pc[w] = "check" <=> lock = w
    /\ lock = Main <=> mpc \in {"appending", "stopping"}
    /\ waiting = {w \in Workers : pc[w] = "wait"}

(* Once the pool is freed no worker can touch it, and none is left asleep. *)
NoUseAfterFree ==
    freed => \A w \in created : pc[w] = "exited"

(* A worker leaves only when no task is left in the list, and none comes.  *)
ExitOnlyWhenDrained ==
    \A w \in Workers : pc[w] = "exited" =>
        stop /\ Queued = {} /\ mpc \in {"broadcast", "join", "done"}

(* No wakeup is lost: a task in the list, once main has signalled, has a
   worker that is awake and will look at the list again, though add_task
   signals after it has given up the mutex.                                *)
NoTaskIgnored ==
    Queued # {} /\ mpc # "signal" =>
        \E w \in created : pc[w] \notin {"wait", "exited"}

(* Who can go on only when another thread does something: when it gives up
   the mutex, wakes a sleeper, or exits.                                   *)
WorkerWaits(w) == \/ pc[w] = "wait"
                  \/ pc[w] \in {"lock", "relock"} /\ lock # NULL

MainWaits == \/ mpc \in {"append", "stop"} /\ lock # NULL
             \/ mpc = "join" /\ mi \in created /\ pc[mi] # "exited"

(* Main never waits for workers that all wait themselves: no worker goes to
   sleep after the broadcast, whatever it was doing when the stop was set,
   and whoever has the mutex goes on and gives it up.                      *)
NoDeadlock ==
    MainWaits => \E w \in created : pc[w] # "exited" /\ ~WorkerWaits(w)

(* Which workers exist: pthread_create of those main is past, and of those
   that cannot fail in any case.                                           *)
WorkersSound ==
    /\ \A w \in Workers : w \in created <=> pc[w] # "absent"
    /\ mpc = "create" => /\ mi \in 1..NWorkers + 1
                         /\ \A w \in Workers : w >= mi => w \notin created
                         /\ \A w \in Workers \ MayFail : w < mi => w \in created
    /\ mpc # "create" => Workers \ MayFail \subseteq created

(* Which tasks exist: main adds them one after the other.                  *)
TasksSound ==
    /\ mpc = "create" => \A t \in Tasks : life[t] = "new"
    /\ mpc \in {"alloc", "append", "appending", "signal"} => mi \in 1..NTasks + 1
    /\ mpc = "alloc" =>
           \A t \in Tasks : (life[t] = "new" <=> t >= mi) /\ life[t] # "fresh"
    /\ mpc \in {"append", "appending"} =>
           /\ mi \in Tasks /\ prev[mi] = NULL /\ next[mi] = NULL
           /\ \A t \in Tasks : /\ life[t] = "new" <=> t > mi
                               /\ life[t] = "fresh" <=> t = mi
    /\ mpc = "signal" =>
           /\ mi \in Tasks
           /\ \A t \in Tasks : (life[t] = "new" <=> t > mi) /\ life[t] # "fresh"
    /\ mpc \in {"stop", "stopping", "broadcast", "join", "done"} =>
           \A t \in Tasks : life[t] \notin {"new", "fresh"}

(* How far the release is: the workers it has joined have left.            *)
ReleaseSound ==
    /\ stop <=> mpc \in {"broadcast", "join", "done"}
    /\ freed <=> mpc = "done"
    /\ mpc \in {"join", "done"} =>
           \A w \in created : w < mi => pc[w] = "exited"
    /\ mpc = "done" => mi > NWorkers

(* A task that is out of the list and not done is in the hands of a worker. *)
HandsSound == \A t \in Tasks : life[t] \in {"taken", "running"} =>
                 \E w \in Workers : Holds(w) /\ thread_task[w] = t

MainSound == WorkersSound /\ TasksSound /\ ReleaseSound /\ HandsSound

(* The pool refines its abstract promise: each task runs once and the
   release waits for all of them.                                          *)
LifeOf(t) == IF life[t] \in {"new", "fresh"} THEN "new"
             ELSE IF life[t] \in {"queued", "taken"} THEN "added"
             ELSE life[t]

Pool == INSTANCE TaskPool WITH life <- [t \in Tasks |-> LifeOf(t)],
                               released <- freed

TasksRunOnce == Pool!Spec

(* A task that was added is run to its end: no signal is lost, though it is
   sent after the mutex is given up, and a stop does not overtake a task.  *)
EveryTaskDone == \A t \in Tasks : life[t] = "queued" ~> life[t] = "done" \/ crashed

(* release_thread_poll returns: every worker learns of the stop, also one
   that was about to sleep when it was set.                                *)
ReleaseReturns == <>(mpc = "done" \/ crashed)

(* The pool comes to its end with all its work done.                       *)
PoolFinishes == EveryTaskDone /\ ReleaseReturns

=============================================================================
