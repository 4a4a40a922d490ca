-------------------------- MODULE ThreadPoolProofs --------------------------
(***************************************************************************)
(* Proofs about ThreadPool, for every number of workers and of tasks: its  *)
(* invariants, and at the end that it keeps the promise of TaskPool.       *)
(***************************************************************************)
EXTENDS ThreadPool, TLAPS

(* What the proofs use of the sizes.                                       *)
LEMMA Sizes == /\ NWorkers \in Nat /\ NWorkers >= 1
               /\ NTasks \in Nat /\ MaxSpurious \in Nat
BY ThreadPoolAssumption

(* The two pools of names are numbers; threads and pointers that are none  *)
(* of them are told apart from them.                                       *)
LEMMA Names == /\ Main \notin Workers /\ NULL \notin Workers /\ Main # NULL
               /\ NULL \notin Tasks /\ Garbage \notin Tasks /\ Garbage # NULL
               /\ \A t \in Tasks : t \in Nat
               /\ \A w \in Workers : w \in Nat
BY ThreadPoolAssumption DEF Workers, Tasks

Inv == /\ TypeOK
       /\ MutexSound
       /\ ListSound
       /\ TaskHeldByOne
       /\ ExitOnlyWhenDrained
       /\ WorkersSound
       /\ TasksSound
       /\ ReleaseSound
       /\ HandsSound
       /\ NoTaskIgnored

-----------------------------------------------------------------------------
(* What a step keeps when it leaves alone what a part of the invariant is
   about.                                                                  *)

LEMMA ListKept ==
    ASSUME ListSound, UNCHANGED listVars,
           \A t \in Tasks : life'[t] = "queued" <=> life[t] = "queued"
    PROVE  ListSound'
<1>1. Queued' = Queued
  BY DEF Queued
<1> QED BY <1>1 DEF ListSound, listVars

LEMMA HeldKept ==
    ASSUME TaskHeldByOne, HandsSound, UNCHANGED <<thread_task, life>>,
           \A w \in Workers : /\ pc'[w] = "got" <=> pc[w] = "got"
                              /\ pc'[w] = "func" <=> pc[w] = "func"
    PROVE  TaskHeldByOne' /\ HandsSound'
<1>1. \A w \in Workers : Holds(w)' <=> Holds(w)
  BY DEF Holds
<1> QED BY <1>1 DEF TaskHeldByOne, HandsSound

LEMMA TasksKept ==
    ASSUME TasksSound, UNCHANGED <<mpc, mi>>,
           mpc \in {"append", "appending"} =>
              prev'[mi] = prev[mi] /\ next'[mi] = next[mi],
           \A t \in Tasks : /\ life'[t] = "new" <=> life[t] = "new"
                            /\ life'[t] = "fresh" <=> life[t] = "fresh"
    PROVE  TasksSound'
BY DEF TasksSound

(* A step of worker w that moves it from one place to another inside the
   pool and does nothing but take or give up the mutex.                    *)
LEMMA WorkerMoves ==
    ASSUME Inv, NEW w \in Workers, NEW from, NEW to \in WorkerPlaces,
           Go(w, from, to),
           from \in {"lock", "relock", "check", "wait"},
           to \in {"check", "wait", "relock", "exited"},
           to \in {"wait", "exited"} => Queued = {},
           to = "exited" => stop /\ mpc \in {"broadcast", "join", "done"},
           UNCHANGED <<listVars, stop, thread_task, mainVars, life>>,
           waiting' = {v \in Workers : pc'[v] = "wait"},
           lock' \in Workers \cup {Main, NULL},
           \A v \in Workers : pc'[v] = "check" <=> lock' = v,
           lock' = Main <=> lock = Main,
           spurious' \in 0..MaxSpurious, crashed' \in BOOLEAN
    PROVE  Inv'
<1> USE DEF Inv
<1>0. /\ pc' = [pc EXCEPT ![w] = to] /\ pc[w] = from
      /\ UNCHANGED <<queue, queue_tail, prev, next, mpc, mi, noact_workder,
                     created, freed, life, stop, thread_task>>
  BY DEF Go, listVars, mainVars
<1>1. TypeOK'
  BY <1>0 DEF TypeOK
<1>2. MutexSound'
  BY <1>0 DEF MutexSound
<1>3. ListSound'
  BY <1>0, ListKept
<1>4. TaskHeldByOne' /\ HandsSound'
  BY <1>0, HeldKept DEF TypeOK
<1>5. Queued' = Queued
  BY <1>0 DEF Queued
<1>6. ExitOnlyWhenDrained'
  BY <1>0, <1>5 DEF ExitOnlyWhenDrained, TypeOK
<1>7. WorkersSound'
  BY <1>0 DEF WorkersSound, TypeOK
<1>8. TasksSound'
  BY <1>0, TasksKept
<1>9. ReleaseSound'
  BY <1>0 DEF ReleaseSound, TypeOK
<1>10. NoTaskIgnored'
  BY <1>0, <1>5 DEF NoTaskIgnored, TypeOK
<1> QED BY <1>1, <1>2, <1>3, <1>4, <1>6, <1>7, <1>8, <1>9, <1>10

LEMMA LockInv ==
    ASSUME Inv, ~crashed, NEW w \in Workers, Lock(w)
    PROVE  Inv'
<1> USE DEF Inv, Lock, Acquire
<1>1. Go(w, "lock", "check") /\ lock = NULL /\ lock' = w
  OBVIOUS
<1>2. pc' = [pc EXCEPT ![w] = "check"]
  BY DEF Go
<1>3. \A v \in Workers : pc'[v] = "check" <=> lock' = v
  BY <1>1, <1>2, Names DEF MutexSound, TypeOK
<1>4. waiting' = {v \in Workers : pc'[v] = "wait"}
  BY <1>1, <1>2 DEF MutexSound, TypeOK, Go
<1> QED BY <1>1, <1>3, <1>4, Names, WorkerMoves DEF WorkerPlaces, TypeOK

LEMMA RelockInv ==
    ASSUME Inv, ~crashed, NEW w \in Workers, Relock(w)
    PROVE  Inv'
<1> USE DEF Inv, Relock, Acquire
<1>1. Go(w, "relock", "check") /\ lock = NULL /\ lock' = w
  OBVIOUS
<1>2. pc' = [pc EXCEPT ![w] = "check"]
  BY DEF Go
<1>3. \A v \in Workers : pc'[v] = "check" <=> lock' = v
  BY <1>1, <1>2, Names DEF MutexSound, TypeOK
<1>4. waiting' = {v \in Workers : pc'[v] = "wait"}
  BY <1>1, <1>2 DEF MutexSound, TypeOK, Go
<1> QED BY <1>1, <1>3, <1>4, Names, WorkerMoves DEF WorkerPlaces, TypeOK

LEMMA WaitInv ==
    ASSUME Inv, ~crashed, NEW w \in Workers, Wait(w)
    PROVE  Inv'
<1> USE DEF Inv, Wait, Release
<1>1. Go(w, "check", "wait") /\ lock = w /\ lock' = NULL
      /\ waiting' = waiting \cup {w}
  OBVIOUS
<1>2. pc' = [pc EXCEPT ![w] = "wait"]
  BY DEF Go
<1>3. \A v \in Workers : pc'[v] = "check" <=> lock' = v
  BY <1>1, <1>2, Names DEF MutexSound, TypeOK
<1>4. waiting' = {v \in Workers : pc'[v] = "wait"}
  BY <1>1, <1>2 DEF MutexSound, TypeOK
<1>5. Queued = {}
  BY DEF MustWait, ListSound
<1> QED BY <1>1, <1>3, <1>4, <1>5, Names, WorkerMoves DEF WorkerPlaces, TypeOK

LEMMA SpuriousWakeupInv ==
    ASSUME Inv, ~crashed, NEW w \in Workers, SpuriousWakeup(w)
    PROVE  Inv'
<1> USE DEF Inv, SpuriousWakeup
<1>1. Go(w, "wait", "relock") /\ lock' = lock /\ waiting' = waiting \ {w}
  OBVIOUS
<1>2. pc' = [pc EXCEPT ![w] = "relock"]
  BY DEF Go
<1>3. \A v \in Workers : pc'[v] = "check" <=> lock' = v
  BY <1>1, <1>2, Names DEF MutexSound, TypeOK, Go
<1>4. waiting' = {v \in Workers : pc'[v] = "wait"}
  BY <1>1, <1>2 DEF MutexSound, TypeOK
<1>5. spurious' \in 0..MaxSpurious
  BY Sizes DEF TypeOK
<1> QED BY <1>1, <1>3, <1>4, <1>5, Names, WorkerMoves DEF WorkerPlaces, TypeOK

LEMMA ExitInv ==
    ASSUME Inv, ~crashed, NEW w \in Workers, Exit(w)
    PROVE  Inv'
<1> USE DEF Inv, Exit, Release
<1>1. Go(w, "check", "exited") /\ lock = w /\ lock' = NULL
  OBVIOUS
<1>2. pc' = [pc EXCEPT ![w] = "exited"]
  BY DEF Go
<1>3. \A v \in Workers : pc'[v] = "check" <=> lock' = v
  BY <1>1, <1>2, Names DEF MutexSound, TypeOK
<1>4. waiting' = {v \in Workers : pc'[v] = "wait"}
  BY <1>1, <1>2 DEF MutexSound, TypeOK, Go
<1>5. Queued = {} /\ stop /\ mpc \in {"broadcast", "join", "done"}
  BY DEF MayExit, ListSound, ReleaseSound
<1> QED BY <1>1, <1>3, <1>4, <1>5, Names, WorkerMoves DEF WorkerPlaces, TypeOK

-----------------------------------------------------------------------------

(* A worker that does not wait and does not exit finds a task at the tail. *)
LEMMA TakeFinds ==
    ASSUME Inv, NEW w \in Workers, Take(w)
    PROVE  /\ queue_tail \in Queued /\ queue_tail \in Tasks
           /\ queue_tail # NULL /\ queue \in Queued
           /\ life[queue_tail] = "queued"
           /\ pc[w] = "check" /\ lock = w
           /\ pc' = [pc EXCEPT ![w] = "got"]
           /\ thread_task' = [thread_task EXCEPT ![w] = queue_tail]
           /\ life' = [life EXCEPT ![queue_tail] = "taken"]
           /\ lock' = NULL
           /\ UNCHANGED <<stop, waiting, mpc, mi, noact_workder, created, freed,
                          crashed, spurious>>
<1> USE DEF Inv, Take
<1>1. queue # NULL
  BY DEF MustWait, MayExit
<1>2. queue_tail \in Queued /\ queue \in Queued
  BY <1>1 DEF ListSound
<1>3. queue_tail \in Tasks /\ queue_tail # NULL /\ life[queue_tail] = "queued"
  BY <1>2, Names DEF Queued
<1> QED BY <1>2, <1>3 DEF Go, Release, mainVars, TypeOK

(* The list without its newest task.                                       *)
LEMMA UnlinkTailSound ==
    ASSUME Inv, UnlinkTail, queue_tail \in Queued, queue_tail \in Tasks,
           queue \in Queued,
           life' = [life EXCEPT ![queue_tail] = "taken"]
    PROVE  /\ ListSound'
           /\ queue' \in Tasks \cup {NULL} /\ queue_tail' \in Tasks \cup {NULL}
           /\ next' \in [Tasks -> Tasks \cup {NULL}]
           /\ prev' = prev
           /\ \A t \in Tasks : life[t] # "queued" => next'[t] = next[t]
<1> DEFINE q == queue_tail
           p == prev[queue_tail]
<1> USE DEF Inv
<1>0. q # NULL /\ q \in Tasks /\ q \in Queued
  BY Names
<1>1. Queued' = Queued \ {q}
  BY DEF Queued, TypeOK
<1>2. \A t \in Queued : t \in Tasks /\ t \in Nat
  BY Names DEF Queued
<1>3. CASE p = NULL
  <2>1. queue_tail' = NULL /\ queue' = NULL /\ prev' = prev /\ next' = next
    BY <1>0, <1>3 DEF UnlinkTail
  <2>2. q = queue
    BY <1>0, <1>3 DEF ListSound
  <2>3. Queued' = {}
    BY <1>0, <1>1, <1>2, <2>2 DEF ListSound
  <2> QED BY <2>1, <2>3 DEF ListSound, TypeOK
<1>4. CASE p # NULL
  <2>1. /\ queue_tail' = p /\ queue' = queue /\ prev' = prev
        /\ next' = [next EXCEPT ![p] = NULL]
    BY <1>0, <1>4 DEF UnlinkTail
  <2>2. q # queue /\ p \in Queued /\ p < q /\ next[p] = q
        /\ \A u \in Queued : u <= p \/ q <= u
    BY <1>0, <1>4 DEF ListSound
  <2>3. p \in Tasks /\ life[p] = "queued"
    BY <2>2 DEF Queued
  <2>4. \A t \in Queued' : t \in Queued /\ t # q /\ t <= p
    BY <1>0, <1>1, <1>2, <2>2 DEF ListSound
  <2>5. queue' \in Queued' /\ queue_tail' \in Queued'
    BY <1>0, <1>1, <1>2, <2>1, <2>2
  <2>6. ASSUME NEW t \in Queued'
        PROVE  /\ queue' <= t /\ t <= queue_tail'
               /\ prev'[t] = NULL <=> t = queue'
               /\ next'[t] = NULL <=> t = queue_tail'
               /\ t # queue' => /\ prev'[t] \in Queued'
                                /\ prev'[t] < t
                                /\ next'[prev'[t]] = t
                                /\ \A u \in Queued' : u <= prev'[t] \/ t <= u
               /\ t # queue_tail' => next'[t] \in Queued' /\ prev'[next'[t]] = t
    <3>1. t \in Queued /\ t # q /\ t <= p /\ t \in Tasks /\ t \in Nat
      BY <2>4, <1>2
    <3>2. queue' <= t /\ t <= queue_tail' /\ (prev'[t] = NULL <=> t = queue')
      BY <2>1, <3>1 DEF ListSound
    <3>3. next'[t] = IF t = p THEN NULL ELSE next[t]
      BY <2>1, <2>3, <3>1 DEF TypeOK
    <3>4. next'[t] = NULL <=> t = queue_tail'
      BY <3>1, <3>3, <2>1 DEF ListSound
    <3>5. ASSUME t # queue'
          PROVE  /\ prev'[t] \in Queued' /\ prev'[t] < t
                 /\ next'[prev'[t]] = t
                 /\ \A u \in Queued' : u <= prev'[t] \/ t <= u
      <4>1. /\ prev[t] \in Queued /\ prev[t] < t /\ next[prev[t]] = t
            /\ \A u \in Queued : u <= prev[t] \/ t <= u
        BY <2>1, <3>1, <3>5 DEF ListSound
      <4>2. prev[t] \in Tasks /\ prev[t] \in Nat /\ q \in Nat /\ p \in Nat
        BY <4>1, <2>2, <1>0, <1>2
      <4>3. prev[t] < p /\ p < q
        BY <4>1, <4>2, <3>1, <2>2
      <4>4. prev[t] # q /\ prev[t] # p
        BY <4>2, <4>3
      <4> QED BY <4>1, <4>2, <4>4, <2>1, <2>4, <1>1 DEF TypeOK
    <3>6. ASSUME t # queue_tail'
          PROVE  next'[t] \in Queued' /\ prev'[next'[t]] = t
      <4>1. next[t] \in Queued /\ prev[next[t]] = t
        BY <3>1 DEF ListSound
      <4>2. next[t] # q
        BY <4>1, <3>6, <2>1
      <4> QED BY <4>1, <4>2, <3>3, <3>6, <2>1, <1>1
    <3> QED BY <3>2, <3>4, <3>5, <3>6
  <2>7. queue' # NULL /\ queue_tail' # NULL /\ Queued' # {}
    BY <2>5, <2>4, <1>2, Names
  <2>8. ListSound'
    BY <2>5, <2>6, <2>7 DEF ListSound
  <2> QED BY <2>1, <2>3, <2>8 DEF TypeOK
<1> QED BY <1>3, <1>4

LEMMA TakeInv ==
    ASSUME Inv, ~crashed, NEW w \in Workers, Take(w)
    PROVE  Inv'
<1> DEFINE q == queue_tail
<1> USE DEF Inv
<1>0. /\ q \in Queued /\ q \in Tasks /\ life[q] = "queued"
      /\ pc[w] = "check" /\ lock = w
      /\ pc' = [pc EXCEPT ![w] = "got"]
      /\ thread_task' = [thread_task EXCEPT ![w] = q]
      /\ life' = [life EXCEPT ![q] = "taken"]
      /\ lock' = NULL
      /\ UNCHANGED <<stop, waiting, mpc, mi, noact_workder, created, freed,
                     crashed, spurious>>
  BY TakeFinds
<1>1. /\ ListSound'
      /\ queue' \in Tasks \cup {NULL} /\ queue_tail' \in Tasks \cup {NULL}
      /\ next' \in [Tasks -> Tasks \cup {NULL}]
      /\ prev' = prev
      /\ \A t \in Tasks : life[t] # "queued" => next'[t] = next[t]
  BY UnlinkTailSound, TakeFinds DEF Take
<1> HIDE DEF q
<1>2. TypeOK'
  BY <1>0, <1>1 DEF TypeOK, WorkerPlaces, Lives
<1>3. MutexSound'
  BY <1>0, Names DEF MutexSound, TypeOK
<1>4. TaskHeldByOne'
  <2>1. \A v \in Workers \ {w} :
          /\ pc'[v] = pc[v] /\ thread_task'[v] = thread_task[v]
          /\ Holds(v)' <=> Holds(v)
    BY <1>0 DEF TypeOK, Holds
  <2>2. pc'[w] = "got" /\ thread_task'[w] = q
    BY <1>0 DEF TypeOK
  <2>3. \A v \in Workers : Holds(v) => /\ thread_task[v] \in Tasks
                                       /\ thread_task[v] # q
    BY <1>0 DEF TaskHeldByOne
  <2>4. \A t \in Tasks : t # q => life'[t] = life[t]
    BY <1>0 DEF TypeOK
  <2>5. life'[q] = "taken"
    BY <1>0 DEF TypeOK
  <2> QED BY <1>0, <2>1, <2>2, <2>3, <2>4, <2>5 DEF TaskHeldByOne
<1>5. ExitOnlyWhenDrained'
  BY <1>0 DEF ExitOnlyWhenDrained, TypeOK, Queued
<1>6. WorkersSound'
  BY <1>0 DEF WorkersSound, TypeOK
<1>7. TasksSound'
  <2>1. \A t \in Tasks : /\ life'[t] = "new" <=> life[t] = "new"
                         /\ life'[t] = "fresh" <=> life[t] = "fresh"
    BY <1>0 DEF TypeOK
  <2>2. mpc \in {"append", "appending"} => mi \in Tasks /\ life[mi] = "fresh"
    BY DEF TasksSound
  <2> QED BY <1>0, <1>1, <2>1, <2>2, TasksKept
<1>8. ReleaseSound'
  BY <1>0 DEF ReleaseSound, TypeOK
<1>9. HandsSound'
  <2> SUFFICES ASSUME NEW t \in Tasks, life'[t] \in {"taken", "running"}
               PROVE  \E v \in Workers : Holds(v)' /\ thread_task'[v] = t
    BY DEF HandsSound
  <2>1. CASE t = q
    BY <1>0, <2>1 DEF TypeOK, Holds
  <2>2. CASE t # q
    <3>1. PICK v \in Workers : Holds(v) /\ thread_task[v] = t
      BY <1>0, <2>2 DEF HandsSound, TypeOK
    <3>2. v # w
      BY <1>0, <3>1 DEF Holds
    <3> QED BY <1>0, <3>1, <3>2 DEF Holds, TypeOK
  <2> QED BY <2>1, <2>2
<1>10. NoTaskIgnored'
  <2>1. w \in created
    BY <1>0 DEF WorkersSound
  <2> QED BY <1>0, <2>1 DEF NoTaskIgnored, TypeOK
<1> QED BY <1>1, <1>2, <1>3, <1>4, <1>5, <1>6, <1>7, <1>8, <1>9, <1>10

-----------------------------------------------------------------------------
(* A worker that works on its task, without the mutex, disturbs neither the
   list nor the other workers.                                             *)
LEMMA WorkInv ==
    ASSUME Inv, NEW w \in Workers, NEW t \in Tasks, t = thread_task[w],
           Holds(w), NEW to \in {"func", "lock"}, NEW l \in {"running", "done"},
           pc' = [pc EXCEPT ![w] = to],
           to = "func" => pc[w] = "got" /\ l = "running",
           to = "lock" => l = "done",
           prev' \in [Tasks -> Tasks \cup {NULL}],
           \A u \in Tasks \ {t} : prev'[u] = prev[u],
           life' = [life EXCEPT ![t] = l],
           crashed' = FALSE,
           UNCHANGED <<queue, queue_tail, next, stop, lock, waiting,
                       thread_task, mainVars, spurious>>
    PROVE  Inv'
<1> USE DEF Inv
<1>0. /\ UNCHANGED <<queue, queue_tail, next, stop, lock, waiting, thread_task,
                     mpc, mi, noact_workder, created, freed, spurious>>
      /\ pc[w] \in {"got", "func"} /\ w \in created
      /\ life[t] \in {"taken", "running"}
  BY DEF mainVars, Holds, TaskHeldByOne, WorkersSound
<1>1. TypeOK'
  BY <1>0 DEF TypeOK, WorkerPlaces, Lives
<1>2. MutexSound'
  BY <1>0 DEF MutexSound, TypeOK
<1>3. Queued' = Queued /\ \A u \in Queued : prev'[u] = prev[u]
  BY <1>0 DEF Queued, TypeOK
<1>4. ListSound'
  <2>1. UNCHANGED <<queue, queue_tail, next>>
    BY <1>0
  <2> QED BY <1>3, <2>1 DEF ListSound
<1>5. \A v \in Workers \ {w} : /\ Holds(v)' <=> Holds(v)
                               /\ pc'[v] = pc[v]
  BY DEF Holds, TypeOK
<1>6. \A v \in Workers \ {w} : Holds(v) => thread_task[v] # t
  BY <1>0, <1>5 DEF TaskHeldByOne
<1>7. Holds(w)' <=> to = "func"
  BY DEF Holds, TypeOK
<1>8. TaskHeldByOne'
  <2>1. ASSUME NEW v \in Workers \ {w}, Holds(v)'
        PROVE  /\ thread_task'[v] \in Tasks
               /\ life'[thread_task'[v]] = IF pc'[v] = "got" THEN "taken"
                                                             ELSE "running"
               /\ \A u \in Workers \ {v} : Holds(u)' => thread_task'[u] # thread_task'[v]
    <3>1. Holds(v) /\ thread_task[v] # t /\ thread_task[v] \in Tasks
      BY <2>1, <1>5, <1>6 DEF TaskHeldByOne
    <3>2. life'[thread_task[v]] = life[thread_task[v]]
      BY <3>1 DEF TypeOK
    <3>3. \A u \in Workers \ {v} : Holds(u)' => thread_task[u] # thread_task[v]
      BY <3>1, <1>5, <1>0 DEF TaskHeldByOne
    <3> QED BY <1>0, <1>5, <3>1, <3>2, <3>3 DEF TaskHeldByOne
  <2>2. ASSUME Holds(w)'
        PROVE  /\ thread_task'[w] \in Tasks
               /\ life'[thread_task'[w]] = IF pc'[w] = "got" THEN "taken"
                                                             ELSE "running"
               /\ \A u \in Workers \ {w} : Holds(u)' => thread_task'[u] # thread_task'[w]
    BY <1>0, <1>5, <1>6, <1>7, <2>2 DEF TypeOK
  <2> QED BY <2>1, <2>2 DEF TaskHeldByOne
<1>9. HandsSound'
  <2> SUFFICES ASSUME NEW u \in Tasks, life'[u] \in {"taken", "running"}
               PROVE  \E v \in Workers : Holds(v)' /\ thread_task'[v] = u
    BY DEF HandsSound
  <2>1. CASE u = t
    BY <1>0, <1>7, <2>1 DEF TypeOK
  <2>2. CASE u # t
    <3>1. PICK v \in Workers : Holds(v) /\ thread_task[v] = u
      BY <2>2 DEF HandsSound, TypeOK
    <3> QED BY <1>0, <1>5, <2>2, <3>1
  <2> QED BY <2>1, <2>2
<1>10. ExitOnlyWhenDrained'
  BY <1>0, <1>3 DEF ExitOnlyWhenDrained, TypeOK
<1>11. WorkersSound'
  BY <1>0 DEF WorkersSound, TypeOK
<1>12. TasksSound'
  <2>1. \A u \in Tasks : /\ life'[u] = "new" <=> life[u] = "new"
                         /\ life'[u] = "fresh" <=> life[u] = "fresh"
    BY <1>0 DEF TypeOK
  <2>2. mpc \in {"append", "appending"} => mi # t /\ mi \in Tasks
    BY <1>0 DEF TasksSound
  <2> QED BY <1>0, <2>1, <2>2, TasksKept
<1>13. ReleaseSound'
  BY <1>0 DEF ReleaseSound, TypeOK
<1>14. NoTaskIgnored'
  BY <1>0, <1>3 DEF NoTaskIgnored, TypeOK
<1> QED BY <1>1, <1>2, <1>4, <1>8, <1>9, <1>10, <1>11, <1>12, <1>13, <1>14

LEMMA CallInv ==
    ASSUME Inv, ~crashed, NEW w \in Workers, Call(w)
    PROVE  Inv'
<1> DEFINE t == thread_task[w]
<1>1. pc[w] = "got" /\ t \in Tasks /\ t # NULL /\ t # Garbage /\ Holds(w)
  BY Names DEF Inv, Call, Go, Holds, TaskHeldByOne
<1>2. /\ pc' = [pc EXCEPT ![w] = "func"]
      /\ crashed' = FALSE
      /\ prev' = [u \in Tasks |-> IF u = t THEN NULL ELSE prev[u]]
      /\ life' = [u \in Tasks |-> IF u = t THEN "running" ELSE life[u]]
      /\ UNCHANGED <<queue, queue_tail, next, stop, lock, waiting,
                     thread_task, mainVars, spurious>>
  BY <1>1 DEF Call, Go
<1>3. life' = [life EXCEPT ![t] = "running"]
  BY <1>1, <1>2 DEF Inv, TypeOK
<1>4. prev' \in [Tasks -> Tasks \cup {NULL}] /\ \A u \in Tasks \ {t} : prev'[u] = prev[u]
  BY <1>1, <1>2 DEF Inv, TypeOK
<1> HIDE DEF t
<1> QED BY <1>1, <1>2, <1>3, <1>4, WorkInv DEF t

LEMMA ReturnInv ==
    ASSUME Inv, ~crashed, NEW w \in Workers, Return(w)
    PROVE  Inv'
<1> DEFINE t == thread_task[w]
<1>1. pc[w] = "func" /\ t \in Tasks /\ Holds(w)
  BY Names DEF Inv, Return, Go, Holds, TaskHeldByOne
<1>2. /\ pc' = [pc EXCEPT ![w] = "lock"]
      /\ crashed' = FALSE
      /\ UNCHANGED <<queue, queue_tail, prev, next, stop, lock, waiting,
                     thread_task, mainVars, spurious>>
  BY <1>1 DEF Return, Go, Inv, TypeOK, listVars
<1>3. life' = [life EXCEPT ![t] = "done"]
  BY <1>1 DEF Return, Inv, TypeOK
<1>4. prev' \in [Tasks -> Tasks \cup {NULL}] /\ \A u \in Tasks \ {t} : prev'[u] = prev[u]
  BY <1>1, <1>2 DEF Inv, TypeOK
<1> HIDE DEF t
<1> QED BY <1>1, <1>2, <1>3, <1>4, WorkInv DEF t

-----------------------------------------------------------------------------
(* The steps of main.                                                      *)

LEMMA CreateWorkerInv ==
    ASSUME Inv, ~crashed, CreateWorker
    PROVE  Inv'
<1> USE DEF Inv
<1>0. /\ mpc = "create" /\ mpc' = "create" /\ mi \in Workers /\ mi' = mi + 1
      /\ mi \notin created /\ pc[mi] = "absent" /\ lock # mi
      /\ UNCHANGED <<listVars, stop, noact_workder, lock, waiting, thread_task,
                     freed, crashed, life, spurious>>
  BY DEF CreateWorker, WorkersSound, Workers, MutexSound, TypeOK
<1>00. UNCHANGED <<queue, queue_tail, prev, next>>
  BY <1>0 DEF listVars
<1>1. \/ created' = created \cup {mi} /\ pc' = [pc EXCEPT ![mi] = "lock"]
      \/ mi \in MayFail /\ created' = created /\ pc' = pc
  BY DEF CreateWorker
<1>2. \A w \in Workers \ {mi} : /\ pc'[w] = pc[w]
                                /\ w \in created' <=> w \in created
  BY <1>1 DEF TypeOK
<1>3. \/ mi \in created' /\ pc'[mi] = "lock"
      \/ mi \in MayFail /\ mi \notin created' /\ pc'[mi] = "absent"
  BY <1>0, <1>1 DEF TypeOK
<1>4. TypeOK'
  <2>1. mi' \in Nat
    BY <1>0 DEF TypeOK
  <2>2. created' \subseteq Workers
    BY <1>0, <1>1 DEF TypeOK
  <2>3. pc' \in [Workers -> WorkerPlaces]
    <3>1. "lock" \in WorkerPlaces /\ pc \in [Workers -> WorkerPlaces]
      BY DEF TypeOK, WorkerPlaces
    <3> QED BY <1>1, <3>1
  <2> QED BY <1>0, <1>00, <2>1, <2>2, <2>3 DEF TypeOK
<1>5. MutexSound'
  BY <1>0, <1>2, <1>3 DEF MutexSound
<1>6. ListSound'
  BY <1>0, ListKept
<1>7. TaskHeldByOne' /\ HandsSound'
  BY <1>0, <1>2, <1>3, HeldKept
<1>8. Queued = {} /\ Queued' = {}
  BY <1>0 DEF Queued, TasksSound
<1>9. ExitOnlyWhenDrained'
  BY <1>0, <1>2, <1>3 DEF ExitOnlyWhenDrained
<1>10. WorkersSound'
  <2>1. \A w \in Workers : w \in Nat
    BY Names
  <2>2. \A w \in Workers : w < mi + 1 <=> w < mi \/ w = mi
    BY <2>1, <1>0
  <2>3. mi' \in 1..NWorkers + 1
    BY <1>0, Sizes DEF Workers
  <2>4. \A w \in Workers : w \in created' <=> pc'[w] # "absent"
    BY <1>2, <1>3 DEF WorkersSound
  <2>5. \A w \in Workers : w >= mi' => w \notin created'
    BY <2>1, <1>0, <1>2 DEF WorkersSound
  <2>6. \A w \in Workers \ MayFail : w < mi' => w \in created'
    BY <2>2, <1>0, <1>2, <1>3 DEF WorkersSound
  <2> QED BY <1>0, <2>3, <2>4, <2>5, <2>6 DEF WorkersSound
<1>11. TasksSound'
  BY <1>0 DEF TasksSound
<1>12. ReleaseSound'
  BY <1>0 DEF ReleaseSound
<1>13. NoTaskIgnored'
  BY <1>8 DEF NoTaskIgnored
<1> QED BY <1>4, <1>5, <1>6, <1>7, <1>9, <1>10, <1>11, <1>12, <1>13

(* A step of main between two places that touches no worker and no task.   *)
LEMMA MainMoves ==
    ASSUME Inv, UNCHANGED <<listVars, stop, noact_workder, waiting, created, pc,
                            thread_task, freed, crashed, life, spurious>>,
           mpc' \in MainPlaces, mi' \in Nat,
           lock' \in {NULL, Main, lock}
    PROVE  TypeOK' /\ ListSound' /\ TaskHeldByOne' /\ HandsSound'
           /\ Queued' = Queued
<1>0. UNCHANGED <<queue, queue_tail, prev, next>>
  BY DEF listVars
<1>1. TypeOK'
  BY <1>0 DEF Inv, TypeOK
<1>2. ListSound'
  BY ListKept DEF Inv
<1>3. TaskHeldByOne' /\ HandsSound'
  BY HeldKept DEF Inv
<1> QED BY <1>1, <1>2, <1>3 DEF Queued

LEMMA PoolCreatedInv ==
    ASSUME Inv, ~crashed, PoolCreated
    PROVE  Inv'
<1>0. /\ mpc = "create" /\ mpc' = "alloc" /\ mi > NWorkers /\ mi' = 1
      /\ UNCHANGED <<listVars, stop, noact_workder, lock, waiting, created, pc,
                     thread_task, freed, crashed, life, spurious>>
  BY DEF PoolCreated
<1>1. TypeOK' /\ ListSound' /\ TaskHeldByOne' /\ HandsSound' /\ Queued' = Queued
  BY <1>0, MainMoves DEF MainPlaces
<1>2. \A t \in Tasks : life[t] = "new"
  BY <1>0 DEF Inv, TasksSound
<1>3. TasksSound'
  BY <1>0, <1>2, Sizes DEF TasksSound, Tasks
<1>4. WorkersSound'
  <2>1. \A w \in Workers : w < mi
    BY <1>0, Sizes DEF Workers, Inv, TypeOK
  <2> QED BY <1>0, <2>1 DEF WorkersSound, Inv
<1>5. Queued = {}
  BY <1>2 DEF Queued
<1> QED BY <1>0, <1>1, <1>3, <1>4, <1>5 DEF Inv, MutexSound, ExitOnlyWhenDrained,
                                            ReleaseSound, NoTaskIgnored

LEMMA LockToAppendInv ==
    ASSUME Inv, ~crashed, LockToAppend
    PROVE  Inv'
<1>0. /\ mpc = "append" /\ mpc' = "appending" /\ lock = NULL /\ lock' = Main
      /\ UNCHANGED <<listVars, stop, noact_workder, waiting, created, pc, mi,
                     thread_task, freed, crashed, life, spurious>>
  BY DEF LockToAppend, Acquire
<1>1. TypeOK' /\ ListSound' /\ TaskHeldByOne' /\ HandsSound' /\ Queued' = Queued
  BY <1>0, MainMoves DEF MainPlaces, Inv, TypeOK
<1>2. UNCHANGED <<prev, next>>
  BY <1>0 DEF listVars
<1>3. TasksSound'
  BY <1>0, <1>2 DEF TasksSound, Inv
<1>4. MutexSound'
  BY <1>0, Names DEF MutexSound, Inv
<1> QED BY <1>0, <1>1, <1>3, <1>4 DEF Inv, WorkersSound, ExitOnlyWhenDrained,
                                      ReleaseSound, NoTaskIgnored

LEMMA BeginReleaseInv ==
    ASSUME Inv, ~crashed, BeginRelease
    PROVE  Inv'
<1>0. /\ mpc = "alloc" /\ mpc' = "stop" /\ mi > NTasks
      /\ UNCHANGED <<listVars, stop, noact_workder, lock, waiting, created, pc,
                     thread_task, mi, freed, crashed, life, spurious>>
  BY DEF BeginRelease
<1>1. TypeOK' /\ ListSound' /\ TaskHeldByOne' /\ HandsSound' /\ Queued' = Queued
  BY <1>0, MainMoves DEF MainPlaces, Inv, TypeOK
<1>2. TasksSound'
  <2>1. \A t \in Tasks : ~(t >= mi)
    BY <1>0, Sizes DEF Tasks, Inv, TypeOK
  <2>2. \A t \in Tasks : life[t] \notin {"new", "fresh"}
    BY <1>0, <2>1 DEF TasksSound, Inv
  <2> QED BY <1>0, <2>2 DEF TasksSound
<1>3. MutexSound'
  BY <1>0 DEF MutexSound, Inv
<1> QED BY <1>0, <1>1, <1>2, <1>3 DEF Inv, WorkersSound, ExitOnlyWhenDrained,
                                      ReleaseSound, NoTaskIgnored

LEMMA LockToStopInv ==
    ASSUME Inv, ~crashed, LockToStop
    PROVE  Inv'
<1>0. /\ mpc = "stop" /\ mpc' = "stopping" /\ lock = NULL /\ lock' = Main
      /\ UNCHANGED <<listVars, stop, noact_workder, waiting, created, pc, mi,
                     thread_task, freed, crashed, life, spurious>>
  BY DEF LockToStop, Acquire
<1>1. TypeOK' /\ ListSound' /\ TaskHeldByOne' /\ HandsSound' /\ Queued' = Queued
  BY <1>0, MainMoves DEF MainPlaces, Inv, TypeOK
<1>2. TasksSound'
  BY <1>0 DEF TasksSound, Inv
<1>3. MutexSound'
  BY <1>0, Names DEF MutexSound, Inv
<1> QED BY <1>0, <1>1, <1>2, <1>3 DEF Inv, WorkersSound, ExitOnlyWhenDrained,
                                      ReleaseSound, NoTaskIgnored

LEMMA StopInv ==
    ASSUME Inv, ~crashed, Stop
    PROVE  Inv'
<1> USE DEF Inv
<1>0. /\ mpc = "stopping" /\ mpc' = "broadcast" /\ lock = Main /\ lock' = NULL
      /\ stop' = TRUE
      /\ UNCHANGED <<listVars, noact_workder, waiting, created, pc, mi,
                     thread_task, freed, crashed, life, spurious>>
  BY DEF Stop, Release
<1>1. UNCHANGED <<queue, queue_tail, prev, next>>
  BY <1>0 DEF listVars
<1>2. TypeOK'
  BY <1>0, <1>1 DEF TypeOK, MainPlaces
<1>3. ListSound' /\ Queued' = Queued
  BY <1>0, ListKept DEF Queued
<1>4. TaskHeldByOne' /\ HandsSound'
  BY <1>0, HeldKept
<1>5. TasksSound'
  BY <1>0 DEF TasksSound
<1>6. MutexSound'
  BY <1>0, Names DEF MutexSound
<1>7. ExitOnlyWhenDrained'
  BY <1>0, <1>3 DEF ExitOnlyWhenDrained, ReleaseSound
<1>8. WorkersSound' /\ ReleaseSound' /\ NoTaskIgnored'
  BY <1>0, <1>3 DEF WorkersSound, ReleaseSound, NoTaskIgnored
<1> QED BY <1>2, <1>3, <1>4, <1>5, <1>6, <1>7, <1>8

LEMMA AllocTaskInv ==
    ASSUME Inv, ~crashed, AllocTask
    PROVE  Inv'
<1> USE DEF Inv
<1>0. /\ mpc = "alloc" /\ mi \in Tasks /\ mi \in Nat /\ life[mi] = "new"
      /\ UNCHANGED <<queue, queue_tail, stop, lock, waiting, pc, thread_task,
                     mi, noact_workder, created, freed, spurious>>
  <2>1. mpc = "alloc" /\ mi <= NTasks /\ mi \in Nat
    BY DEF AllocTask, TypeOK
  <2>2. mi \in Tasks
    <3>1. mi \in 1..NTasks + 1
      BY <2>1 DEF TasksSound
    <3> QED BY <2>1, <3>1, Sizes DEF Tasks
  <2>3. life[mi] = "new"
    BY <2>1, <2>2 DEF TasksSound
  <2> QED BY <2>1, <2>2, <2>3 DEF AllocTask
<1>1. CASE /\ mpc' = "append"
           /\ next' = [next EXCEPT ![mi] = NULL]
           /\ prev' = [prev EXCEPT ![mi] = NULL]
           /\ life' = [life EXCEPT ![mi] = "fresh"]
           /\ crashed' = crashed
  <2>1. TypeOK'
    BY <1>0, <1>1 DEF TypeOK, MainPlaces, Lives
  <2>2. Queued' = Queued /\ mi \notin Queued
    BY <1>0, <1>1 DEF Queued, TypeOK
  <2>3. \A t \in Queued : prev'[t] = prev[t] /\ next'[t] = next[t]
    BY <1>1, <2>2 DEF Queued, TypeOK
  <2>4. ListSound'
    <3>1. queue' = queue /\ queue_tail' = queue_tail
      BY <1>0
    <3> QED BY <2>2, <2>3, <3>1 DEF ListSound
  <2>5. TaskHeldByOne'
    <3>1. \A v \in Workers : Holds(v)' <=> Holds(v)
      BY <1>0 DEF Holds
    <3>2. \A v \in Workers : Holds(v) => thread_task[v] # mi
      BY <1>0 DEF TaskHeldByOne
    <3>3. \A v \in Workers : Holds(v) => life'[thread_task[v]] = life[thread_task[v]]
      BY <1>1, <3>2 DEF TaskHeldByOne, TypeOK
    <3> QED BY <1>0, <3>1, <3>3 DEF TaskHeldByOne
  <2>6. HandsSound'
    <3>1. \A v \in Workers : Holds(v)' <=> Holds(v)
      BY <1>0 DEF Holds
    <3>2. \A t \in Tasks : life'[t] \in {"taken", "running"} => life'[t] = life[t]
      BY <1>1 DEF TypeOK
    <3> QED BY <1>0, <3>1, <3>2 DEF HandsSound
  <2>7. TasksSound'
    <3>1. \A t \in Tasks : (life[t] = "new" <=> t >= mi) /\ life[t] # "fresh"
      BY <1>0 DEF TasksSound
    <3>2. \A t \in Tasks : t \in Nat /\ (t > mi <=> t >= mi /\ t # mi)
      BY <1>0, Names
    <3>3. \A t \in Tasks : /\ life'[t] = "new" <=> t > mi
                           /\ life'[t] = "fresh" <=> t = mi
      BY <1>0, <1>1, <3>1, <3>2 DEF TypeOK
    <3>4. prev'[mi] = NULL /\ next'[mi] = NULL
      BY <1>0, <1>1 DEF TypeOK
    <3> QED BY <1>0, <1>1, <3>3, <3>4 DEF TasksSound
  <2>8. MutexSound' /\ WorkersSound' /\ ReleaseSound'
    BY <1>0, <1>1 DEF MutexSound, WorkersSound, ReleaseSound
  <2>9. ExitOnlyWhenDrained' /\ NoTaskIgnored'
    BY <1>0, <1>1, <2>2 DEF ExitOnlyWhenDrained, NoTaskIgnored
  <2> QED BY <2>1, <2>4, <2>5, <2>6, <2>7, <2>8, <2>9
<1>2. CASE crashed' = TRUE /\ UNCHANGED <<mpc, next, prev, life>>
  <2>1. TypeOK'
    BY <1>0, <1>2 DEF TypeOK
  <2>2. ListSound' /\ Queued' = Queued
    BY <1>0, <1>2, ListKept DEF listVars, Queued
  <2>3. TaskHeldByOne' /\ HandsSound'
    BY <1>0, <1>2, HeldKept
  <2>4. TasksSound'
    BY <1>0, <1>2, TasksKept
  <2> QED BY <1>0, <1>2, <2>1, <2>2, <2>3, <2>4
          DEF MutexSound, WorkersSound, ReleaseSound, ExitOnlyWhenDrained,
              NoTaskIgnored
<1> QED BY <1>1, <1>2 DEF AllocTask

(* The list with one more task, newer than all the others.                 *)
LEMMA LinkAtTailSound ==
    ASSUME Inv, NEW m \in Tasks, LinkAtTail(m), prev[m] = NULL, next[m] = NULL,
           \A t \in Queued : t < m,
           life' = [life EXCEPT ![m] = "queued"]
    PROVE  /\ ListSound'
           /\ queue' \in Tasks /\ queue_tail' \in Tasks
           /\ prev' \in [Tasks -> Tasks \cup {NULL}]
           /\ next' \in [Tasks -> Tasks \cup {NULL}]
<1> DEFINE q == queue_tail
<1> USE DEF Inv
<1>1. Queued' = Queued \cup {m}
  BY DEF Queued, TypeOK
<1>2. m \in Nat /\ m # NULL /\ m \notin Queued
      /\ \A t \in Queued : t \in Tasks /\ t \in Nat /\ t # NULL
  BY Names DEF Queued
<1>3. CASE q = NULL
  <2>1. queue' = m /\ queue_tail' = m /\ prev' = prev /\ next' = next
    BY <1>3 DEF LinkAtTail
  <2>2. Queued = {}
    BY <1>3 DEF ListSound
  <2>3. Queued' = {m}
    BY <1>1, <2>2
  <2>4. ListSound'
    BY <1>2, <2>1, <2>3 DEF ListSound
  <2> QED BY <2>1, <2>4 DEF TypeOK
<1>4. CASE q # NULL
  <2>1. /\ queue_tail' = m /\ queue' = queue
        /\ prev' = [prev EXCEPT ![m] = q]
        /\ next' = [next EXCEPT ![q] = m]
    BY <1>4 DEF LinkAtTail
  <2>2. q \in Queued /\ queue \in Queued /\ q \in Tasks /\ q \in Nat /\ q < m
        /\ queue \in Tasks /\ queue \in Nat /\ queue < m /\ q # m
    BY <1>2, <1>4 DEF ListSound
  <2>3. \A t \in Queued : t <= q
    BY DEF ListSound
  <2>4. prev'[m] = q /\ next'[q] = m /\ next'[m] = NULL
    BY <2>1, <2>2 DEF TypeOK
  <2>5. \A t \in Queued : prev'[t] = prev[t] /\ (t # q => next'[t] = next[t])
    BY <1>2, <2>1 DEF TypeOK
  <2>6. queue' \in Queued' /\ queue_tail' \in Queued' /\ Queued' # {}
        /\ queue' # NULL /\ queue_tail' # NULL
    BY <1>1, <1>2, <2>1, <2>2
  <2>7. /\ queue' <= m /\ m <= queue_tail'
        /\ prev'[m] = NULL <=> m = queue'
        /\ next'[m] = NULL <=> m = queue_tail'
        /\ m # queue' => /\ prev'[m] \in Queued'
                         /\ prev'[m] < m
                         /\ next'[prev'[m]] = m
                         /\ \A u \in Queued' : u <= prev'[m] \/ m <= u
        /\ m # queue_tail' => next'[m] \in Queued' /\ prev'[next'[m]] = m
    <3>1. \A u \in Queued' : u <= q \/ m <= u
      BY <1>1, <1>2, <2>3
    <3> QED BY <1>1, <1>2, <1>4, <2>1, <2>2, <2>4, <3>1
  <2>8. ASSUME NEW t \in Queued
        PROVE  /\ queue' <= t /\ t <= queue_tail'
               /\ prev'[t] = NULL <=> t = queue'
               /\ next'[t] = NULL <=> t = queue_tail'
               /\ t # queue' => /\ prev'[t] \in Queued'
                                /\ prev'[t] < t
                                /\ next'[prev'[t]] = t
                                /\ \A u \in Queued' : u <= prev'[t] \/ t <= u
               /\ t # queue_tail' => next'[t] \in Queued' /\ prev'[next'[t]] = t
    <3>1. t # m /\ t < m /\ t \in Nat /\ t \in Tasks /\ t <= q
      BY <1>2, <2>3
    <3>2. queue' <= t /\ t <= queue_tail' /\ (prev'[t] = NULL <=> t = queue')
      BY <1>2, <2>1, <2>5, <3>1 DEF ListSound
    <3>3. next'[t] = NULL <=> t = queue_tail'
      BY <1>2, <2>1, <2>4, <2>5, <3>1 DEF ListSound
    <3>4. ASSUME t # queue'
          PROVE  /\ prev'[t] \in Queued' /\ prev'[t] < t
                 /\ next'[prev'[t]] = t
                 /\ \A u \in Queued' : u <= prev'[t] \/ t <= u
      <4>1. /\ prev[t] \in Queued /\ prev[t] < t /\ next[prev[t]] = t
            /\ \A u \in Queued : u <= prev[t] \/ t <= u
        BY <2>1, <3>4 DEF ListSound
      <4>2. prev[t] \in Nat
        BY <1>2, <4>1
      <4>3. prev[t] # q
        BY <4>1, <4>2, <2>2, <3>1
      <4>4. next'[prev[t]] = t
        BY <4>1, <4>3, <2>5
      <4> QED BY <1>1, <2>5, <3>1, <4>1, <4>4, <1>2
    <3>5. ASSUME t # queue_tail'
          PROVE  next'[t] \in Queued' /\ prev'[next'[t]] = t
      <4>1. CASE t = q
        BY <1>1, <2>4, <4>1
      <4>2. CASE t # q
        <5>1. next[t] \in Queued /\ prev[next[t]] = t
          BY <4>2 DEF ListSound
        <5> QED BY <1>1, <2>5, <4>2, <5>1
      <4> QED BY <4>1, <4>2
    <3> QED BY <3>2, <3>3, <3>4, <3>5
  <2>9. ListSound'
    BY <1>1, <2>6, <2>7, <2>8 DEF ListSound
  <2> QED BY <2>1, <2>2, <2>9 DEF TypeOK
<1> QED BY <1>3, <1>4

LEMMA AppendInv ==
    ASSUME Inv, ~crashed, Append
    PROVE  Inv'
<1> USE DEF Inv
<1>0. /\ mpc = "appending" /\ mpc' = "signal" /\ lock = Main /\ lock' = NULL
      /\ LinkAtTail(mi) /\ life' = [life EXCEPT ![mi] = "queued"]
      /\ UNCHANGED <<stop, waiting, pc, thread_task, mi, noact_workder,
                     created, freed, crashed, spurious>>
  BY DEF Append, Release
<1>1. /\ mi \in Tasks /\ prev[mi] = NULL /\ next[mi] = NULL
      /\ \A t \in Tasks : /\ life[t] = "new" <=> t > mi
                          /\ life[t] = "fresh" <=> t = mi
  BY <1>0 DEF TasksSound
<1>2. life[mi] = "fresh"
  BY <1>1
<1>3. \A t \in Queued : t < mi
  BY <1>1, Names DEF Queued
<1>4. /\ ListSound'
      /\ queue' \in Tasks /\ queue_tail' \in Tasks
      /\ prev' \in [Tasks -> Tasks \cup {NULL}]
      /\ next' \in [Tasks -> Tasks \cup {NULL}]
  BY <1>0, <1>1, <1>3, LinkAtTailSound
<1>5. TypeOK'
  BY <1>0, <1>1, <1>4 DEF TypeOK, MainPlaces, Lives
<1>6. TaskHeldByOne'
  <2>1. \A v \in Workers : Holds(v)' <=> Holds(v)
    BY <1>0 DEF Holds
  <2>2. \A v \in Workers : Holds(v) => thread_task[v] # mi
    BY <1>2 DEF TaskHeldByOne
  <2>3. \A v \in Workers : Holds(v) => life'[thread_task[v]] = life[thread_task[v]]
    BY <1>0, <2>2 DEF TaskHeldByOne, TypeOK
  <2> QED BY <1>0, <2>1, <2>3 DEF TaskHeldByOne
<1>7. HandsSound'
  <2>1. \A v \in Workers : Holds(v)' <=> Holds(v)
    BY <1>0 DEF Holds
  <2>2. \A t \in Tasks : life'[t] \in {"taken", "running"} => life'[t] = life[t]
    BY <1>0 DEF TypeOK
  <2> QED BY <1>0, <2>1, <2>2 DEF HandsSound
<1>8. TasksSound'
  <2>1. \A t \in Tasks : (life'[t] = "new" <=> t > mi) /\ life'[t] # "fresh"
    <3>1. ~(mi > mi)
      BY <1>1, Names
    <3> QED BY <1>0, <1>1, <3>1 DEF TypeOK
  <2>2. mi \in 1..NTasks + 1
    BY <1>1, Sizes DEF Tasks
  <2> QED BY <1>0, <1>1, <2>1, <2>2 DEF TasksSound
<1>9. MutexSound'
  BY <1>0, Names DEF MutexSound
<1>10. ExitOnlyWhenDrained' /\ NoTaskIgnored'
  BY <1>0 DEF ExitOnlyWhenDrained, NoTaskIgnored
<1>11. WorkersSound' /\ ReleaseSound'
  BY <1>0 DEF WorkersSound, ReleaseSound
<1> QED BY <1>4, <1>5, <1>6, <1>7, <1>8, <1>9, <1>10, <1>11

(* Wakeups disturb nobody but the sleepers.                                *)
LEMMA WakeupKeeps ==
    ASSUME Inv, NEW W \in SUBSET waiting,
           waiting' = waiting \ W,
           pc' = [w \in Workers |-> IF w \in W THEN "relock" ELSE pc[w]],
           UNCHANGED <<listVars, stop, lock, thread_task, noact_workder,
                       created, freed, crashed, life, spurious>>,
           mpc' \in MainPlaces \ {"appending", "stopping"}, mi' \in Nat,
           mpc \notin {"appending", "stopping"}
    PROVE  /\ TypeOK' /\ MutexSound' /\ ListSound' /\ TaskHeldByOne' /\ HandsSound'
           /\ Queued' = Queued
           /\ \A w \in Workers : /\ pc'[w] = "absent" <=> pc[w] = "absent"
                                 /\ pc'[w] = "exited" <=> pc[w] = "exited"
<1> USE DEF Inv
<1>0. UNCHANGED <<queue, queue_tail, prev, next>>
  BY DEF listVars
<1>1. \A w \in W : w \in Workers /\ pc[w] = "wait"
  BY DEF MutexSound
<1>2. TypeOK'
  BY <1>0 DEF TypeOK, WorkerPlaces
<1>3. \A w \in Workers : /\ pc'[w] = "absent" <=> pc[w] = "absent"
                         /\ pc'[w] = "exited" <=> pc[w] = "exited"
                         /\ pc'[w] = "got" <=> pc[w] = "got"
                         /\ pc'[w] = "func" <=> pc[w] = "func"
                         /\ pc'[w] = "check" <=> pc[w] = "check"
                         /\ pc'[w] = "wait" <=> pc[w] = "wait" /\ w \notin W
  BY <1>1
<1>4. ListSound' /\ Queued' = Queued
  BY ListKept DEF Queued
<1>5. TaskHeldByOne' /\ HandsSound'
  BY <1>3, HeldKept
<1>6. MutexSound'
  BY <1>3 DEF MutexSound
<1> QED BY <1>2, <1>3, <1>4, <1>5, <1>6

(* pthread_create starts at least one worker: not all of them can fail.    *)
LEMMA SomeWorker ==
    ASSUME Inv, mpc # "create"
    PROVE  \E w \in created : w \in Workers
<1>1. PICK w \in Workers : w \notin MayFail
  <2>1. MayFail \subseteq Workers /\ MayFail # Workers
    BY ThreadPoolAssumption DEF Workers
  <2>2. MayFail = {w \in Workers : w \in MayFail}
    BY <2>1
  <2> QED BY <2>1, <2>2, Zenon
<1>2. w \in created
  BY <1>1 DEF Inv, WorkersSound
<1> QED BY <1>2

LEMMA SignalInv ==
    ASSUME Inv, ~crashed, Signal
    PROVE  Inv'
<1> USE DEF Inv
<1>0. /\ mpc = "signal" /\ mpc' = "alloc" /\ mi' = mi + 1 /\ mi \in Tasks
      /\ mi \in Nat
      /\ UNCHANGED <<listVars, stop, lock, thread_task, noact_workder,
                     created, freed, crashed, life, spurious>>
  BY DEF Signal, TasksSound, TypeOK
<1>1. PICK W \in SUBSET waiting :
          /\ waiting' = waiting \ W
          /\ pc' = [w \in Workers |-> IF w \in W THEN "relock" ELSE pc[w]]
          /\ waiting # {} => W # {}
  <2>1. CASE waiting = {}
    <3> WITNESS {} \in SUBSET waiting
    <3> QED BY <2>1 DEF Signal, WakeOne, TypeOK
  <2>2. CASE waiting # {}
    <3>1. PICK v \in waiting : waiting' = waiting \ {v}
                               /\ pc' = [pc EXCEPT ![v] = "relock"]
      BY <2>2 DEF Signal, WakeOne
    <3> WITNESS {v} \in SUBSET waiting
    <3> QED BY <3>1 DEF TypeOK
  <2> QED BY <2>1, <2>2
<1>2. /\ TypeOK' /\ MutexSound' /\ ListSound' /\ TaskHeldByOne' /\ HandsSound'
      /\ Queued' = Queued
      /\ \A w \in Workers : /\ pc'[w] = "absent" <=> pc[w] = "absent"
                            /\ pc'[w] = "exited" <=> pc[w] = "exited"
  BY <1>0, <1>1, WakeupKeeps DEF MainPlaces
<1>3. ExitOnlyWhenDrained' /\ WorkersSound' /\ ReleaseSound'
  BY <1>0, <1>2 DEF ExitOnlyWhenDrained, WorkersSound, ReleaseSound
<1>4. TasksSound'
  <2>1. \A t \in Tasks : t \in Nat /\ (t > mi <=> t >= mi + 1)
    BY <1>0, Names
  <2>2. \A t \in Tasks : (life[t] = "new" <=> t > mi) /\ life[t] # "fresh"
    BY <1>0 DEF TasksSound
  <2>3. mi + 1 \in 1..NTasks + 1
    BY <1>0, Sizes DEF Tasks
  <2> QED BY <1>0, <2>1, <2>2, <2>3 DEF TasksSound
<1>5. NoTaskIgnored'
  <2>1. \A w \in Workers : pc[w] # "exited"
    BY <1>0 DEF ExitOnlyWhenDrained
  <2>2. PICK v \in created : v \in Workers
    BY <1>0, SomeWorker
  <2>3. CASE waiting = {}
    BY <1>0, <1>1, <2>1, <2>2, <2>3 DEF NoTaskIgnored, MutexSound
  <2>4. CASE waiting # {}
    <3>1. PICK w \in W : w \in Workers /\ pc[w] = "wait"
      BY <1>1, <2>4 DEF MutexSound
    <3>2. w \in created' /\ pc'[w] = "relock"
      BY <1>0, <1>1, <3>1 DEF WorkersSound
    <3> QED BY <3>2 DEF NoTaskIgnored
  <2> QED BY <2>3, <2>4
<1> QED BY <1>2, <1>3, <1>4, <1>5

LEMMA BroadcastInv ==
    ASSUME Inv, ~crashed, Broadcast
    PROVE  Inv'
<1> USE DEF Inv
<1>0. /\ mpc = "broadcast" /\ mpc' = "join" /\ mi' = 1
      /\ UNCHANGED <<listVars, stop, lock, thread_task, noact_workder,
                     created, freed, crashed, life, spurious>>
      /\ waiting' = waiting \ waiting
      /\ pc' = [w \in Workers |-> IF w \in waiting THEN "relock" ELSE pc[w]]
  BY DEF Broadcast, WakeAll
<1>1. /\ TypeOK' /\ MutexSound' /\ ListSound' /\ TaskHeldByOne' /\ HandsSound'
      /\ Queued' = Queued
      /\ \A w \in Workers : /\ pc'[w] = "absent" <=> pc[w] = "absent"
                            /\ pc'[w] = "exited" <=> pc[w] = "exited"
  BY <1>0, WakeupKeeps DEF MainPlaces
<1>2. ExitOnlyWhenDrained' /\ WorkersSound'
  BY <1>0, <1>1 DEF ExitOnlyWhenDrained, WorkersSound
<1>3. TasksSound'
  BY <1>0 DEF TasksSound
<1>4. ReleaseSound'
  <2>1. \A w \in created : ~(w < 1)
    BY DEF TypeOK, Workers
  <2> QED BY <1>0, <2>1 DEF ReleaseSound
<1>5. NoTaskIgnored'
  <2>1. PICK v \in created : v \in Workers
    BY <1>0, SomeWorker
  <2>2. pc'[v] # "wait"
    BY <1>0, <2>1 DEF MutexSound
  <2>3. Queued # {} => pc'[v] # "exited"
    BY <1>1, <2>1 DEF ExitOnlyWhenDrained
  <2> QED BY <1>0, <1>1, <2>1, <2>2, <2>3 DEF NoTaskIgnored
<1> QED BY <1>1, <1>2, <1>3, <1>4, <1>5

LEMMA JoinInv ==
    ASSUME Inv, ~crashed, Join
    PROVE  Inv'
<1> USE DEF Inv
<1>0. /\ mpc = "join" /\ mpc' = "join" /\ mi' = mi + 1 /\ mi \in Nat
      /\ mi \in created => pc[mi] = "exited"
      /\ crashed' \in BOOLEAN
      /\ UNCHANGED <<listVars, stop, lock, waiting, pc, thread_task,
                     noact_workder, created, freed, life, spurious>>
  BY DEF Join, TypeOK
<1>00. UNCHANGED <<queue, queue_tail, prev, next>>
  BY <1>0 DEF listVars
<1>1. TypeOK'
  <2>1. mi' \in Nat
    BY <1>0
  <2> QED BY <1>0, <1>00, <2>1 DEF TypeOK
<1>2. ListSound' /\ Queued' = Queued
  BY <1>0, ListKept DEF Queued
<1>3. TaskHeldByOne' /\ HandsSound'
  BY <1>0, HeldKept
<1>4. TasksSound' /\ MutexSound' /\ WorkersSound'
  BY <1>0 DEF TasksSound, MutexSound, WorkersSound
<1>5. ExitOnlyWhenDrained' /\ NoTaskIgnored'
  BY <1>0, <1>2 DEF ExitOnlyWhenDrained, NoTaskIgnored
<1>6. ReleaseSound'
  <2>1. \A w \in created : w \in Nat
    BY Names DEF TypeOK
  <2>2. \A w \in created : w < mi + 1 => w < mi \/ w = mi
    BY <1>0, <2>1
  <2> QED BY <1>0, <2>2 DEF ReleaseSound
<1> QED BY <1>1, <1>2, <1>3, <1>4, <1>5, <1>6

(* The uint16_t that holds the number of workers does not truncate it.     *)
LEMMA MaxWorker == max_worker = NWorkers
<1>1. NWorkers \in Int /\ 0 <= NWorkers /\ NWorkers < 65536
  BY ThreadPoolAssumption
<1> QED BY <1>1 DEF max_worker

LEMMA FreeInv ==
    ASSUME Inv, ~crashed, Free
    PROVE  Inv'
<1> USE DEF Inv
<1>0. /\ mpc = "join" /\ mpc' = "done" /\ freed' = TRUE /\ mi > max_worker
      /\ UNCHANGED <<listVars, stop, lock, waiting, pc, thread_task, mi,
                     noact_workder, created, crashed, life, spurious>>
  BY DEF Free, Joined
<1>00. UNCHANGED <<queue, queue_tail, prev, next>>
  BY <1>0 DEF listVars
<1>1. TypeOK'
  BY <1>0, <1>00 DEF TypeOK, MainPlaces
<1>2. ListSound' /\ Queued' = Queued
  BY <1>0, ListKept DEF Queued
<1>3. TaskHeldByOne' /\ HandsSound'
  BY <1>0, HeldKept
<1>4. TasksSound' /\ MutexSound' /\ WorkersSound'
  BY <1>0 DEF TasksSound, MutexSound, WorkersSound
<1>5. ExitOnlyWhenDrained' /\ NoTaskIgnored'
  BY <1>0, <1>2 DEF ExitOnlyWhenDrained, NoTaskIgnored
<1>6. ReleaseSound'
  BY <1>0, MaxWorker DEF ReleaseSound
<1> QED BY <1>1, <1>2, <1>3, <1>4, <1>5, <1>6

-----------------------------------------------------------------------------
LEMMA InitInv == Init => Inv
<1> SUFFICES ASSUME Init PROVE Inv
  OBVIOUS
<1> USE DEF Init
<1>1. TypeOK
  <2>1. noact_workder \in 0..NWorkers /\ spurious \in 0..MaxSpurious /\ mi \in Nat
    BY Sizes
  <2>2. /\ prev \in [Tasks -> Tasks \cup {NULL}]
        /\ next \in [Tasks -> Tasks \cup {NULL}]
        /\ pc \in [Workers -> WorkerPlaces] /\ life \in [Tasks -> Lives]
        /\ thread_task \in [Workers -> Tasks \cup {NULL, Garbage}]
    BY DEF WorkerPlaces, Lives
  <2> QED BY <2>1, <2>2 DEF TypeOK, MainPlaces
<1>2. Queued = {}
  BY DEF Queued
<1>3. MutexSound /\ ListSound /\ TaskHeldByOne /\ HandsSound
  BY <1>2, Names DEF MutexSound, ListSound, TaskHeldByOne, HandsSound, Holds
<1>4. TasksSound /\ ReleaseSound /\ ExitOnlyWhenDrained /\ NoTaskIgnored
  BY <1>2 DEF TasksSound, ReleaseSound, ExitOnlyWhenDrained, NoTaskIgnored
<1>5. WorkersSound
  BY Sizes DEF WorkersSound, Workers
<1> QED BY <1>1, <1>3, <1>4, <1>5 DEF Inv

LEMMA StutterInv ==
    ASSUME Inv, UNCHANGED vars
    PROVE  Inv'
<1> USE DEF Inv
<1>0. UNCHANGED <<queue, queue_tail, prev, next, stop, lock, waiting, pc,
                  thread_task, mpc, mi, noact_workder, created, freed, crashed,
                  life, spurious>>
  BY DEF vars, listVars, mainVars
<1>1. ListSound' /\ Queued' = Queued
  BY <1>0, ListKept DEF Queued, listVars
<1>2. TaskHeldByOne' /\ HandsSound'
  BY <1>0, HeldKept
<1>3. TypeOK' /\ TasksSound' /\ MutexSound'
  BY <1>0 DEF TypeOK, TasksSound, MutexSound
<1>4. WorkersSound' /\ ReleaseSound' /\ ExitOnlyWhenDrained' /\ NoTaskIgnored'
  BY <1>0, <1>1 DEF WorkersSound, ReleaseSound, ExitOnlyWhenDrained, NoTaskIgnored
<1> QED BY <1>1, <1>2, <1>3, <1>4

LEMMA StepInv == Inv /\ [Next]_vars => Inv'
<1> SUFFICES ASSUME Inv, [Next]_vars PROVE Inv'
  OBVIOUS
<1>1. CASE UNCHANGED vars
  BY <1>1, StutterInv
<1>2. CASE ~crashed /\ MainStep
  BY <1>2, CreateWorkerInv, PoolCreatedInv, AllocTaskInv, LockToAppendInv,
     AppendInv, SignalInv, BeginReleaseInv, LockToStopInv, StopInv,
     BroadcastInv, JoinInv, FreeInv DEF MainStep
<1>3. ASSUME ~crashed, NEW w \in Workers, WorkerStep(w) PROVE Inv'
  BY <1>3, LockInv, WaitInv, RelockInv, ExitInv, TakeInv, CallInv, ReturnInv
  DEF WorkerStep
<1>4. ASSUME ~crashed, NEW w \in Workers, SpuriousWakeup(w) PROVE Inv'
  BY <1>4, SpuriousWakeupInv
<1> QED BY <1>1, <1>2, <1>3, <1>4 DEF Next

(* The invariant of the pool holds in every reachable state, whatever the
   numbers of workers and tasks, whichever pthread_create fails.           *)
THEOREM PoolInvariant == Spec => []Inv
BY InitInv, StepInv, PTL DEF Spec

(* Every variable keeps its type.                                          *)
THEOREM PoolTypeCorrect == Spec => []TypeOK
<1>1. Inv => TypeOK
  BY DEF Inv
<1> QED BY <1>1, PoolInvariant, PTL

(* The list of tasks stays a well-formed doubly linked list of exactly the
   queued tasks, through every append and every pop.                       *)
THEOREM ListAlwaysSound == Spec => []ListSound
<1>1. Inv => ListSound
  BY DEF Inv
<1> QED BY <1>1, PoolInvariant, PTL

(* A worker that is to run a task has one, and it is nobody else's: the
   local variable that thread_pool_item does not initialize is never read
   before it is set.                                                       *)
THEOREM TasksHeldByOne == Spec => []TaskHeldByOne
<1>1. Inv => TaskHeldByOne
  BY DEF Inv
<1> QED BY <1>1, PoolInvariant, PTL

(* No worker exits while a task is queued or can still be queued.          *)
THEOREM ExitsWhenDrained == Spec => []ExitOnlyWhenDrained
<1>1. Inv => ExitOnlyWhenDrained
  BY DEF Inv
<1> QED BY <1>1, PoolInvariant, PTL

(* The signal that add_task sends after it has given up the mutex is never
   lost in a way that leaves a queued task to sleepers only.               *)
THEOREM NoLostWakeup == Spec => []NoTaskIgnored
<1>1. Inv => NoTaskIgnored
  BY DEF Inv
<1> QED BY <1>1, PoolInvariant, PTL

(* Nobody goes to sleep once main has woken everybody.                     *)
StopHeard == mpc = "join" => waiting = {}

LEMMA StopHeardKept ==
    ASSUME Inv, StopHeard, [Next]_vars
    PROVE  StopHeard'
<1>1. CASE UNCHANGED vars
  BY <1>1 DEF vars, mainVars, StopHeard
<1>2. ASSUME NEW w \in Workers, Wait(w) PROVE StopHeard'
  <2>1. ~stop /\ mpc' = mpc
    BY <1>2 DEF Wait, MustWait, mainVars
  <2> QED BY <2>1 DEF Inv, ReleaseSound, StopHeard
<1>3. ASSUME NEW w \in Workers, WorkerStep(w) \/ SpuriousWakeup(w), ~Wait(w)
      PROVE  StopHeard'
  BY <1>3 DEF WorkerStep, Lock, Relock, Exit, Take, Call, Return, SpuriousWakeup,
     mainVars, StopHeard
<1>4. CASE MainStep /\ mpc = "join"
  BY <1>4 DEF MainStep, CreateWorker, PoolCreated, AllocTask, LockToAppend, Append,
     Signal, BeginRelease, LockToStop, Stop, Broadcast, Join, Free, StopHeard
<1>5. CASE MainStep /\ mpc # "join"
  BY <1>5 DEF MainStep, CreateWorker, PoolCreated, AllocTask, LockToAppend, Append,
     Signal, BeginRelease, LockToStop, Stop, Broadcast, WakeAll, Join, Free, StopHeard
<1> QED BY <1>1, <1>2, <1>3, <1>4, <1>5 DEF Next

LEMMA SomebodyGoesOn == Inv /\ StopHeard => NoDeadlock
<1> SUFFICES ASSUME Inv, StopHeard, MainWaits
             PROVE  \E w \in created : pc[w] # "exited" /\ ~WorkerWaits(w)
  BY DEF NoDeadlock
<1>1. lock # Main
  BY DEF Inv, MutexSound, MainWaits
<1>2. CASE lock = NULL
  <2>1. mpc = "join" /\ mi \in created /\ pc[mi] # "exited" /\ waiting = {}
    BY <1>2 DEF MainWaits, StopHeard
  <2>2. mi \in Workers
    BY <2>1 DEF Inv, TypeOK
  <2>3. pc[mi] # "wait"
    BY <2>1, <2>2 DEF Inv, MutexSound
  <2> QED BY <1>2, <2>1, <2>3 DEF WorkerWaits
<1>3. CASE lock \in Workers
  <2>1. pc[lock] = "check"
    BY <1>3 DEF Inv, MutexSound
  <2>2. lock \in created
    BY <1>3, <2>1 DEF Inv, WorkersSound
  <2> QED BY <2>1, <2>2 DEF WorkerWaits
<1> QED BY <1>1, <1>2, <1>3 DEF Inv, TypeOK

(* Main never waits for ever in add_task or release_thread_poll: one of the
   workers that are left is neither asleep nor in need of a mutex that is
   not given up.                                                           *)
THEOREM NobodyLeftWaiting == Spec => []NoDeadlock
<1>1. Init => StopHeard
  BY DEF Init, StopHeard
<1>2. Inv /\ StopHeard /\ [Next]_vars => StopHeard'
  BY StopHeardKept
<1>3. Inv /\ StopHeard => NoDeadlock
  BY SomebodyGoesOn
<1> QED BY <1>1, <1>2, <1>3, PoolInvariant, PTL DEF Spec

LEMMA FreedMeansLeft == Inv => NoUseAfterFree
<1> SUFFICES ASSUME Inv, freed, NEW w \in created PROVE pc[w] = "exited"
  BY DEF NoUseAfterFree
<1>1. mpc = "done" /\ mi > NWorkers
  BY DEF Inv, ReleaseSound
<1>2. w \in 1..NWorkers /\ mi \in Nat
  BY DEF Inv, TypeOK, Workers
<1>3. w < mi
  BY <1>1, <1>2, Sizes
<1> QED BY <1>1, <1>3 DEF Inv, ReleaseSound

(* When release_thread_poll frees the pool every worker has left it.       *)
THEOREM FreedAfterAll == Spec => []NoUseAfterFree
BY FreedMeansLeft, PoolInvariant, PTL

-----------------------------------------------------------------------------
(* The pool implements TaskPool.                                           *)

lifeBar == [t \in Tasks |-> LifeOf(t)]

(* The abstract step or stutter a step of the pool must be.                *)
AbstractStep == [Pool!Next]_(Pool!vars)

LEMMA StutterMaps ==
    ASSUME UNCHANGED <<freed, crashed>>,
           \A t \in Tasks : LifeOf(t)' = LifeOf(t)
    PROVE  AbstractStep
<1>1. lifeBar' = lifeBar
  BY DEF lifeBar
<1> QED BY <1>1 DEF AbstractStep, Pool!vars, lifeBar

LEMMA CrashMaps ==
    ASSUME ~crashed, crashed', UNCHANGED freed, crashed' \in BOOLEAN,
           \A t \in Tasks : LifeOf(t)' = LifeOf(t)
    PROVE  AbstractStep
<1>1. lifeBar' = lifeBar
  BY DEF lifeBar
<1>2. Pool!Crash
  BY <1>1 DEF Pool!Crash, lifeBar
<1> QED BY <1>2 DEF AbstractStep, Pool!Next

(* A step that changes the fate of one task.                               *)
LEMMA TaskMaps ==
    ASSUME Inv, ~crashed, ~freed, UNCHANGED freed, crashed' = crashed,
           NEW t \in Tasks, NEW l \in Lives,
           life' = [life EXCEPT ![t] = l],
           \/ life[t] = "fresh" /\ l = "queued"
           \/ life[t] = "taken" /\ l = "running"
           \/ life[t] = "running" /\ l = "done"
    PROVE  AbstractStep
<1>1. \A u \in Tasks \ {t} : LifeOf(u)' = LifeOf(u)
  BY DEF LifeOf, Inv, TypeOK
<1>2. /\ LifeOf(t) = CASE l = "queued" -> "new" [] l = "running" -> "added"
                       [] l = "done" -> "running"
      /\ LifeOf(t)' = CASE l = "queued" -> "added" [] OTHER -> l
  BY DEF LifeOf, Inv, TypeOK
<1>3. /\ lifeBar' = [lifeBar EXCEPT ![t] = LifeOf(t)']
      /\ lifeBar[t] = LifeOf(t)
  BY <1>1 DEF lifeBar
<1>4. \/ Pool!Becomes(t, "new", "added")
      \/ Pool!Becomes(t, "added", "running")
      \/ Pool!Becomes(t, "running", "done")
  BY <1>2, <1>3 DEF Pool!Becomes, lifeBar
<1> QED BY <1>4 DEF AbstractStep, Pool!Next, Pool!Add, Pool!Start, Pool!Finish

LEMMA AllocTaskMaps ==
    ASSUME Inv, ~crashed, AllocTask
    PROVE  AbstractStep
<1>1. mi \in Tasks /\ life[mi] = "new"
  <2>1. mpc = "alloc" /\ mi <= NTasks /\ mi \in 1..NTasks + 1
    BY DEF AllocTask, TasksSound, Inv
  <2>2. mi \in Tasks
    BY <2>1, Sizes DEF Tasks
  <2> QED BY <2>1, <2>2 DEF TasksSound, Inv
<1>2. CASE life' = [life EXCEPT ![mi] = "fresh"] /\ crashed' = crashed
  <2>1. \A t \in Tasks : LifeOf(t)' = LifeOf(t)
    BY <1>1, <1>2 DEF LifeOf, Inv, TypeOK
  <2> QED BY <1>2, <2>1, StutterMaps DEF AllocTask
<1>3. CASE life' = life /\ crashed' = TRUE
  <2>1. \A t \in Tasks : LifeOf(t)' = LifeOf(t)
    BY <1>3 DEF LifeOf
  <2> QED BY <1>3, <2>1, CrashMaps DEF AllocTask
<1> QED BY <1>2, <1>3 DEF AllocTask

LEMMA AppendMaps ==
    ASSUME Inv, ~crashed, Append
    PROVE  AbstractStep
<1>1. mi \in Tasks /\ life[mi] = "fresh" /\ ~freed
  BY DEF Append, TasksSound, ReleaseSound, Inv
<1> QED BY <1>1, TaskMaps DEF Append, Lives

LEMMA TakeMaps ==
    ASSUME Inv, ~crashed, NEW w \in Workers, Take(w)
    PROVE  AbstractStep
<1>1. /\ queue_tail \in Tasks /\ life[queue_tail] = "queued"
      /\ life' = [life EXCEPT ![queue_tail] = "taken"]
      /\ UNCHANGED <<freed, crashed>>
  BY TakeFinds
<1>2. \A t \in Tasks : LifeOf(t)' = LifeOf(t)
  BY <1>1 DEF LifeOf, Inv, TypeOK
<1> QED BY <1>1, <1>2, StutterMaps

LEMMA CallMaps ==
    ASSUME Inv, ~crashed, NEW w \in Workers, Call(w)
    PROVE  AbstractStep
<1>1. /\ pc[w] = "got" /\ w \in created /\ ~freed
      /\ thread_task[w] \in Tasks /\ life[thread_task[w]] = "taken"
  <2>1. pc[w] = "got" /\ w \in created /\ pc[w] # "exited"
    BY DEF Call, Go, Inv, WorkersSound
  <2>2. ~freed
    BY <2>1, FreedMeansLeft DEF NoUseAfterFree
  <2> QED BY <2>1, <2>2 DEF Inv, TaskHeldByOne, Holds
<1>2. /\ life' = [life EXCEPT ![thread_task[w]] = "running"]
      /\ crashed' = FALSE /\ freed' = freed
  BY <1>1, Names DEF Call, Inv, TypeOK, mainVars
<1>3. crashed' = crashed
  BY <1>2 DEF Inv, TypeOK
<1> QED BY <1>1, <1>2, <1>3, TaskMaps DEF Lives

LEMMA ReturnMaps ==
    ASSUME Inv, ~crashed, NEW w \in Workers, Return(w)
    PROVE  AbstractStep
<1>1. /\ pc[w] = "func" /\ w \in created /\ ~freed
      /\ thread_task[w] \in Tasks /\ life[thread_task[w]] = "running"
  <2>1. pc[w] = "func" /\ w \in created /\ pc[w] # "exited"
    BY DEF Return, Go, Inv, WorkersSound
  <2>2. ~freed
    BY <2>1, FreedMeansLeft DEF NoUseAfterFree
  <2> QED BY <2>1, <2>2 DEF Inv, TaskHeldByOne, Holds
<1>2. /\ life' = [life EXCEPT ![thread_task[w]] = "done"]
      /\ crashed' = crashed /\ freed' = freed
  BY <1>1 DEF Return, Inv, TypeOK, mainVars
<1> QED BY <1>1, <1>2, TaskMaps DEF Lives

LEMMA JoinMaps ==
    ASSUME Inv, ~crashed, Join
    PROVE  AbstractStep
<1>1. (\A t \in Tasks : LifeOf(t)' = LifeOf(t)) /\ freed' = freed
  BY DEF Join, LifeOf
<1>2. crashed' = crashed \/ crashed' = TRUE
  BY DEF Join, Inv, TypeOK
<1> QED BY <1>1, <1>2, StutterMaps, CrashMaps

(* The pool is freed when every task has been run.                         *)
LEMMA FreeMaps ==
    ASSUME Inv, ~crashed, Free
    PROVE  AbstractStep
<1>0. mpc = "join" /\ freed' = TRUE /\ life' = life /\ crashed' = crashed
  BY DEF Free
<1>1. \A w \in created : pc[w] = "exited"
  <2> SUFFICES ASSUME NEW w \in created PROVE pc[w] = "exited"
    OBVIOUS
  <2>1. w \in 1..NWorkers /\ mi \in Nat
    BY DEF Inv, TypeOK, Workers
  <2>2. mi > NWorkers
    BY MaxWorker DEF Free, Joined
  <2>3. w < mi
    BY <2>1, <2>2, Sizes
  <2> QED BY <1>0, <2>3 DEF Inv, ReleaseSound
<1>2. Queued = {}
  BY <1>0, <1>1, SomeWorker DEF Inv, ExitOnlyWhenDrained
<1>3. \A t \in Tasks : life[t] = "done"
  <2> SUFFICES ASSUME NEW t \in Tasks, life[t] # "done" PROVE FALSE
    OBVIOUS
  <2>1. life[t] \notin {"new", "fresh", "queued"}
    BY <1>0, <1>2 DEF Inv, TasksSound, Queued
  <2>2. life[t] \in {"taken", "running"}
    BY <2>1 DEF Inv, TypeOK, Lives
  <2>3. PICK w \in Workers : Holds(w)
    BY <2>2 DEF Inv, HandsSound
  <2>4. w \in created /\ pc[w] # "exited"
    BY <2>3 DEF Holds, Inv, WorkersSound
  <2> QED BY <1>1, <2>4
<1>4. lifeBar' = lifeBar /\ \A t \in Tasks : lifeBar[t] = "done"
  BY <1>0, <1>3 DEF lifeBar, LifeOf
<1>5. Pool!Release
  BY <1>0, <1>4 DEF Pool!Release, lifeBar
<1> QED BY <1>5 DEF AbstractStep, Pool!Next

(* The other steps touch neither a task nor the pool itself.               *)
LEMMA OthersMap ==
    ASSUME \/ CreateWorker \/ PoolCreated \/ LockToAppend \/ Signal
           \/ BeginRelease \/ LockToStop \/ Stop \/ Broadcast
           \/ \E w \in Workers : Lock(w) \/ Wait(w) \/ Relock(w) \/ Exit(w)
                                 \/ SpuriousWakeup(w)
           \/ UNCHANGED vars
    PROVE  AbstractStep
<1>1. UNCHANGED <<freed, crashed, life>>
  BY DEF CreateWorker, PoolCreated, LockToAppend, Signal, BeginRelease,
         LockToStop, Stop, Broadcast, Lock, Wait, Relock, Exit, SpuriousWakeup,
         mainVars, vars
<1>2. \A t \in Tasks : LifeOf(t)' = LifeOf(t)
  BY <1>1 DEF LifeOf
<1> QED BY <1>1, <1>2, StutterMaps

LEMMA StepMaps == Inv /\ [Next]_vars => AbstractStep
<1> SUFFICES ASSUME Inv, [Next]_vars PROVE AbstractStep
  OBVIOUS
<1>1. CASE UNCHANGED vars
  BY <1>1, OthersMap
<1>2. CASE ~crashed /\ MainStep
  BY <1>2, OthersMap, AllocTaskMaps, AppendMaps, JoinMaps, FreeMaps DEF MainStep
<1>3. ASSUME ~crashed, NEW w \in Workers, WorkerStep(w) \/ SpuriousWakeup(w)
      PROVE  AbstractStep
  BY <1>3, OthersMap, TakeMaps, CallMaps, ReturnMaps DEF WorkerStep
<1> QED BY <1>1, <1>2, <1>3 DEF Next

LEMMA InitMaps == Init => Pool!Init
BY DEF Init, Pool!Init, LifeOf

(* Every task that is added runs at most once, from its beginning to its
   end, and the pool is released only when all of them have: what the pool
   of main.c does is a behaviour of TaskPool.                              *)
THEOREM PoolKeepsPromise == Spec => TasksRunOnce
<1>1. Spec => []Inv
  BY PoolInvariant
<1>2. Inv /\ [Next]_vars => [Pool!Next]_(Pool!vars)
  BY StepMaps DEF AbstractStep
<1> QED BY <1>1, <1>2, InitMaps, PTL DEF Spec, TasksRunOnce, Pool!Spec

=============================================================================
