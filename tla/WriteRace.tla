----------------------------- MODULE WriteRace ------------------------------
(***************************************************************************)
(* pthreadl/write_race.c: two threads write their lines to one file, each  *)
(* under the same mutex; main creates thread 2, then thread 1, joins them  *)
(* and closes the file.  A main that returns early ends the process.       *)
(***************************************************************************)
EXTENDS Naturals, Sequences

CONSTANT Lines    \* lines a thread writes: 100 in the code

ASSUME WriteRaceAssumption == Lines \in Nat \ {0}

VARIABLES
    mainAt,     \* where main is; "return" and "failed" end the process
    threadAt,   \* where each thread is
    holder,     \* the thread that holds foo->lock, 0 if none
    written,    \* turns of its loop a thread has made
    file,       \* the lines in the file, each as the number of its thread
    fdOpen

raceVars == <<mainAt, threadAt, holder, written, file, fdOpen>>

Threads == {1, 2}

RaceInit == /\ mainAt = "open"
            /\ threadAt = [t \in Threads |-> "none"]
            /\ holder = 0
            /\ written = [t \in Threads |-> 0]
            /\ file = <<>> /\ fdOpen = FALSE

Running(t) == mainAt \notin {"return", "failed"} /\ threadAt[t] # "none"

-----------------------------------------------------------------------------
(* open, malloc and pthread_mutex_init                                     *)
SetUp == /\ mainAt = "open"
         /\ \/ mainAt' = "create2" /\ fdOpen' = TRUE
            \/ mainAt' = "failed" /\ fdOpen' \in BOOLEAN
         /\ UNCHANGED <<threadAt, holder, written, file>>

CreateThread(t, here, next) ==
    /\ mainAt = here
    /\ \/ mainAt' = next /\ threadAt' = [threadAt EXCEPT ![t] = "lock"]
       \/ mainAt' = "failed" /\ UNCHANGED threadAt
    /\ UNCHANGED <<holder, written, file, fdOpen>>

JoinThread(t, here, next) == /\ mainAt = here /\ threadAt[t] = "exit"
                             /\ mainAt' = next
                             /\ UNCHANGED <<threadAt, holder, written, file, fdOpen>>

CloseFile == /\ mainAt = "close"
             /\ fdOpen' = FALSE /\ mainAt' = "closed"
             /\ UNCHANGED <<threadAt, holder, written, file>>

Return == /\ mainAt = "closed" /\ mainAt' = "return"
          /\ UNCHANGED <<threadAt, holder, written, file, fdOpen>>

MainStep == \/ SetUp
            \/ CreateThread(2, "create2", "create1")
            \/ CreateThread(1, "create1", "join1")
            \/ JoinThread(1, "join1", "join2")
            \/ JoinThread(2, "join2", "close")
            \/ CloseFile
            \/ Return

(* A thread that does not wait for the mutex.                              *)
LockAnyway(t) == /\ Running(t) /\ threadAt[t] = "lock"
                 /\ holder' = t
                 /\ threadAt' = [threadAt EXCEPT ![t] = "write"]
                 /\ UNCHANGED <<mainAt, written, file, fdOpen>>

Lock(t) == /\ Running(t) /\ threadAt[t] = "lock" /\ holder = 0
           /\ holder' = t
           /\ threadAt' = [threadAt EXCEPT ![t] = "write"]
           /\ UNCHANGED <<mainAt, written, file, fdOpen>>

(* One turn of the loop; a write that fails is only reported.              *)
WriteLine(t) == /\ Running(t) /\ threadAt[t] = "write" /\ written[t] < Lines
                /\ written' = [written EXCEPT ![t] = @ + 1]
                /\ \/ fdOpen /\ file' = Append(file, t)
                   \/ UNCHANGED file
                /\ UNCHANGED <<mainAt, threadAt, holder, fdOpen>>

Unlock(t) == /\ Running(t) /\ threadAt[t] = "write" /\ written[t] = Lines
             /\ holder' = 0
             /\ threadAt' = [threadAt EXCEPT ![t] = "exit"]
             /\ UNCHANGED <<mainAt, written, file, fdOpen>>

RaceStep == \/ MainStep
            \/ \E t \in Threads : Lock(t) \/ WriteLine(t) \/ Unlock(t)

RaceSpec == RaceInit /\ [][RaceStep]_raceVars

-----------------------------------------------------------------------------
(* Whichever thread comes first, wherever a write fails and however early
   main returns, the lines of one thread are never between those of the
   other, and the file is open as long as a thread may write.              *)
BlocksStayWhole ==
    /\ \A i, j, k \in DOMAIN file :
         i < j /\ j < k /\ file[i] = file[k] => file[j] = file[i]
    /\ \A t \in Threads : Running(t) /\ threadAt[t] # "exit" => fdOpen
=============================================================================
