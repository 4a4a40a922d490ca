------------------------------ MODULE ForkWait ------------------------------
(***************************************************************************)
(* process/fork_wait.c: three times a child is forked that ends in its own *)
(* way, and the parent waits for it and decodes its status.                *)
(***************************************************************************)
EXTENDS Naturals

VARIABLES
    testNo,     \* the call of test_fws that runs, 4 after the last
    parentAt,   \* "fork", "wait" or "report"
    child,      \* "none", "run" or "zombie"
    ended,      \* how the child of each test has ended
    exit_status,\* what wait has stored
    reported    \* what fork_wait_status was given in each test

forkVars == <<testNo, parentAt, child, ended, exit_status, reported>>

Tests == 1..3    \* "normal exit", "abort exit", "divide zero"

Exited(n) == [how |-> "exited", what |-> n % 256]
Signalled(s) == [how |-> "signalled", what |-> s]
Unset == [how |-> "unset", what |-> 0]

SIGABRT == 6
SIGFPE == 8
SIGKILL == 9

(* What a child does; some processors divide by zero without a signal.     *)
Ends(t) == CASE t = 1 -> {Exited(32832)}
             [] t = 2 -> {Signalled(SIGABRT)}
             [] t = 3 -> {Signalled(SIGFPE), Exited(17)}

Statuses == (UNION {Ends(t) : t \in Tests}) \cup {Signalled(SIGKILL)}

ForkInit == /\ testNo = 1 /\ parentAt = "fork" /\ child = "none"
            /\ ended = [t \in Tests |-> Unset]
            /\ exit_status = Unset
            /\ reported = [t \in Tests |-> Unset]

-----------------------------------------------------------------------------
(* After a fork that fails the parent waits all the same.                  *)
ForkTest == /\ testNo \in Tests /\ parentAt = "fork"
            /\ child' \in {"run", "none"} /\ parentAt' = "wait"
            /\ UNCHANGED <<testNo, ended, exit_status, reported>>

ChildEnds(statuses) == /\ child = "run" /\ child' = "zombie"
                       /\ \E s \in statuses : ended' = [ended EXCEPT ![testNo] = s]
                       /\ UNCHANGED <<testNo, parentAt, exit_status, reported>>

ChildRuns == testNo \in Tests /\ ChildEnds(Ends(testNo))

KillChild == ChildEnds({Signalled(SIGKILL)})

(* Without a child wait returns -1, and exit_status, a new local variable,
   holds anything.                                                         *)
WaitForChild == /\ parentAt = "wait" /\ child # "run"
                /\ IF child = "zombie" THEN exit_status' = ended[testNo]
                                       ELSE exit_status' \in Statuses
                /\ child' = "none" /\ parentAt' = "report"
                /\ UNCHANGED <<testNo, ended, reported>>

Report == /\ parentAt = "report"
          /\ reported' = [reported EXCEPT ![testNo] = exit_status]
          /\ testNo' = testNo + 1 /\ parentAt' = "fork"
          /\ UNCHANGED <<child, ended, exit_status>>

ForkWaitStep == ForkTest \/ ChildRuns \/ WaitForChild \/ Report

-----------------------------------------------------------------------------
(* A test that is over has reported the status of its own child, if it had
   one, and that child has been waited for.                                *)
OwnStatus ==
    /\ parentAt = "fork" => child = "none"
    /\ \A t \in Tests : t < testNo /\ ended[t] # Unset => reported[t] = ended[t]

(* All three tests are made, each reports the status of its own child if it
   had one, and no child is left unwaited for.                             *)
ReportsMatch ==
    <>(testNo = 4 /\ parentAt = "fork" /\ OwnStatus)
=============================================================================
