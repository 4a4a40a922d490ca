---------------------------- MODULE AcoPrivate ----------------------------
(***************************************************************************)
(* What libaco promises the code that runs on it (codes/aco_httpd/lib):    *)
(* every coroutine behaves as if it had a stack of its own.  A coroutine   *)
(* is created with an empty stack, only the coroutine that runs changes    *)
(* its frames, and whatever runs in between, a coroutine that is resumed   *)
(* finds its frames as it left them.  There is no sharing and no copying   *)
(* here; AcoStack shows that one stack shared by several coroutines keeps  *)
(* this promise.                                                           *)
(***************************************************************************)
EXTENDS Naturals

CONSTANTS Cos,        \* the non-main coroutines
          Words,      \* the values of a stack word
          None,       \* no coroutine runs: the main coroutine does
          SafeDepth,  \* words a suspended coroutine may have on its stack
          Room        \* words a running coroutine may have on its stack

VARIABLES live,       \* the coroutines created and not destroyed
          ended,      \* those of them that called aco_exit
          running,    \* the coroutine that runs, or None
          depth,      \* depth[c]: words on the stack of c
          frame,      \* frame[c]: those words, the oldest first
          crashed     \* the process has died

vars == <<live, ended, running, depth, frame, crashed>>

Empty == [i \in 1..0 |-> 0]

Init == /\ live = {}
        /\ ended = {}
        /\ running = None
        /\ depth = [c \in Cos |-> 0]
        /\ frame = [c \in Cos |-> Empty]
        /\ crashed = FALSE

MainRuns == running = None /\ ~crashed

Runs(c) == running = c /\ ~crashed

Create(c) == /\ MainRuns
             /\ c \notin live
             /\ live' = live \cup {c}
             /\ UNCHANGED <<ended, running, depth, frame, crashed>>

Resume(c) == /\ MainRuns
             /\ c \in live \ ended
             /\ running' = c
             /\ UNCHANGED <<live, ended, depth, frame, crashed>>

Yield(c) == /\ Runs(c)
            /\ running' = None
            /\ UNCHANGED <<live, ended, depth, frame, crashed>>

Push(c, w) == /\ Runs(c)
              /\ depth[c] < Room
              /\ depth' = [depth EXCEPT ![c] = depth[c] + 1]
              /\ frame' = [frame EXCEPT ![c] =
                             [i \in 1..depth[c] + 1 |->
                                IF i = depth[c] + 1 THEN w ELSE frame[c][i]]]
              /\ UNCHANGED <<live, ended, running, crashed>>

Pop(c) == /\ Runs(c)
          /\ depth[c] > 0
          /\ depth' = [depth EXCEPT ![c] = depth[c] - 1]
          /\ frame' = [frame EXCEPT ![c] =
                         [i \in 1..depth[c] - 1 |-> frame[c][i]]]
          /\ UNCHANGED <<live, ended, running, crashed>>

Store(c, i, w) == /\ Runs(c)
                  /\ i \in 1..depth[c]
                  /\ frame' = [frame EXCEPT ![c] =
                       [j \in 1..depth[c] |-> IF j = i THEN w ELSE frame[c][j]]]
                  /\ UNCHANGED <<live, ended, running, depth, crashed>>

Exit(c) == /\ Runs(c)
           /\ running' = None
           /\ ended' = ended \cup {c}
           /\ depth' = [depth EXCEPT ![c] = 0]
           /\ frame' = [frame EXCEPT ![c] = Empty]
           /\ UNCHANGED <<live, crashed>>

Destroy(c) == /\ MainRuns
              /\ c \in live
              /\ live' = live \ {c}
              /\ ended' = ended \ {c}
              /\ depth' = [depth EXCEPT ![c] = 0]
              /\ frame' = [frame EXCEPT ![c] = Empty]
              /\ UNCHANGED <<running, crashed>>

(***************************************************************************)
(* The process may die only of a mistake of the code that uses the         *)
(* library: it resumes a coroutine that has ended, it lets a coroutine     *)
(* sleep with more words than the library can save, or a coroutine         *)
(* overruns its stack or returns instead of calling aco_exit.              *)
(***************************************************************************)
Misused == \/ running = None /\ ended # {}
           \/ running = None /\ \E c \in live \ ended : depth[c] > SafeDepth
           \/ \E c \in live : running = c /\ depth[c] \in {0, Room}

Crash == /\ ~crashed
         /\ Misused
         /\ crashed' = TRUE
         /\ UNCHANGED <<live, ended, running, depth, frame>>

Next == \/ \E c \in Cos : \/ Create(c) \/ Resume(c) \/ Yield(c) \/ Pop(c)
                          \/ Exit(c) \/ Destroy(c)
                          \/ \E w \in Words : Push(c, w)
                          \/ \E i \in 1..Room, w \in Words : Store(c, i, w)
        \/ Crash

Spec == Init /\ [][Next]_vars
===========================================================================
