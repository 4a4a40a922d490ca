------------------------------- MODULE Pipes --------------------------------
(***************************************************************************)
(* parent_child_tell.c and pipe_oversize_write.c: processes that share a   *)
(* pipe.  A read waits until there is something in the pipe or nobody has  *)
(* its other end open, so every process must close the end it does not     *)
(* use, whatever happens to the others.                                    *)
(***************************************************************************)
EXTENDS Naturals, Sequences, FiniteSets

CONSTANTS
    PipeSize,   \* cells that fit in the pipe
    Oversize    \* cells a child of pipe_oversize_write writes, more than fit

ASSUME PipesAssumption ==
    PipeSize \in Nat \ {0} /\ Oversize \in Nat /\ Oversize > PipeSize

VARIABLES
    pipeJob,    \* "pf" and "cf" of parent_child_tell, or "oversize"
    place,      \* where each process is
    readEnd,    \* the processes that have fd[0] open
    writeEnd,   \* the processes that have fd[1] open
    pipe,       \* its contents; a cell is the child it names
    wrote,      \* cells each process has written
    shown       \* what the reader has read

pipeVars == <<pipeJob, place, readEnd, writeEnd, pipe, wrote, shown>>

Processes == {"parent", "child1", "child2"}

Stopped == {"unborn", "end", "killed"}

Reader == IF pipeJob = "pf" THEN "child1" ELSE "parent"

Children == IF pipeJob = "oversize" THEN {"child1", "child2"} ELSE {"child1"}

Writers == IF pipeJob = "pf" THEN {"parent"} ELSE Children

PipeStart(j) ==
    /\ pipeJob = j
    /\ place = [p \in Processes |-> IF p = "parent" THEN "fork1" ELSE "unborn"]
    /\ readEnd = {"parent"} /\ writeEnd = {"parent"}
    /\ pipe = <<>> /\ shown = <<>>
    /\ wrote = [p \in Processes |-> 0]

Go(p, to) == place' = [place EXCEPT ![p] = to]

-----------------------------------------------------------------------------
(* fork: the child has both ends open.  parent_child_tell ends when it
   fails; pipe_oversize_write goes on.                                     *)
Fork(child, here, next) ==
    /\ place.parent = here /\ child \in Children
    /\ \/ /\ place' = [place EXCEPT !.parent = next, ![child] = "close"]
          /\ readEnd' = readEnd \cup {child}
          /\ writeEnd' = writeEnd \cup {child}
       \/ /\ pipeJob = "oversize" /\ Go("parent", next)
          /\ UNCHANGED <<readEnd, writeEnd>>
       \/ /\ pipeJob # "oversize" /\ Go("parent", "end")
          /\ readEnd' = {} /\ writeEnd' = {}
    /\ UNCHANGED <<pipeJob, pipe, wrote, shown>>

Forks == \/ Fork("child1", "fork1", IF pipeJob = "oversize" THEN "fork2" ELSE "close")
         \/ Fork("child2", "fork2", "close")

(* A process that keeps the end it does not use.                           *)
CloseNothing(p) == /\ place[p] = "close"
                   /\ Go(p, IF p = Reader THEN "read" ELSE "write")
                   /\ UNCHANGED <<pipeJob, readEnd, writeEnd, pipe, wrote, shown>>

CloseOther(p) == /\ place[p] = "close"
                 /\ IF p = Reader
                    THEN /\ writeEnd' = writeEnd \ {p} /\ Go(p, "read")
                         /\ UNCHANGED readEnd
                    ELSE /\ readEnd' = readEnd \ {p} /\ Go(p, "write")
                         /\ UNCHANGED writeEnd
                 /\ UNCHANGED <<pipeJob, pipe, wrote, shown>>

ToWrite == IF pipeJob = "oversize" THEN Oversize ELSE 1

Named(p) == IF pipeJob = "pf" THEN "child1" ELSE p

(* write: as much as fits at a time; SIGPIPE when nobody can read it.      *)
WritePipe(p) ==
    /\ place[p] = "write"
    /\ IF readEnd = {}
       THEN /\ Go(p, "killed") /\ writeEnd' = writeEnd \ {p}
            /\ UNCHANGED <<pipe, wrote>>
       ELSE /\ Len(pipe) < PipeSize
            /\ pipe' = Append(pipe, Named(p))
            /\ wrote' = [wrote EXCEPT ![p] = @ + 1]
            /\ Go(p, IF wrote'[p] = ToWrite THEN "closeOwn" ELSE "write")
            /\ UNCHANGED writeEnd
    /\ UNCHANGED <<pipeJob, readEnd, shown>>

(* A reader that always reads once.                                        *)
ReadPipeOnce(p) ==
    /\ place[p] = "read"
    /\ pipe # <<>> \/ writeEnd = {}
    /\ IF pipe # <<>>
       THEN \E n \in 1..Len(pipe) :
              /\ shown' = shown \o SubSeq(pipe, 1, n)
              /\ pipe' = SubSeq(pipe, n + 1, Len(pipe))
       ELSE UNCHANGED <<shown, pipe>>
    /\ Go(p, "closeOwn")
    /\ UNCHANGED <<pipeJob, readEnd, writeEnd, wrote>>

(* read: parent_child_tell reads once, pipe_oversize_write until the end.  *)
ReadPipe(p) ==
    /\ place[p] = "read"
    /\ pipe # <<>> \/ writeEnd = {}
    /\ IF pipe # <<>>
       THEN \E n \in 1..Len(pipe) :
              /\ shown' = shown \o SubSeq(pipe, 1, n)
              /\ pipe' = SubSeq(pipe, n + 1, Len(pipe))
       ELSE UNCHANGED <<shown, pipe>>
    /\ Go(p, IF pipeJob = "oversize" /\ pipe # <<>> THEN "read" ELSE "closeOwn")
    /\ UNCHANGED <<pipeJob, readEnd, writeEnd, wrote>>

(* close of the end that was used, and the end of the process except for a
   parent that waits for its children.                                     *)
CloseOwn(p) ==
    /\ place[p] = "closeOwn"
    /\ Go(p, IF pipeJob = "oversize" /\ p = "parent" THEN "wait" ELSE "end")
    /\ readEnd' = readEnd \ {p} /\ writeEnd' = writeEnd \ {p}
    /\ UNCHANGED <<pipeJob, pipe, wrote, shown>>

(* wait, twice: it returns when a child has ended or there is none.        *)
WaitChildren == /\ place.parent = "wait"
                /\ \A c \in Children : place[c] \in Stopped
                /\ Go("parent", "end")
                /\ UNCHANGED <<pipeJob, readEnd, writeEnd, pipe, wrote, shown>>

PipeStep == \/ Forks \/ WaitChildren
            \/ \E p \in Processes :
                  CloseOther(p) \/ WritePipe(p) \/ ReadPipe(p) \/ CloseOwn(p)

(* Anybody may kill a process at any time; the kernel closes its ends.     *)
Kill == \E p \in Processes :
          /\ place[p] \notin Stopped
          /\ Go(p, "killed")
          /\ readEnd' = readEnd \ {p} /\ writeEnd' = writeEnd \ {p}
          /\ UNCHANGED <<pipeJob, pipe, wrote, shown>>

-----------------------------------------------------------------------------
Of(cell, cells) == Cardinality({i \in DOMAIN cells : cells[i] = cell})

(* Who waits for another process: for a reader, for a writer, or for a child
   to end.                                                                 *)
Waits(p) == \/ place[p] = "write" /\ readEnd # {} /\ Len(pipe) = PipeSize
            \/ place[p] = "read" /\ writeEnd # {} /\ pipe = <<>>
            \/ place[p] = "wait" /\ \E c \in Children : place[c] \notin Stopped

(* The processes that are left never all wait for each other, whoever has
   been killed: each end of the pipe is closed by whoever does not use it,
   before anybody waits for it to be closed.                               *)
NoCircularWait ==
    (\A p \in Processes : place[p] \in Stopped \/ Waits(p))
        => \A p \in Processes : place[p] \in Stopped

(* A reader that has come to its end has shown all that the writers wrote
   which came to theirs.                                                   *)
NothingUnread ==
    place[Reader] = "end" =>
        \A w \in Writers : place[w] = "end" => Of(Named(w), shown) = ToWrite

(* Whoever is killed and whichever fork fails, every process that is left
   comes to its end - the reader is told that the last writer has gone, and
   a writer that the reader has - and a reader that ends has shown all that
   the writers that were not killed have written.                          *)
EofReachesReader ==
    <>((\A p \in Processes : place[p] \in Stopped) /\ NothingUnread)
=============================================================================
