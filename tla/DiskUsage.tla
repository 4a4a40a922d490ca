----------------------------- MODULE DiskUsage ------------------------------
(***************************************************************************)
(* The three programs of codes/apue/timec that count the files below a     *)
(* directory: duc recurses over path names, ducfd over descriptors, and    *)
(* duclinkfd keeps the descriptors of the directories it has still to read *)
(* in a linked list.  A directory is read in any order.                    *)
(***************************************************************************)
EXTENDS Naturals, Sequences, FiniteSets

CONSTANTS
    NodeCount,   \* the files below the directory, and the directory itself, 1
    Dot, DotDot, \* the entries "." and ".."
    MaxFds       \* bound on the descriptors a process may have

ASSUME DiskUsageAssumption ==
    /\ NodeCount \in Nat \ {0}
    /\ MaxFds \in Nat \ {0}
    /\ {Dot, DotDot} \cap 1..NodeCount = {}
    /\ Dot # DotDot

VARIABLES
    job,        \* the program, the tree and what the system lets it do
    frames,     \* directories opened: calls of caculate_dir, or the list
    fdOf,       \* which directory a descriptor is open on
    counted,    \* dir_count and the counts of the other types together
    missed,     \* directories that could not be opened
    walkAt      \* "walk", "done" or "crashed"

duVars == <<job, frames, fdOf, counted, missed, walkAt>>

Nodes == 1..NodeCount

CLOSED == 0

(* A file of type DT_UNKNOWN is not counted.                               *)
Kinds == {"dir", "file", "unknown"}

Jobs == {j \in [tool: {"duc", "ducfd", "duclinkfd"}, nfds: 1..MaxFds,
                fails: BOOLEAN, parent: [Nodes -> {0} \cup Nodes],
                kind: [Nodes -> Kinds]] :
           /\ j.parent[1] = 0 /\ j.kind[1] = "dir"
           /\ \A n \in Nodes \ {1} :
                 /\ j.parent[n] \in 1..n - 1
                 /\ j.kind[j.parent[n]] = "dir"}

(* readdir returns "." and ".." too; only duc counts them.                 *)
Entries(n) == {m \in Nodes : job.parent[m] = n}
              \cup (IF job.tool = "duc" THEN {Dot, DotDot} ELSE {})

Frame(n, fd) == [dir |-> n, fd |-> fd, left |-> Entries(n)]

(* The recursive tools read the directory opened last, duclinkfd the first
   of its list.                                                            *)
Reading == IF job.tool = "duclinkfd" THEN 1 ELSE Len(frames)

WithoutReading == IF job.tool = "duclinkfd"
                  THEN Tail(frames)
                  ELSE SubSeq(frames, 1, Len(frames) - 1)

DuStart(j) ==
    /\ job = j
    /\ frames = <<Frame(1, 1)>>
    /\ fdOf = [f \in 1..job.nfds |-> IF f = 1 THEN 1 ELSE CLOSED]
    /\ counted = [dirs |-> 0, files |-> 0]
    /\ missed = {}
    /\ walkAt = "walk"

-----------------------------------------------------------------------------
Count(e, c) ==
    IF e \in {Dot, DotDot} \/ job.kind[e] = "dir"
    THEN [c EXCEPT !.dirs = @ + 1]
    ELSE IF job.kind[e] = "file" THEN [c EXCEPT !.files = @ + 1] ELSE c

IsSubdir(e) == e \in Nodes /\ job.kind[e] = "dir"

Read(e) == frames' = [frames EXCEPT ![Reading].left = @ \ {e}]

FreeFds == {f \in DOMAIN fdOf : fdOf[f] = CLOSED}

(* An entry that is not a directory to walk.                               *)
ReadEntry(e) == /\ ~IsSubdir(e)
                /\ Read(e)
                /\ UNCHANGED <<job, fdOf, missed, walkAt>>

(* opendir, openat, with the lowest descriptor; the directory is read next,
   or after the others of the list.                                        *)
Enter(e) ==
    /\ IsSubdir(e)
    /\ FreeFds # {}
    /\ LET f == CHOOSE g \in FreeFds : \A o \in FreeFds : g <= o
       IN  /\ fdOf' = [fdOf EXCEPT ![f] = e]
           /\ frames' = Append([frames EXCEPT ![Reading].left = @ \ {e}],
                               Frame(e, f))
    /\ UNCHANGED <<job, missed, walkAt>>

(* No descriptor is left, or there is no permission or memory.             *)
Skip(e) == /\ IsSubdir(e)
           /\ FreeFds = {} \/ job.fails
           /\ Read(e)
           /\ missed' = missed \cup {e}
           /\ UNCHANGED <<job, fdOf, walkAt>>

(* duc appends to the copy of a path that has no room for it.              *)
Overrun(e) == /\ IsSubdir(e) /\ job.tool = "duc"
              /\ walkAt' = "crashed"
              /\ UNCHANGED <<job, frames, fdOf, missed>>

ReadDir == /\ walkAt = "walk"
           /\ \E e \in frames[Reading].left :
                /\ counted' = Count(e, counted)
                /\ ReadEntry(e) \/ Enter(e) \/ Skip(e) \/ Overrun(e)

(* A directory that is not closed.                                         *)
KeptOpen(f) == fdOf

Closed(f) == [fdOf EXCEPT ![f] = CLOSED]

(* closedir; the close calls that ducfd and duclinkfd make after it, before
   anything is opened, find the descriptor closed.                         *)
Finish == /\ walkAt = "walk" /\ frames[Reading].left = {}
          /\ fdOf' = Closed(frames[Reading].fd)
          /\ frames' = WithoutReading
          /\ walkAt' = IF Len(frames) = 1 THEN "done" ELSE "walk"
          /\ UNCHANGED <<job, counted, missed>>

(* fdopendir fails for the first of the list: the rest is left open.       *)
GiveUp == /\ walkAt = "walk" /\ job.tool = "duclinkfd" /\ job.fails
          /\ frames[1].left = Entries(frames[1].dir)
          /\ fdOf' = Closed(frames[1].fd)
          /\ missed' = missed \cup {frames[i].dir : i \in DOMAIN frames}
          /\ frames' = Tail(frames)
          /\ walkAt' = "done"
          /\ UNCHANGED <<job, counted>>

DuStep == ReadDir \/ Finish \/ GiveUp

-----------------------------------------------------------------------------
(* The directories above a file.                                           *)
Above == LET above[n \in Nodes] ==
               IF n = 1 THEN {}
               ELSE {job.parent[n]} \cup above[job.parent[n]]
         IN  above

Height == LET depth(n) == Cardinality(Above[n])
          IN  CHOOSE d \in 0..NodeCount :
                /\ \E n \in Nodes : job.kind[n] = "dir" /\ depth(n) + 1 = d
                /\ \A n \in Nodes : job.kind[n] = "dir" => depth(n) < d

(* A walk that comes to its end has counted each file once, except what is
   below a directory that could not be opened; a descriptor is open exactly
   as long as its directory is walked or waits in the list; and when nothing
   fails, the recursive tools miss nothing with as many descriptors as the
   tree is high, and duclinkfd with one for each directory.                *)
WalkExact ==
    LET seen == {n \in Nodes \ {1} : Above[n] \cap missed = {}}
        entered == {n \in Nodes : job.kind[n] = "dir"
                                  /\ (Above[n] \cup {n}) \cap missed = {}}
        subdirs == {n \in seen : job.kind[n] = "dir"}
        files == {n \in seen : job.kind[n] = "file"}
    IN  /\ walkAt = "done" =>
             /\ counted.files = Cardinality(files)
             /\ counted.dirs = Cardinality(subdirs)
                    + (IF job.tool = "duc" THEN 2 * Cardinality(entered) ELSE 0)
        /\ \A f \in DOMAIN fdOf, n \in Nodes :
             fdOf[f] = n <=> \E i \in DOMAIN frames :
                                frames[i].fd = f /\ frames[i].dir = n
        /\ ~job.fails /\ missed # {} =>
             job.nfds < IF job.tool = "duclinkfd"
                        THEN Cardinality({n \in Nodes : job.kind[n] = "dir"})
                        ELSE Height
=============================================================================
