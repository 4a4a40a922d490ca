------------------------------ MODULE CopyFile ------------------------------
(***************************************************************************)
(* timec/splice_copy_file.c: a file copied chunk by chunk, through a       *)
(* buffer with read and write ("rw") or through a pipe with splice ("sp"). *)
(* Nobody looks at what write, or the splice out of the pipe, has moved.   *)
(* A byte is its position in the file.                                     *)
(***************************************************************************)
EXTENDS Naturals, Sequences

CONSTANTS
    MaxFile,     \* bound on the length of the file
    ChunkSize,   \* 256 in the code
    PipeRoom     \* what fits in the pipe

ASSUME CopyFileAssumption ==
    MaxFile \in Nat /\ ChunkSize \in Nat \ {0} /\ PipeRoom \in Nat \ {0}

VARIABLES
    copyJob,    \* how, and how long the file is
    copyAt,     \* "read", "write", "done" or "exit"
    pos,        \* how far the file is read
    chunk,      \* n, what the last read or splice has returned
    held,       \* the buffer or the pipe
    target,     \* the new file
    short,      \* something moved fewer bytes than it was asked to
    readError   \* n was -1

copyVars == <<copyJob, copyAt, pos, chunk, held, target, short, readError>>

CopyJobs == [how: {"rw", "sp"}, length: 0..MaxFile]

Bytes(m, n) == [i \in 1..n - m |-> m + i]

(* The target is new; if a file cannot be opened, or the pipe made, the
   program exits.                                                          *)
CopyStart(j) == /\ copyJob = j /\ copyAt \in {"read", "exit"}
                /\ pos = 0 /\ chunk = 0 /\ held = <<>> /\ target = <<>>
                /\ short = FALSE /\ readError = FALSE

-----------------------------------------------------------------------------
Room == IF copyJob.how = "sp" THEN PipeRoom - Len(held) ELSE ChunkSize

(* read, or splice into the pipe, which waits as long as the pipe is full. *)
ReadChunk ==
    /\ copyAt = "read" /\ pos < copyJob.length
    /\ \E n \in 1..ChunkSize :
         /\ n <= Room /\ pos + n <= copyJob.length
         /\ chunk' = n /\ pos' = pos + n
         /\ held' = IF copyJob.how = "sp" THEN held \o Bytes(pos, pos + n)
                    ELSE Bytes(pos, pos + n)
    /\ copyAt' = "write"
    /\ UNCHANGED <<copyJob, target, short, readError>>

(* write, or splice out of the pipe: n bytes, fewer, or none if it fails.  *)
WriteChunk ==
    /\ copyAt = "write"
    /\ \E n \in 0..chunk :
         /\ target' = target \o SubSeq(held, 1, n)
         /\ held' = IF copyJob.how = "sp" THEN SubSeq(held, n + 1, Len(held))
                    ELSE <<>>
         /\ short' = (short \/ n < chunk)
    /\ copyAt' = "read"
    /\ UNCHANGED <<copyJob, pos, chunk, readError>>

(* The end of the file or an error; either way the copy is called a success
   and all descriptors are closed.                                         *)
EndCopy == /\ copyAt = "read"
           /\ readError' \in BOOLEAN /\ (~readError' => pos = copyJob.length)
           /\ copyAt' = "done"
           /\ UNCHANGED <<copyJob, pos, chunk, held, target, short>>

CopyStep == ReadChunk \/ WriteChunk \/ EndCopy

-----------------------------------------------------------------------------
(* Through the pipe, what is copied always is the beginning of the file, and
   the rest of what was read is still in the pipe, however little splice has
   moved; through the buffer that is so until a write is short.  A copy that
   met no error and no short write is complete.                            *)
CopyFaithful ==
    /\ copyJob.how = "sp" \/ ~short => target \o held = Bytes(0, pos)
    /\ copyAt = "done" /\ ~readError /\ ~short => target = Bytes(0, copyJob.length)
=============================================================================
