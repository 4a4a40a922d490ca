----------------------------- MODULE AcoStack -----------------------------
(***************************************************************************)
(* The coroutine runtime of codes/aco_httpd/lib (aco.c, aco.h): coroutines *)
(* of one thread that run on share stacks.  A share stack has one owner,   *)
(* the coroutine whose frames are in it; aco_resume of another coroutine   *)
(* first copies the owner's frames to the owner's save stack and then the  *)
(* frames of the resumed one back.                                         *)
(*                                                                         *)
(* Sizes and stack pointers are counted in words.  A stack pointer is the  *)
(* distance below align_retptr, so 0 is an empty stack.  The statistics    *)
(* ct_save, ct_restore and max_cpsz are left out.                          *)
(***************************************************************************)
EXTENDS Integers

CONSTANTS
    Cos,            \* addresses of the aco_t of the non-main coroutines
    Stacks,         \* the share stacks
    MainCo,         \* the aco_t of the main coroutine
    NULL,
    Words,          \* the values of a word of stack
    FirstWord,      \* what a fresh share stack is filled with
    RetGap,         \* words from align_retptr up to align_highptr
    AlignLimit,     \* align_limit
    Room,           \* words between the guard page and align_retptr
    DefaultSaveSz,  \* what a save_stack_sz of 0 stands for
    SaveSizes       \* the values main passes as save_stack_sz

ASSUME AcoStackAssumption ==
    /\ AlignLimit \in Nat /\ RetGap \in Nat /\ Room \in Nat
    /\ 1 <= RetGap /\ RetGap <= AlignLimit /\ AlignLimit - RetGap <= Room
    /\ DefaultSaveSz \in Nat \ {0}
    /\ SaveSizes \subseteq Nat
    /\ MainCo \notin Cos /\ NULL \notin Cos /\ MainCo # NULL
    /\ FirstWord \in Words

VARIABLES
    alive,          \* the coroutines created and not destroyed
    is_end,         \* co->is_end
    share_stack,    \* co->share_stack
    reg,            \* co->reg[ACO_REG_IDX_SP]
    save_ptr,       \* what co->save_stack.ptr holds, valid_sz words
    save_sz,        \* co->save_stack.sz
    valid_sz,       \* co->save_stack.valid_sz
    owner,          \* sstk->owner
    align_validsz,  \* sstk->align_validsz
    mem,            \* the words of sstk, the one next to align_retptr first
    gtls_co,        \* aco_gtls_co
    sp,             \* the stack pointer of the coroutine that runs
    aborted         \* "no", or why the process died

coVars == <<alive, is_end, share_stack, reg, save_ptr, save_sz, valid_sz>>
stackVars == <<owner, align_validsz, mem>>
vars == <<coVars, stackVars, gtls_co, sp, aborted>>

(***************************************************************************)
(* "internal" stands for the assertions of the library about its own       *)
(* state; the other reasons are mistakes of the code that uses it.         *)
(***************************************************************************)
Reasons == {"no", "ended", "overflow", "guard page", "return", "internal"}

Copies == UNION {[1..n -> Words] : n \in 0..Room}

TypeOK ==
    /\ alive \subseteq Cos
    /\ is_end \in [Cos -> BOOLEAN]
    /\ share_stack \in [Cos -> Stacks \cup {NULL}]
    /\ \A c \in alive : share_stack[c] \in Stacks
    /\ reg \in [Cos -> 0..Room]
    /\ valid_sz \in [Cos -> 0..Room]
    /\ save_sz \in [Cos -> Nat]
    /\ save_ptr \in [Cos -> Copies]
    /\ \A c \in Cos : save_ptr[c] \in [1..valid_sz[c] -> Words]
    /\ owner \in [Stacks -> Cos \cup {NULL}]
    /\ align_validsz \in [Stacks -> 0..Room + 1]
    /\ mem \in [Stacks -> [1..Room -> Words]]
    /\ gtls_co \in Cos \cup {MainCo, NULL}
    /\ sp \in 0..Room
    /\ aborted \in Reasons

Empty == [i \in 1..0 |-> 0]

Init == /\ alive = {}
        /\ is_end = [c \in Cos |-> FALSE]
        /\ share_stack = [c \in Cos |-> NULL]
        /\ reg = [c \in Cos |-> 0]
        /\ save_ptr = [c \in Cos |-> Empty]
        /\ save_sz = [c \in Cos |-> 0]
        /\ valid_sz = [c \in Cos |-> 0]
        /\ owner = [s \in Stacks |-> NULL]
        /\ align_validsz = [s \in Stacks |-> 0]
        /\ mem = [s \in Stacks |-> [i \in 1..Room |-> FirstWord]]
        /\ gtls_co = NULL
        /\ sp = 0
        /\ aborted = "no"

(* The main coroutine runs: aco_gtls_co is NULL until the first aco_resume
   returns.                                                                *)
MainRuns == aborted = "no" /\ gtls_co \notin Cos

Runs(c) == aborted = "no" /\ gtls_co = c

-----------------------------------------------------------------------------

(* A creation that leaves the stack pointer of the address's last life.    *)
CreateStaleSP(c, s, sz) ==
    /\ MainRuns
    /\ c \notin alive
    /\ alive' = alive \cup {c}
    /\ is_end' = [is_end EXCEPT ![c] = FALSE]
    /\ share_stack' = [share_stack EXCEPT ![c] = s]
    /\ save_ptr' = [save_ptr EXCEPT ![c] = Empty]
    /\ save_sz' = [save_sz EXCEPT ![c] = IF sz = 0 THEN DefaultSaveSz ELSE sz]
    /\ valid_sz' = [valid_sz EXCEPT ![c] = 0]
    /\ UNCHANGED <<reg, stackVars, gtls_co, sp, aborted>>

(* aco_create of a non-main coroutine: memset and the fields it sets.  The
   allocator may hand out the address of a coroutine destroyed before.     *)
Create(c, s, sz) ==
    /\ MainRuns
    /\ c \notin alive
    /\ alive' = alive \cup {c}
    /\ is_end' = [is_end EXCEPT ![c] = FALSE]
    /\ share_stack' = [share_stack EXCEPT ![c] = s]
    /\ reg' = [reg EXCEPT ![c] = 0]
    /\ save_ptr' = [save_ptr EXCEPT ![c] = Empty]
    /\ save_sz' = [save_sz EXCEPT ![c] = IF sz = 0 THEN DefaultSaveSz ELSE sz]
    /\ valid_sz' = [valid_sz EXCEPT ![c] = 0]
    /\ UNCHANGED <<stackVars, gtls_co, sp, aborted>>

(* A save stack that is doubled at most once.                               *)
GrownOnce(sz, need) == IF sz < need THEN 2 * sz ELSE sz

(* The loop that doubles save_stack.sz until need words fit; a save stack
   that is large enough keeps its size.                                    *)
Grown(sz, need) ==
    IF sz >= need THEN sz
    ELSE CHOOSE g \in need..2 * need - 1 : \E k \in 1..Room : g = sz * 2 ^ k

(* A slow path that takes an owner whose depth is the one of its last copy
   for unchanged.                                                          *)
SaveFramesIfMoved(o, s) ==
    IF o = NULL \/ (\E d \in Cos : d = o /\ valid_sz[d] = reg[d])
    THEN UNCHANGED <<save_ptr, save_sz, valid_sz>>
    ELSE /\ valid_sz' = [valid_sz EXCEPT ![o] = reg[o]]
         /\ save_sz' = [save_sz EXCEPT ![o] = Grown(save_sz[o], reg[o])]
         /\ save_ptr' = [save_ptr EXCEPT ![o] = [i \in 1..reg[o] |-> mem[s][i]]]

(* The first half of the slow path of aco_resume: the frames of the owner
   o of s, if there is one, are copied to the save stack of o.             *)
SaveFrames(o, s) ==
    IF o = NULL
    THEN UNCHANGED <<save_ptr, save_sz, valid_sz>>
    ELSE /\ valid_sz' = [valid_sz EXCEPT ![o] = reg[o]]
         /\ save_sz' = [save_sz EXCEPT ![o] = Grown(save_sz[o], reg[o])]
         /\ save_ptr' = [save_ptr EXCEPT ![o] = [i \in 1..reg[o] |-> mem[s][i]]]

(* A restore that copies nothing and takes no ownership for a coroutine
   without saved frames.                                                   *)
RestoreFramesNoOwner(c, s) ==
    /\ mem' = [mem EXCEPT ![s] = [i \in 1..Room |->
                 IF i <= valid_sz[c] THEN save_ptr[c][i] ELSE mem[s][i]]]
    /\ align_validsz' = [align_validsz EXCEPT ![s] = valid_sz[c] + 1]
    /\ owner' = [owner EXCEPT ![s] = IF valid_sz[c] > 0 THEN c ELSE NULL]

(* The second half: the frames of c go back to where they were, and s is
   owned by c.                                                             *)
RestoreFrames(c, s) ==
    /\ mem' = [mem EXCEPT ![s] = [i \in 1..Room |->
                 IF i <= valid_sz[c] THEN save_ptr[c][i] ELSE mem[s][i]]]
    /\ align_validsz' = [align_validsz EXCEPT ![s] = valid_sz[c] + 1]
    /\ owner' = [owner EXCEPT ![s] = c]

(* A resume that does not check how deep the owner sleeps.                 *)
ResumeVerdictNoLimit(c) ==
    LET s == share_stack[c]
        o == owner[s]
    IN  IF is_end[c] THEN "ended"
        ELSE IF o = c THEN "no"
        ELSE IF o # NULL /\ share_stack[o] # s THEN "internal"
        ELSE IF valid_sz[c] > AlignLimit - 1 THEN "internal"
        ELSE "no"

(* The assertions aco_resume makes before it switches, in their order.     *)
ResumeVerdict(c) ==
    LET s == share_stack[c]
        o == owner[s]
    IN  IF is_end[c] THEN "ended"
        ELSE IF o = c THEN "no"
        ELSE IF o # NULL /\ share_stack[o] # s THEN "internal"
        ELSE IF o # NULL /\ reg[o] > AlignLimit - RetGap THEN "overflow"
        ELSE IF valid_sz[c] > AlignLimit - 1 THEN "internal"
        ELSE "no"

(* aco_resume: an assertion that fails kills the process.                  *)
ResumeAbort(c) ==
    /\ ResumeVerdict(c) # "no"
    /\ aborted' = ResumeVerdict(c)
    /\ UNCHANGED <<coVars, stackVars, gtls_co, sp>>

(* aco_resume, from the copying to the switch into c.                      *)
ResumeSwitch(c) ==
    /\ ResumeVerdict(c) = "no"
    /\ IF owner[share_stack[c]] = c
       THEN UNCHANGED <<save_ptr, save_sz, valid_sz, stackVars>>
       ELSE /\ SaveFrames(owner[share_stack[c]], share_stack[c])
            /\ RestoreFrames(c, share_stack[c])
    /\ gtls_co' = c
    /\ sp' = reg[c]
    /\ UNCHANGED <<alive, is_end, share_stack, reg, aborted>>

Resume(c) == /\ MainRuns
             /\ c \in alive
             /\ ResumeAbort(c) \/ ResumeSwitch(c)

(* A switch that saves the stack pointer with acosw's return address still
   on the stack.                                                           *)
YieldKeepsRetaddr(c) ==
    /\ Runs(c)
    /\ reg' = [reg EXCEPT ![c] = sp + 1]
    /\ gtls_co' = MainCo
    /\ sp' = 0
    /\ UNCHANGED <<alive, is_end, share_stack, save_ptr, save_sz, valid_sz,
                   stackVars, aborted>>

(* aco_yield1 and the end of the aco_resume that it returns to.            *)
Yield(c) == /\ Runs(c)
            /\ reg' = [reg EXCEPT ![c] = sp]
            /\ gtls_co' = MainCo
            /\ sp' = 0
            /\ UNCHANGED <<alive, is_end, share_stack, save_ptr, save_sz,
                           valid_sz, stackVars, aborted>>

(* aco_exit1.                                                              *)
Exit(c) == /\ Runs(c)
           /\ is_end' = [is_end EXCEPT ![c] = TRUE]
           /\ aborted' = IF owner[share_stack[c]] = c THEN "no" ELSE "internal"
           /\ owner' = [owner EXCEPT ![share_stack[c]] = NULL]
           /\ align_validsz' = [align_validsz EXCEPT ![share_stack[c]] = 0]
           /\ reg' = [reg EXCEPT ![c] = sp]
           /\ gtls_co' = MainCo
           /\ sp' = 0
           /\ UNCHANGED <<alive, share_stack, save_ptr, save_sz, valid_sz, mem>>

(* A destruction that leaves the owner field of the stack alone.           *)
DestroyKeepsOwner(c) ==
    /\ MainRuns
    /\ c \in alive
    /\ alive' = alive \ {c}
    /\ UNCHANGED <<is_end, share_stack, reg, save_ptr, save_sz, valid_sz,
                   stackVars, gtls_co, sp, aborted>>

(* aco_destroy of a non-main coroutine.  What is left in freed memory is
   nobody's: the fields keep a value until the address is used again.      *)
Destroy(c) ==
    LET s == share_stack[c]
    IN  /\ MainRuns
        /\ c \in alive
        /\ alive' = alive \ {c}
        /\ owner' = [owner EXCEPT ![s] = IF @ = c THEN NULL ELSE @]
        /\ align_validsz' = [align_validsz EXCEPT ![s] =
                               IF owner[s] = c THEN 0 ELSE @]
        /\ save_ptr' = [save_ptr EXCEPT ![c] = Empty]
        /\ valid_sz' = [valid_sz EXCEPT ![c] = 0]
        /\ UNCHANGED <<is_end, share_stack, reg, save_sz, mem, gtls_co, sp,
                       aborted>>

-----------------------------------------------------------------------------
(* The code that runs in a coroutine uses its stack like any code: calls
   push words, returns pop them, and a local variable below the stack
   pointer can be assigned.                                                *)

Push(c, w) == /\ Runs(c)
              /\ sp < Room
              /\ sp' = sp + 1
              /\ mem' = [mem EXCEPT ![share_stack[c]][sp + 1] = w]
              /\ UNCHANGED <<coVars, owner, align_validsz, gtls_co, aborted>>

Pop(c) == /\ Runs(c)
          /\ sp > 0
          /\ sp' = sp - 1
          /\ UNCHANGED <<coVars, stackVars, gtls_co, aborted>>

Store(c, i, w) == /\ Runs(c)
                  /\ i \in 1..sp
                  /\ mem' = [mem EXCEPT ![share_stack[c]][i] = w]
                  /\ UNCHANGED <<coVars, owner, align_validsz, gtls_co, sp,
                                 aborted>>

(* A push beyond the last word hits the read-only guard page.              *)
Overrun(c) == /\ Runs(c)
              /\ sp = Room
              /\ aborted' = "guard page"
              /\ UNCHANGED <<coVars, stackVars, gtls_co, sp>>

(* The function of a coroutine returns: the word at align_retptr is the
   address of aco_funcp_protector_asm, whose last word aborts.             *)
Return(c) == /\ Runs(c)
             /\ sp = 0
             /\ aborted' = "return"
             /\ UNCHANGED <<coVars, stackVars, gtls_co, sp>>

Next == \E c \in Cos :
    \/ \E s \in Stacks, sz \in SaveSizes : Create(c, s, sz)
    \/ Resume(c)
    \/ Yield(c)
    \/ Exit(c)
    \/ Destroy(c)
    \/ \E w \in Words : Push(c, w)
    \/ Pop(c)
    \/ \E i \in 1..Room, w \in Words : Store(c, i, w)
    \/ Overrun(c)
    \/ Return(c)

Spec == Init /\ [][Next]_vars

-----------------------------------------------------------------------------

(* The owner of a share stack is a coroutine that exists, has not ended and
   was created on that stack: aco_exit and aco_destroy never leave a
   dangling sstk->owner behind for the next aco_resume to write through.   *)
OwnerSound == \A s \in Stacks : owner[s] # NULL =>
                 /\ owner[s] \in alive
                 /\ ~is_end[owner[s]]
                 /\ share_stack[owner[s]] = s

(* The coroutine that runs owns the stack it runs on: nobody's saved frames
   are expected in the memory it overwrites.                               *)
RunningOwns == gtls_co \in Cos => /\ gtls_co \in alive
                                  /\ owner[share_stack[gtls_co]] = gtls_co

(* A coroutine that sleeps without its stack has exactly the words below
   its saved stack pointer in its save stack: the copy that aco_resume will
   bring back is neither shorter nor older than the stack pointer.         *)
Sleeps(c) == c \in alive /\ ~is_end[c] /\ owner[share_stack[c]] # c

CopyMatchesStackPointer == \A c \in Cos : Sleeps(c) => valid_sz[c] = reg[c]

(* The frames copied to a save stack fit in the memory malloc returned for
   it, however often the doubling loop of aco_resume has to run.           *)
SaveFits == \A c \in alive : 1 <= save_sz[c] /\ valid_sz[c] <= save_sz[c]

(* No assertion of the library about its own state ever fails: the process
   dies only of a mistake of the code that uses the library.               *)
NoInternalAbort == aborted # "internal"

(* The frames that sleep in a save stack can be put back: the copy of the
   owner was checked against a limit that the restore respects.            *)
CopiesRestorable == \A c \in Cos : valid_sz[c] <= AlignLimit - RetGap

(* The stack a coroutine sees, wherever its words are.                     *)
DepthOf(c) == IF c \notin alive \/ is_end[c] THEN 0
              ELSE IF gtls_co = c THEN sp ELSE reg[c]

WordOf(c, i) == IF owner[share_stack[c]] = c THEN mem[share_stack[c]][i]
                                             ELSE save_ptr[c][i]

FrameOf(c) == [i \in 1..DepthOf(c) |-> WordOf(c, i)]

Private == INSTANCE AcoPrivate WITH
    None      <- NULL,
    SafeDepth <- AlignLimit - RetGap,
    live      <- alive,
    ended     <- {c \in alive : is_end[c]},
    running   <- IF gtls_co \in Cos THEN gtls_co ELSE NULL,
    depth     <- [c \in Cos |-> DepthOf(c)],
    frame     <- [c \in Cos |-> FrameOf(c)],
    crashed   <- aborted # "no"

(* Sharing is invisible: coroutines that share stacks behave like coroutines
   with a private stack each.  Every frame is found as it was left, through
   any order of resumes, yields, exits, destructions and reused addresses. *)
PrivateStacks == Private!Spec
===========================================================================
