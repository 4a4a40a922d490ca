----------------------------- MODULE ShareStack -----------------------------
(***************************************************************************)
(* aco_share_stack_new2 and aco_share_stack_destroy: how the size that is  *)
(* asked for becomes a mapping, a guard page and a stack with its limits.  *)
(* All of it is arithmetic on size_t; sizes are scaled, not their ratios.  *)
(***************************************************************************)
EXTENDS Integers

CONSTANTS
    WordLimit,   \* size_t holds 0..WordLimit - 1
    DefaultSize, \* 2 MiB in the code
    MinSize,     \* 4096 in the code
    PageSizes,   \* what sysconf(_SC_PAGESIZE) may return
    Bases        \* where malloc and mmap may put the stack

PtrSize == 8     \* sizeof(void*)
Arches == {"x86_64", "aarch64"}
PowersOfTwo == {16, 32, 64, 128, 256, 512, 1024, 2048, 4096, 8192, 16384,
                32768, 65536}

ASSUME ShareStackAssumption ==
    /\ WordLimit \in Nat /\ DefaultSize \in MinSize..WordLimit - 1
    /\ MinSize \in Nat /\ MinSize > 16 + 3 * PtrSize
    /\ PageSizes \subseteq PowersOfTwo /\ \A p \in PageSizes : 2 * p < WordLimit
    /\ \A b \in Bases : b \in Nat /\ b % 16 = 0

VARIABLES
    asked,   \* the arguments, the page size and the processor
    sstk,    \* the aco_share_stack_t, real_ptr and real_sz for any memory
    sstkAt   \* "new", "live", "freed" or "aborted"

stackVars == <<asked, sstk, sstkAt>>

Nothing == [real_ptr |-> 0, real_sz |-> 0, ptr |-> 0, sz |-> 0,
            align_highptr |-> 0, align_retptr |-> 0, align_limit |-> 0]

Askable == {a \in [sz: 0..WordLimit - 1, guard: BOOLEAN, page: PageSizes,
                   arch: Arches, base: Bases] :
              a.guard => a.base % a.page = 0}

ShareStackStart(a) ==
    /\ asked = a
    /\ sstk = Nothing /\ sstkAt = "new"

-----------------------------------------------------------------------------
AtLeast(sz) == IF sz = 0 THEN DefaultSize ELSE IF sz < MinSize THEN MinSize ELSE sz

(* The size of the mapping: whole pages and one more; a size that no word
   holds fails an assertion.                                               *)
Overflows(sz, page) == sz > page /\ (sz \div page) * page
                           + (IF sz % page # 0 THEN 2 ELSE 1) * page >= WordLimit

(* The size without the page for the guard.                                *)
WithGuardUnreserved(sz, page) ==
    IF sz <= page THEN 2 * page
    ELSE (sz \div page) * page + (IF sz % page # 0 THEN page ELSE 0)

WithGuard(sz, page) ==
    IF sz <= page THEN 2 * page
    ELSE (sz \div page) * page + (IF sz % page # 0 THEN 2 ELSE 1) * page

Floor16(p) == (p \div 16) * 16

(* The alignment of the stack at ptr with sz bytes.                        *)
Aligned(ptr, sz, arch) ==
    LET high == Floor16(ptr + sz - 2 * PtrSize)
    IN  [ptr |-> ptr, sz |-> sz, align_highptr |-> high,
         align_retptr |-> high - (IF arch = "aarch64" THEN 16 ELSE PtrSize),
         align_limit |-> sz - 16 - 2 * PtrSize]

NewStack ==
    LET sz == AtLeast(asked.sz)
        real == IF asked.guard THEN WithGuard(sz, asked.page) ELSE sz
        reserved == IF asked.guard THEN asked.page ELSE 0
        new == Aligned(asked.base + reserved, real - reserved, asked.arch)
    IN  /\ sstkAt = "new"
        /\ \/ /\ asked.guard => ~Overflows(sz, asked.page)
              /\ sstk' = [f \in DOMAIN sstk |->
                            CASE f = "real_ptr" -> asked.base
                              [] f = "real_sz" -> real
                              [] OTHER -> new[f]]
              /\ sstkAt' = "live"
           \/ sstkAt' = "aborted" /\ UNCHANGED sstk
        /\ UNCHANGED asked

DestroyStack == /\ sstkAt = "live"
                /\ sstk' = Nothing /\ sstkAt' = "freed"
                /\ UNCHANGED asked

ShareStackStep == NewStack \/ DestroyStack

ShareStackSpec == /\ \E a \in Askable : ShareStackStart(a)
                  /\ [][ShareStackStep]_stackVars

-----------------------------------------------------------------------------
(* The stack lies in the memory that was taken for it, behind the guard page
   if there is one, and is as large as was asked.  The address a coroutine
   function returns to lies in it, and so does all that a coroutine of the
   greatest depth that may be saved can use: the limit is never beyond the
   end of the stack.  (A stack without a guard page, whose size need not be
   a multiple of 16, may lose up to 15 bytes to the alignment.)            *)
StackInRegion ==
    LET s == sstk
        reserved == s.ptr - s.real_ptr
    IN  sstkAt = "live" =>
          /\ reserved = (IF asked.guard THEN asked.page ELSE 0)
          /\ reserved + s.sz = s.real_sz /\ s.real_sz < WordLimit
          /\ asked.guard => s.real_sz % asked.page = 0
          /\ s.sz >= asked.sz
          /\ s.align_highptr % 16 = 0
          /\ s.align_highptr + 2 * PtrSize <= s.ptr + s.sz
          /\ s.align_retptr >= s.ptr /\ s.align_retptr + PtrSize <= s.align_highptr
          /\ s.align_limit > PtrSize
          /\ s.align_retptr - s.align_limit >=
                 s.ptr - (IF s.sz % 16 = 0 THEN 0 ELSE 15)
=============================================================================
