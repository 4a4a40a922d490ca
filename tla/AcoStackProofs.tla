--------------------------- MODULE AcoStackProofs ---------------------------
(***************************************************************************)
(* Proofs about AcoStack: its invariants hold for every number of          *)
(* coroutines, share stacks and words, and every size of a stack, and it   *)
(* implements AcoPrivate: coroutines that share stacks cannot tell.        *)
(***************************************************************************)
EXTENDS AcoStack, LeastNumber, TLAPS

(* The conjuncts need one another: aco_resume trusts the owner field of the
   stack, the owner's stack pointer and the size of the sleeper's copy.    *)
Inv == /\ TypeOK
       /\ OwnerSound
       /\ RunningOwns
       /\ CopyMatchesStackPointer
       /\ SaveFits
       /\ CopiesRestorable
       /\ NoInternalAbort

(* What the doubling loop returns: a size in which the copy fits.          *)
LEMMA GrownFits ==
    ASSUME NEW sz \in Nat \ {0}, NEW need \in 0..Room
    PROVE  Grown(sz, need) \in Nat /\ 1 <= Grown(sz, need)
           /\ need <= Grown(sz, need)
<1>1. CASE sz >= need
  BY <1>1, AcoStackAssumption DEF Grown
<1>2. CASE sz < need
  <2> DEFINE P(g) == \E k \in 1..Room : g = sz * 2 ^ k
  <2>1. sz \in 1..Room /\ need \in 1..Room /\ ~(sz >= need)
    BY <1>2, AcoStackAssumption
  <2>2. \E g \in need..2 * need - 1 : P(g)
    <3>1. \A k \in 1..need : k \in 1..Room
      BY <2>1, AcoStackAssumption
    <3>2. \E g \in need..2 * need - 1 : \E k \in 1..need : g = sz * 2 ^ k
      <4>1. need \in Nat
        BY AcoStackAssumption
      <4> QED BY <1>2, <4>1, Doubling
    <3> QED BY <3>1, <3>2, Zenon
  <2>3. Grown(sz, need) = CHOOSE g \in need..2 * need - 1 : P(g)
    BY <2>1, Zenon DEF Grown
  <2>4. Grown(sz, need) \in need..2 * need - 1
    <3> HIDE DEF P
    <3> QED BY <2>2, <2>3, Zenon
  <2> QED BY <2>1, <2>4
<1> QED BY <1>1, <1>2, AcoStackAssumption

USE DEF Inv

(* A copy of n words is a copy; the empty copy is one of no words.         *)
LEMMA CopyOfWords ==
    ASSUME NEW n \in 0..Room, NEW f \in [1..n -> Words]
    PROVE  f \in Copies
BY DEF Copies

LEMMA EmptyCopy == Empty \in [1..0 -> Words] /\ Empty \in Copies
<1>1. Empty \in [1..0 -> Words]
  BY DEF Empty
<1>2. 0 \in 0..Room
  BY AcoStackAssumption
<1> QED BY <1>1, <1>2 DEF Copies

(* Nothing exists and no stack has an owner.                               *)
LEMMA InitInv == Init => Inv
<1> SUFFICES ASSUME Init PROVE Inv
  OBVIOUS
<1> USE AcoStackAssumption DEF Init
<1>1. TypeOK
  BY EmptyCopy DEF TypeOK, Reasons
<1>2. OwnerSound /\ RunningOwns /\ CopyMatchesStackPointer
  BY DEF OwnerSound, RunningOwns, CopyMatchesStackPointer, Sleeps
<1>3. SaveFits /\ CopiesRestorable /\ NoInternalAbort
  BY DEF SaveFits, CopiesRestorable, NoInternalAbort
<1> QED BY <1>1, <1>2, <1>3

(* A new coroutine has an empty stack and an empty save stack, and no stack
   names its address as its owner.                                         *)
LEMMA CreateInv ==
    ASSUME Inv, NEW c \in Cos, NEW s \in Stacks, NEW sz \in SaveSizes,
           Create(c, s, sz)
    PROVE  Inv'
<1> USE AcoStackAssumption DEF Create, MainRuns, stackVars
<1>1. TypeOK'
  BY EmptyCopy DEF TypeOK, Reasons
<1>2. OwnerSound'
  BY DEF OwnerSound, TypeOK
<1>3. RunningOwns'
  BY DEF RunningOwns, TypeOK
<1>4. CopyMatchesStackPointer'
  BY DEF CopyMatchesStackPointer, Sleeps, TypeOK, OwnerSound
<1>5. SaveFits' /\ CopiesRestorable' /\ NoInternalAbort'
  BY DEF SaveFits, CopiesRestorable, NoInternalAbort, TypeOK
<1> QED BY <1>1, <1>2, <1>3, <1>4, <1>5

(* The assertions of aco_resume that fail are never the internal ones.     *)
LEMMA ResumeAbortInv ==
    ASSUME Inv, NEW c \in Cos, MainRuns, c \in alive, ResumeAbort(c)
    PROVE  Inv'
<1> USE AcoStackAssumption DEF ResumeAbort, coVars, stackVars
<1>1. aborted' \in Reasons \ {"internal"}
  <2>1. ~(valid_sz[c] > AlignLimit - 1)
    BY DEF CopiesRestorable, TypeOK
  <2>2. owner[share_stack[c]] # NULL
          => share_stack[owner[share_stack[c]]] = share_stack[c]
    BY DEF OwnerSound, TypeOK
  <2> QED BY <2>1, <2>2, Zenon DEF ResumeVerdict, Reasons
<1>2. TypeOK'
  BY <1>1 DEF TypeOK
<1>3. OwnerSound' /\ RunningOwns' /\ CopyMatchesStackPointer'
  BY DEF OwnerSound, RunningOwns, CopyMatchesStackPointer, Sleeps
<1>4. SaveFits' /\ CopiesRestorable' /\ NoInternalAbort'
  BY <1>1 DEF SaveFits, CopiesRestorable, NoInternalAbort
<1> QED BY <1>2, <1>3, <1>4

(* What a resume that is not aborted knows of the owner it displaces.      *)
LEMMA VerdictNo ==
    ASSUME Inv, NEW c \in Cos, c \in alive, ResumeVerdict(c) = "no",
           NEW o, o = owner[share_stack[c]], o # c
    PROVE  /\ ~is_end[c]
           /\ o # NULL => /\ o \in alive
                          /\ share_stack[o] = share_stack[c]
                          /\ reg[o] <= AlignLimit - RetGap
BY AcoStackAssumption DEF ResumeVerdict, TypeOK, OwnerSound

(* The frames that aco_resume takes from an owner are saved whole, and the
   coroutine it resumes becomes the owner.                                 *)
LEMMA ResumeSwitchInv ==
    ASSUME Inv, NEW c \in Cos, MainRuns, c \in alive, ResumeSwitch(c)
    PROVE  Inv'
<1> DEFINE s == share_stack[c]
           o == owner[s]
<1> USE AcoStackAssumption DEF ResumeSwitch, MainRuns
<1>0. s \in Stacks /\ o \in Cos \cup {NULL} /\ ~is_end[c]
  BY DEF TypeOK, ResumeVerdict
<1>1. CASE o = c
  <2> USE <1>1 DEF stackVars
  <2>1. TypeOK'
    BY <1>0 DEF TypeOK
  <2>2. OwnerSound' /\ RunningOwns' /\ CopyMatchesStackPointer'
    BY <1>0 DEF OwnerSound, RunningOwns, CopyMatchesStackPointer, Sleeps
  <2>3. SaveFits' /\ CopiesRestorable' /\ NoInternalAbort'
    BY DEF SaveFits, CopiesRestorable, NoInternalAbort
  <2> QED BY <2>1, <2>2, <2>3
<1>2. CASE o # c
  <2>1. SaveFrames(o, s) /\ RestoreFrames(c, s)
    BY <1>2
  <2>2. o # NULL => /\ o \in alive /\ share_stack[o] = s
                    /\ reg[o] <= AlignLimit - RetGap
    BY <1>2, VerdictNo
  <2>3. /\ valid_sz' \in [Cos -> 0..Room]
        /\ save_sz' \in [Cos -> Nat]
        /\ save_ptr' \in [Cos -> Copies]
        /\ \A d \in Cos : save_ptr'[d] \in [1..valid_sz'[d] -> Words]
        /\ SaveFits' /\ CopiesRestorable'
        /\ o # NULL => valid_sz'[o] = reg[o]
        /\ \A d \in Cos : d # o => valid_sz'[d] = valid_sz[d]
    <3>1. CASE o = NULL
      BY <3>1, <2>1 DEF SaveFrames, SaveFits, CopiesRestorable, TypeOK
    <3>2. CASE o # NULL
      <4> DEFINE g == Grown(save_sz[o], reg[o])
      <4>1. o \in Cos /\ o \in alive /\ reg[o] \in 0..Room
            /\ save_sz[o] \in Nat \ {0}
        BY <3>2, <2>2, <1>0 DEF TypeOK, SaveFits
      <4>2. g \in Nat /\ 1 <= g /\ reg[o] <= g
        BY <4>1, GrownFits
      <4> HIDE DEF g
      <4>3. /\ valid_sz' = [valid_sz EXCEPT ![o] = reg[o]]
            /\ save_sz' = [save_sz EXCEPT ![o] = g]
            /\ save_ptr' = [save_ptr EXCEPT ![o] = [i \in 1..reg[o] |-> mem[s][i]]]
        BY <3>2, <2>1 DEF SaveFrames, g
      <4>4. [i \in 1..reg[o] |-> mem[s][i]] \in [1..reg[o] -> Words]
        BY <4>1, <1>0 DEF TypeOK
      <4>5. /\ save_ptr' \in [Cos -> Copies]
            /\ \A d \in Cos : save_ptr'[d] \in [1..valid_sz'[d] -> Words]
        BY <4>1, <4>3, <4>4, CopyOfWords, SMTT(60) DEF TypeOK
      <4>6. SaveFits'
        BY <4>1, <4>2, <4>3 DEF SaveFits, TypeOK
      <4>7. CopiesRestorable'
        BY <4>1, <4>3, <2>2, <3>2 DEF CopiesRestorable, TypeOK
      <4>8. /\ valid_sz' \in [Cos -> 0..Room] /\ save_sz' \in [Cos -> Nat]
            /\ valid_sz'[o] = reg[o]
            /\ \A d \in Cos : d # o => valid_sz'[d] = valid_sz[d]
        BY <4>1, <4>2, <4>3 DEF TypeOK
      <4> QED BY <4>5, <4>6, <4>7, <4>8
    <3> QED BY <3>1, <3>2
  <2>4. /\ mem' \in [Stacks -> [1..Room -> Words]]
        /\ align_validsz' \in [Stacks -> 0..Room + 1]
        /\ owner' = [owner EXCEPT ![s] = c]
    <3>1. valid_sz[c] \in 0..Room /\ save_ptr[c] \in [1..valid_sz[c] -> Words]
      BY DEF TypeOK
    <3>2. mem[s] \in [1..Room -> Words]
      BY <1>0 DEF TypeOK
    <3>3. [i \in 1..Room |-> IF i <= valid_sz[c] THEN save_ptr[c][i]
                                                ELSE mem[s][i]]
            \in [1..Room -> Words]
      BY <3>1, <3>2
    <3> QED BY <1>0, <2>1, <3>1, <3>3 DEF RestoreFrames, TypeOK
  <2>5. TypeOK'
    BY <1>0, <2>3, <2>4, SMTT(60) DEF TypeOK
  <2>6. OwnerSound' /\ RunningOwns'
    BY <1>0, <2>4 DEF OwnerSound, RunningOwns, TypeOK
  <2>7. CopyMatchesStackPointer'
    <3> SUFFICES ASSUME NEW d \in Cos, Sleeps(d)' PROVE valid_sz'[d] = reg[d]
      BY DEF CopyMatchesStackPointer
    <3>1. CASE d = o
      BY <3>1, <2>3, <1>0 DEF Sleeps
    <3>2. CASE d # o
      <4>1. Sleeps(d)
        BY <3>2, <2>4, <1>0 DEF Sleeps, TypeOK
      <4> QED BY <3>2, <4>1, <2>3 DEF CopyMatchesStackPointer
    <3> QED BY <3>1, <3>2
  <2> QED BY <2>3, <2>5, <2>6, <2>7 DEF NoInternalAbort
<1> QED BY <1>1, <1>2

(* Only the owner of a stack sleeps with its frames in place, so the stack
   pointer aco_yield saves needs no copy to match it.                      *)
LEMMA YieldInv ==
    ASSUME Inv, NEW c \in Cos, Yield(c)
    PROVE  Inv'
<1> USE AcoStackAssumption DEF Yield, Runs, stackVars
<1>1. TypeOK'
  BY DEF TypeOK
<1>2. OwnerSound' /\ RunningOwns'
  BY DEF OwnerSound, RunningOwns
<1>3. CopyMatchesStackPointer'
  BY DEF CopyMatchesStackPointer, Sleeps, RunningOwns, TypeOK
<1>4. SaveFits' /\ CopiesRestorable' /\ NoInternalAbort'
  BY DEF SaveFits, CopiesRestorable, NoInternalAbort
<1> QED BY <1>1, <1>2, <1>3, <1>4

(* aco_exit gives the stack up before it switches.                         *)
LEMMA ExitInv ==
    ASSUME Inv, NEW c \in Cos, Exit(c)
    PROVE  Inv'
<1> DEFINE s == share_stack[c]
<1> USE AcoStackAssumption DEF Exit, Runs
<1>0. s \in Stacks /\ owner[s] = c /\ c \in alive
  BY DEF RunningOwns, TypeOK
<1>1. TypeOK'
  BY <1>0 DEF TypeOK, Reasons
<1>2. OwnerSound' /\ RunningOwns'
  BY <1>0 DEF OwnerSound, RunningOwns, TypeOK
<1>3. CopyMatchesStackPointer'
  <2> SUFFICES ASSUME NEW d \in Cos, Sleeps(d)' PROVE valid_sz[d] = reg'[d]
    BY DEF CopyMatchesStackPointer
  <2>1. d # c
    BY DEF Sleeps, TypeOK
  <2>2. Sleeps(d)
    BY <1>0, <2>1 DEF Sleeps, TypeOK, OwnerSound
  <2> QED BY <2>1, <2>2 DEF CopyMatchesStackPointer, TypeOK
<1>4. SaveFits' /\ CopiesRestorable' /\ NoInternalAbort'
  BY <1>0 DEF SaveFits, CopiesRestorable, NoInternalAbort
<1> QED BY <1>1, <1>2, <1>3, <1>4

(* aco_destroy clears the owner field that names what it frees.            *)
LEMMA DestroyInv ==
    ASSUME Inv, NEW c \in Cos, Destroy(c)
    PROVE  Inv'
<1> DEFINE s == share_stack[c]
<1> USE AcoStackAssumption DEF Destroy, MainRuns
<1>0. s \in Stacks
  BY DEF TypeOK
<1>1. TypeOK'
  BY <1>0, EmptyCopy DEF TypeOK
<1>2. OwnerSound' /\ RunningOwns'
  BY <1>0 DEF OwnerSound, RunningOwns, TypeOK
<1>3. CopyMatchesStackPointer'
  BY <1>0 DEF CopyMatchesStackPointer, Sleeps, TypeOK
<1>4. SaveFits' /\ CopiesRestorable' /\ NoInternalAbort'
  BY DEF SaveFits, CopiesRestorable, NoInternalAbort, TypeOK
<1> QED BY <1>1, <1>2, <1>3, <1>4

(* What the code inside a coroutine does touches only the words of the
   stack it owns and its own stack pointer.                                *)
LEMMA InsideInv ==
    ASSUME Inv, NEW c \in Cos,
           \/ \E w \in Words : Push(c, w)
           \/ Pop(c)
           \/ \E i \in 1..Room, w \in Words : Store(c, i, w)
           \/ Overrun(c)
           \/ Return(c)
    PROVE  Inv'
<1> USE AcoStackAssumption DEF Runs, coVars, stackVars
<1>0. gtls_co = c /\ share_stack[c] \in Stacks
      /\ UNCHANGED <<coVars, owner, align_validsz, gtls_co>>
      /\ aborted' \in Reasons \ {"internal"}
  BY DEF Push, Pop, Store, Overrun, Return, RunningOwns, TypeOK, Reasons
<1>1. mem' \in [Stacks -> [1..Room -> Words]] /\ sp' \in 0..Room
  <2>1. CASE \E w \in Words : Push(c, w)
    <3>1. PICK w \in Words : Push(c, w)
      BY <2>1
    <3>2. mem[share_stack[c]] \in [1..Room -> Words] /\ sp + 1 \in 1..Room
      BY <3>1, <1>0 DEF Push, TypeOK
    <3>3. [mem[share_stack[c]] EXCEPT ![sp + 1] = w] \in [1..Room -> Words]
      BY <3>2
    <3> QED BY <3>1, <3>2, <3>3, <1>0 DEF Push, TypeOK
  <2>2. CASE \E i \in 1..Room, w \in Words : Store(c, i, w)
    <3>1. PICK i \in 1..Room, w \in Words : Store(c, i, w)
      BY <2>2
    <3>2. mem[share_stack[c]] \in [1..Room -> Words]
      BY <1>0 DEF TypeOK
    <3>3. [mem[share_stack[c]] EXCEPT ![i] = w] \in [1..Room -> Words]
      BY <3>2
    <3>4. mem' = [mem EXCEPT ![share_stack[c]] =
                    [mem[share_stack[c]] EXCEPT ![i] = w]]
          /\ sp' = sp
      BY <3>1 DEF Store
    <3> QED BY <3>3, <3>4, <1>0 DEF TypeOK
  <2>3. CASE Pop(c) \/ Overrun(c) \/ Return(c)
    <3>1. mem' = mem /\ (sp' = sp \/ (sp > 0 /\ sp' = sp - 1))
      BY <2>3 DEF Pop, Overrun, Return
    <3> QED BY <3>1 DEF TypeOK
  <2> QED BY <2>1, <2>2, <2>3
<1>2. TypeOK'
  BY <1>0, <1>1 DEF TypeOK
<1>3. OwnerSound' /\ RunningOwns' /\ CopyMatchesStackPointer'
  BY <1>0 DEF OwnerSound, RunningOwns, CopyMatchesStackPointer, Sleeps
<1>4. SaveFits' /\ CopiesRestorable' /\ NoInternalAbort'
  BY <1>0 DEF SaveFits, CopiesRestorable, NoInternalAbort
<1> QED BY <1>2, <1>3, <1>4

LEMMA StepInv == Inv /\ [Next]_vars => Inv'
<1> SUFFICES ASSUME Inv, [Next]_vars PROVE Inv'
  OBVIOUS
<1>1. CASE UNCHANGED vars
  <2> USE <1>1 DEF vars, coVars, stackVars
  <2>1. TypeOK' /\ OwnerSound' /\ RunningOwns'
    BY DEF TypeOK, OwnerSound, RunningOwns
  <2>2. CopyMatchesStackPointer' /\ SaveFits' /\ CopiesRestorable'
        /\ NoInternalAbort'
    BY DEF CopyMatchesStackPointer, Sleeps, SaveFits, CopiesRestorable,
           NoInternalAbort
  <2> QED BY <2>1, <2>2
<1>2. CASE Next
  <2> PICK c \in Cos :
        \/ \E s \in Stacks, sz \in SaveSizes : Create(c, s, sz)
        \/ Resume(c)
        \/ Yield(c)
        \/ Exit(c)
        \/ Destroy(c)
        \/ \E w \in Words : Push(c, w)
        \/ Pop(c)
        \/ \E i \in 1..Room, w \in Words : Store(c, i, w)
        \/ Overrun(c)
        \/ Return(c)
    BY <1>2, Zenon DEF Next
  <2>1. CASE \E s \in Stacks, sz \in SaveSizes : Create(c, s, sz)
    BY <2>1, CreateInv
  <2>2. CASE Resume(c)
    BY <2>2, ResumeAbortInv, ResumeSwitchInv DEF Resume
  <2>3. CASE Yield(c)
    BY <2>3, YieldInv
  <2>4. CASE Exit(c)
    BY <2>4, ExitInv
  <2>5. CASE Destroy(c)
    BY <2>5, DestroyInv
  <2>6. CASE \/ \E w \in Words : Push(c, w)
             \/ Pop(c)
             \/ \E i \in 1..Room, w \in Words : Store(c, i, w)
             \/ Overrun(c)
             \/ Return(c)
    BY <2>6, InsideInv
  <2> QED BY <2>1, <2>2, <2>3, <2>4, <2>5, <2>6
<1> QED BY <1>1, <1>2

(* Every invariant of the runtime holds in every run of it.                *)
THEOREM RuntimeInvariant == Spec => []Inv
<1> USE DEF Inv
<1> QED BY InitInv, StepInv, PTL DEF Spec

(* Every variable keeps to its type.                                       *)
THEOREM TypeCorrect == Spec => []TypeOK
<1>1. Inv => TypeOK
  BY DEF Inv
<1> QED BY <1>1, RuntimeInvariant, PTL

(* No share stack is ever left with a dangling owner.                      *)
THEOREM NoDanglingOwner == Spec => []OwnerSound
<1>1. Inv => OwnerSound
  BY DEF Inv
<1> QED BY <1>1, RuntimeInvariant, PTL

(* The coroutine that runs owns its stack and is the one aco_yield starts
   from.                                                                   *)
THEOREM RunningAlwaysOwns == Spec => []RunningOwns
<1>1. Inv => RunningOwns
  BY DEF Inv
<1> QED BY <1>1, RuntimeInvariant, PTL

(* A sleeping coroutine's copy is as long as its stack is deep.            *)
THEOREM CopiesMatch == Spec => []CopyMatchesStackPointer
<1>1. Inv => CopyMatchesStackPointer
  BY DEF Inv
<1> QED BY <1>1, RuntimeInvariant, PTL

(* memcpy never writes beyond a save stack.                                *)
THEOREM SavesFit == Spec => []SaveFits
<1>1. Inv => SaveFits
  BY DEF Inv
<1> QED BY <1>1, RuntimeInvariant, PTL

(* The library never finds its own state inconsistent.                     *)
THEOREM NeverInternalAbort == Spec => []NoInternalAbort
<1>1. Inv => NoInternalAbort
  BY DEF Inv
<1> QED BY <1>1, RuntimeInvariant, PTL

-----------------------------------------------------------------------------
(* AcoStack implements AcoPrivate, action by action.                       *)

USE AcoStackAssumption

(* Equal words up to an equal depth are an equal frame.                    *)
LEMMA SameFrame ==
    ASSUME NEW d \in Cos, DepthOf(d)' = DepthOf(d),
           \A i \in 1..DepthOf(d) : WordOf(d, i)' = WordOf(d, i)
    PROVE  FrameOf(d)' = FrameOf(d)
BY DEF FrameOf

LEMMA DepthBound ==
    ASSUME TypeOK, NEW d \in Cos
    PROVE  DepthOf(d) \in 0..Room
BY DEF DepthOf, TypeOK

(* A coroutine without words has the empty frame.                          *)
LEMMA NoWords ==
    ASSUME NEW d \in Cos, DepthOf(d) = 0
    PROVE  FrameOf(d) = Empty
BY DEF FrameOf, Empty

LEMMA NoWordsNext ==
    ASSUME NEW d \in Cos, DepthOf(d)' = 0
    PROVE  FrameOf(d)' = Empty
BY DEF FrameOf, Empty

LEMMA RefineInit == Init => Private!Init
<1> SUFFICES ASSUME Init PROVE Private!Init
  OBVIOUS
<1>1. \A d \in Cos : DepthOf(d) = 0
  BY DEF Init, DepthOf
<1>2. \A d \in Cos : FrameOf(d) = Empty
  BY <1>1, NoWords
<1> QED BY <1>1, <1>2 DEF Init, Private!Init, Private!Empty, Empty

(* What a step does to the coroutines it is not about.                     *)
Kept(d) == DepthOf(d)' = DepthOf(d) /\ FrameOf(d)' = FrameOf(d)

LEMMA RefineCreate ==
    ASSUME Inv, NEW c \in Cos, NEW s \in Stacks, NEW sz \in SaveSizes,
           Create(c, s, sz)
    PROVE  Private!Create(c)
<1> USE DEF Create, MainRuns
<1>1. \A d \in Cos : Kept(d)
  <2> SUFFICES ASSUME NEW d \in Cos PROVE Kept(d)
    OBVIOUS
  <2>1. CASE d = c
    <3>1. DepthOf(d) = 0 /\ DepthOf(d)' = 0
      BY <2>1 DEF DepthOf, TypeOK
    <3> QED BY <3>1, NoWords, NoWordsNext DEF Kept
  <2>2. CASE d # c
    <3>1. DepthOf(d)' = DepthOf(d)
      BY <2>2 DEF DepthOf, TypeOK
    <3>2. \A i \in 1..DepthOf(d) : WordOf(d, i)' = WordOf(d, i)
      BY <2>2 DEF WordOf, TypeOK, stackVars
    <3> QED BY <3>1, <3>2, SameFrame DEF Kept
  <2> QED BY <2>1, <2>2
<1>2. {d \in alive' : is_end'[d]} = {d \in alive : is_end[d]}
  BY DEF TypeOK
<1> QED BY <1>1, <1>2 DEF Private!Create, Private!MainRuns, Kept

(* An assertion of aco_resume that fails is a mistake of the caller.       *)
LEMMA RefineResumeAbort ==
    ASSUME Inv, NEW c \in Cos, MainRuns, c \in alive, ResumeAbort(c)
    PROVE  Private!Crash
<1> DEFINE o == owner[share_stack[c]]
<1> USE DEF ResumeAbort, MainRuns, coVars, stackVars
<1>1. \A d \in Cos : Kept(d)
  BY DEF Kept, DepthOf, FrameOf, WordOf
<1>2. aborted' # "no"
  OBVIOUS
<1>3. is_end[c] \/ (o # NULL /\ o # c /\ reg[o] > AlignLimit - RetGap)
  <2>1. ~(valid_sz[c] > AlignLimit - 1)
    BY DEF CopiesRestorable, TypeOK
  <2>2. o # NULL => share_stack[o] = share_stack[c]
    BY DEF OwnerSound, TypeOK
  <2> QED BY <2>1, <2>2, Zenon DEF ResumeVerdict
<1>4. CASE is_end[c]
  BY <1>1, <1>2, <1>4 DEF Private!Crash, Private!Misused, Kept, TypeOK
<1>5. CASE o # NULL /\ reg[o] > AlignLimit - RetGap
  <2>1. o \in alive /\ ~is_end[o] /\ o \in Cos /\ DepthOf(o) = reg[o]
    BY <1>5 DEF OwnerSound, TypeOK, DepthOf
  <2> QED BY <1>1, <1>2, <1>5, <2>1
          DEF Private!Crash, Private!Misused, Kept, TypeOK
<1> QED BY <1>3, <1>4, <1>5

(* aco_resume: the owner's words are the ones that were saved, the words of
   the resumed coroutine are those of its last copy.                       *)
LEMMA RefineResumeSwitch ==
    ASSUME Inv, NEW c \in Cos, MainRuns, c \in alive, ResumeSwitch(c)
    PROVE  Private!Resume(c)
<1> DEFINE s == share_stack[c]
           o == owner[s]
<1> USE DEF ResumeSwitch, MainRuns
<1>0. s \in Stacks /\ o \in Cos \cup {NULL} /\ ~is_end[c]
  BY DEF TypeOK, ResumeVerdict
<1>1. \A d \in Cos : DepthOf(d)' = DepthOf(d)
  BY DEF DepthOf, TypeOK
<1>2. \A d \in Cos : FrameOf(d)' = FrameOf(d)
  <2>1. CASE o = c
    <3>1. \A d \in Cos, i \in 1..Room : WordOf(d, i)' = WordOf(d, i)
      BY <2>1 DEF WordOf, stackVars
    <3> QED BY <3>1, <1>1, SameFrame, DepthBound
  <2>2. CASE o # c
    <3> SUFFICES ASSUME NEW d \in Cos, DepthOf(d) # 0
                 PROVE  FrameOf(d)' = FrameOf(d)
      BY <1>1, NoWords, NoWordsNext
    <3>1. d \in alive /\ ~is_end[d] /\ DepthOf(d) = reg[d]
      BY DEF DepthOf, TypeOK
    <3>2. SaveFrames(o, s) /\ RestoreFrames(c, s)
      BY <2>2
    <3>3. mem' = [mem EXCEPT ![s] = [i \in 1..Room |->
                    IF i <= valid_sz[c] THEN save_ptr[c][i] ELSE mem[s][i]]]
          /\ owner' = [owner EXCEPT ![s] = c]
      BY <3>2 DEF RestoreFrames
    <3>4. share_stack[d] \in Stacks /\ reg[d] \in 0..Room
      BY <3>1 DEF TypeOK
    <3>5. \A i \in 1..reg[d] : WordOf(d, i)' = WordOf(d, i)
      <4>1. CASE d = c
        <5>1. valid_sz[c] = reg[c]
          BY <4>1, <2>2, <3>1 DEF CopyMatchesStackPointer, Sleeps
        <5> QED BY <4>1, <5>1, <2>2, <3>3, <3>4 DEF WordOf, TypeOK
      <4>2. CASE d = o
        <5>1. share_stack[d] = s
          BY <4>2, <1>0 DEF OwnerSound, TypeOK
        <5>2. save_ptr' = [save_ptr EXCEPT
                             ![o] = [i \in 1..reg[o] |-> mem[s][i]]]
          BY <4>2, <3>2 DEF SaveFrames, TypeOK
        <5> QED BY <4>2, <5>1, <5>2, <2>2, <3>3, <1>0 DEF WordOf, TypeOK
      <4>3. CASE d # c /\ d # o
        <5>1. save_ptr'[d] = save_ptr[d]
          BY <4>3, <3>2 DEF SaveFrames, TypeOK
        <5>2. owner'[share_stack[d]] = d <=> owner[share_stack[d]] = d
          BY <4>3, <3>3, <3>4 DEF TypeOK
        <5>3. owner[share_stack[d]] = d => mem'[share_stack[d]] = mem[share_stack[d]]
          BY <4>3, <3>3, <3>4 DEF TypeOK
        <5> QED BY <5>1, <5>2, <5>3 DEF WordOf
      <4> QED BY <4>1, <4>2, <4>3
    <3> QED BY <3>1, <3>5, <1>1, SameFrame
  <2> QED BY <2>1, <2>2
<1> QED BY <1>0, <1>1, <1>2 DEF Private!Resume, Private!MainRuns, TypeOK

LEMMA RefineYield ==
    ASSUME Inv, NEW c \in Cos, Yield(c)
    PROVE  Private!Yield(c)
<1> USE DEF Yield, Runs
<1>1. \A d \in Cos : Kept(d)
  <2>1. \A d \in Cos : DepthOf(d)' = DepthOf(d)
    BY DEF DepthOf, TypeOK
  <2>2. \A d \in Cos, i \in 1..Room : WordOf(d, i)' = WordOf(d, i)
    BY DEF WordOf, stackVars
  <2> QED BY <2>1, <2>2, SameFrame, DepthBound DEF Kept
<1> QED BY <1>1 DEF Private!Yield, Private!Runs, Kept, TypeOK

LEMMA RefineExit ==
    ASSUME Inv, NEW c \in Cos, Exit(c)
    PROVE  Private!Exit(c)
<1> USE DEF Exit, Runs
<1>0. owner[share_stack[c]] = c /\ c \in alive /\ share_stack[c] \in Stacks
  BY DEF RunningOwns, TypeOK
<1>1. DepthOf(c)' = 0 /\ FrameOf(c)' = Empty
  <2>1. DepthOf(c)' = 0
    BY DEF DepthOf, TypeOK
  <2> QED BY <2>1, NoWordsNext
<1>2. \A d \in Cos \ {c} : Kept(d)
  <2> SUFFICES ASSUME NEW d \in Cos \ {c} PROVE Kept(d)
    OBVIOUS
  <2>1. DepthOf(d)' = DepthOf(d)
    BY DEF DepthOf, TypeOK
  <2>2. CASE DepthOf(d) = 0
    BY <2>1, <2>2, NoWords, NoWordsNext DEF Kept
  <2>3. CASE DepthOf(d) # 0
    <3>1. share_stack[d] \in Stacks
      BY <2>3 DEF DepthOf, TypeOK
    <3>2. \A i \in 1..DepthOf(d) : WordOf(d, i)' = WordOf(d, i)
      BY <1>0, <3>1 DEF WordOf, TypeOK
    <3> QED BY <2>1, <3>2, SameFrame DEF Kept
  <2> QED BY <2>2, <2>3
<1>3. {d \in alive' : is_end'[d]} = {d \in alive : is_end[d]} \cup {c}
  BY <1>0 DEF TypeOK
<1>4. aborted' = "no"
  BY <1>0
<1>5. c \in Cos /\ gtls_co = c /\ gtls_co' \notin Cos /\ alive' = alive
      /\ aborted = "no"
  OBVIOUS
<1>6. [d \in Cos |-> DepthOf(d)'] =
        [[d \in Cos |-> DepthOf(d)] EXCEPT ![c] = 0]
  BY <1>1, <1>2 DEF Kept
<1>7. [d \in Cos |-> FrameOf(d)'] =
        [[d \in Cos |-> FrameOf(d)] EXCEPT ![c] = Empty]
  BY <1>1, <1>2 DEF Kept
<1> QED BY <1>3, <1>4, <1>5, <1>6, <1>7
        DEF Private!Exit, Private!Runs, Private!Empty, Empty

LEMMA RefineDestroy ==
    ASSUME Inv, NEW c \in Cos, Destroy(c)
    PROVE  Private!Destroy(c)
<1> USE DEF Destroy, MainRuns
<1>0. share_stack[c] \in Stacks
  BY DEF TypeOK
<1>1. DepthOf(c)' = 0 /\ FrameOf(c)' = Empty
  <2>1. DepthOf(c)' = 0
    BY DEF DepthOf, TypeOK
  <2> QED BY <2>1, NoWordsNext
<1>2. \A d \in Cos \ {c} : Kept(d)
  <2> SUFFICES ASSUME NEW d \in Cos \ {c} PROVE Kept(d)
    OBVIOUS
  <2>1. DepthOf(d)' = DepthOf(d)
    BY DEF DepthOf, TypeOK
  <2>2. CASE DepthOf(d) = 0
    BY <2>1, <2>2, NoWords, NoWordsNext DEF Kept
  <2>3. CASE DepthOf(d) # 0
    <3>1. share_stack[d] \in Stacks
      BY <2>3 DEF DepthOf, TypeOK
    <3>2. \A i \in 1..DepthOf(d) : WordOf(d, i)' = WordOf(d, i)
      BY <1>0, <3>1 DEF WordOf, TypeOK
    <3> QED BY <2>1, <3>2, SameFrame DEF Kept
  <2> QED BY <2>2, <2>3
<1>3. {d \in alive' : is_end'[d]} = {d \in alive : is_end[d]} \ {c}
  BY DEF TypeOK
<1> QED BY <1>1, <1>2, <1>3, ZenonT(60)
        DEF Private!Destroy, Private!MainRuns, Private!Empty, Empty, Kept, TypeOK

(* Words pushed, popped and assigned are words of the private stack of the
   coroutine that runs, and of no other.                                   *)
LEMMA RunningWords ==
    ASSUME Inv, NEW c \in Cos, Runs(c)
    PROVE  /\ owner[share_stack[c]] = c /\ share_stack[c] \in Stacks
           /\ c \in alive /\ ~is_end[c] /\ DepthOf(c) = sp
           /\ \A i \in 1..Room : WordOf(c, i) = mem[share_stack[c]][i]
BY DEF Runs, RunningOwns, OwnerSound, TypeOK, DepthOf, WordOf

LEMMA OthersKept ==
    ASSUME Inv, NEW c \in Cos, Runs(c),
           UNCHANGED <<coVars, owner, gtls_co>>,
           NEW f, mem' = [mem EXCEPT ![share_stack[c]] = f],
           NEW d \in Cos \ {c}
    PROVE  Kept(d)
<1> USE DEF Runs, coVars
<1>0. owner[share_stack[c]] = c
  BY RunningWords
<1>1. DepthOf(d)' = DepthOf(d)
  BY DEF DepthOf
<1>2. CASE DepthOf(d) = 0
  BY <1>1, <1>2, NoWords, NoWordsNext DEF Kept
<1>3. CASE DepthOf(d) # 0
  <2>1. share_stack[d] \in Stacks
    BY <1>3 DEF DepthOf, TypeOK
  <2>2. \A i \in 1..DepthOf(d) : WordOf(d, i)' = WordOf(d, i)
    BY <1>0, <2>1 DEF WordOf, TypeOK
  <2> QED BY <1>1, <2>2, SameFrame DEF Kept
<1> QED BY <1>2, <1>3

LEMMA RefinePush ==
    ASSUME Inv, NEW c \in Cos, NEW w \in Words, Push(c, w)
    PROVE  Private!Push(c, w)
<1> DEFINE s == share_stack[c]
           f == [mem[s] EXCEPT ![sp + 1] = w]
<1>0. Runs(c) /\ sp < Room /\ sp' = sp + 1 /\ mem' = [mem EXCEPT ![s] = f]
      /\ UNCHANGED <<coVars, owner, align_validsz, gtls_co, aborted>>
  BY DEF Push
<1>1. owner[s] = c /\ s \in Stacks /\ c \in alive /\ ~is_end[c]
      /\ DepthOf(c) = sp /\ sp \in 0..Room
      /\ \A i \in 1..Room : WordOf(c, i) = mem[s][i]
  BY <1>0, RunningWords DEF TypeOK
<1>2. \A d \in Cos \ {c} : Kept(d)
  BY <1>0, OthersKept
<1>3. DepthOf(c)' = sp + 1
  BY <1>0, <1>1 DEF DepthOf, coVars, Runs
<1>4. FrameOf(c)' = [i \in 1..sp + 1 |-> IF i = sp + 1 THEN w ELSE FrameOf(c)[i]]
  <2>1. \A i \in 1..sp + 1 : WordOf(c, i)' = f[i]
    BY <1>0, <1>1 DEF WordOf, coVars, TypeOK
  <2>2. \A i \in 1..sp + 1 : f[i] = IF i = sp + 1 THEN w ELSE mem[s][i]
    BY <1>0, <1>1 DEF TypeOK
  <2>3. \A i \in 1..sp : FrameOf(c)[i] = mem[s][i]
    BY <1>1 DEF FrameOf
  <2> HIDE DEF f
  <2> QED BY <1>1, <1>3, <2>1, <2>2, <2>3 DEF FrameOf
<1>5. [d \in Cos |-> DepthOf(d)'] =
        [[d \in Cos |-> DepthOf(d)] EXCEPT ![c] = DepthOf(c) + 1]
  BY <1>1, <1>2, <1>3 DEF Kept
<1>6. [d \in Cos |-> FrameOf(d)'] =
        [[d \in Cos |-> FrameOf(d)] EXCEPT ![c] =
           [i \in 1..DepthOf(c) + 1 |->
              IF i = DepthOf(c) + 1 THEN w ELSE FrameOf(c)[i]]]
  BY <1>1, <1>2, <1>4 DEF Kept
<1>7. alive' = alive /\ is_end' = is_end /\ gtls_co' = gtls_co
      /\ aborted' = aborted /\ aborted = "no" /\ gtls_co = c
  BY <1>0 DEF coVars, Runs
<1> QED BY <1>0, <1>1, <1>5, <1>6, <1>7 DEF Private!Push, Private!Runs

LEMMA RefinePop ==
    ASSUME Inv, NEW c \in Cos, Pop(c)
    PROVE  Private!Pop(c)
<1> DEFINE s == share_stack[c]
<1>0. Runs(c) /\ sp > 0 /\ sp' = sp - 1
      /\ UNCHANGED <<coVars, stackVars, gtls_co, aborted>>
  BY DEF Pop
<1>1. owner[s] = c /\ s \in Stacks /\ c \in alive /\ ~is_end[c]
      /\ DepthOf(c) = sp /\ sp \in 0..Room
  BY <1>0, RunningWords DEF TypeOK
<1>2. \A d \in Cos \ {c} : Kept(d)
  BY <1>0 DEF coVars, stackVars, Kept, DepthOf, FrameOf, WordOf, Runs
<1>3. DepthOf(c)' = sp - 1
  BY <1>0, <1>1 DEF DepthOf, coVars, Runs
<1>4. FrameOf(c)' = [i \in 1..sp - 1 |-> FrameOf(c)[i]]
  <2>1. \A i \in 1..sp - 1 : WordOf(c, i)' = WordOf(c, i)
    BY <1>0 DEF WordOf, coVars, stackVars
  <2>2. \A i \in 1..sp - 1 : FrameOf(c)[i] = WordOf(c, i)
    BY <1>1 DEF FrameOf
  <2> QED BY <1>1, <1>3, <2>1, <2>2 DEF FrameOf
<1>5. [d \in Cos |-> DepthOf(d)'] =
        [[d \in Cos |-> DepthOf(d)] EXCEPT ![c] = DepthOf(c) - 1]
  BY <1>1, <1>2, <1>3 DEF Kept
<1>6. [d \in Cos |-> FrameOf(d)'] =
        [[d \in Cos |-> FrameOf(d)] EXCEPT ![c] =
           [i \in 1..DepthOf(c) - 1 |-> FrameOf(c)[i]]]
  BY <1>1, <1>2, <1>4 DEF Kept
<1>7. alive' = alive /\ is_end' = is_end /\ gtls_co' = gtls_co
      /\ aborted' = aborted /\ aborted = "no" /\ gtls_co = c
  BY <1>0 DEF coVars, Runs
<1> QED BY <1>0, <1>1, <1>5, <1>6, <1>7 DEF Private!Pop, Private!Runs

LEMMA RefineStore ==
    ASSUME Inv, NEW c \in Cos, NEW j \in 1..Room, NEW w \in Words, Store(c, j, w)
    PROVE  Private!Store(c, j, w)
<1> DEFINE s == share_stack[c]
           f == [mem[s] EXCEPT ![j] = w]
<1>0. Runs(c) /\ j \in 1..sp /\ sp' = sp /\ mem' = [mem EXCEPT ![s] = f]
      /\ UNCHANGED <<coVars, owner, align_validsz, gtls_co, aborted>>
  BY DEF Store
<1>1. owner[s] = c /\ s \in Stacks /\ c \in alive /\ ~is_end[c]
      /\ DepthOf(c) = sp /\ sp \in 0..Room
      /\ \A i \in 1..Room : WordOf(c, i) = mem[s][i]
  BY <1>0, RunningWords DEF TypeOK
<1>2. \A d \in Cos \ {c} : Kept(d)
  BY <1>0, OthersKept
<1>3. DepthOf(c)' = sp
  BY <1>0, <1>1 DEF DepthOf, coVars, Runs
<1>4. FrameOf(c)' = [i \in 1..sp |-> IF i = j THEN w ELSE FrameOf(c)[i]]
  <2>1. \A i \in 1..sp : WordOf(c, i)' = f[i]
    BY <1>0, <1>1 DEF WordOf, coVars, TypeOK
  <2>2. \A i \in 1..sp : f[i] = IF i = j THEN w ELSE mem[s][i]
    BY <1>0, <1>1 DEF TypeOK
  <2>3. \A i \in 1..sp : FrameOf(c)[i] = mem[s][i]
    BY <1>1 DEF FrameOf
  <2> HIDE DEF f
  <2> QED BY <1>1, <1>3, <2>1, <2>2, <2>3 DEF FrameOf
<1>5. [d \in Cos |-> DepthOf(d)'] = [d \in Cos |-> DepthOf(d)]
  BY <1>1, <1>2, <1>3 DEF Kept
<1>6. [d \in Cos |-> FrameOf(d)'] =
        [[d \in Cos |-> FrameOf(d)] EXCEPT ![c] =
           [i \in 1..DepthOf(c) |-> IF i = j THEN w ELSE FrameOf(c)[i]]]
  BY <1>1, <1>2, <1>4 DEF Kept
<1>7. alive' = alive /\ is_end' = is_end /\ gtls_co' = gtls_co
      /\ aborted' = aborted /\ aborted = "no" /\ gtls_co = c
  BY <1>0 DEF coVars, Runs
<1> QED BY <1>0, <1>1, <1>5, <1>6, <1>7 DEF Private!Store, Private!Runs

(* A coroutine that overruns its stack or returns has misused the library. *)
LEMMA RefineDeath ==
    ASSUME Inv, NEW c \in Cos, Overrun(c) \/ Return(c)
    PROVE  Private!Crash
<1>0. Runs(c) /\ sp \in {0, Room} /\ aborted' # "no"
      /\ UNCHANGED <<coVars, stackVars, gtls_co, sp>>
  BY DEF Overrun, Return
<1>1. \A d \in Cos : Kept(d)
  BY <1>0 DEF Kept, DepthOf, FrameOf, WordOf, coVars, stackVars
<1>2. c \in alive /\ DepthOf(c) \in {0, Room} /\ gtls_co = c /\ aborted = "no"
  BY <1>0, RunningWords DEF Runs
<1> QED BY <1>0, <1>1, <1>2
        DEF Private!Crash, Private!Misused, Kept, coVars

LEMMA RefineStutter ==
    ASSUME UNCHANGED vars
    PROVE  UNCHANGED Private!vars
<1> USE DEF vars, coVars, stackVars
<1>1. \A d \in Cos : Kept(d)
  BY DEF Kept, DepthOf, FrameOf, WordOf
<1> QED BY <1>1 DEF Kept, Private!vars

LEMMA RefineStep == Inv /\ [Next]_vars => [Private!Next]_(Private!vars)
<1> SUFFICES ASSUME Inv, [Next]_vars
             PROVE  Private!Next \/ UNCHANGED Private!vars
  OBVIOUS
<1>1. CASE UNCHANGED vars
  BY <1>1, RefineStutter
<1>2. CASE Next
  <2> PICK c \in Cos :
        \/ \E s \in Stacks, sz \in SaveSizes : Create(c, s, sz)
        \/ Resume(c)
        \/ Yield(c)
        \/ Exit(c)
        \/ Destroy(c)
        \/ \E w \in Words : Push(c, w)
        \/ Pop(c)
        \/ \E i \in 1..Room, w \in Words : Store(c, i, w)
        \/ Overrun(c)
        \/ Return(c)
    BY <1>2, Zenon DEF Next
  <2> USE DEF Private!Next
  <2>1. CASE \E s \in Stacks, sz \in SaveSizes : Create(c, s, sz)
    <3>1. Private!Create(c)
      BY <2>1, RefineCreate
    <3> QED BY <3>1, Zenon
  <2>2. CASE Resume(c)
    <3>1. Private!Crash \/ Private!Resume(c)
      BY <2>2, RefineResumeAbort, RefineResumeSwitch DEF Resume
    <3> QED BY <3>1, Zenon
  <2>3. CASE Yield(c)
    <3>1. Private!Yield(c)
      BY <2>3, RefineYield
    <3> QED BY <3>1, Zenon
  <2>4. CASE Exit(c)
    <3>1. Private!Exit(c)
      BY <2>4, RefineExit
    <3> QED BY <3>1, Zenon
  <2>5. CASE Destroy(c)
    <3>1. Private!Destroy(c)
      BY <2>5, RefineDestroy
    <3> QED BY <3>1, Zenon
  <2>6. CASE \E w \in Words : Push(c, w)
    <3>1. \E w \in Words : Private!Push(c, w)
      BY <2>6, RefinePush
    <3> QED BY <3>1, Zenon
  <2>7. CASE Pop(c)
    <3>1. Private!Pop(c)
      BY <2>7, RefinePop
    <3> QED BY <3>1, Zenon
  <2>8. CASE \E i \in 1..Room, w \in Words : Store(c, i, w)
    <3>1. \E i \in 1..Room, w \in Words : Private!Store(c, i, w)
      BY <2>8, RefineStore
    <3> QED BY <3>1, Zenon
  <2>9. CASE Overrun(c) \/ Return(c)
    <3>1. Private!Crash
      BY <2>9, RefineDeath
    <3> QED BY <3>1, Zenon
  <2> QED BY <2>1, <2>2, <2>3, <2>4, <2>5, <2>6, <2>7, <2>8, <2>9
<1> QED BY <1>1, <1>2

(* A program that runs on share stacks is one that runs on private stacks:
   whatever aco_resume, aco_yield, aco_exit and aco_destroy do in between,
   a coroutine finds its frames as it left them.                           *)
THEOREM SharingIsInvisible == Spec => PrivateStacks
<1>1. Spec => Private!Init
  BY RefineInit DEF Spec
<1>2. Spec => [][Private!Next]_(Private!vars)
  <2>1. Spec => []Inv
    BY RuntimeInvariant
  <2> QED BY <2>1, RefineStep, PTL DEF Spec
<1> QED BY <1>1, <1>2, PTL DEF PrivateStacks, Private!Spec

=============================================================================
