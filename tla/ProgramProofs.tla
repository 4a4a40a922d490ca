--------------------------- MODULE ProgramProofs ----------------------------
(***************************************************************************)
(* Proofs about the programs of MCPrograms that have no network: the       *)
(* arithmetic of share stacks, two threads that write one file, the copy   *)
(* of a file, the rotations of a tree, the walk of a directory, and the    *)
(* processes that wait for each other.                                     *)
(***************************************************************************)
EXTENDS MCPrograms, LeastNumber, SequenceTheorems, TLAPS

-----------------------------------------------------------------------------
(* ShareStack                                                              *)

(* What rounding down to pages gives, for each size of a page in turn.     *)
LEMMA WholePages ==
    ASSUME NEW sz \in Nat, NEW page \in PowersOfTwo
    PROVE  /\ (sz \div page) * page \in Nat
           /\ (sz \div page) * page <= sz
           /\ sz < (sz \div page) * page + page
           /\ sz % page = 0 => (sz \div page) * page = sz
           /\ ((sz \div page) * page) % page = 0
           /\ ((sz \div page) * page + page) % page = 0
           /\ ((sz \div page) * page + 2 * page) % page = 0
           /\ (2 * page) % page = 0
           /\ page \in Nat /\ page >= 16 /\ page % 16 = 0
<1>1. CASE page \in {16, 32, 64, 128}
  BY <1>1, SMTT(60)
<1>2. CASE page \in {256, 512, 1024, 2048}
  BY <1>2, SMTT(60)
<1>3. CASE page \in {4096, 8192, 16384, 32768, 65536}
  BY <1>3, SMTT(60)
<1> QED BY <1>1, <1>2, <1>3 DEF PowersOfTwo

(* The mapping is whole pages, and without the guard page it is still as
   large as was asked.                                                     *)
LEMMA GuardedSize ==
    ASSUME NEW sz \in Nat, NEW page \in PowersOfTwo
    PROVE  LET real == WithGuard(sz, page)
           IN  /\ real \in Nat /\ real % page = 0 /\ real - page >= sz
               /\ real % 16 = 0
               /\ 2 * page < WordLimit /\ ~Overflows(sz, page) => real < WordLimit
<1> DEFINE whole == (sz \div page) * page
<1>1. /\ whole \in Nat /\ whole <= sz /\ sz < whole + page
      /\ sz % page = 0 => whole = sz
      /\ (whole + page) % page = 0 /\ (whole + 2 * page) % page = 0
      /\ (2 * page) % page = 0 /\ page \in Nat /\ page >= 16
  BY WholePages
<1>2. (2 * page) % 16 = 0 /\ (whole + page) % 16 = 0 /\ (whole + 2 * page) % 16 = 0
  <2>1. CASE page \in {16, 32, 64, 128}
    BY <2>1, SMTT(60)
  <2>2. CASE page \in {256, 512, 1024, 2048}
    BY <2>2, SMTT(60)
  <2>3. CASE page \in {4096, 8192, 16384, 32768, 65536}
    BY <2>3, SMTT(60)
  <2> QED BY <2>1, <2>2, <2>3 DEF PowersOfTwo
<1>3. WordLimit \in Nat
  BY ShareStackAssumption
<1>4. CASE sz <= page
  BY <1>1, <1>2, <1>3, <1>4 DEF WithGuard
<1>5. CASE sz > page /\ sz % page = 0
  <2>1. WithGuard(sz, page) = whole + page
    BY <1>1, <1>5 DEF WithGuard
  <2>2. Overflows(sz, page) <=> whole + page >= WordLimit
    BY <1>1, <1>5 DEF Overflows
  <2> HIDE DEF whole
  <2> QED BY <1>1, <1>2, <1>3, <1>5, <2>1, <2>2
<1>6. CASE sz > page /\ sz % page # 0
  <2>1. WithGuard(sz, page) = whole + 2 * page
    BY <1>1, <1>6 DEF WithGuard
  <2>2. Overflows(sz, page) <=> whole + 2 * page >= WordLimit
    BY <1>1, <1>6 DEF Overflows
  <2> HIDE DEF whole
  <2> QED BY <1>1, <1>2, <1>3, <1>6, <2>1, <2>2
<1> QED BY <1>1, <1>4, <1>5, <1>6

(* The part of StackInRegion that is about the stack alone.                *)
Within(s, ptr, sz) ==
    /\ s.ptr = ptr /\ s.sz = sz
    /\ s.align_highptr % 16 = 0
    /\ s.align_highptr + 2 * PtrSize <= s.ptr + s.sz
    /\ s.align_retptr >= s.ptr
    /\ s.align_retptr + PtrSize <= s.align_highptr
    /\ s.align_limit > PtrSize
    /\ s.align_retptr - s.align_limit >=
           s.ptr - (IF s.sz % 16 = 0 THEN 0 ELSE 15)

(* The alignment of a stack at an address that is a multiple of 16.        *)
LEMMA TopInStack ==
    ASSUME NEW ptr \in Nat, ptr % 16 = 0, NEW sz \in Nat,
           sz > 16 + 3 * PtrSize, NEW arch \in Arches
    PROVE  Within(Aligned(ptr, sz, arch), ptr, sz)
<1> DEFINE high == Floor16(ptr + sz - 16)
<1>1. /\ high \in Nat /\ high % 16 = 0
      /\ high <= ptr + sz - 16 /\ high >= ptr + sz - 31
      /\ sz % 16 = 0 => high = ptr + sz - 16
      /\ high >= ptr + 16
  BY SMTT(60) DEF Floor16, PtrSize
<1>2. Aligned(ptr, sz, arch) =
        [ptr |-> ptr, sz |-> sz, align_highptr |-> high,
         align_retptr |-> high - (IF arch = "aarch64" THEN 16 ELSE 8),
         align_limit |-> sz - 32]
  BY SMT DEF Aligned, PtrSize
<1> HIDE DEF high
<1> QED BY <1>1, <1>2, SMTT(60) DEF PtrSize, Within

(* What StackInRegion needs to be inductive: what was asked stays askable. *)
StackInv == asked \in Askable /\ sstk \in [DOMAIN Nothing -> Int] /\ StackInRegion

LEMMA StackInit == ASSUME NEW a \in Askable, ShareStackStart(a) PROVE StackInv
BY DEF ShareStackStart, StackInv, StackInRegion, Nothing

(* What a new stack is made of: the memory that is taken, and the stack in
   it.                                                                     *)
LEMMA NewStackFits == ASSUME StackInv, NewStack PROVE StackInv'
<1> DEFINE sz == AtLeast(asked.sz)
           real == IF asked.guard THEN WithGuard(sz, asked.page) ELSE sz
           reserved == IF asked.guard THEN asked.page ELSE 0
           new == Aligned(asked.base + reserved, real - reserved, asked.arch)
<1>1. /\ asked.sz \in 0..WordLimit - 1 /\ asked.guard \in BOOLEAN
      /\ asked.page \in PowersOfTwo /\ 2 * asked.page < WordLimit
      /\ asked.arch \in Arches
      /\ asked.base \in Nat /\ asked.base % 16 = 0
  BY ShareStackAssumption DEF StackInv, Askable
<1>2. /\ WordLimit \in Nat /\ DefaultSize \in MinSize..WordLimit - 1
      /\ MinSize \in Nat /\ MinSize > 16 + 3 * PtrSize
  BY ShareStackAssumption
<1>3. sz \in Nat /\ sz >= asked.sz /\ sz >= MinSize /\ sz < WordLimit
  BY <1>1, <1>2 DEF AtLeast
<1>4. reserved \in Nat /\ reserved % 16 = 0
  BY <1>1 DEF PowersOfTwo
<1> HIDE DEF sz
<1>5. CASE sstkAt' = "aborted" /\ UNCHANGED sstk
  BY <1>5 DEF NewStack, StackInv, StackInRegion
<1>6. CASE /\ asked.guard => ~Overflows(sz, asked.page)
           /\ sstk' = [f \in DOMAIN sstk |->
                         CASE f = "real_ptr" -> asked.base
                           [] f = "real_sz" -> real
                           [] OTHER -> new[f]]
           /\ sstkAt' = "live"
  <2>1. /\ real \in Nat /\ real - reserved >= sz /\ real < WordLimit
        /\ asked.guard => real % asked.page = 0
    BY <1>1, <1>3, <1>6, GuardedSize
  <2> HIDE DEF real, reserved
  <2>2. asked.base + reserved \in Nat /\ (asked.base + reserved) % 16 = 0
    BY <1>1, <1>4, SMT
  <2>3. real - reserved \in Nat /\ real - reserved > 16 + 3 * PtrSize
    BY <1>2, <1>3, <1>4, <2>1, SMT DEF PtrSize
  <2>4. Within(new, asked.base + reserved, real - reserved)
    BY <1>1, <2>2, <2>3, TopInStack
  <2>5. new \in [{"ptr", "sz", "align_highptr", "align_retptr", "align_limit"} -> Int]
    BY <2>2, <2>3, SMT DEF Aligned, Floor16, PtrSize
  <2> HIDE DEF new
  <2>6. DOMAIN sstk = {"real_ptr", "real_sz", "ptr", "sz", "align_highptr",
                       "align_retptr", "align_limit"}
    BY DEF StackInv, Nothing
  <2>7. /\ sstk'.real_ptr = asked.base /\ sstk'.real_sz = real
        /\ sstk'.ptr = new.ptr /\ sstk'.sz = new.sz
        /\ sstk'.align_highptr = new.align_highptr
        /\ sstk'.align_retptr = new.align_retptr
        /\ sstk'.align_limit = new.align_limit
    BY <1>6, <2>6
  <2>8. sstk' \in [DOMAIN Nothing -> Int]
    BY <1>1, <1>6, <2>1, <2>5, <2>6 DEF StackInv, Nothing
  <2>9. UNCHANGED asked
    BY DEF NewStack
  <2>10. StackInRegion'
    <3>1. sstk'.ptr - sstk'.real_ptr = reserved
      BY <1>1, <1>4, <2>4, <2>7, SMT DEF Within
    <3>2. reserved + sstk'.sz = sstk'.real_sz /\ sstk'.real_sz < WordLimit
      BY <1>4, <2>1, <2>4, <2>7, SMT DEF Within
    <3>3. sstk'.sz >= asked.sz
      BY <1>1, <1>3, <1>4, <2>1, <2>4, <2>7, SMT DEF Within
    <3>4. reserved = (IF asked'.guard THEN asked'.page ELSE 0)
      BY <2>9 DEF reserved
    <3>5. asked'.guard => sstk'.real_sz % asked'.page = 0
      BY <2>1, <2>7, <2>9
    <3> QED BY <2>4, <2>7, <2>9, <3>1, <3>2, <3>3, <3>4, <3>5
           DEF StackInRegion, Within
  <2> QED BY <2>8, <2>9, <2>10 DEF StackInv
<1> QED BY <1>5, <1>6 DEF NewStack, sz

(* Whatever aco_share_stack_new2 is asked for, with any page size that is a
   power of two, the stack it makes lies in its memory and its limit within
   the stack.                                                              *)
THEOREM StackAlwaysInRegion == ShareStackSpec => []StackInRegion
<1>1. (\E a \in Askable : ShareStackStart(a)) => StackInv
  BY StackInit
<1>2. StackInv /\ [ShareStackStep]_stackVars => StackInv'
  <2> SUFFICES ASSUME StackInv, [ShareStackStep]_stackVars PROVE StackInv'
    OBVIOUS
  <2>1. CASE NewStack
    BY <2>1, NewStackFits
  <2>2. CASE DestroyStack
    BY <2>2 DEF DestroyStack, StackInv, StackInRegion, Nothing
  <2>3. CASE UNCHANGED stackVars
    BY <2>3 DEF stackVars, StackInv, StackInRegion
  <2> QED BY <2>1, <2>2, <2>3 DEF ShareStackStep
<1>3. StackInv => StackInRegion
  BY DEF StackInv
<1> QED BY <1>1, <1>2, <1>3, PTL DEF ShareStackSpec

-----------------------------------------------------------------------------
(* WriteRace                                                               *)

MainPlaces == {"open", "create2", "create1", "join1", "join2", "close",
               "closed", "return", "failed"}
ThreadPlaces == {"none", "lock", "write", "exit"}

RaceTypeOK == /\ mainAt \in MainPlaces
              /\ threadAt \in [Threads -> ThreadPlaces]
              /\ holder \in {0} \cup Threads
              /\ written \in [Threads -> 0..Lines]
              /\ file \in Seq(Threads)
              /\ fdOpen \in BOOLEAN

(* The mutex: who writes holds it, and who holds it writes.                *)
LockSound == \A t \in Threads : threadAt[t] = "write" <=> holder = t

(* Where main is tells which threads there may be.                         *)
MainSound ==
    /\ mainAt \in {"open", "create2"} => \A t \in Threads : threadAt[t] = "none"
    /\ mainAt = "create1" => threadAt[1] = "none"
    /\ mainAt \in {"join2", "close", "closed"} => threadAt[1] = "exit"
    /\ mainAt \in {"close", "closed"} => threadAt[2] = "exit"
    /\ mainAt \in {"create2", "create1", "join1", "join2", "close"} => fdOpen

(* Lines come from threads that have had the mutex, and the last block is
   that of the thread that has it.                                         *)
LinesSound ==
    /\ \A i \in DOMAIN file : threadAt[file[i]] \in {"write", "exit"}
    /\ \A i, j \in DOMAIN file :
         i < j /\ threadAt[file[i]] = "write" => file[j] = file[i]

NotMixed == \A i, j, k \in DOMAIN file :
              i < j /\ j < k /\ file[i] = file[k] => file[j] = file[i]

RaceInv == RaceTypeOK /\ LockSound /\ MainSound /\ LinesSound /\ NotMixed

LEMMA RaceStart == RaceInit => RaceInv
<1> SUFFICES ASSUME RaceInit PROVE RaceInv
  OBVIOUS
<1>1. DOMAIN file = {}
  BY DEF RaceInit
<1>2. 0 \in 0..Lines
  BY WriteRaceAssumption
<1>3. written \in [Threads -> 0..Lines] /\ threadAt \in [Threads -> ThreadPlaces]
  BY <1>2 DEF RaceInit, ThreadPlaces
<1>4. file \in Seq(Threads)
  BY DEF RaceInit
<1>5. fdOpen \in BOOLEAN
  BY DEF RaceInit
<1>6. RaceTypeOK
  BY <1>3, <1>4, <1>5 DEF RaceInit, RaceTypeOK, MainPlaces
<1> QED BY <1>1, <1>6 DEF RaceInit, RaceInv, LockSound, MainSound, LinesSound,
                          NotMixed, Threads

(* Main goes on and no thread writes.                                      *)
LEMMA MainKeeps == ASSUME RaceInv, MainStep PROVE RaceInv'
<1> USE DEF RaceInv, Threads
<1>0. ASSUME UNCHANGED <<threadAt, holder, file>> PROVE LockSound' /\ LinesSound' /\ NotMixed'
  BY <1>0 DEF LockSound, LinesSound, NotMixed
<1>1. CASE SetUp
  <2>1. /\ mainAt = "open" /\ UNCHANGED <<threadAt, holder, written, file>>
        /\ \/ mainAt' = "create2" /\ fdOpen'
           \/ mainAt' = "failed"
    BY <1>1 DEF SetUp
  <2>2. fdOpen' \in BOOLEAN
    BY <1>1, Zenon DEF SetUp
  <2>3. RaceTypeOK'
    BY <2>1, <2>2 DEF RaceTypeOK, MainPlaces
  <2>4. MainSound'
    BY <2>1 DEF MainSound
  <2> QED BY <1>0, <2>1, <2>3, <2>4
<1>2. ASSUME NEW t \in Threads, NEW here, NEW next, CreateThread(t, here, next),
             <<t, here, next>> \in {<<2, "create2", "create1">>,
                                   <<1, "create1", "join1">>}
      PROVE  RaceInv'
  <2>1. threadAt[t] = "none" /\ mainAt = here
    BY <1>2 DEF CreateThread, MainSound
  <2>2. UNCHANGED <<holder, written, file, fdOpen>> /\ mainAt' \in {next, "failed"}
    BY <1>2 DEF CreateThread
  <2>3. \/ threadAt' = [threadAt EXCEPT ![t] = "lock"]
        \/ UNCHANGED threadAt /\ mainAt' = "failed"
    BY <1>2 DEF CreateThread
  <2>4. RaceTypeOK'
    BY <1>2, <2>2, <2>3 DEF RaceTypeOK, MainPlaces, ThreadPlaces
  <2>5. \A u \in Threads : \/ threadAt'[u] = threadAt[u]
                           \/ u = t /\ threadAt'[u] = "lock"
    BY <2>3 DEF RaceTypeOK
  <2>6. LockSound'
    BY <2>1, <2>2, <2>5 DEF LockSound
  <2>7. MainSound'
    BY <1>2, <2>1, <2>2, <2>3, <2>5 DEF MainSound
  <2>8. \A i \in DOMAIN file : file[i] \in Threads /\ file[i] # t
    BY <2>1 DEF LinesSound, RaceTypeOK
  <2>9. LinesSound' /\ NotMixed'
    BY <2>2, <2>5, <2>8 DEF LinesSound, NotMixed
  <2> QED BY <2>4, <2>6, <2>7, <2>9
<1>3. ASSUME NEW t \in Threads, NEW here, NEW next, JoinThread(t, here, next),
             <<t, here, next>> \in {<<1, "join1", "join2">>, <<2, "join2", "close">>}
      PROVE  RaceInv'
  BY <1>3 DEF JoinThread, RaceTypeOK, MainPlaces, LockSound, MainSound,
              LinesSound, NotMixed
<1>4. CASE CloseFile \/ Return
  <2>1. /\ UNCHANGED <<threadAt, holder, written, file>>
        /\ \/ mainAt = "close" /\ mainAt' = "closed"
           \/ mainAt' = "return"
    BY <1>4 DEF CloseFile, Return
  <2>2. fdOpen' \in BOOLEAN
    BY <1>4, Zenon DEF CloseFile, Return, RaceTypeOK
  <2>3. RaceTypeOK'
    BY <2>1, <2>2 DEF RaceTypeOK, MainPlaces
  <2>4. MainSound'
    BY <2>1 DEF MainSound
  <2> QED BY <1>0, <2>1, <2>3, <2>4
<1> QED BY <1>1, <1>2, <1>3, <1>4 DEF MainStep

LEMMA LockKeeps == ASSUME RaceInv, NEW t \in Threads, Lock(t) PROVE RaceInv'
<1> USE DEF RaceInv
<1>1. /\ threadAt[t] = "lock" /\ threadAt' = [threadAt EXCEPT ![t] = "write"]
      /\ holder = 0 /\ holder' = t /\ UNCHANGED <<mainAt, written, file, fdOpen>>
  BY DEF Lock
<1>2. \A u \in Threads : threadAt'[u] = IF u = t THEN "write" ELSE threadAt[u]
  BY <1>1 DEF RaceTypeOK
<1>3. RaceTypeOK'
  BY <1>1 DEF RaceTypeOK, ThreadPlaces
<1>4. LockSound' /\ MainSound'
  BY <1>1, <1>2 DEF LockSound, MainSound, Threads
<1>5. \A i \in DOMAIN file : file[i] \in Threads /\ file[i] # t
  BY <1>1 DEF LinesSound, RaceTypeOK
<1>6. LinesSound' /\ NotMixed'
  BY <1>1, <1>2, <1>5 DEF LinesSound, NotMixed
<1> QED BY <1>3, <1>4, <1>6

LEMMA WriteKeeps == ASSUME RaceInv, NEW t \in Threads, WriteLine(t) PROVE RaceInv'
<1> USE DEF RaceInv
<1>1. /\ threadAt[t] = "write" /\ written[t] < Lines
      /\ written' = [written EXCEPT ![t] = @ + 1]
      /\ file' = Append(file, t) \/ file' = file
      /\ UNCHANGED <<mainAt, threadAt, holder, fdOpen>>
  BY DEF WriteLine
<1>2. written' \in [Threads -> 0..Lines]
  BY <1>1, WriteRaceAssumption DEF RaceTypeOK
<1>3. RaceTypeOK'
  BY <1>1, <1>2 DEF RaceTypeOK
<1>4. LockSound' /\ MainSound'
  BY <1>1 DEF LockSound, MainSound
<1>5. CASE file' = file
  BY <1>1, <1>3, <1>4, <1>5 DEF LinesSound, NotMixed
<1>6. CASE file' = Append(file, t)
  <2>1. /\ DOMAIN file = 1..Len(file) /\ DOMAIN file' = 1..Len(file) + 1
        /\ Len(file) \in Nat
        /\ file'[Len(file) + 1] = t
        /\ \A i \in DOMAIN file : file'[i] = file[i] /\ file[i] \in Threads
    BY <1>6 DEF RaceTypeOK
  <2>2. \A u \in Threads : threadAt[u] = "write" => u = t
    BY <1>1 DEF LockSound
  <2>3. LinesSound'
    <3>1. \A i \in DOMAIN file' : threadAt[file'[i]] \in {"write", "exit"}
      BY <1>1, <2>1 DEF LinesSound
    <3>2. ASSUME NEW i \in DOMAIN file', NEW j \in DOMAIN file', i < j,
                 threadAt[file'[i]] = "write"
          PROVE  file'[j] = file'[i]
      <4>1. i \in DOMAIN file /\ file[i] = t
        BY <2>1, <2>2, <3>2
      <4> QED BY <2>1, <3>2, <4>1 DEF LinesSound
    <3> QED BY <1>1, <3>1, <3>2 DEF LinesSound
  <2>4. NotMixed'
    <3> SUFFICES ASSUME NEW i \in DOMAIN file', NEW j \in DOMAIN file',
                        NEW k \in DOMAIN file', i < j, j < k, file'[i] = file'[k]
                 PROVE  file'[j] = file'[i]
      BY DEF NotMixed
    <3>1. i \in DOMAIN file /\ j \in DOMAIN file
      BY <2>1
    <3>2. CASE k \in DOMAIN file
      BY <2>1, <3>1, <3>2 DEF NotMixed
    <3>3. CASE k = Len(file) + 1
      BY <1>1, <2>1, <3>1, <3>3 DEF LinesSound
    <3> QED BY <2>1, <3>2, <3>3
  <2> QED BY <1>3, <1>4, <2>3, <2>4
<1> QED BY <1>1, <1>5, <1>6

LEMMA UnlockKeeps == ASSUME RaceInv, NEW t \in Threads, Unlock(t) PROVE RaceInv'
<1> USE DEF RaceInv
<1>1. /\ threadAt[t] = "write" /\ threadAt' = [threadAt EXCEPT ![t] = "exit"]
      /\ holder' = 0 /\ UNCHANGED <<mainAt, written, file, fdOpen>>
  BY DEF Unlock
<1>2. \A u \in Threads : threadAt'[u] = IF u = t THEN "exit" ELSE threadAt[u]
  BY <1>1 DEF RaceTypeOK
<1>3. RaceTypeOK'
  BY <1>1 DEF RaceTypeOK, ThreadPlaces
<1>4. LockSound' /\ MainSound'
  BY <1>1, <1>2 DEF LockSound, MainSound, Threads
<1>5. \A i \in DOMAIN file : file[i] \in Threads
  BY DEF RaceTypeOK
<1>6. LinesSound' /\ NotMixed'
  BY <1>1, <1>2, <1>5 DEF LinesSound, NotMixed
<1> QED BY <1>3, <1>4, <1>6

LEMMA RacePreserved == ASSUME RaceInv, [Next]_vars PROVE RaceInv'
<1>1. CASE RaceStep
  BY <1>1, MainKeeps, LockKeeps, WriteKeeps, UnlockKeeps DEF RaceStep
<1>2. CASE UNCHANGED raceVars
  BY <1>2 DEF raceVars, RaceInv, RaceTypeOK, LockSound, MainSound, LinesSound,
              NotMixed
<1>3. RaceStep \/ UNCHANGED raceVars
  BY DEF Next, vars, PollClientRuns, OutputIsRead, SelectClientRuns, UserActs,
     DuRuns, StackRuns, TreeRuns, PipesRun, Killed, RaceRuns, CopyRuns,
     ForkWaitRuns, NotClients, NotDu, NotStack, NotTree, NotPipes, NotCopy, NotFork
<1> QED BY <1>1, <1>2, <1>3

LEMMA RaceMeans == RaceInv => BlocksStayWhole
BY DEF RaceInv, RaceTypeOK, NotMixed, MainSound, BlocksStayWhole, Running, Threads,
       MainPlaces

-----------------------------------------------------------------------------
(* CopyFile                                                                *)

(* A sequence that is the part of the stream F behind position b.          *)
Stream(s, b, F) == \A i \in 1..Len(s) : s[i] = F[b + i]

LEMMA StreamJoined ==
    ASSUME NEW S, NEW F, NEW b \in Nat, NEW s \in Seq(S), NEW t \in Seq(S),
           Stream(s, b, F), Stream(t, b + Len(s), F)
    PROVE  /\ s \o t \in Seq(S) /\ Len(s \o t) = Len(s) + Len(t)
           /\ Stream(s \o t, b, F)
<1>1. /\ s \o t \in Seq(S) /\ Len(s \o t) = Len(s) + Len(t)
      /\ \A i \in 1..Len(s) + Len(t) :
           (s \o t)[i] = IF i <= Len(s) THEN s[i] ELSE t[i - Len(s)]
  BY ConcatProperties
<1>2. Len(s) \in Nat /\ Len(t) \in Nat
  BY LenProperties
<1>3. ASSUME NEW i \in 1..Len(s) + Len(t) PROVE (s \o t)[i] = F[b + i]
  <2>1. CASE i <= Len(s)
    BY <1>1, <1>2, <2>1 DEF Stream
  <2>2. CASE i > Len(s)
    <3>1. i - Len(s) \in 1..Len(t) /\ b + Len(s) + (i - Len(s)) = b + i
      BY <1>2, <2>2
    <3>2. t[i - Len(s)] = F[b + Len(s) + (i - Len(s))]
      BY <3>1 DEF Stream
    <3> QED BY <1>1, <1>2, <2>2, <3>1, <3>2
  <2> QED BY <1>2, <2>1, <2>2
<1> QED BY <1>1, <1>3 DEF Stream

LEMMA StreamCut ==
    ASSUME NEW S, NEW F, NEW b \in Nat, NEW s \in Seq(S), NEW n \in 0..Len(s),
           Stream(s, b, F)
    PROVE  /\ SubSeq(s, 1, n) \in Seq(S) /\ Len(SubSeq(s, 1, n)) = n
           /\ Stream(SubSeq(s, 1, n), b, F)
           /\ SubSeq(s, n + 1, Len(s)) \in Seq(S)
           /\ Len(SubSeq(s, n + 1, Len(s))) = Len(s) - n
           /\ Stream(SubSeq(s, n + 1, Len(s)), b + n, F)
<1>1. Len(s) \in Nat /\ \A i \in 1..Len(s) : s[i] \in S
  BY LenProperties, ElementOfSeq
<1>2. /\ SubSeq(s, 1, n) \in Seq(S) /\ Len(SubSeq(s, 1, n)) = n
      /\ \A i \in 1..n : SubSeq(s, 1, n)[i] = s[i]
  BY <1>1, SubSeqProperties
<1>3. /\ SubSeq(s, n + 1, Len(s)) \in Seq(S)
      /\ Len(SubSeq(s, n + 1, Len(s))) = Len(s) - n
      /\ \A i \in 1..Len(s) - n : SubSeq(s, n + 1, Len(s))[i] = s[n + i]
  BY <1>1, SubSeqProperties
<1>4. \A i \in 1..Len(s) - n : s[n + i] = F[b + n + i]
  BY <1>1 DEF Stream
<1> QED BY <1>1, <1>2, <1>3, <1>4 DEF Stream

LEMMA StreamEqual ==
    ASSUME NEW S, NEW F, NEW b, NEW s \in Seq(S), NEW t \in Seq(S),
           Stream(s, b, F), Stream(t, b, F), Len(s) = Len(t)
    PROVE  s = t
BY SeqEqual DEF Stream

LEMMA EmptyStream == ASSUME NEW S, NEW F, NEW b
                     PROVE  <<>> \in Seq(S) /\ Len(<<>>) = 0 /\ Stream(<<>>, b, F)
BY DEF Stream

(* The stream of bytes that are named by their positions.                  *)
Numbers == [i \in Nat |-> i]

LEMMA RunIsStream ==
    ASSUME NEW m \in Nat, NEW n \in Nat
    PROVE  LET run == [i \in 1..n |-> m + i]
           IN  run \in Seq(Nat) /\ Len(run) = n /\ Stream(run, m, Numbers)
BY DEF Stream, Numbers

(* What moves between two buffers is neither more nor less for it.         *)
LEMMA Moved == ASSUME NEW a \in Nat, NEW b \in Nat, NEW n \in Nat, NEW p, a + b = p
               PROVE  /\ (a + n) + (b - n) = p
                      /\ a + (b + n) = p + n
OBVIOUS

(* Nothing is missing in target and held.                                  *)
CopyInOrder == /\ Stream(target, 0, Numbers)
               /\ Stream(held, Len(target), Numbers)
               /\ Len(target) + Len(held) = pos

CopyInv ==
    /\ copyJob \in CopyJobs
    /\ pos \in Nat /\ pos <= copyJob.length /\ chunk \in Nat
    /\ held \in Seq(Nat) /\ target \in Seq(Nat)
    /\ short \in BOOLEAN
    /\ copyAt = "write" => chunk <= Len(held)
    /\ copyAt = "write" /\ copyJob.how = "rw" => Len(held) = chunk
    /\ ~short => Len(held) = IF copyAt = "write" THEN chunk ELSE 0
    /\ copyJob.how = "sp" \/ ~short => CopyInOrder
    /\ copyAt = "done" /\ ~readError => pos = copyJob.length

LEMMA CopyStarts == ASSUME NEW j \in CopyJobs, CopyStart(j) PROVE CopyInv
<1>1. j.length \in Nat /\ j.length >= 0
  BY CopyFileAssumption DEF CopyJobs
<1>2. /\ copyJob = j /\ copyAt \in {"read", "exit"} /\ pos = 0 /\ chunk = 0
      /\ held = <<>> /\ target = <<>> /\ ~short /\ short \in BOOLEAN
  BY DEF CopyStart
<1>3. /\ held \in Seq(Nat) /\ target \in Seq(Nat) /\ Len(held) = 0 /\ Len(target) = 0
  BY <1>2, EmptyStream
<1>4. CopyInOrder
  BY <1>2, <1>3 DEF CopyInOrder, Stream
<1> QED BY <1>1, <1>2, <1>3, <1>4 DEF CopyInv

LEMMA ReadChunkKeeps == ASSUME CopyInv, ReadChunk PROVE CopyInv'
<1> PICK n \in 1..ChunkSize :
       /\ pos + n <= copyJob.length
       /\ chunk' = n /\ pos' = pos + n
       /\ held' = IF copyJob.how = "sp" THEN held \o Bytes(pos, pos + n)
                  ELSE Bytes(pos, pos + n)
  BY DEF ReadChunk
<1>1. /\ copyAt = "read" /\ copyAt' = "write"
      /\ UNCHANGED <<copyJob, target, short, readError>>
  BY DEF ReadChunk
<1>2. /\ copyJob \in CopyJobs /\ pos \in Nat /\ short \in BOOLEAN
      /\ held \in Seq(Nat) /\ target \in Seq(Nat)
      /\ ~short => Len(held) = 0
      /\ copyJob.how = "sp" \/ ~short => CopyInOrder
  BY <1>1 DEF CopyInv
<1>3. n \in Nat /\ Len(target) \in Nat /\ Len(held) \in Nat
  BY <1>2, CopyFileAssumption, LenProperties
<1> DEFINE new == Bytes(pos, pos + n)
<1>4. new \in Seq(Nat) /\ Len(new) = n /\ Stream(new, pos, Numbers)
  <2>1. new = [i \in 1..n |-> pos + i]
    BY <1>2, <1>3 DEF Bytes
  <2> QED BY <2>1, <1>2, <1>3, RunIsStream
<1>5. held' = IF copyJob.how = "sp" THEN held \o new ELSE new
  OBVIOUS
<1> HIDE DEF new
<1>6. /\ held' \in Seq(Nat)
      /\ Len(held') = IF copyJob.how = "sp" THEN Len(held) + n ELSE n
  BY <1>2, <1>4, <1>5, ConcatProperties
<1>7. ASSUME copyJob.how = "sp" \/ ~short
      PROVE  Stream(held', Len(target), Numbers) /\ Len(target) + Len(held') = pos + n
  <2>1. /\ Stream(held, Len(target), Numbers) /\ Len(target) + Len(held) = pos
    BY <1>2, <1>7 DEF CopyInOrder
  <2>2. CASE copyJob.how = "sp"
    <3>1. Stream(new, Len(target) + Len(held), Numbers)
      BY <1>4, <2>1
    <3>2. Stream(held \o new, Len(target), Numbers)
      BY <1>2, <1>3, <1>4, <2>1, <3>1, StreamJoined
    <3>3. held' = held \o new /\ Len(held') = Len(held) + n
      BY <1>5, <1>6, <2>2
    <3>4. Stream(held', Len(target), Numbers)
      BY <3>2, <3>3, Zenon
    <3>5. Len(target) + Len(held') = pos + n
      <4>1. Len(target) + Len(held) = pos /\ Len(held') = Len(held) + n
        BY <2>1, <3>3
      <4>2. Len(target) + (Len(held) + n) = pos + n
        BY <1>3, <4>1, Moved
      <4> QED BY <4>1, <4>2, Zenon
    <3> QED BY <3>4, <3>5
  <2>3. CASE copyJob.how # "sp"
    <3>1. Len(target) = pos
      BY <1>2, <1>3, <1>7, <2>1, <2>3
    <3> QED BY <1>4, <1>5, <1>6, <2>3, <3>1
  <2> QED BY <2>2, <2>3
<1>8. copyJob.how = "sp" \/ ~short => CopyInOrder'
  BY <1>1, <1>2, <1>7 DEF CopyInOrder
<1>9. n <= Len(held')
  BY <1>3, <1>6
<1>10. ~short => Len(held') = n
  BY <1>2, <1>3, <1>6
<1> QED BY <1>1, <1>2, <1>3, <1>6, <1>8, <1>9, <1>10 DEF CopyInv

LEMMA WriteChunkKeeps == ASSUME CopyInv, WriteChunk PROVE CopyInv'
<1> PICK n \in 0..chunk :
       /\ target' = target \o SubSeq(held, 1, n)
       /\ held' = IF copyJob.how = "sp" THEN SubSeq(held, n + 1, Len(held))
                  ELSE <<>>
       /\ short' = (short \/ n < chunk)
  BY DEF WriteChunk
<1>1. /\ copyAt = "write" /\ copyAt' = "read"
      /\ UNCHANGED <<copyJob, pos, chunk, readError>>
  BY DEF WriteChunk
<1>2. /\ copyJob \in CopyJobs /\ pos \in Nat /\ pos <= copyJob.length /\ chunk \in Nat
      /\ held \in Seq(Nat) /\ target \in Seq(Nat) /\ chunk <= Len(held)
      /\ copyJob.how = "rw" => Len(held) = chunk
      /\ ~short => Len(held) = chunk
      /\ copyJob.how = "sp" \/ ~short => CopyInOrder
  BY <1>1 DEF CopyInv
<1>3. n \in Nat /\ n \in 0..Len(held) /\ Len(held) \in Nat /\ Len(target) \in Nat
  BY <1>2, LenProperties
<1> DEFINE moved == SubSeq(held, 1, n)
           rest == SubSeq(held, n + 1, Len(held))
<1>4. /\ moved \in Seq(Nat) /\ Len(moved) = n
      /\ rest \in Seq(Nat) /\ Len(rest) = Len(held) - n
  <2>1. \A i \in 1..Len(held) : held[i] \in Nat
    BY <1>2, ElementOfSeq
  <2> QED BY <1>3, <2>1, SubSeqProperties
<1>5. /\ short' \in BOOLEAN
      /\ ~short' => ~short /\ ~(n < chunk)
  BY Zenon
<1>6. ASSUME CopyInOrder
      PROVE  /\ Stream(moved, Len(target), Numbers)
             /\ Stream(rest, Len(target) + n, Numbers)
  <2>1. Stream(held, Len(target), Numbers)
    BY <1>6 DEF CopyInOrder
  <2> QED BY <1>2, <1>3, <2>1, StreamCut
<1>7. target' = target \o moved /\ held' = IF copyJob.how = "sp" THEN rest ELSE <<>>
  OBVIOUS
<1> HIDE DEF moved, rest
<1>8. target' \in Seq(Nat) /\ Len(target') = Len(target) + n
  <2>1. /\ target \o moved \in Seq(Nat)
        /\ Len(target \o moved) = Len(target) + Len(moved)
    BY <1>2, <1>4, ConcatProperties
  <2> QED BY <1>4, <1>7, <2>1
<1>9. /\ held' \in Seq(Nat)
      /\ Len(held') = IF copyJob.how = "sp" THEN Len(held) - n ELSE 0
  BY <1>4, <1>7, EmptyStream
<1>10. ASSUME copyJob.how = "sp" \/ ~short' PROVE CopyInOrder'
  <2>1. CopyInOrder /\ Len(target) + Len(held) = pos
    BY <1>2, <1>5, <1>10 DEF CopyInOrder
  <2>2. Stream(target', 0, Numbers)
    <3>1. Stream(target, 0, Numbers)
      BY <2>1 DEF CopyInOrder
    <3>2. Stream(target \o moved, 0, Numbers)
      <4>1. Stream(moved, Len(target), Numbers) /\ 0 + Len(target) = Len(target)
        BY <1>3, <1>6, <2>1
      <4>2. Stream(moved, 0 + Len(target), Numbers)
        BY <4>1
      <4> QED BY <1>2, <1>4, <3>1, <4>2, StreamJoined
    <3> QED BY <1>7, <3>2
  <2>3. Stream(held', Len(target) + n, Numbers) /\ Len(held') = Len(held) - n
    <3>1. CASE copyJob.how = "sp"
      BY <1>6, <1>7, <1>9, <2>1, <3>1
    <3>2. CASE copyJob.how # "sp"
      <4>1. n = Len(held)
        BY <1>2, <1>3, <1>5, <1>10, <3>2
      <4> QED BY <1>3, <1>7, <1>9, <3>2, <4>1, EmptyStream
    <3> QED BY <3>1, <3>2
  <2>4. Len(target') + Len(held') = pos
    <3>1. /\ Len(target') = Len(target) + n /\ Len(held') = Len(held) - n
          /\ Len(target) + Len(held) = pos
      BY <1>8, <2>1, <2>3, Zenon
    <3>2. (Len(target) + n) + (Len(held) - n) = pos
      BY <1>3, <3>1, Moved
    <3> QED BY <3>1, <3>2, Zenon
  <2> QED BY <1>1, <1>8, <2>2, <2>3, <2>4 DEF CopyInOrder
<1>11. ASSUME ~short' PROVE Len(held') = 0
  <2>1. n = Len(held)
    BY <1>2, <1>3, <1>5, <1>11
  <2> QED BY <1>3, <1>9, <2>1
<1> QED BY <1>1, <1>2, <1>5, <1>8, <1>9, <1>10, <1>11 DEF CopyInv

LEMMA EndCopyKeeps == ASSUME CopyInv, EndCopy PROVE CopyInv'
BY DEF CopyInv, EndCopy, CopyInOrder

LEMMA CopyMeans == CopyInv => CopyFaithful
<1> SUFFICES ASSUME CopyInv PROVE CopyFaithful
  OBVIOUS
<1> USE DEF CopyInv
<1>1. ASSUME CopyInOrder PROVE target \o held = Bytes(0, pos)
  <2>1. /\ target \o held \in Seq(Nat) /\ Len(target \o held) = pos
        /\ Stream(target \o held, 0, Numbers)
    BY <1>1, StreamJoined, LenProperties DEF CopyInOrder
  <2>2. Bytes(0, pos) = [i \in 1..pos |-> 0 + i]
    BY DEF Bytes
  <2>3. /\ Bytes(0, pos) \in Seq(Nat) /\ Len(Bytes(0, pos)) = pos
        /\ Stream(Bytes(0, pos), 0, Numbers)
    BY <2>2, RunIsStream
  <2> QED BY <2>1, <2>3, StreamEqual
<1>2. ASSUME copyAt = "done", ~readError, ~short
      PROVE  target = Bytes(0, copyJob.length)
  <2>1. Len(held) = 0 /\ pos = copyJob.length
    BY <1>2
  <2>2. held = <<>>
    BY <2>1, EmptySeq
  <2>3. target \o held = target
    BY <2>2, ConcatEmptySeq
  <2> QED BY <1>1, <1>2, <2>1, <2>3
<1> QED BY <1>1, <1>2 DEF CopyFaithful

LEMMA CopyBegins == ASSUME Init PROVE CopyInv
<1>1. Chosen(CopyJobs, "copy") \subseteq CopyJobs
  <2>1. [how |-> "rw", length |-> 0] \in CopyJobs
    BY CopyFileAssumption DEF CopyJobs
  <2> QED BY <2>1, Zenon DEF Chosen
<1>2. \E j \in Chosen(CopyJobs, "copy") : CopyStart(j)
  BY DEF Init
<1> QED BY <1>1, <1>2, CopyStarts

LEMMA CopyPreserved == ASSUME CopyInv, [Next]_vars PROVE CopyInv'
<1>1. CASE UNCHANGED copyVars
  BY <1>1 DEF CopyInv, CopyInOrder, copyVars
<1>2. CASE CopyStep
  BY <1>2, ReadChunkKeeps, WriteChunkKeeps, EndCopyKeeps DEF CopyStep
<1>3. UNCHANGED copyVars \/ CopyStep
  BY DEF Next, vars, PollClientRuns, OutputIsRead, SelectClientRuns, UserActs,
     DuRuns, StackRuns, TreeRuns, PipesRun, Killed, RaceRuns, CopyRuns,
     ForkWaitRuns, NotClients, NotDu, NotStack, NotTree, NotPipes, NotRace, NotFork
<1> QED BY <1>1, <1>2, <1>3

(* However many lines the threads write, whichever writes fail and wherever
   main gives up, the two blocks do not mix and the file is not closed while
   a thread may write.  However long a file is and however large the chunks
   are, its copy through a pipe loses and reorders nothing, and a copy
   without errors and short writes is complete.                            *)
THEOREM FilesAlwaysWhole == Spec => []FilesWhole
<1>1. Init => RaceInv /\ CopyInv
  BY RaceStart, CopyBegins DEF Init
<1>2. RaceInv /\ CopyInv /\ [Next]_vars => RaceInv' /\ CopyInv'
  BY RacePreserved, CopyPreserved
<1>3. RaceInv /\ CopyInv => FilesWhole
  BY RaceMeans, CopyMeans DEF FilesWhole
<1> QED BY <1>1, <1>2, <1>3, PTL DEF Spec

-----------------------------------------------------------------------------
(***************************************************************************)
(* TreeRotate.  A node is the root of the keys from lo to hi: those of its *)
(* left child end just below it, those of its right child begin just above *)
(* it.  A rotation moves one boundary.  The nodes above a node, which the  *)
(* property reaches by a recursive function, are any walk along the        *)
(* parents; such a walk exists for each length by induction, and at each   *)
(* step it reaches a node with more keys below it until it is at the root. *)
(***************************************************************************)
(* The walks of m steps along g that start from a.                         *)
Walks(A, g, a, m) ==
    {f \in [0..m -> A] : f[0] = a /\ \A i \in 1..m : f[i] = g[f[i - 1]]}

(* Whoever follows a function from a place can do so for m steps.          *)
LEMMA WalkExists ==
    ASSUME NEW A, NEW g, \A x \in A : g[x] \in A, NEW a \in A
    PROVE  \A m \in Nat : Walks(A, g, a, m) # {}
<1> DEFINE Follows(f, m) == f[0] = a /\ \A i \in 1..m : f[i] = g[f[i - 1]]
           S == {m \in Nat : \E f \in [0..m -> A] : Follows(f, m)}
<1>1. 0 \in S
  <2>1. [i \in 0..0 |-> a] \in [0..0 -> A] /\ Follows([i \in 0..0 |-> a], 0)
    OBVIOUS
  <2> QED BY <2>1
<1>2. ASSUME NEW m \in Nat, m \in S PROVE m + 1 \in S
  <2>1. PICK f \in [0..m -> A] : Follows(f, m)
    BY <1>2
  <2> DEFINE h == [i \in 0..m + 1 |-> IF i = m + 1 THEN g[f[m]] ELSE f[i]]
  <2>2. h \in [0..m + 1 -> A]
    OBVIOUS
  <2>3. Follows(h, m + 1)
    BY <2>1
  <2> HIDE DEF h, Follows
  <2> QED BY <2>2, <2>3
<1>3. \A m \in Nat : m \in S
  <2> HIDE DEF S
  <2> QED BY <1>1, <1>2, AllNumbers
<1> QED BY <1>3 DEF Walks

(* The fields of a tree whose keys below a node are those from lo to hi.   *)
Spans(root, left, right, parent, lo, hi) ==
    /\ parent[root] = 0 /\ lo[root] = 1 /\ hi[root] = Size
    /\ \A n \in Keys :
         /\ lo[n] <= n /\ n <= hi[n]
         /\ left[n] # 0 => /\ lo[left[n]] = lo[n] /\ hi[left[n]] = n - 1
                           /\ parent[left[n]] = n
         /\ right[n] # 0 => /\ lo[right[n]] = n + 1 /\ hi[right[n]] = hi[n]
                            /\ parent[right[n]] = n
         /\ parent[n] # 0 => n \in {left[parent[n]], right[parent[n]]}
         /\ parent[n] = 0 => n = root

Links == [Keys -> {0} \cup Keys]

TreeType(t) == t \in [root : Keys, left : Links, right : Links, parent : Links]

TreeInv ==
    /\ TreeType(tree)
    /\ \E lo, hi \in [Keys -> Keys] :
         Spans(tree.root, tree.left, tree.right, tree.parent, lo, hi)

LEMMA TreeStart == TreeInit => TreeInv
<1> SUFFICES ASSUME TreeInit PROVE TreeInv
  OBVIOUS
<1> USE TreeAssumption DEF TreeInit, Keys
<1>1. TreeType(tree)
  BY DEF TreeType, Links
<1> DEFINE lo == [k \in Keys |-> k]
           hi == [k \in Keys |-> Size]
<1>2. lo \in [Keys -> Keys] /\ hi \in [Keys -> Keys]
  OBVIOUS
<1>3. /\ tree.root = 1 /\ tree.parent[1] = 0
      /\ \A n \in Keys : /\ lo[n] = n /\ hi[n] = Size /\ tree.left[n] = 0
                          /\ tree.parent[n] = n - 1
                          /\ tree.right[n] = IF n = Size THEN 0 ELSE n + 1
  OBVIOUS
<1>4. /\ 1 \in Keys
      /\ \A n \in Keys : n # Size => n + 1 \in Keys
      /\ \A n \in Keys : n # 1 => n - 1 \in Keys /\ n - 1 # Size
  OBVIOUS
<1> HIDE DEF TreeInit, lo, hi
<1>5. Spans(tree.root, tree.left, tree.right, tree.parent, lo, hi)
  <2>1. ASSUME NEW n \in Keys, tree.parent[n] # 0
        PROVE  n = tree.right[tree.parent[n]]
    BY <1>3, <1>4, <2>1
  <2>2. ASSUME NEW n \in Keys, tree.right[n] # 0
        PROVE  /\ lo[tree.right[n]] = n + 1 /\ hi[tree.right[n]] = hi[n]
               /\ tree.parent[tree.right[n]] = n
    BY <1>3, <1>4, <2>2
  <2>3. \A n \in Keys : lo[n] <= n /\ n <= hi[n] /\ (tree.parent[n] = 0 => n = 1)
    BY <1>3
  <2>4. lo[1] = 1 /\ hi[1] = Size
    BY <1>3, <1>4
  <2> QED BY <1>2, <1>3, <2>1, <2>2, <2>3, <2>4, Zenon DEF Spans
<1> QED BY <1>1, <1>2, <1>5 DEF TreeInv

(* What a rotation of n to the left, with its right child c, does.         *)
GoesLeft(t, n, u) ==
    LET c == t.right[n]
        p == t.parent[n]
    IN  /\ u.root = IF p = 0 THEN c ELSE t.root
        /\ \A k \in Keys :
             /\ u.left[k] = IF k = c THEN n ELSE
                    IF p # 0 /\ t.left[p] = n /\ k = p THEN c ELSE t.left[k]
             /\ u.right[k] = IF k = n THEN t.left[c] ELSE
                    IF p # 0 /\ t.left[p] # n /\ k = p THEN c ELSE t.right[k]
             /\ u.parent[k] = IF k = n THEN c ELSE IF k = t.left[c] THEN n
                    ELSE IF k = c THEN p ELSE t.parent[k]

(* And to the right, with its left child.                                  *)
GoesRight(t, n, u) ==
    LET c == t.left[n]
        p == t.parent[n]
    IN  /\ u.root = IF p = 0 THEN c ELSE t.root
        /\ \A k \in Keys :
             /\ u.left[k] = IF k = n THEN t.right[c] ELSE
                    IF p # 0 /\ t.left[p] = n /\ k = p THEN c ELSE t.left[k]
             /\ u.right[k] = IF k = c THEN n ELSE
                    IF p # 0 /\ t.left[p] # n /\ k = p THEN c ELSE t.right[k]
             /\ u.parent[k] = IF k = n THEN c ELSE IF k = t.right[c] THEN n
                    ELSE IF k = c THEN p ELSE t.parent[k]

LEMMA Between ==
    ASSUME NEW a \in Keys, NEW b \in Keys, a < b
    PROVE  a + 1 \in Keys /\ b - 1 \in Keys
BY TreeAssumption DEF Keys

(* A node and its right child c change places; all that hung on them keeps
   its keys.                                                               *)
LEMMA TurnedLeft ==
    ASSUME NEW t, TreeType(t), NEW u, TreeType(u), NEW n \in Keys,
           t.right[n] # 0, GoesLeft(t, n, u),
           NEW lo \in [Keys -> Keys], NEW hi \in [Keys -> Keys],
           Spans(t.root, t.left, t.right, t.parent, lo, hi)
    PROVE  \E l, h \in [Keys -> Keys] :
               Spans(u.root, u.left, u.right, u.parent, l, h)
<1> DEFINE root == t.root    root2 == u.root
           left == t.left    left2 == u.left
           right == t.right  right2 == u.right
           parent == t.parent  parent2 == u.parent
           c == right[n]
<1>a. /\ root \in Keys /\ left \in Links /\ right \in Links /\ parent \in Links
      /\ root2 \in Keys /\ left2 \in Links /\ right2 \in Links /\ parent2 \in Links
      /\ Spans(root, left, right, parent, lo, hi)
      /\ c = right[n] /\ c \in Keys
  BY DEF TreeType, Links
<1>b. /\ root2 = IF parent[n] = 0 THEN c ELSE root
      /\ \A k \in Keys :
            /\ left2[k] = IF k = c THEN n ELSE
                   IF parent[n] # 0 /\ left[parent[n]] = n /\ k = parent[n] THEN c ELSE left[k]
            /\ right2[k] = IF k = n THEN left[c] ELSE
                   IF parent[n] # 0 /\ left[parent[n]] # n /\ k = parent[n] THEN c ELSE right[k]
            /\ parent2[k] = IF k = n THEN c ELSE IF k = left[c] THEN n
                             ELSE IF k = c THEN parent[n] ELSE parent[k]
  BY DEF GoesLeft
<1> HIDE DEF root, left, right, parent, root2, left2, right2, parent2, c
<1> USE <1>a, <1>b

<1> DEFINE l == [lo EXCEPT ![c] = lo[n]]
           h == [hi EXCEPT ![n] = c - 1, ![c] = hi[n]]
<1>1. \A k \in Keys : k \in Nat /\ k > 0
  BY TreeAssumption DEF Keys
<1>2. /\ \A k \in Keys : lo[k] \in Keys /\ hi[k] \in Keys
      /\ \A k \in Keys : /\ left[k] \in {0} \cup Keys /\ right[k] \in {0} \cup Keys
                         /\ parent[k] \in {0} \cup Keys
  BY DEF Links
<1>3. \A k \in Keys : lo[k] <= k /\ k <= hi[k]
  BY DEF Spans
<1>4. \A k \in Keys : left[k] # 0 => /\ left[k] < k /\ parent[left[k]] = k
                                    /\ lo[left[k]] = lo[k] /\ hi[left[k]] = k - 1
  BY <1>1, <1>2, <1>3 DEF Spans
<1>5. \A k \in Keys : right[k] # 0 => /\ k < right[k] /\ parent[right[k]] = k
                                     /\ lo[right[k]] = k + 1 /\ hi[right[k]] = hi[k]
  BY <1>1, <1>2, <1>3 DEF Spans
<1>6. \A k \in Keys : /\ parent[k] # 0 => k \in {left[parent[k]], right[parent[k]]}
                      /\ parent[k] = 0 => k = root
  BY DEF Spans
<1>7. n < c /\ parent[c] = n /\ lo[c] = n + 1 /\ hi[c] = hi[n] /\ c # 0 /\ n # 0
      /\ parent[n] # n /\ parent[n] # c
  <2>1. n < c /\ parent[c] = n /\ lo[c] = n + 1 /\ hi[c] = hi[n] /\ c # 0 /\ n # 0
    BY <1>1, <1>5
  <2>2. ASSUME parent[n] = n \/ parent[n] = c PROVE FALSE
    BY <1>1, <1>2, <1>3, <1>4, <1>5, <1>6, <2>1, <2>2
  <2> QED BY <2>1, <2>2
<1>8. /\ l \in [Keys -> Keys] /\ h \in [Keys -> Keys]
      /\ \A k \in Keys : /\ l[k] = IF k = c THEN lo[n] ELSE lo[k]
                         /\ h[k] = IF k = n THEN c - 1 ELSE IF k = c THEN hi[n] ELSE hi[k]
  <2>1. c - 1 \in Keys
    BY <1>7, Between
  <2> QED BY <1>2, <1>7, <2>1
<1> HIDE DEF l, h
<1>9. parent[root] = 0 /\ lo[root] = 1 /\ hi[root] = Size
  BY DEF Spans
<1>10. parent2[root2] = 0 /\ l[root2] = 1 /\ h[root2] = Size
  <2>1. left[c] # 0 => parent[left[c]] = c
    BY <1>4
  <2> QED BY <1>1, <1>2, <1>6, <1>7, <1>8, <1>9, <2>1
<1>11. ASSUME NEW k \in Keys PROVE l[k] <= k /\ k <= h[k]
  BY <1>1, <1>2, <1>3, <1>7, <1>8
<1>12. ASSUME NEW k \in Keys, left2[k] # 0
       PROVE  /\ l[left2[k]] = l[k] /\ h[left2[k]] = k - 1
              /\ parent2[left2[k]] = k
  <2>1. CASE k = c
    BY <1>1, <1>2, <1>7, <1>8, <2>1
  <2>2. CASE parent[n] = k /\ left[k] = n
    BY <1>1, <1>2, <1>4, <1>7, <1>8, <2>2
  <2>3. CASE k # c /\ ~(parent[n] = k /\ left[k] = n)
    <3> DEFINE d == left[k]
    <3>1. d \in Keys /\ left2[k] = d /\ d < k /\ parent[d] = k /\ lo[d] = lo[k]
          /\ hi[d] = k - 1
      BY <1>1, <1>2, <1>4, <1>12, <2>3
    <3>2. d # n /\ d # c
      BY <1>1, <1>7, <2>3, <3>1
    <3>3. left[c] # 0 => parent[left[c]] = c
      BY <1>4
    <3> HIDE DEF d
    <3> QED BY <1>1, <1>2, <1>7, <1>8, <2>3, <3>1, <3>2, <3>3
  <2> QED BY <2>1, <2>2, <2>3
<1>13. ASSUME NEW k \in Keys, right2[k] # 0
       PROVE  /\ l[right2[k]] = k + 1 /\ h[right2[k]] = h[k]
              /\ parent2[right2[k]] = k
  <2>1. CASE k = n
    <3>1. left[c] \in Keys /\ right2[k] = left[c] /\ lo[left[c]] = lo[c]
          /\ hi[left[c]] = c - 1 /\ left[c] < c /\ parent[left[c]] = c
      BY <1>1, <1>2, <1>4, <1>13, <2>1
    <3>2. left[c] # n
      BY <1>1, <1>2, <1>3, <1>7, <3>1
    <3> QED BY <1>1, <1>7, <1>8, <2>1, <3>1, <3>2
  <2>2. CASE k # n /\ parent[n] = k /\ left[k] # n
    <3>1. right[k] = n
      BY <1>1, <1>6, <2>2
    <3> QED BY <1>1, <1>2, <1>4, <1>5, <1>7, <1>8, <2>2, <3>1
  <2>3. CASE k # n /\ ~(parent[n] = k /\ left[k] # n)
    <3> DEFINE d == right[k]
    <3>1. d \in Keys /\ right2[k] = d /\ k < d /\ parent[d] = k /\ lo[d] = k + 1
          /\ hi[d] = hi[k]
      BY <1>1, <1>2, <1>5, <1>13, <2>3
    <3>2. d # n /\ d # c
      BY <1>1, <1>4, <1>7, <2>3, <3>1
    <3>3. left[c] # 0 => parent[left[c]] = c /\ left[c] < c
      BY <1>4
    <3> HIDE DEF d
    <3> QED BY <1>1, <1>2, <1>7, <1>8, <2>3, <3>1, <3>2, <3>3
  <2> QED BY <2>1, <2>2, <2>3
<1>14. ASSUME NEW k \in Keys
       PROVE  /\ parent2[k] # 0 => k \in {left2[parent2[k]], right2[parent2[k]]}
              /\ parent2[k] = 0 => k = root2
  <2>1. CASE k = n
    BY <1>7, <2>1
  <2>2. CASE k # n /\ k = left[c]
    BY <1>1, <1>2, <1>7, <2>2
  <2>3. CASE k # n /\ k # left[c] /\ k = c
    BY <1>1, <1>2, <1>6, <1>7, <2>3
  <2>4. CASE k # n /\ k # left[c] /\ k # c
    <3>1. parent2[k] = parent[k]
      BY <2>4
    <3>2. ASSUME parent[k] = 0 PROVE k = root2
      BY <1>6, <1>7, <2>4, <3>2
    <3>3. ASSUME NEW q \in Keys, parent[k] = q PROVE k \in {left2[q], right2[q]}
      <4>1. k = left[q] \/ k = right[q]
        BY <1>1, <1>6, <3>3
      <4>2. CASE k = left[q]
        BY <1>1, <1>6, <1>7, <2>4, <4>2
      <4>3. CASE k = right[q]
        BY <1>1, <1>6, <1>7, <2>4, <4>3
      <4> QED BY <4>1, <4>2, <4>3
    <3> QED BY <1>2, <3>1, <3>2, <3>3
  <2> QED BY <2>1, <2>2, <2>3, <2>4
<1>15. Spans(root2, left2, right2, parent2, l, h)
  BY <1>10, <1>11, <1>12, <1>13, <1>14 DEF Spans
<1>16. Spans(u.root, u.left, u.right, u.parent, l, h)
  BY <1>15 DEF root2, left2, right2, parent2
<1> QED BY <1>8, <1>16

(* A node and its left child c change places; all that hung on them keeps
   its keys.                                                               *)
LEMMA TurnedRight ==
    ASSUME NEW t, TreeType(t), NEW u, TreeType(u), NEW n \in Keys,
           t.left[n] # 0, GoesRight(t, n, u),
           NEW lo \in [Keys -> Keys], NEW hi \in [Keys -> Keys],
           Spans(t.root, t.left, t.right, t.parent, lo, hi)
    PROVE  \E l, h \in [Keys -> Keys] :
               Spans(u.root, u.left, u.right, u.parent, l, h)
<1> DEFINE root == t.root    root2 == u.root
           left == t.left    left2 == u.left
           right == t.right  right2 == u.right
           parent == t.parent  parent2 == u.parent
           c == left[n]
<1>a. /\ root \in Keys /\ left \in Links /\ right \in Links /\ parent \in Links
      /\ root2 \in Keys /\ left2 \in Links /\ right2 \in Links /\ parent2 \in Links
      /\ Spans(root, left, right, parent, lo, hi)
      /\ c = left[n] /\ c \in Keys
  BY DEF TreeType, Links
<1>b. /\ root2 = IF parent[n] = 0 THEN c ELSE root
      /\ \A k \in Keys :
            /\ left2[k] = IF k = n THEN right[c] ELSE
                   IF parent[n] # 0 /\ left[parent[n]] = n /\ k = parent[n] THEN c ELSE left[k]
            /\ right2[k] = IF k = c THEN n ELSE
                   IF parent[n] # 0 /\ left[parent[n]] # n /\ k = parent[n] THEN c ELSE right[k]
            /\ parent2[k] = IF k = n THEN c ELSE IF k = right[c] THEN n
                             ELSE IF k = c THEN parent[n] ELSE parent[k]
  BY DEF GoesRight
<1> HIDE DEF root, left, right, parent, root2, left2, right2, parent2, c
<1> USE <1>a, <1>b

<1> DEFINE l == [lo EXCEPT ![n] = c + 1, ![c] = lo[n]]
           h == [hi EXCEPT ![c] = hi[n]]
<1>1. \A k \in Keys : k \in Nat /\ k > 0
  BY TreeAssumption DEF Keys
<1>2. /\ \A k \in Keys : lo[k] \in Keys /\ hi[k] \in Keys
      /\ \A k \in Keys : /\ right[k] \in {0} \cup Keys /\ left[k] \in {0} \cup Keys
                         /\ parent[k] \in {0} \cup Keys
  BY DEF Links
<1>3. \A k \in Keys : lo[k] <= k /\ k <= hi[k]
  BY DEF Spans
<1>4. \A k \in Keys : right[k] # 0 => /\ k < right[k] /\ parent[right[k]] = k
                                    /\ lo[right[k]] = k + 1 /\ hi[right[k]] = hi[k]
  BY <1>1, <1>2, <1>3 DEF Spans
<1>5. \A k \in Keys : left[k] # 0 => /\ left[k] < k /\ parent[left[k]] = k
                                     /\ lo[left[k]] = lo[k] /\ hi[left[k]] = k - 1
  BY <1>1, <1>2, <1>3 DEF Spans
<1>6. \A k \in Keys : /\ parent[k] # 0 => k \in {right[parent[k]], left[parent[k]]}
                      /\ parent[k] = 0 => k = root
  BY DEF Spans
<1>7. c < n /\ parent[c] = n /\ lo[c] = lo[n] /\ hi[c] = n - 1 /\ c # 0 /\ n # 0
      /\ parent[n] # n /\ parent[n] # c
  <2>1. c < n /\ parent[c] = n /\ lo[c] = lo[n] /\ hi[c] = n - 1 /\ c # 0 /\ n # 0
    BY <1>1, <1>5
  <2>2. ASSUME parent[n] = n \/ parent[n] = c PROVE FALSE
    BY <1>1, <1>2, <1>3, <1>4, <1>5, <1>6, <2>1, <2>2
  <2> QED BY <2>1, <2>2
<1>8. /\ l \in [Keys -> Keys] /\ h \in [Keys -> Keys]
      /\ \A k \in Keys : /\ l[k] = IF k = n THEN c + 1 ELSE IF k = c THEN lo[n] ELSE lo[k]
                         /\ h[k] = IF k = c THEN hi[n] ELSE hi[k]
  <2>1. c + 1 \in Keys
    BY <1>7, Between
  <2> QED BY <1>2, <1>7, <2>1
<1> HIDE DEF l, h
<1>9. parent[root] = 0 /\ lo[root] = 1 /\ hi[root] = Size
  BY DEF Spans
<1>10. parent2[root2] = 0 /\ l[root2] = 1 /\ h[root2] = Size
  <2>1. right[c] # 0 => parent[right[c]] = c
    BY <1>4
  <2> QED BY <1>1, <1>2, <1>6, <1>7, <1>8, <1>9, <2>1
<1>11. ASSUME NEW k \in Keys PROVE l[k] <= k /\ k <= h[k]
  BY <1>1, <1>2, <1>3, <1>7, <1>8
<1>12. ASSUME NEW k \in Keys, right2[k] # 0
       PROVE  /\ l[right2[k]] = k + 1 /\ h[right2[k]] = h[k]
              /\ parent2[right2[k]] = k
  <2>1. CASE k = c
    BY <1>1, <1>2, <1>7, <1>8, <2>1
  <2>2. CASE k # c /\ parent[n] = k /\ left[k] # n
    <3>1. right[k] = n
      BY <1>1, <1>6, <2>2
    <3> QED BY <1>1, <1>2, <1>4, <1>7, <1>8, <2>2, <3>1
  <2>3. CASE k # c /\ ~(parent[n] = k /\ left[k] # n)
    <3> DEFINE d == right[k]
    <3>1. d \in Keys /\ right2[k] = d /\ k < d /\ parent[d] = k /\ lo[d] = k + 1
          /\ hi[d] = hi[k]
      BY <1>1, <1>2, <1>4, <1>12, <2>3
    <3>2. d # n /\ d # c
      BY <1>1, <1>4, <1>5, <1>6, <1>7, <2>3, <3>1
    <3>3. right[c] # 0 => parent[right[c]] = c
      BY <1>4
    <3> HIDE DEF d
    <3> QED BY <1>1, <1>2, <1>7, <1>8, <2>3, <3>1, <3>2, <3>3
  <2> QED BY <2>1, <2>2, <2>3
<1>13. ASSUME NEW k \in Keys, left2[k] # 0
       PROVE  /\ l[left2[k]] = l[k] /\ h[left2[k]] = k - 1
              /\ parent2[left2[k]] = k
  <2>1. CASE k = n
    <3>1. right[c] \in Keys /\ left2[k] = right[c] /\ lo[right[c]] = c + 1
          /\ hi[right[c]] = hi[c] /\ c < right[c] /\ parent[right[c]] = c
      BY <1>1, <1>2, <1>4, <1>13, <2>1
    <3>2. right[c] # n
      BY <1>1, <1>2, <1>3, <1>7, <3>1
    <3> QED BY <1>1, <1>7, <1>8, <2>1, <3>1, <3>2
  <2>2. CASE k # n /\ parent[n] = k /\ left[k] = n
    BY <1>1, <1>2, <1>4, <1>5, <1>7, <1>8, <2>2
  <2>3. CASE k # n /\ ~(parent[n] = k /\ left[k] = n)
    <3> DEFINE d == left[k]
    <3>1. d \in Keys /\ left2[k] = d /\ d < k /\ parent[d] = k /\ lo[d] = lo[k]
          /\ hi[d] = k - 1
      BY <1>1, <1>2, <1>5, <1>13, <2>3
    <3>2. d # n /\ d # c
      BY <1>1, <1>4, <1>7, <2>3, <3>1
    <3>3. right[c] # 0 => parent[right[c]] = c /\ c < right[c]
      BY <1>4
    <3> HIDE DEF d
    <3> QED BY <1>1, <1>2, <1>7, <1>8, <2>3, <3>1, <3>2, <3>3
  <2> QED BY <2>1, <2>2, <2>3
<1>14. ASSUME NEW k \in Keys
       PROVE  /\ parent2[k] # 0 => k \in {right2[parent2[k]], left2[parent2[k]]}
              /\ parent2[k] = 0 => k = root2
  <2>1. CASE k = n
    BY <1>7, <2>1
  <2>2. CASE k # n /\ k = right[c]
    BY <1>1, <1>2, <1>7, <2>2
  <2>3. CASE k # n /\ k # right[c] /\ k = c
    BY <1>1, <1>2, <1>6, <1>7, <2>3
  <2>4. CASE k # n /\ k # right[c] /\ k # c
    <3>1. parent2[k] = parent[k]
      BY <2>4
    <3>2. ASSUME parent[k] = 0 PROVE k = root2
      BY <1>6, <1>7, <2>4, <3>2
    <3>3. ASSUME NEW q \in Keys, parent[k] = q PROVE k \in {right2[q], left2[q]}
      <4>1. k = right[q] \/ k = left[q]
        BY <1>1, <1>6, <3>3
      <4>2. CASE k = right[q]
        BY <1>1, <1>6, <1>7, <2>4, <4>2
      <4>3. CASE k = left[q]
        BY <1>1, <1>6, <1>7, <2>4, <4>3
      <4> QED BY <4>1, <4>2, <4>3
    <3> QED BY <1>2, <3>1, <3>2, <3>3
  <2> QED BY <2>1, <2>2, <2>3, <2>4
<1>15. Spans(root2, left2, right2, parent2, l, h)
  BY <1>10, <1>11, <1>12, <1>13, <1>14 DEF Spans
<1>16. Spans(u.root, u.left, u.right, u.parent, l, h)
  BY <1>15 DEF root2, left2, right2, parent2
<1> QED BY <1>8, <1>16

(* What the rotations do, field by field.                                  *)
LEMMA LeftRotated ==
    ASSUME NEW t, TreeType(t), NEW n \in Keys
    PROVE  /\ t.right[n] = 0 => LeftRotate(t, n) = t
           /\ t.right[n] # 0 => /\ TreeType(LeftRotate(t, n))
                              /\ GoesLeft(t, n, LeftRotate(t, n))
<1> DEFINE c == t.right[n]
           p == t.parent[n]
           inner == t.left[c]
           u == LeftRotate(t, n)
           hangs(side) == IF p # 0 /\ (t.left[p] = n <=> side = "left") THEN p ELSE 0
           root == IF p = 0 THEN c ELSE t.root
           parent == [k \in Keys |-> IF k = n THEN c ELSE IF k = inner THEN n
                                     ELSE IF k = c THEN p ELSE t.parent[k]]
           right == [k \in Keys |-> IF k = n THEN inner
                                    ELSE IF k = hangs("right") THEN c ELSE t.right[k]]
           left == [k \in Keys |-> IF k = c THEN n
                                   ELSE IF k = hangs("left") THEN c ELSE t.left[k]]
<1>1. ASSUME c = 0 PROVE u = t
  BY <1>1 DEF LeftRotate, Rotated
<1>2. ASSUME c # 0
      PROVE  u = [t EXCEPT !.root = root, !.parent = parent, !.right = right,
                           !.left = left]
  BY <1>2 DEF LeftRotate, Rotated
<1>3. ASSUME c # 0
      PROVE  u = [root |-> root, left |-> left, right |-> right, parent |-> parent]
  BY <1>2, <1>3 DEF TreeType
<1>4. 0 \notin Keys
  BY TreeAssumption DEF Keys
<1>5. ASSUME c # 0
      PROVE  /\ c \in Keys /\ p \in {0} \cup Keys /\ t.root \in Keys
             /\ \A k \in Keys : /\ t.left[k] \in {0} \cup Keys
                               /\ t.right[k] \in {0} \cup Keys
                               /\ t.parent[k] \in {0} \cup Keys
  BY <1>5 DEF TreeType, Links
<1>6. ASSUME c # 0
      PROVE  root \in Keys /\ left \in Links /\ right \in Links /\ parent \in Links
  BY <1>5, <1>6 DEF Links
<1>7. ASSUME NEW k \in Keys
      PROVE  /\ left[k] = IF k = c THEN n ELSE
                     IF p # 0 /\ t.left[p] = n /\ k = p THEN c ELSE t.left[k]
             /\ right[k] = IF k = n THEN inner ELSE
                     IF p # 0 /\ t.left[p] # n /\ k = p THEN c ELSE t.right[k]
             /\ parent[k] = IF k = n THEN c ELSE IF k = inner THEN n
                            ELSE IF k = c THEN p ELSE t.parent[k]
  BY <1>4
<1>8. ASSUME c # 0 PROVE TreeType(u)
  <2> HIDE DEF root, left, right, parent, u
  <2> QED BY <1>3, <1>6, <1>8 DEF TreeType
<1>9. ASSUME c # 0
      PROVE  u.root = root /\ u.left = left /\ u.right = right /\ u.parent = parent
  <2> HIDE DEF root, left, right, parent, u
  <2> QED BY <1>3, <1>9
<1>10. ASSUME c # 0 PROVE GoesLeft(t, n, u)
  <2> HIDE DEF left, right, parent, u
  <2> QED BY <1>7, <1>9, <1>10 DEF GoesLeft
<1> HIDE DEF u
<1> QED BY <1>1, <1>8, <1>10 DEF u

LEMMA RightRotated ==
    ASSUME NEW t, TreeType(t), NEW n \in Keys
    PROVE  /\ t.left[n] = 0 => RightRotate(t, n) = t
           /\ t.left[n] # 0 => /\ TreeType(RightRotate(t, n))
                              /\ GoesRight(t, n, RightRotate(t, n))
<1> DEFINE c == t.left[n]
           p == t.parent[n]
           inner == t.right[c]
           u == RightRotate(t, n)
           hangs(side) == IF p # 0 /\ (t.left[p] = n <=> side = "left") THEN p ELSE 0
           root == IF p = 0 THEN c ELSE t.root
           parent == [k \in Keys |-> IF k = n THEN c ELSE IF k = inner THEN n
                                     ELSE IF k = c THEN p ELSE t.parent[k]]
           right == [k \in Keys |-> IF k = c THEN n
                                    ELSE IF k = hangs("right") THEN c ELSE t.right[k]]
           left == [k \in Keys |-> IF k = n THEN inner
                                   ELSE IF k = hangs("left") THEN c ELSE t.left[k]]
<1>1. ASSUME c = 0 PROVE u = t
  BY <1>1 DEF RightRotate, Rotated
<1>2. ASSUME c # 0
      PROVE  u = [t EXCEPT !.root = root, !.parent = parent, !.left = left,
                           !.right = right]
  BY <1>2 DEF RightRotate, Rotated
<1>3. ASSUME c # 0
      PROVE  u = [root |-> root, left |-> left, right |-> right, parent |-> parent]
  BY <1>2, <1>3 DEF TreeType
<1>4. 0 \notin Keys
  BY TreeAssumption DEF Keys
<1>5. ASSUME c # 0
      PROVE  /\ c \in Keys /\ p \in {0} \cup Keys /\ t.root \in Keys
             /\ \A k \in Keys : /\ t.left[k] \in {0} \cup Keys
                               /\ t.right[k] \in {0} \cup Keys
                               /\ t.parent[k] \in {0} \cup Keys
  BY <1>5 DEF TreeType, Links
<1>6. ASSUME c # 0
      PROVE  root \in Keys /\ left \in Links /\ right \in Links /\ parent \in Links
  BY <1>5, <1>6 DEF Links
<1>7. ASSUME NEW k \in Keys
      PROVE  /\ left[k] = IF k = n THEN inner ELSE
                     IF p # 0 /\ t.left[p] = n /\ k = p THEN c ELSE t.left[k]
             /\ right[k] = IF k = c THEN n ELSE
                     IF p # 0 /\ t.left[p] # n /\ k = p THEN c ELSE t.right[k]
             /\ parent[k] = IF k = n THEN c ELSE IF k = inner THEN n
                            ELSE IF k = c THEN p ELSE t.parent[k]
  BY <1>4
<1>8. ASSUME c # 0 PROVE TreeType(u)
  <2> HIDE DEF root, left, right, parent, u
  <2> QED BY <1>3, <1>6, <1>8 DEF TreeType
<1>9. ASSUME c # 0
      PROVE  u.root = root /\ u.left = left /\ u.right = right /\ u.parent = parent
  <2> HIDE DEF root, left, right, parent, u
  <2> QED BY <1>3, <1>9
<1>10. ASSUME c # 0 PROVE GoesRight(t, n, u)
  <2> HIDE DEF left, right, parent, u
  <2> QED BY <1>7, <1>9, <1>10 DEF GoesRight
<1> HIDE DEF u
<1> QED BY <1>1, <1>8, <1>10 DEF u


LEMMA TreePreserved == ASSUME TreeInv, Rotate PROVE TreeInv'
<1>1. PICK lo \in [Keys -> Keys] : \E hi \in [Keys -> Keys] :
          Spans(tree.root, tree.left, tree.right, tree.parent, lo, hi)
  BY DEF TreeInv
<1>2. TreeType(tree)
  BY DEF TreeInv, TreeType
<1>3. PICK n \in Keys : tree' \in {LeftRotate(tree, n), RightRotate(tree, n)}
  BY DEF Rotate
<1>5. CASE tree' = tree
  BY <1>5 DEF TreeInv
<1>6. CASE tree' = LeftRotate(tree, n) /\ tree.right[n] # 0
  <2>1. TreeType(tree') /\ GoesLeft(tree, n, tree')
    BY <1>2, <1>6, LeftRotated, Zenon
  <2>2. \E l, h \in [Keys -> Keys] :
            Spans(tree'.root, tree'.left, tree'.right, tree'.parent, l, h)
    BY <1>1, <1>2, <1>6, <2>1, TurnedLeft, Zenon
  <2> QED BY <2>1, <2>2 DEF TreeInv
<1>7. CASE tree' = RightRotate(tree, n) /\ tree.left[n] # 0
  <2>1. TreeType(tree') /\ GoesRight(tree, n, tree')
    BY <1>2, <1>7, RightRotated, Zenon
  <2>2. \E l, h \in [Keys -> Keys] :
            Spans(tree'.root, tree'.left, tree'.right, tree'.parent, l, h)
    BY <1>1, <1>2, <1>7, <2>1, TurnedRight, Zenon
  <2> QED BY <2>1, <2>2 DEF TreeInv
<1> QED BY <1>2, <1>3, <1>5, <1>6, <1>7, LeftRotated, RightRotated

(* Line(n) is what the walk from n towards the root comes by.              *)
LEMMA LineIsWalk ==
    ASSUME TreeInv, NEW n \in Keys
    PROVE  \E f \in [0..Size -> {0} \cup Keys] :
             /\ f[0] = n
             /\ \A i \in 1..Size :
                    f[i] = IF f[i - 1] = 0 THEN 0 ELSE tree.parent[f[i - 1]]
             /\ Line(n) = {f[i] : i \in 0..Size} \ {0}
<1> DEFINE A == {0} \cup Keys
           step == [k \in A |-> IF k = 0 THEN 0 ELSE tree.parent[k]]
           Body(g) == [i \in 0..Size |->
                         IF i = 0 THEN n
                         ELSE IF g[i - 1] = 0 THEN 0 ELSE tree.parent[g[i - 1]]]
           path == CHOOSE g : g = Body(g)
<1>1. Size \in Nat
  BY TreeAssumption
<1>2. (\A x \in A : step[x] \in A) /\ n \in A
  BY DEF TreeInv, TreeType, Links
<1>3. PICK f \in [0..Size -> A] : f[0] = n /\ \A i \in 1..Size : f[i] = step[f[i - 1]]
  <2> HIDE DEF A, step
  <2>1. \A m \in Nat : Walks(A, step, n, m) # {}
    BY <1>2, WalkExists, Zenon
  <2> QED BY <1>1, <2>1 DEF Walks
<1>4. \A i \in 1..Size : /\ f[i - 1] \in A
                         /\ f[i] = IF f[i - 1] = 0 THEN 0 ELSE tree.parent[f[i - 1]]
  <2> SUFFICES ASSUME NEW i \in 1..Size
               PROVE  /\ f[i - 1] \in A
                      /\ f[i] = IF f[i - 1] = 0 THEN 0 ELSE tree.parent[f[i - 1]]
    OBVIOUS
  <2>1. i - 1 \in 0..Size
    BY <1>1
  <2>2. f[i - 1] \in A
    BY <2>1
  <2> QED BY <1>3, <2>2
<1>5. f = Body(f)
  <2> HIDE DEF A, step
  <2> QED BY <1>1, <1>3, <1>4
<1>6. path = Body(path)
  <2> HIDE DEF Body
  <2> QED BY <1>5, Zenon
<1>7. \A i \in 0..Size : path[i] = f[i]
  <2> DEFINE S == {i \in Nat : i \in 0..Size => path[i] = f[i]}
  <2> HIDE DEF path, step, A
  <2>1. 0 \in S
    BY <1>1, <1>3, <1>6
  <2>2. ASSUME NEW i \in Nat, i \in S PROVE i + 1 \in S
    <3>1. CASE i + 1 \in 0..Size
      <4>1. path[i] = f[i] /\ i + 1 \in 1..Size /\ i + 1 # 0 /\ i + 1 - 1 = i
        BY <1>1, <2>2, <3>1
      <4>2. path[i + 1] = IF path[i] = 0 THEN 0 ELSE tree.parent[path[i]]
        <5> HIDE DEF S
        <5>1. Body(path)[i + 1] = IF path[i] = 0 THEN 0 ELSE tree.parent[path[i]]
          BY <3>1, <4>1
        <5> HIDE DEF Body
        <5> QED BY <1>6, <5>1, Zenon
      <4>3. f[i + 1] = IF f[i] = 0 THEN 0 ELSE tree.parent[f[i]]
        BY <1>4, <4>1
      <4> QED BY <4>1, <4>2, <4>3
    <3> QED BY <3>1
  <2>3. \A i \in Nat : i \in S
    <3> HIDE DEF S
    <3> QED BY <2>1, <2>2, AllNumbers
  <2> QED BY <1>1, <2>3
<1>8. Line(n) = {path[i] : i \in 0..Size} \ {0}
  BY Zenon DEF Line
<1>9. Line(n) = {f[i] : i \in 0..Size} \ {0}
  <2> HIDE DEF path
  <2> QED BY <1>7, <1>8
<1> QED BY <1>3, <1>4, <1>9

(* On the way up the keys below only become more.                          *)
LEMMA LineWidens ==
    ASSUME TreeInv, NEW lo \in [Keys -> Keys], NEW hi \in [Keys -> Keys],
           Spans(tree.root, tree.left, tree.right, tree.parent, lo, hi),
           NEW n \in Keys
    PROVE  /\ tree.root \in Line(n)
           /\ \A m \in Line(n) : m \in Keys /\ lo[m] <= n /\ n <= hi[m]
<1>1. PICK f \in [0..Size -> {0} \cup Keys] :
             /\ f[0] = n
             /\ \A i \in 1..Size :
                    f[i] = IF f[i - 1] = 0 THEN 0 ELSE tree.parent[f[i - 1]]
             /\ Line(n) = {f[i] : i \in 0..Size} \ {0}
  BY LineIsWalk
<1> DEFINE Holds(i) == f[i] # 0 => lo[f[i]] <= n /\ n <= hi[f[i]]
           Far(i) == tree.root \in Line(n) \/ (f[i] # 0 /\ i <= hi[f[i]] - lo[f[i]])
           S == {i \in Nat : i \in 0..Size => Holds(i) /\ Far(i)}
<1>2. \A k \in Keys : /\ k \in Nat /\ k > 0 /\ k <= Size
                     /\ lo[k] \in Keys /\ hi[k] \in Keys
                     /\ lo[k] <= k /\ k <= hi[k]
  <2>1. \A k \in Keys : k \in Nat /\ k > 0 /\ k <= Size
    BY TreeAssumption DEF Keys
  <2>2. \A k \in Keys : lo[k] \in Keys /\ hi[k] \in Keys
    OBVIOUS
  <2> QED BY <2>1, <2>2 DEF Spans
<1>3. 0 \in S
  <2>1. f[0] \in Keys /\ 0 <= hi[f[0]] - lo[f[0]]
    <3>1. \A a, b, k \in Nat : a <= k /\ k <= b => 0 <= b - a
      OBVIOUS
    <3> QED BY <1>1, <1>2, <3>1
  <2> QED BY <1>1, <1>2, <2>1
<1>4. ASSUME NEW i \in Nat, i \in S PROVE i + 1 \in S
  <2> SUFFICES ASSUME i + 1 \in 0..Size PROVE Holds(i + 1) /\ Far(i + 1)
    OBVIOUS
  <2>1. i \in 0..Size /\ i + 1 \in 1..Size /\ i + 1 - 1 = i
    BY TreeAssumption
  <2>2. f[i] \in {0} \cup Keys /\ Holds(i) /\ Far(i)
        /\ f[i + 1] = IF f[i] = 0 THEN 0 ELSE tree.parent[f[i]]
    BY <1>1, <1>4, <2>1
  <2>3. CASE f[i] = 0
    BY <2>2, <2>3
  <2>4. CASE f[i] \in Keys
    <3> DEFINE m == f[i]
               p == tree.parent[m]
    <3>1. f[i + 1] = p /\ p \in {0} \cup Keys
      <4>1. \A k \in Keys : tree.parent[k] \in {0} \cup Keys
        BY DEF TreeInv, TreeType, Links
      <4>2. m # 0
        BY <1>2, <2>4
      <4> QED BY <2>2, <2>4, <4>1, <4>2
    <3>2. CASE p = 0
      <4>1. m = tree.root
        BY <2>4, <3>2 DEF Spans
      <4>2. m \in Line(n)
        BY <1>1, <1>2, <2>1, <2>4
      <4> QED BY <3>1, <3>2, <4>1, <4>2
    <3>3. CASE p \in Keys
      <4>1. m = tree.left[p] \/ m = tree.right[p]
        BY <1>2, <2>4, <3>3 DEF Spans
      <4>2. CASE m = tree.left[p]
        <5>1. lo[m] = lo[p] /\ hi[m] = p - 1 /\ p <= hi[p]
          BY <1>2, <2>4, <3>3, <4>2 DEF Spans
        <5>2. /\ lo[m] \in Nat /\ hi[m] \in Nat /\ lo[p] \in Nat /\ hi[p] \in Nat
              /\ p \in Nat /\ n \in Nat /\ p # 0 /\ m # 0
          BY <1>2, <2>4, <3>3
        <5>3. /\ lo[m] <= n /\ n <= hi[m]
              /\ tree.root \in Line(n) \/ i <= hi[m] - lo[m]
          BY <2>2, <5>2
        <5>4. lo[p] <= n /\ n <= hi[p]
          <6> HIDE DEF p, m
          <6> QED BY <5>1, <5>2, <5>3
        <5>5. tree.root \in Line(n) \/ i + 1 <= hi[p] - lo[p]
          <6> HIDE DEF p, m
          <6> QED BY <5>1, <5>2, <5>3
        <5> QED BY <3>1, <5>2, <5>4, <5>5
      <4>3. CASE m = tree.right[p]
        <5>1. lo[m] = p + 1 /\ hi[m] = hi[p] /\ lo[p] <= p
          BY <1>2, <2>4, <3>3, <4>3 DEF Spans
        <5>2. /\ lo[m] \in Nat /\ hi[m] \in Nat /\ lo[p] \in Nat /\ hi[p] \in Nat
              /\ p \in Nat /\ n \in Nat /\ p # 0 /\ m # 0
          BY <1>2, <2>4, <3>3
        <5>3. /\ lo[m] <= n /\ n <= hi[m]
              /\ tree.root \in Line(n) \/ i <= hi[m] - lo[m]
          BY <2>2, <5>2
        <5>4. lo[p] <= n /\ n <= hi[p]
          <6> HIDE DEF p, m
          <6> QED BY <5>1, <5>2, <5>3
        <5>5. tree.root \in Line(n) \/ i + 1 <= hi[p] - lo[p]
          <6> HIDE DEF p, m
          <6> QED BY <5>1, <5>2, <5>3
        <5> QED BY <3>1, <5>2, <5>4, <5>5
      <4> QED BY <4>1, <4>2, <4>3
    <3> QED BY <3>1, <3>2, <3>3
  <2> QED BY <2>2, <2>3, <2>4
<1>5. \A i \in 0..Size : Holds(i) /\ Far(i)
  <2>1. \A i \in Nat : i \in S
    <3> HIDE DEF S
    <3> QED BY <1>3, <1>4, AllNumbers
  <2> QED BY <2>1, TreeAssumption
<1>6. tree.root \in Line(n)
  <2>1. Size \in 0..Size /\ Size \in Nat
    BY TreeAssumption
  <2>2. ~(f[Size] \in Keys /\ Size <= hi[f[Size]] - lo[f[Size]])
    <3>1. \A a, b \in Nat : a > 0 /\ b <= Size => ~(Size <= b - a)
      BY TreeAssumption
    <3> QED BY <1>2, <3>1
  <2> QED BY <1>5, <2>1, <2>2
<1>7. ASSUME NEW m \in Line(n) PROVE m \in Keys /\ lo[m] <= n /\ n <= hi[m]
  BY <1>1, <1>5
<1> QED BY <1>6, <1>7

LEMMA SameTree ==
    ASSUME NEW t, TreeType(t), NEW v, TreeType(v), v.root = t.root,
           \A k \in Keys : /\ v.left[k] = t.left[k] /\ v.right[k] = t.right[k]
                          /\ v.parent[k] = t.parent[k]
    PROVE  v = t
<1>1. v.left = t.left /\ v.right = t.right /\ v.parent = t.parent
  BY DEF TreeType, Links
<1> QED BY <1>1 DEF TreeType

(* The child that went up is the one whose rotation takes it back.         *)
LEMMA RotationUndone ==
    ASSUME TreeInv, NEW n \in Keys, tree.right[n] # 0
    PROVE  RightRotate(LeftRotate(tree, n), tree.right[n]) = tree
<1>1. PICK lo \in [Keys -> Keys] : \E hi \in [Keys -> Keys] :
          Spans(tree.root, tree.left, tree.right, tree.parent, lo, hi)
  BY DEF TreeInv
<1>2. TreeType(tree)
  BY DEF TreeInv
<1> DEFINE t == tree
           c == t.right[n]
           p == t.parent[n]
           u == LeftRotate(t, n)
           v == RightRotate(u, c)
<1>3. /\ \A k \in Keys : /\ t.left[k] \in {0} \cup Keys /\ t.right[k] \in {0} \cup Keys
                         /\ t.parent[k] \in {0} \cup Keys /\ k \in Nat /\ k # 0
      /\ t.root \in Keys
  <2>1. \A k \in Keys : k \in Nat /\ k # 0
    BY TreeAssumption DEF Keys
  <2> QED BY <1>2, <2>1 DEF TreeType, Links
<1>4. \A k \in Keys :
         /\ t.left[k] # 0 => t.left[k] < k /\ t.parent[t.left[k]] = k
         /\ t.right[k] # 0 => k < t.right[k] /\ t.parent[t.right[k]] = k
         /\ t.parent[k] # 0 => k \in {t.left[t.parent[k]], t.right[t.parent[k]]}
         /\ t.parent[k] = 0 => k = t.root
  <2>1. PICK hi \in [Keys -> Keys] : Spans(t.root, t.left, t.right, t.parent, lo, hi)
    BY <1>1
  <2>2. \A k \in Keys : lo[k] \in Nat /\ hi[k] \in Nat /\ lo[k] <= k /\ k <= hi[k]
    BY <1>3, <2>1 DEF Spans
  <2>3. ASSUME NEW k \in Keys, t.left[k] # 0
        PROVE  t.left[k] < k /\ t.parent[t.left[k]] = k
    BY <1>3, <2>1, <2>2, <2>3 DEF Spans
  <2>4. ASSUME NEW k \in Keys, t.right[k] # 0
        PROVE  k < t.right[k] /\ t.parent[t.right[k]] = k
    BY <1>3, <2>1, <2>2, <2>4 DEF Spans
  <2> QED BY <2>1, <2>3, <2>4 DEF Spans
<1>5. TreeType(u) /\ GoesLeft(t, n, u)
  BY <1>2, LeftRotated, Zenon
<1>6. c \in Keys /\ n < c /\ t.parent[c] = n /\ c # n /\ p # n /\ p # c /\ t.left[c] # n
  <2>1. c \in Keys /\ n < c /\ t.parent[c] = n /\ n \in Nat /\ c \in Nat
    BY <1>3, <1>4
  <2>2. ASSUME t.left[c] = n PROVE FALSE
    <3>1. PICK hi \in [Keys -> Keys] : Spans(t.root, t.left, t.right, t.parent, lo, hi)
      BY <1>1
    <3>2. hi[c] = hi[n] /\ hi[n] = c - 1 /\ c <= hi[c] /\ n # 0
      BY <1>3, <2>1, <2>2, <3>1 DEF Spans
    <3> QED BY <2>1, <3>2
  <2>3. ASSUME p = n \/ p = c PROVE FALSE
    <3>1. n \in {t.left[p], t.right[p]} /\ p \in Keys
      BY <1>3, <1>4, <2>1, <2>3
    <3>2. CASE p = n
      <4>1. n # 0 /\ t.right[n] # n
        BY <1>3, <2>1
      <4>2. t.left[n] = n
        BY <3>1, <3>2, <4>1
      <4> QED BY <1>4, <2>1, <4>1, <4>2
    <3>3. CASE p = c
      <4>1. t.right[c] = n /\ n # 0
        BY <1>3, <2>2, <3>1, <3>3
      <4> QED BY <1>4, <2>1, <4>1
    <3> QED BY <2>3, <3>2, <3>3
  <2> QED BY <2>1, <2>2, <2>3
<1> HIDE DEF t, u, v, c, p
<1>7. u.left[c] = n /\ u.right[n] = t.left[c] /\ u.parent[c] = p /\ n # 0
  BY <1>3, <1>4, <1>5, <1>6 DEF GoesLeft, c, p
<1>8. TreeType(v) /\ GoesRight(u, c, v)
  BY <1>5, <1>6, <1>7, RightRotated DEF v
<1>9. v.root = t.root
  BY <1>3, <1>4, <1>5, <1>6, <1>7, <1>8 DEF GoesLeft, GoesRight, c, p
<1>10. /\ \A k \in Keys :
            /\ u.left[k] = IF k = c THEN n ELSE
                   IF p # 0 /\ t.left[p] = n /\ k = p THEN c ELSE t.left[k]
            /\ u.right[k] = IF k = n THEN t.left[c] ELSE
                   IF p # 0 /\ t.left[p] # n /\ k = p THEN c ELSE t.right[k]
            /\ u.parent[k] = IF k = n THEN c ELSE IF k = t.left[c] THEN n
                   ELSE IF k = c THEN p ELSE t.parent[k]
  BY <1>5 DEF GoesLeft, c, p
<1>11. /\ \A k \in Keys :
            /\ v.left[k] = IF k = c THEN t.left[c] ELSE
                   IF p # 0 /\ u.left[p] = c /\ k = p THEN n ELSE u.left[k]
            /\ v.right[k] = IF k = n THEN c ELSE
                   IF p # 0 /\ u.left[p] # c /\ k = p THEN n ELSE u.right[k]
            /\ v.parent[k] = IF k = c THEN n ELSE IF k = t.left[c] THEN c
                   ELSE IF k = n THEN p ELSE u.parent[k]
  BY <1>7, <1>8 DEF GoesRight
<1>12. p # 0 => /\ p \in Keys /\ n \in {t.left[p], t.right[p]} /\ t.left[p] # c
               /\ t.right[p] # c
  BY <1>3, <1>4, <1>6 DEF p
<1>13. p # 0 => (u.left[p] = c <=> t.left[p] = n)
  BY <1>6, <1>10, <1>12
<1>14. ASSUME NEW k \in Keys
       PROVE  /\ v.left[k] = t.left[k] /\ v.right[k] = t.right[k]
              /\ v.parent[k] = t.parent[k]
  <2>1. v.left[k] = t.left[k]
    BY <1>10, <1>11, <1>12, <1>13
  <2>2. v.right[k] = t.right[k]
    BY <1>10, <1>11, <1>12, <1>13 DEF c
  <2>3. v.parent[k] = t.parent[k]
    BY <1>3, <1>4, <1>6, <1>10, <1>11 DEF p
  <2> QED BY <2>1, <2>2, <2>3
<1>15. v = t
  BY <1>2, <1>8, <1>9, <1>14, SameTree DEF t
<1> QED BY <1>15 DEF v, u, c, t

LEMMA TreeMeans == TreeInv => RotationsKeepOrder
<1> SUFFICES ASSUME TreeInv PROVE RotationsKeepOrder
  OBVIOUS
<1>1. PICK lo \in [Keys -> Keys] : \E h \in [Keys -> Keys] :
          Spans(tree.root, tree.left, tree.right, tree.parent, lo, h)
  BY DEF TreeInv
<1>2. PICK hi \in [Keys -> Keys] :
          Spans(tree.root, tree.left, tree.right, tree.parent, lo, hi)
  BY <1>1
<1>3. \A k \in Keys : /\ tree.left[k] \in {0} \cup Keys /\ tree.right[k] \in {0} \cup Keys
                     /\ tree.parent[k] \in {0} \cup Keys /\ k \in Nat /\ k # 0
                     /\ lo[k] \in Keys /\ hi[k] \in Keys
  <2>1. \A k \in Keys : k \in Nat /\ k # 0
    BY TreeAssumption DEF Keys
  <2> QED BY <2>1 DEF TreeInv, TreeType, Links
<1>4. \A k \in Keys : /\ tree.root \in Line(k)
                     /\ \A m \in Line(k) : m \in Keys /\ lo[m] <= k /\ k <= hi[m]
  BY <1>2, LineWidens, Zenon
<1>5. ASSUME NEW n \in Keys
      PROVE  /\ tree.parent[n] = 0 <=> n = tree.root
             /\ \A c \in Keys : tree.parent[c] = n <=> c \in {tree.left[n], tree.right[n]}
             /\ \A m \in Keys : tree.left[n] \in Line(m) => m < n
             /\ \A m \in Keys : tree.right[n] \in Line(m) => m > n
  <2>1. tree.parent[n] = 0 <=> n = tree.root
    BY <1>2 DEF Spans
  <2>2. ASSUME NEW c \in Keys
        PROVE  tree.parent[c] = n <=> c \in {tree.left[n], tree.right[n]}
    BY <1>2, <1>3 DEF Spans
  <2>3. ASSUME NEW m \in Keys, tree.left[n] \in Line(m) PROVE m < n
    <3>1. tree.left[n] # 0 /\ m <= hi[tree.left[n]]
      BY <1>3, <1>4, <2>3
    <3>2. hi[tree.left[n]] = n - 1
      BY <1>2, <3>1 DEF Spans
    <3> QED BY <1>3, <3>1, <3>2
  <2>4. ASSUME NEW m \in Keys, tree.right[n] \in Line(m) PROVE m > n
    <3>1. tree.right[n] # 0 /\ lo[tree.right[n]] <= m
      BY <1>3, <1>4, <2>4
    <3>2. lo[tree.right[n]] = n + 1
      BY <1>2, <3>1 DEF Spans
    <3> QED BY <1>3, <3>1, <3>2
  <2> QED BY <2>1, <2>2, <2>3, <2>4
<1> QED BY <1>4, <1>5, RotationUndone DEF RotationsKeepOrder

(* Whatever tree of any size is rotated however often, parents and children
   agree, all nodes stay below the root in the same order, and a rotation
   can be taken back.                                                      *)
THEOREM TreeAlwaysKept == Spec => []TreeKept
<1>1. Init => TreeInv
  BY TreeStart DEF Init
<1>2. ASSUME TreeInv, [Next]_vars PROVE TreeInv'
  <2>1. UNCHANGED tree => TreeInv'
    BY <1>2 DEF TreeInv
  <2>2. Rotate => TreeInv'
    BY <1>2, TreePreserved
  <2>3. UNCHANGED tree \/ Rotate
    BY <1>2 DEF Next, vars, PollClientRuns, OutputIsRead, SelectClientRuns,
       UserActs, DuRuns, StackRuns, TreeRuns, PipesRun, Killed, RaceRuns, CopyRuns,
       ForkWaitRuns, NotClients, NotDu, NotStack, NotTree, NotPipes, NotRace,
       NotCopy, NotFork
  <2> QED BY <2>1, <2>2, <2>3
<1>3. TreeInv => TreeKept
  BY TreeMeans DEF TreeKept
<1> QED BY <1>1, <1>2, <1>3, PTL DEF Spec

-----------------------------------------------------------------------------
(* DiskUsage.  A walk keeps no record of what it has read, so the invariant
   says that there is one: the files V, and the entries "." and ".." W, that
   have been read are those of the opened directories which no open directory
   has left, and what was counted is how many they are.  At the end nothing
   is left, and by induction over the numbers of the files V are those with
   no missed directory above them.                                          *)

(* What the proofs use of a job.                                           *)
LEMMA JobFacts ==
    ASSUME job \in Jobs
    PROVE  /\ job.tool \in {"duc", "ducfd", "duclinkfd"}
           /\ job.nfds \in Nat /\ job.nfds > 0 /\ job.fails \in BOOLEAN
           /\ 1 \in Nodes /\ job.kind[1] = "dir" /\ job.parent[1] = 0
           /\ \A n \in Nodes : n \in Nat /\ n > 0 /\ n # 0 /\ job.kind[n] \in Kinds
           /\ \A n \in Nodes \ {1} : /\ job.parent[n] \in Nodes
                                     /\ job.parent[n] < n
                                     /\ job.kind[job.parent[n]] = "dir"
           /\ Dot \notin Nodes /\ DotDot \notin Nodes /\ Dot # DotDot
<1>1. /\ job.tool \in {"duc", "ducfd", "duclinkfd"} /\ job.nfds \in 1..MaxFds
      /\ job.fails \in BOOLEAN /\ job.kind \in [Nodes -> Kinds]
      /\ job.parent[1] = 0 /\ job.kind[1] = "dir"
      /\ \A n \in Nodes \ {1} : /\ job.parent[n] \in 1..n - 1
                                /\ job.kind[job.parent[n]] = "dir"
  BY DEF Jobs
<1>2. job.nfds \in Nat /\ job.nfds > 0
  BY <1>1, DiskUsageAssumption
<1>3. 1 \in Nodes /\ \A n \in Nodes : n \in Nat /\ n > 0 /\ n # 0
  BY DiskUsageAssumption DEF Nodes
<1>4. \A n \in Nodes \ {1} : job.parent[n] \in Nodes /\ job.parent[n] < n
  <2> TAKE n \in Nodes \ {1}
  <2>1. job.parent[n] \in 1..n - 1 /\ n \in 1..NodeCount /\ NodeCount \in Nat
    BY <1>1, DiskUsageAssumption DEF Nodes
  <2> QED BY <2>1 DEF Nodes
<1> QED BY <1>1, <1>2, <1>3, <1>4, DiskUsageAssumption DEF Nodes

(* What the recursion computes.                                            *)
LEMMA AboveIs ==
    ASSUME job \in Jobs
    PROVE  \A n \in Nodes :
             Above[n] = IF n = 1 THEN {} ELSE {job.parent[n]} \cup Above[job.parent[n]]
<1> DEFINE Body(g, m) == [n \in 1..m |-> IF n = 1 THEN {}
                            ELSE {job.parent[n]} \cup g[job.parent[n]]]
           S == {m \in Nat : m <= NodeCount => \E g : g = Body(g, m)}
<1>1. 0 \in S
  <2>1. Body(<<>>, 0) = Body(Body(<<>>, 0), 0)
    OBVIOUS
  <2> QED BY <2>1
<1>2. ASSUME NEW m \in Nat, m \in S PROVE m + 1 \in S
  <2> SUFFICES ASSUME m + 1 <= NodeCount PROVE \E g : g = Body(g, m + 1)
    OBVIOUS
  <2>1. PICK g : g = Body(g, m)
    BY <1>2, DiskUsageAssumption
  <2> DEFINE h == [n \in 1..m + 1 |-> IF n = 1 THEN {}
                     ELSE {job.parent[n]} \cup g[job.parent[n]]]
  <2>2. \A n \in 1..m : h[n] = g[n]
    <3>1. \A n \in 1..m : g[n] = IF n = 1 THEN {} ELSE {job.parent[n]} \cup g[job.parent[n]]
      BY <2>1
    <3> QED BY <3>1
  <2>3. \A n \in 1..m + 1 : n # 1 => job.parent[n] \in 1..m
    <3> SUFFICES ASSUME NEW n \in 1..m + 1, n # 1 PROVE job.parent[n] \in 1..m
      OBVIOUS
    <3>1. n \in Nodes \ {1}
      BY DiskUsageAssumption DEF Nodes
    <3>2. job.parent[n] \in Nat /\ job.parent[n] > 0 /\ job.parent[n] < n
      BY <3>1, JobFacts
    <3> QED BY <3>2
  <2>4. h = Body(h, m + 1)
    <3>1. \A n \in 1..m + 1 : n # 1 => h[job.parent[n]] = g[job.parent[n]]
      BY <2>2, <2>3
    <3> HIDE DEF h
    <3>2. h = [n \in 1..m + 1 |-> IF n = 1 THEN {}
                     ELSE {job.parent[n]} \cup g[job.parent[n]]]
      BY DEF h
    <3> QED BY <3>1, <3>2
  <2> HIDE DEF h, Body
  <2> QED BY <2>4
<1>3. NodeCount \in S
  <2>1. \A m \in Nat : m \in S
    <3> HIDE DEF S
    <3> QED BY <1>1, <1>2, AllNumbers
  <2> QED BY <2>1, DiskUsageAssumption
<1>4. PICK g : g = Body(g, NodeCount)
  BY <1>3, DiskUsageAssumption
<1>5. Above = CHOOSE f : f = Body(f, NodeCount)
  BY DEF Above, Nodes
<1>6. Above = Body(Above, NodeCount)
  <2> HIDE DEF Body
  <2> QED BY <1>4, <1>5
<1> QED BY <1>6 DEF Nodes

(* What is above a file has smaller numbers.                               *)
LEMMA AboveIsBelow ==
    ASSUME job \in Jobs
    PROVE  \A n \in Nodes : Above[n] \subseteq 1..n - 1 /\ Above[n] \subseteq Nodes
<1> DEFINE S == {m \in Nat : \A n \in Nodes : n <= m => Above[n] \subseteq 1..n - 1}
<1>1. 0 \in S
  BY JobFacts
<1>2. ASSUME NEW m \in Nat, m \in S PROVE m + 1 \in S
  <2> SUFFICES ASSUME NEW n \in Nodes, n <= m + 1 PROVE Above[n] \subseteq 1..n - 1
    OBVIOUS
  <2>1. CASE n = 1
    BY <2>1, AboveIs
  <2>2. CASE n # 1
    <3> DEFINE p == job.parent[n]
    <3>1. p \in Nodes /\ p < n /\ p \in Nat /\ n \in Nat /\ p > 0
      BY <2>2, JobFacts
    <3>2. Above[p] \subseteq 1..p - 1
      BY <1>2, <3>1
    <3>3. Above[n] = {p} \cup Above[p]
      BY <2>2, AboveIs
    <3> HIDE DEF p
    <3> QED BY <3>1, <3>2, <3>3
  <2> QED BY <2>1, <2>2
<1>3. \A m \in Nat : m \in S
  <2> HIDE DEF S
  <2> QED BY <1>1, <1>2, AllNumbers
<1>4. ASSUME NEW n \in Nodes PROVE Above[n] \subseteq 1..n - 1 /\ Above[n] \subseteq Nodes
  <2>1. Above[n] \subseteq 1..n - 1
    BY <1>3, JobFacts
  <2>2. 1..n - 1 \subseteq Nodes
    BY DiskUsageAssumption DEF Nodes
  <2> QED BY <2>1, <2>2
<1> QED BY <1>4

(* Every directory has fewer directories above it than the tree is high.   *)
LEMMA HeightExceeds ==
    ASSUME job \in Jobs
    PROVE  \A n \in Nodes : job.kind[n] = "dir" =>
               /\ IsFiniteSet(Above[n]) /\ Cardinality(Above[n]) \in Nat
               /\ Height \in Nat /\ Cardinality(Above[n]) < Height
<1> DEFINE depth(n) == Cardinality(Above[n])
           Deeper(d) == \A n \in Nodes : job.kind[n] = "dir" => depth(n) < d
           T == {d \in Nat : Deeper(d)}
<1>1. \A n \in Nodes : IsFiniteSet(Above[n]) /\ depth(n) \in Nat /\ depth(n) < NodeCount
  <2> TAKE n \in Nodes
  <2>1. n \in Nat /\ n > 0 /\ n <= NodeCount /\ NodeCount \in Nat
    BY DiskUsageAssumption DEF Nodes
  <2>2. IsFiniteSet(1..n - 1) /\ Cardinality(1..n - 1) = n - 1
    BY <2>1, FS_Interval
  <2>3. IsFiniteSet(Above[n]) /\ depth(n) <= n - 1 /\ depth(n) \in Nat
    BY <2>2, AboveIsBelow, FS_Subset, FS_CardinalityType
  <2> QED BY <2>1, <2>3
<1> HIDE DEF depth
<1>2. NodeCount \in T
  BY <1>1, DiskUsageAssumption
<1>3. PICK d \in T : \A k \in T : d <= k
  BY <1>2, LeastExists
<1>4. d \in 0..NodeCount /\ d > 0
  <2>1. depth(1) < d /\ depth(1) \in Nat
    BY <1>1, <1>3, JobFacts
  <2> QED BY <1>2, <1>3, <2>1, DiskUsageAssumption
<1>5. \E n \in Nodes : job.kind[n] = "dir" /\ depth(n) + 1 = d
  <2>1. d - 1 \in Nat /\ d - 1 \notin T
    BY <1>3, <1>4
  <2>2. PICK n \in Nodes : job.kind[n] = "dir" /\ ~(depth(n) < d - 1)
    BY <2>1
  <2>3. depth(n) < d /\ depth(n) \in Nat /\ d \in Nat
    BY <1>1, <1>3, <2>2
  <2> QED BY <2>2, <2>3
<1>6. Height = CHOOSE e \in 0..NodeCount :
                 /\ \E n \in Nodes : job.kind[n] = "dir" /\ depth(n) + 1 = e
                 /\ Deeper(e)
  BY DEF Height, depth
<1>7. Height \in 0..NodeCount /\ Deeper(Height)
  BY <1>3, <1>4, <1>5, <1>6
<1> QED BY <1>1, <1>7 DEF depth

(* The directories that have been opened, if V are the files read so far.  *)
Opened(V, miss) == {n \in V \cup {1} : job.kind[n] = "dir" /\ n \notin miss}

Listed == {frames[i] : i \in DOMAIN frames}

Dots == {Dot, DotDot}

FrameSet == [dir : Nodes, fd : 1..job.nfds, left : SUBSET (Nodes \cup Dots)]

(* The directories opened are different ones: for the recursive tools each
   is above the next, in the list all but the first are still to read.     *)
FramesSound ==
    /\ frames \in Seq(FrameSet)
    /\ walkAt = "walk" => frames # <<>>
    /\ \A i, j \in DOMAIN frames : frames[i].dir = frames[j].dir => i = j
    /\ \A i \in DOMAIN frames :
         job.tool = "duclinkfd" /\ i # 1 => frames[i].left = Entries(frames[i].dir)
    /\ \A i, j \in DOMAIN frames :
         job.tool # "duclinkfd" /\ i < j => frames[i].dir \in Above[frames[j].dir]

(* A descriptor is open exactly as long as its directory is.               *)
FdsSound ==
    /\ fdOf \in [1..job.nfds -> {CLOSED} \cup Nodes]
    /\ \A f \in 1..job.nfds, n \in Nodes :
         fdOf[f] = n <=> \E x \in Listed : x.fd = f /\ x.dir = n

(* A directory is missed without a failure when no descriptor is left.     *)
MissedSound ==
    /\ missed \subseteq Nodes
    /\ ~job.fails /\ missed # {} =>
         job.nfds < IF job.tool = "duclinkfd"
                    THEN Cardinality({n \in Nodes : job.kind[n] = "dir"})
                    ELSE Height

(* The files V and the entries W have been read: what is in an opened
   directory and not left to read in one that is open still.               *)
ReadAre(S, V, W, miss) ==
    /\ V \in SUBSET (Nodes \ {1}) /\ W \in SUBSET (Nodes \X Dots)
    /\ \A x \in S : x.left \subseteq Entries(x.dir)
    /\ \A n \in Nodes \ {1} :
         n \in V <=> /\ job.parent[n] \in Opened(V, miss)
                     /\ \A x \in S : n \notin x.left
    /\ \A n \in Nodes, d \in Dots :
         <<n, d>> \in W <=> /\ job.tool = "duc" /\ n \in Opened(V, miss)
                            /\ \A x \in S : x.dir = n => d \notin x.left

(* While the walk goes on its directories are opened, and what was missed
   has been read in the directory above.                                   *)
Walking(S, V, miss) == /\ miss \subseteq V
                       /\ \A x \in S : x.dir \in Opened(V, miss)

OfKind(V, kind) == {n \in V : job.kind[n] = kind}

Tally(V, W, c) ==
    /\ c \in [dirs : Nat, files : Nat]
    /\ c.files = Cardinality(OfKind(V, "file"))
    /\ c.dirs = Cardinality(OfKind(V, "dir")) + Cardinality(W)

WalkSound ==
    /\ walkAt \in {"walk", "done", "crashed"}
    /\ walkAt # "crashed" =>
         \E V, W :
             /\ ReadAre(Listed, V, W, missed)
             /\ Tally(V, W, counted)
             /\ walkAt = "walk" => Walking(Listed, V, missed)
             /\ walkAt = "done" => \A x \in Listed : x.dir \in missed

WalkInv == /\ job \in Jobs
           /\ FramesSound /\ FdsSound /\ MissedSound /\ WalkSound

(* Which frame is read.                                                    *)
LEMMA ReadingIs ==
    ASSUME FramesSound, walkAt = "walk", job \in Jobs
    PROVE  /\ Reading \in DOMAIN frames /\ DOMAIN frames = 1..Len(frames)
           /\ Len(frames) \in Nat /\ Len(frames) > 0
           /\ frames[Reading] \in Listed
           /\ Reading = IF job.tool = "duclinkfd" THEN 1 ELSE Len(frames)
           /\ frames[Reading] \in FrameSet
<1>1. frames \in Seq(FrameSet) /\ frames # <<>>
  BY DEF FramesSound
<1>2. DOMAIN frames = 1..Len(frames) /\ Len(frames) \in Nat /\ Len(frames) > 0
  BY <1>1
<1>3. Reading \in DOMAIN frames
  BY <1>2 DEF Reading
<1> QED BY <1>1, <1>2, <1>3 DEF Listed, Reading

(* An entry is read.                                                       *)
LEMMA FramesRead ==
    ASSUME FramesSound, walkAt = "walk", job \in Jobs, job' = job,
           NEW e, Read(e), walkAt' \in {"walk", "crashed"}
    PROVE  /\ FramesSound'
           /\ Listed' = (Listed \ {frames[Reading]})
                        \cup {[frames[Reading] EXCEPT !.left = @ \ {e}]}
<1> DEFINE r == frames[Reading]
           s == [r EXCEPT !.left = @ \ {e}]
<1>1. /\ Reading \in DOMAIN frames /\ DOMAIN frames = 1..Len(frames) /\ r \in FrameSet
      /\ frames \in Seq(FrameSet) /\ Len(frames) > 0 /\ Len(frames) \in Nat
  BY ReadingIs DEF FramesSound
<1>2. s \in FrameSet /\ s.dir = r.dir /\ s.fd = r.fd /\ s.left = r.left \ {e}
  BY <1>1 DEF FrameSet
<1>3. frames' = [frames EXCEPT ![Reading] = s]
  BY <1>1 DEF Read
<1> HIDE DEF s, r
<1>4. /\ frames' \in Seq(FrameSet) /\ DOMAIN frames' = DOMAIN frames /\ frames' # <<>>
      /\ Len(frames') = Len(frames)
      /\ \A k \in DOMAIN frames : frames'[k] = IF k = Reading THEN s ELSE frames[k]
  BY <1>1, <1>2, <1>3
<1>5. \A k \in DOMAIN frames : frames'[k].dir = frames[k].dir
  BY <1>2, <1>4 DEF r
<1>6. FrameSet' = FrameSet /\ Above' = Above /\ \A n : Entries(n)' = Entries(n)
  BY DEF FrameSet, Above, Entries
<1>7. \A k \in DOMAIN frames : job.tool = "duclinkfd" /\ k # 1 =>
         frames'[k].left = Entries(frames'[k].dir)
  BY <1>1, <1>4, ReadingIs DEF FramesSound
<1>8. FramesSound'
  BY <1>4, <1>5, <1>6, <1>7 DEF FramesSound
<1>9. \A k \in DOMAIN frames : frames[k] = r => k = Reading
  BY <1>1 DEF FramesSound, r
<1>10. Listed' = (Listed \ {r}) \cup {s}
  BY <1>1, <1>4, <1>9 DEF Listed, r
<1> QED BY <1>8, <1>10 DEF s, r

(* A directory is opened that is none of the open ones.                    *)
LEMMA FramesEnter ==
    ASSUME FramesSound, walkAt = "walk", job \in Jobs, job' = job, walkAt' = "walk",
           NEW e \in Nodes \ {1}, NEW f \in 1..job.nfds,
           job.parent[e] = frames[Reading].dir,
           \A x \in Listed : x.dir # e,
           frames' = Append([frames EXCEPT ![Reading].left = @ \ {e}], Frame(e, f))
    PROVE  /\ FramesSound'
           /\ Listed' = (Listed \ {frames[Reading]})
                        \cup {[frames[Reading] EXCEPT !.left = @ \ {e}], Frame(e, f)}
<1> DEFINE r == frames[Reading]
           s == [r EXCEPT !.left = @ \ {e}]
           y == Frame(e, f)
           L == Len(frames)
<1>1. /\ Reading \in DOMAIN frames /\ DOMAIN frames = 1..L /\ r \in FrameSet
      /\ frames \in Seq(FrameSet) /\ L > 0 /\ L \in Nat
  BY ReadingIs DEF FramesSound
<1>2. s \in FrameSet /\ s.dir = r.dir /\ s.fd = r.fd /\ s.left = r.left \ {e}
  BY <1>1 DEF FrameSet
<1>3. y \in FrameSet /\ y.dir = e /\ y.left = Entries(e)
  BY DEF FrameSet, Frame, Entries, Dots
<1>4. frames' = Append([frames EXCEPT ![Reading] = s], y)
  BY <1>1
<1> HIDE DEF s, r, y
<1>5. /\ frames' \in Seq(FrameSet) /\ DOMAIN frames' = 1..L + 1 /\ frames' # <<>>
      /\ Len(frames') = L + 1
      /\ \A k \in 1..L : frames'[k] = IF k = Reading THEN s ELSE frames[k]
      /\ frames'[L + 1] = y
  <2> DEFINE t == [frames EXCEPT ![Reading] = s]
  <2>1. /\ t \in Seq(FrameSet) /\ Len(t) = L
        /\ \A k \in 1..L : t[k] = IF k = Reading THEN s ELSE frames[k]
    BY <1>1, <1>2
  <2>2. frames' = Append(t, y)
    BY <1>4
  <2> HIDE DEF t, L
  <2>3. /\ frames' \in Seq(FrameSet) /\ frames' # <<>> /\ Len(frames') = L + 1
        /\ \A k \in 1..L : frames'[k] = t[k]
        /\ frames'[L + 1] = y
    <3>1. /\ Append(t, y) \in Seq(FrameSet) /\ Append(t, y) # <<>>
          /\ Len(Append(t, y)) = Len(t) + 1
          /\ \A k \in 1..Len(t) : Append(t, y)[k] = t[k]
          /\ Append(t, y)[Len(t) + 1] = y
      BY <1>3, <2>1, AppendProperties
    <3> QED BY <2>1, <2>2, <3>1
  <2>4. DOMAIN frames' = 1..L + 1
    BY <2>3
  <2> QED BY <2>1, <2>3, <2>4
<1>6. /\ \A k \in 1..L : frames'[k].dir = frames[k].dir /\ frames[k].dir # e
      /\ frames'[L + 1].dir = e
  BY <1>1, <1>2, <1>3, <1>5 DEF r, Listed
<1>7. FrameSet' = FrameSet /\ Above' = Above /\ \A n : Entries(n)' = Entries(n)
  BY DEF FrameSet, Above, Entries
<1>8. ASSUME NEW i \in 1..L + 1, NEW j \in 1..L + 1, frames'[i].dir = frames'[j].dir
      PROVE  i = j
  <2>1. CASE i \in 1..L /\ j \in 1..L
    BY <1>1, <1>6, <1>8, <2>1 DEF FramesSound
  <2>2. CASE ~(i \in 1..L /\ j \in 1..L)
    <3>1. \A k \in 1..L + 1 : k \in 1..L \/ k = L + 1
      BY <1>1
    <3> QED BY <1>6, <1>8, <2>2, <3>1
  <2> QED BY <2>1, <2>2
<1>9. ASSUME NEW i \in 1..L + 1, job.tool = "duclinkfd", i # 1
      PROVE  frames'[i].left = Entries(frames'[i].dir)
  <2>1. CASE i = L + 1
    BY <1>3, <1>5, <2>1
  <2>2. CASE i \in 1..L
    BY <1>1, <1>5, <1>9, <2>2, ReadingIs DEF FramesSound
  <2> QED BY <1>1, <2>1, <2>2
<1>10. ASSUME NEW i \in 1..L + 1, NEW j \in 1..L + 1, job.tool # "duclinkfd", i < j
       PROVE  frames'[i].dir \in Above[frames'[j].dir]
  <2>1. i \in 1..L
    BY <1>1, <1>10
  <2>2. CASE j \in 1..L
    BY <1>1, <1>6, <1>10, <2>1, <2>2 DEF FramesSound
  <2>3. CASE j = L + 1
    <3>1. Reading = L /\ L \in 1..L /\ job.parent[e] = frames[L].dir
      BY <1>1, <1>10, ReadingIs
    <3>2. Above[e] = {frames[L].dir} \cup Above[frames[L].dir]
      BY <3>1, AboveIs
    <3>3. i = L \/ i < L
      <4>1. \A a \in Nat : \A b \in 1..a : b = a \/ b < a
        OBVIOUS
      <4> QED BY <1>1, <2>1, <4>1, Zenon
    <3>4. frames[i].dir \in Above[e]
      BY <1>1, <1>10, <2>1, <3>1, <3>2, <3>3 DEF FramesSound
    <3> QED BY <1>6, <2>1, <2>3, <3>4
  <2> QED BY <1>1, <2>2, <2>3
<1>11. FramesSound'
  BY <1>5, <1>7, <1>8, <1>9, <1>10 DEF FramesSound
<1>12. \A k \in DOMAIN frames : frames[k] = r => k = Reading
  BY <1>1 DEF FramesSound, r
<1>13. Listed' = (Listed \ {r}) \cup {s, y}
  <2>1. Listed' = {frames'[k] : k \in 1..L} \cup {y}
    <3>1. 1..L + 1 = (1..L) \cup {L + 1}
      BY <1>1
    <3> QED BY <1>5, <3>1 DEF Listed
  <2>2. {frames'[k] : k \in 1..L} = (Listed \ {r}) \cup {s}
    BY <1>1, <1>5, <1>12 DEF Listed, r
  <2> QED BY <2>1, <2>2
<1> QED BY <1>11, <1>13 DEF s, r, y

(* A directory is closed.                                                  *)
LEMMA FramesFinish ==
    ASSUME FramesSound, walkAt = "walk", job \in Jobs, job' = job,
           frames' = WithoutReading, walkAt' = "walk" => Len(frames) # 1
    PROVE  FramesSound' /\ Listed' = Listed \ {frames[Reading]}
<1> DEFINE r == frames[Reading]
           L == Len(frames)
           from(k) == IF job.tool = "duclinkfd" THEN k + 1 ELSE k
<1>1. /\ Reading \in DOMAIN frames /\ DOMAIN frames = 1..L /\ r \in FrameSet
      /\ frames \in Seq(FrameSet) /\ L > 0 /\ L \in Nat
      /\ Reading = IF job.tool = "duclinkfd" THEN 1 ELSE L
  BY ReadingIs DEF FramesSound
<1>2. /\ frames' \in Seq(FrameSet) /\ Len(frames') = L - 1
      /\ \A k \in 1..L - 1 : frames'[k] = frames[from(k)]
  <2>1. CASE job.tool = "duclinkfd"
    <3>1. frames' = Tail(frames) /\ frames # <<>>
      BY <1>1, <2>1 DEF WithoutReading
    <3> QED BY <1>1, <2>1, <3>1
  <2>2. CASE job.tool # "duclinkfd"
    <3>1. frames' = SubSeq(frames, 1, L - 1)
      BY <2>2 DEF WithoutReading
    <3> QED BY <1>1, <2>2, <3>1
  <2> QED BY <2>1, <2>2
<1>3. DOMAIN frames' = 1..L - 1
  BY <1>2
<1> HIDE DEF L, r
<1>4. /\ \A k \in 1..L - 1 : from(k) \in 1..L /\ from(k) # Reading
      /\ \A k, m \in 1..L - 1 : (from(k) = from(m) => k = m) /\ (k < m => from(k) < from(m))
      /\ \A k \in 1..L : k # Reading => \E m \in 1..L - 1 : k = from(m)
      /\ \A k \in 1..L - 1 : job.tool = "duclinkfd" => from(k) # 1
  <2>1. CASE job.tool = "duclinkfd"
    <3>1. \A k \in 1..L : k # 1 => k - 1 \in 1..L - 1 /\ k = (k - 1) + 1
      BY <1>1
    <3> QED BY <1>1, <2>1, <3>1
  <2>2. CASE job.tool # "duclinkfd"
    BY <1>1, <2>2
  <2> QED BY <2>1, <2>2
<1>5. FrameSet' = FrameSet /\ Above' = Above /\ \A n : Entries(n)' = Entries(n)
  BY DEF FrameSet, Above, Entries
<1> HIDE DEF from, L, r
<1>6. walkAt' = "walk" => frames' # <<>>
  BY <1>1, <1>2
<1>7. /\ \A i, j \in 1..L - 1 : frames'[i].dir = frames'[j].dir => i = j
      /\ \A i \in 1..L - 1 :
           job.tool = "duclinkfd" => frames'[i].left = Entries(frames'[i].dir)
      /\ \A i, j \in 1..L - 1 :
           job.tool # "duclinkfd" /\ i < j => frames'[i].dir \in Above[frames'[j].dir]
  <2>1. /\ \A i, j \in 1..L : frames[i].dir = frames[j].dir => i = j
        /\ \A i \in 1..L :
             job.tool = "duclinkfd" /\ i # 1 => frames[i].left = Entries(frames[i].dir)
        /\ \A i, j \in 1..L :
             job.tool # "duclinkfd" /\ i < j => frames[i].dir \in Above[frames[j].dir]
    BY <1>1 DEF FramesSound
  <2>2. ASSUME NEW i \in 1..L - 1, NEW j \in 1..L - 1,
               frames'[i].dir = frames'[j].dir
        PROVE  i = j
    BY <1>2, <1>4, <2>1, <2>2
  <2>3. ASSUME NEW i \in 1..L - 1, job.tool = "duclinkfd"
        PROVE  frames'[i].left = Entries(frames'[i].dir)
    BY <1>2, <1>4, <2>1, <2>3
  <2>4. ASSUME NEW i \in 1..L - 1, NEW j \in 1..L - 1, job.tool # "duclinkfd", i < j
        PROVE  frames'[i].dir \in Above[frames'[j].dir]
    BY <1>2, <1>4, <2>1, <2>4
  <2> QED BY <2>2, <2>3, <2>4
<1>8. FramesSound'
  BY <1>2, <1>3, <1>5, <1>6, <1>7 DEF FramesSound
<1>9. \A k \in 1..L : frames[k] = r => k = Reading
  BY <1>1 DEF FramesSound, r
<1>10. Listed' = Listed \ {r}
  <2>1. Listed' = {frames[from(k)] : k \in 1..L - 1}
    BY <1>2, <1>3 DEF Listed
  <2>2. Listed = {frames[k] : k \in 1..L}
    BY <1>1 DEF Listed
  <2> HIDE DEF r
  <2> QED BY <1>4, <1>9, <2>1, <2>2 DEF r
<1> QED BY <1>8, <1>10 DEF r

LEMMA EntryIs ==
    ASSUME NEW n, NEW e
    PROVE  e \in Entries(n) <=> \/ e \in Nodes /\ job.parent[e] = n
                                \/ job.tool = "duc" /\ e \in Dots
BY DEF Entries, Dots

(* What is left to read has not been read.                                 *)
LeftUnread(S, V, W, miss) ==
    \A r \in S : \A e \in r.left :
      /\ r.dir \in Nodes /\ r.dir \in Opened(V, miss) /\ r.dir # e
      /\ e \in Nodes => /\ e # 1 /\ job.parent[e] = r.dir
                        /\ e \notin V /\ e \notin miss /\ e \notin Opened(V, miss)
      /\ e \notin Nodes => e \in Dots /\ job.tool = "duc" /\ <<r.dir, e>> \notin W

LEMMA Unread ==
    ASSUME job \in Jobs, NEW S, NEW V, NEW W, NEW miss,
           ReadAre(S, V, W, miss), Walking(S, V, miss)
    PROVE  LeftUnread(S, V, W, miss)
<1> SUFFICES ASSUME NEW r \in S, NEW e \in r.left
             PROVE
               /\ r.dir \in Nodes /\ r.dir \in Opened(V, miss) /\ r.dir # e
               /\ e \in Nodes => /\ e # 1 /\ job.parent[e] = r.dir
                                 /\ e \notin V /\ e \notin miss
                                 /\ e \notin Opened(V, miss)
               /\ e \notin Nodes => /\ e \in Dots /\ job.tool = "duc"
                                    /\ <<r.dir, e>> \notin W
  BY DEF LeftUnread
<1>1. r.dir \in Opened(V, miss) /\ miss \subseteq V /\ V \subseteq Nodes \ {1}
  BY DEF Walking, ReadAre
<1>2. r.dir \in Nodes /\ r.dir # 0
  BY <1>1, JobFacts DEF Opened
<1>3. e \in Entries(r.dir)
  BY DEF ReadAre
<1>4. ASSUME e \in Nodes
      PROVE  e # 1 /\ job.parent[e] = r.dir /\ e \notin V
  <2>1. job.parent[e] = r.dir
    BY <1>3, <1>4, EntryIs, JobFacts DEF Dots
  <2>2. e # 1
    BY <1>2, <2>1, JobFacts
  <2> QED BY <1>4, <2>1, <2>2 DEF ReadAre
<1>5. ASSUME e \notin Nodes
      PROVE  e \in Dots /\ job.tool = "duc" /\ <<r.dir, e>> \notin W
  <2>1. e \in Dots /\ job.tool = "duc"
    BY <1>3, <1>5, EntryIs
  <2> QED BY <1>2, <2>1 DEF ReadAre
<1>6. e \in Nodes => e \notin Opened(V, miss) /\ e \notin miss
  BY <1>1, <1>4 DEF Opened
<1> QED BY <1>1, <1>2, <1>4, <1>5, <1>6

(* A file is read, or a directory that is missed.                          *)
LEMMA FileIsRead ==
    ASSUME job \in Jobs, NEW S, NEW V, NEW W, NEW miss,
           ReadAre(S, V, W, miss), Walking(S, V, miss), NEW r \in S,
           \A x, y \in S : x.dir = y.dir => x = y,
           NEW e \in Nodes, e \in r.left, NEW s, s.dir = r.dir, s.left = r.left \ {e},
           NEW also, also = IF job.kind[e] = "dir" THEN {e} ELSE {}
    PROVE  LET T == (S \ {r}) \cup {s}
           IN  /\ ReadAre(T, V \cup {e}, W, miss \cup also)
               /\ Walking(T, V \cup {e}, miss \cup also)
<1> DEFINE T == (S \ {r}) \cup {s}
           U == V \cup {e}
           lost == miss \cup also
<1>0. LeftUnread(S, V, W, miss)
  BY Unread
<1>1. /\ r.dir \in Nodes /\ r.dir \in Opened(V, miss)
      /\ e # 1 /\ job.parent[e] = r.dir /\ e \notin V /\ e \notin miss
  BY <1>0 DEF LeftUnread
<1>2. Opened(U, lost) = Opened(V, miss)
  BY <1>1 DEF Opened
<1>3. \A m \in Nodes \ {1}, x \in S :
         m \in x.left /\ job.parent[m] = r.dir => x = r
  <2> SUFFICES ASSUME NEW m \in Nodes \ {1}, NEW x \in S, m \in x.left,
                      job.parent[m] = r.dir
               PROVE  x = r
    OBVIOUS
  <2>1. job.parent[m] = x.dir
    BY <1>0 DEF LeftUnread
  <2> QED BY <2>1
<1>4. ASSUME NEW m \in Nodes \ {1}
      PROVE  m \in U <=> /\ job.parent[m] \in Opened(V, miss)
                         /\ \A x \in T : m \notin x.left
  <2>1. CASE m = e
    BY <1>1, <1>3, <2>1
  <2>2. CASE m # e
    <3>1. (\A x \in T : m \notin x.left) <=> (\A x \in S : m \notin x.left)
      BY <2>2
    <3>2. m \in V <=> /\ job.parent[m] \in Opened(V, miss)
                      /\ \A x \in S : m \notin x.left
      BY DEF ReadAre
    <3> QED BY <2>2, <3>1, <3>2
  <2> QED BY <2>1, <2>2
<1>5. ASSUME NEW m \in Nodes, NEW d \in Dots
      PROVE  (\A x \in T : x.dir = m => d \notin x.left)
                <=> (\A x \in S : x.dir = m => d \notin x.left)
  <2>1. d # e
    BY JobFacts DEF Dots
  <2> QED BY <2>1
<1>6. U \in SUBSET (Nodes \ {1}) /\ W \in SUBSET (Nodes \X Dots)
      /\ \A x \in T : x.left \subseteq Entries(x.dir)
  BY <1>1 DEF ReadAre
<1>7. \A m \in Nodes, d \in Dots :
         <<m, d>> \in W <=> /\ job.tool = "duc" /\ m \in Opened(V, miss)
                            /\ \A x \in T : x.dir = m => d \notin x.left
  BY <1>5 DEF ReadAre
<1>8. lost \subseteq U /\ \A x \in T : x.dir \in Opened(V, miss)
  BY DEF Walking
<1> HIDE DEF T, U, lost
<1>9. ReadAre(T, U, W, lost)
  BY <1>2, <1>4, <1>6, <1>7 DEF ReadAre
<1>10. Walking(T, U, lost)
  BY <1>2, <1>8 DEF Walking
<1> QED BY <1>9, <1>10 DEF T, U, lost

(* A directory is read and opened.                                         *)
LEMMA DirIsOpened ==
    ASSUME job \in Jobs, NEW S, NEW V, NEW W, NEW miss,
           ReadAre(S, V, W, miss), Walking(S, V, miss), NEW r \in S,
           \A x, y \in S : x.dir = y.dir => x = y,
           NEW e \in Nodes, e \in r.left, job.kind[e] = "dir",
           NEW s, s.dir = r.dir, s.left = r.left \ {e},
           NEW y, y.dir = e, y.left = Entries(e)
    PROVE  LET T == (S \ {r}) \cup {s, y}
           IN  /\ ReadAre(T, V \cup {e}, W, miss)
               /\ Walking(T, V \cup {e}, miss)
<1> DEFINE T == (S \ {r}) \cup {s, y}
           U == V \cup {e}
<1>0. LeftUnread(S, V, W, miss)
  BY Unread
<1>1. /\ r.dir \in Nodes /\ r.dir \in Opened(V, miss) /\ r.dir # e
      /\ e # 1 /\ job.parent[e] = r.dir /\ e \notin V /\ e \notin miss
      /\ e \notin Opened(V, miss)
  BY <1>0 DEF LeftUnread
<1>2. Opened(U, miss) = Opened(V, miss) \cup {e}
  BY <1>1 DEF Opened
<1>3. \A m \in Nodes \ {1}, x \in S :
         m \in x.left => job.parent[m] = x.dir
  BY <1>0 DEF LeftUnread
<1>4. \A m \in Nodes : m \in y.left <=> job.parent[m] = e
  <2> TAKE m \in Nodes
  <2>1. m \notin Dots
    BY JobFacts DEF Dots
  <2> QED BY <2>1, EntryIs
<1>5. ASSUME NEW m \in Nodes \ {1}
      PROVE  m \in U <=> /\ job.parent[m] \in Opened(U, miss)
                         /\ \A x \in T : m \notin x.left
  <2>1. m \in V <=> /\ job.parent[m] \in Opened(V, miss)
                    /\ \A x \in S : m \notin x.left
    BY DEF ReadAre
  <2>2. CASE m = e
    <3>1. \A x \in S : e \in x.left => x = r
      BY <1>1, <1>3
    <3>2. e \notin y.left
      BY <1>1, <1>4
    <3> QED BY <1>1, <1>2, <2>2, <3>1, <3>2
  <2>3. CASE m # e /\ job.parent[m] = e
    <3>1. m \notin U /\ m \in y.left
      BY <1>1, <1>4, <2>1, <2>3
    <3> QED BY <3>1
  <2>4. CASE m # e /\ job.parent[m] # e
    <3>1. (\A x \in T : m \notin x.left) <=> (\A x \in S : m \notin x.left)
      BY <1>4, <2>4
    <3>2. job.parent[m] \in Opened(U, miss) <=> job.parent[m] \in Opened(V, miss)
      BY <1>2, <2>4
    <3> QED BY <2>1, <2>4, <3>1, <3>2
  <2> QED BY <2>2, <2>3, <2>4
<1>6. ASSUME NEW m \in Nodes, NEW d \in Dots
      PROVE  <<m, d>> \in W <=> /\ job.tool = "duc" /\ m \in Opened(U, miss)
                                /\ \A x \in T : x.dir = m => d \notin x.left
  <2>1. d # e
    BY JobFacts DEF Dots
  <2>2. <<m, d>> \in W <=> /\ job.tool = "duc" /\ m \in Opened(V, miss)
                           /\ \A x \in S : x.dir = m => d \notin x.left
    BY DEF ReadAre
  <2>3. CASE m = e
    <3>1. job.tool = "duc" => d \in y.left
      BY EntryIs
    <3> QED BY <1>1, <2>2, <2>3, <3>1
  <2>4. CASE m # e
    <3>1. (\A x \in T : x.dir = m => d \notin x.left)
             <=> (\A x \in S : x.dir = m => d \notin x.left)
      BY <2>1, <2>4
    <3> QED BY <1>2, <2>2, <2>4, <3>1
  <2> QED BY <2>3, <2>4
<1>7. U \in SUBSET (Nodes \ {1}) /\ W \in SUBSET (Nodes \X Dots)
      /\ \A x \in T : x.left \subseteq Entries(x.dir)
  BY <1>1 DEF ReadAre
<1>8. miss \subseteq U /\ \A x \in T : x.dir \in Opened(U, miss)
  BY <1>2 DEF Walking
<1> HIDE DEF T, U
<1>9. ReadAre(T, U, W, miss)
  BY <1>5, <1>6, <1>7 DEF ReadAre
<1>10. Walking(T, U, miss)
  BY <1>8 DEF Walking
<1> QED BY <1>9, <1>10 DEF T, U

(* "." or ".." is read.                                                    *)
LEMMA DotIsRead ==
    ASSUME job \in Jobs, NEW S, NEW V, NEW W, NEW miss,
           ReadAre(S, V, W, miss), Walking(S, V, miss), NEW r \in S,
           \A x, y \in S : x.dir = y.dir => x = y,
           NEW e \in Dots, e \in r.left, NEW s, s.dir = r.dir, s.left = r.left \ {e}
    PROVE  LET T == (S \ {r}) \cup {s}
           IN  /\ ReadAre(T, V, W \cup {<<r.dir, e>>}, miss)
               /\ Walking(T, V, miss)
<1> DEFINE T == (S \ {r}) \cup {s}
           X == W \cup {<<r.dir, e>>}
<1>0. LeftUnread(S, V, W, miss)
  BY Unread
<1>1. /\ r.dir \in Nodes /\ r.dir \in Opened(V, miss) /\ e \notin Nodes
      /\ job.tool = "duc"
  BY <1>0, JobFacts DEF LeftUnread, Dots
<1>2. \A m \in Nodes \ {1} : m # e
  BY <1>1
<1>3. \A m \in Nodes \ {1} :
         (\A x \in T : m \notin x.left) <=> (\A x \in S : m \notin x.left)
  BY <1>2
<1>4. ASSUME NEW m \in Nodes, NEW d \in Dots
      PROVE  <<m, d>> \in X <=> /\ job.tool = "duc" /\ m \in Opened(V, miss)
                                /\ \A x \in T : x.dir = m => d \notin x.left
  <2>1. <<m, d>> \in W <=> /\ job.tool = "duc" /\ m \in Opened(V, miss)
                           /\ \A x \in S : x.dir = m => d \notin x.left
    BY DEF ReadAre
  <2>2. CASE m = r.dir
    <3>1. \A x \in S : x.dir = m => x = r
      BY <2>2
    <3>2. (\A x \in T : x.dir = m => d \notin x.left) <=> d \notin s.left
      BY <2>2, <3>1
    <3>3. (\A x \in S : x.dir = m => d \notin x.left) <=> d \notin r.left
      BY <2>2, <3>1
    <3>4. <<m, d>> \in X <=> <<m, d>> \in W \/ d = e
      BY <2>2
    <3> QED BY <1>1, <2>1, <2>2, <3>2, <3>3, <3>4
  <2>3. CASE m # r.dir
    <3>1. <<m, d>> \in X <=> <<m, d>> \in W
      BY <2>3
    <3>2. (\A x \in T : x.dir = m => d \notin x.left)
             <=> (\A x \in S : x.dir = m => d \notin x.left)
      BY <2>3
    <3> QED BY <2>1, <3>1, <3>2
  <2> QED BY <2>2, <2>3
<1>5. V \in SUBSET (Nodes \ {1}) /\ X \in SUBSET (Nodes \X Dots)
      /\ \A x \in T : x.left \subseteq Entries(x.dir)
  BY <1>1 DEF ReadAre
<1>6. miss \subseteq V /\ \A x \in T : x.dir \in Opened(V, miss)
  BY DEF Walking
<1>7. \A m \in Nodes \ {1} :
         m \in V <=> /\ job.parent[m] \in Opened(V, miss)
                     /\ \A x \in T : m \notin x.left
  BY <1>3 DEF ReadAre
<1> HIDE DEF T, X
<1>8. ReadAre(T, V, X, miss)
  BY <1>4, <1>5, <1>7 DEF ReadAre
<1>9. Walking(T, V, miss)
  BY <1>6 DEF Walking
<1> QED BY <1>8, <1>9 DEF T, X

(* A directory with nothing left is closed.                                *)
LEMMA DirIsClosed ==
    ASSUME NEW S, NEW V, NEW W, NEW miss, ReadAre(S, V, W, miss), NEW r \in S,
           r.left = {}
    PROVE  ReadAre(S \ {r}, V, W, miss)
BY DEF ReadAre

-----------------------------------------------------------------------------
(* The counts.                                                             *)
LEMMA CountsFinite ==
    ASSUME NEW V \in SUBSET Nodes, NEW W \in SUBSET (Nodes \X Dots), NEW kind
    PROVE  /\ IsFiniteSet(OfKind(V, kind)) /\ IsFiniteSet(W)
           /\ Cardinality(OfKind(V, kind)) \in Nat /\ Cardinality(W) \in Nat
<1>1. IsFiniteSet(Nodes)
  BY FS_Interval, DiskUsageAssumption DEF Nodes
<1>2. IsFiniteSet(Dots)
  <2>1. IsFiniteSet({Dot}) /\ IsFiniteSet({DotDot})
    BY FS_Singleton
  <2>2. IsFiniteSet({Dot} \cup {DotDot})
    BY <2>1, FS_Union
  <2>3. Dots = {Dot} \cup {DotDot}
    BY DEF Dots
  <2> QED BY <2>2, <2>3
<1>3. IsFiniteSet(Nodes \X Dots)
  BY <1>1, <1>2, FS_Product
<1>4. OfKind(V, kind) \in SUBSET Nodes
  BY DEF OfKind
<1>5. IsFiniteSet(OfKind(V, kind)) /\ IsFiniteSet(W)
  BY <1>1, <1>3, <1>4, FS_Subset
<1> QED BY <1>5, FS_CardinalityType

LEMMA OneMore == \A S, x : IsFiniteSet(S) /\ x \notin S =>
                               Cardinality(S \cup {x}) = Cardinality(S) + 1
BY FS_AddElement

LEMMA TallyNode ==
    ASSUME job \in Jobs, NEW V \in SUBSET Nodes, NEW W \in SUBSET (Nodes \X Dots),
           NEW c, Tally(V, W, c), NEW e \in Nodes, e \notin V
    PROVE  Tally(V \cup {e}, W, Count(e, c))
<1>1. /\ c \in [dirs : Nat, files : Nat]
      /\ c.files = Cardinality(OfKind(V, "file"))
      /\ c.dirs = Cardinality(OfKind(V, "dir")) + Cardinality(W)
  BY DEF Tally
<1>2. ASSUME NEW kind
      PROVE  Cardinality(OfKind(V \cup {e}, kind)) =
                 IF job.kind[e] = kind THEN Cardinality(OfKind(V, kind)) + 1
                                       ELSE Cardinality(OfKind(V, kind))
  <2>1. CASE job.kind[e] = kind
    <3>1. OfKind(V \cup {e}, kind) = OfKind(V, kind) \cup {e} /\ e \notin OfKind(V, kind)
      BY <2>1 DEF OfKind
    <3>2. IsFiniteSet(OfKind(V, kind))
      BY CountsFinite
    <3>3. Cardinality(OfKind(V, kind) \cup {e}) = Cardinality(OfKind(V, kind)) + 1
      BY <3>1, <3>2, OneMore, Zenon
    <3> QED BY <2>1, <3>1, <3>3, Zenon
  <2>2. CASE job.kind[e] # kind
    <3>1. OfKind(V \cup {e}, kind) = OfKind(V, kind)
      BY <2>2 DEF OfKind
    <3> QED BY <2>2, <3>1
  <2> QED BY <2>1, <2>2
<1>3. /\ Cardinality(OfKind(V, "file")) \in Nat /\ Cardinality(OfKind(V, "dir")) \in Nat
      /\ Cardinality(W) \in Nat
  BY CountsFinite
<1>4. e \notin {Dot, DotDot}
  BY JobFacts
<1>5. /\ Count(e, c) \in [dirs : Nat, files : Nat]
      /\ Count(e, c).dirs = IF job.kind[e] = "dir" THEN c.dirs + 1 ELSE c.dirs
      /\ Count(e, c).files = IF job.kind[e] = "file" THEN c.files + 1 ELSE c.files
  BY <1>1, <1>4 DEF Count
<1> QED BY <1>1, <1>2, <1>3, <1>5 DEF Tally

LEMMA TallyDot ==
    ASSUME NEW V \in SUBSET Nodes, NEW W \in SUBSET (Nodes \X Dots),
           NEW c, Tally(V, W, c), NEW e \in Dots, NEW x, x \notin W
    PROVE  Tally(V, W \cup {x}, Count(e, c))
<1>1. /\ c \in [dirs : Nat, files : Nat]
      /\ c.files = Cardinality(OfKind(V, "file"))
      /\ c.dirs = Cardinality(OfKind(V, "dir")) + Cardinality(W)
  BY DEF Tally
<1>2. Cardinality(W \cup {x}) = Cardinality(W) + 1
  <2>1. IsFiniteSet(W)
    BY CountsFinite
  <2> QED BY <2>1, OneMore, Zenon
<1>3. /\ Cardinality(OfKind(V, "dir")) \in Nat /\ Cardinality(W) \in Nat
  BY CountsFinite
<1>4. /\ Count(e, c) \in [dirs : Nat, files : Nat]
      /\ Count(e, c).dirs = c.dirs + 1 /\ Count(e, c).files = c.files
  BY <1>1 DEF Count, Dots
<1> QED BY <1>1, <1>2, <1>3, <1>4 DEF Tally

-----------------------------------------------------------------------------
LEMMA FramesDiffer ==
    ASSUME FramesSound
    PROVE  /\ \A x, y \in Listed : x.dir = y.dir => x = y
           /\ \A x \in Listed : x \in FrameSet /\ x.dir \in Nodes /\ x.fd \in 1..job.nfds
<1>1. \A k \in DOMAIN frames : frames[k] \in FrameSet
  BY DEF FramesSound
<1>2. \A x \in FrameSet : x.dir \in Nodes /\ x.fd \in 1..job.nfds
  BY DEF FrameSet
<1> QED BY <1>1, <1>2 DEF Listed, FramesSound

(* The descriptors when an entry is read, a directory is opened or one is
   closed.                                                                 *)
LEMMA FdsRead ==
    ASSUME FdsSound, job' = job, fdOf' = fdOf, NEW r \in Listed, NEW s,
           s.dir = r.dir, s.fd = r.fd, Listed' = (Listed \ {r}) \cup {s}
    PROVE  FdsSound'
<1>1. \A f, n : (\E x \in Listed' : x.fd = f /\ x.dir = n)
                   <=> (\E x \in Listed : x.fd = f /\ x.dir = n)
  OBVIOUS
<1> QED BY <1>1 DEF FdsSound

LEMMA FdsEnter ==
    ASSUME FdsSound, job' = job, NEW r \in Listed, NEW s,
           s.dir = r.dir, s.fd = r.fd, NEW e \in Nodes, NEW f \in FreeFds,
           \A x \in Listed : x.dir \in Nodes /\ x.dir # 0,
           fdOf' = [fdOf EXCEPT ![f] = e],
           NEW y, y.dir = e, y.fd = f, Listed' = (Listed \ {r}) \cup {s, y}
    PROVE  FdsSound'
<1>1. /\ f \in 1..job.nfds /\ fdOf[f] = CLOSED
      /\ fdOf \in [1..job.nfds -> {CLOSED} \cup Nodes]
  BY DEF FdsSound, FreeFds
<1>2. \A x \in Listed : x.fd # f
  BY <1>1 DEF FdsSound, CLOSED
<1>3. \A g, n : (\E x \in Listed' : x.fd = g /\ x.dir = n)
                   <=> (\E x \in Listed : x.fd = g /\ x.dir = n) \/ (g = f /\ n = e)
  OBVIOUS
<1>4. \A g \in 1..job.nfds, n \in Nodes :
         fdOf'[g] = n <=> \E x \in Listed' : x.fd = g /\ x.dir = n
  <2> TAKE g \in 1..job.nfds, n \in Nodes
  <2>1. CASE g = f
    BY <1>1, <1>2, <1>3, <2>1
  <2>2. CASE g # f
    BY <1>1, <1>3, <2>2 DEF FdsSound
  <2> QED BY <2>1, <2>2
<1>5. fdOf' \in [1..job.nfds -> {CLOSED} \cup Nodes]
  BY <1>1
<1> QED BY <1>4, <1>5 DEF FdsSound

LEMMA FdsClose ==
    ASSUME FdsSound, FramesSound, job \in Jobs, job' = job, NEW r \in Listed,
           fdOf' = Closed(r.fd), Listed' = Listed \ {r}
    PROVE  FdsSound'
<1>1. /\ r.fd \in 1..job.nfds /\ r.dir \in Nodes
      /\ fdOf \in [1..job.nfds -> {CLOSED} \cup Nodes]
      /\ fdOf' = [fdOf EXCEPT ![r.fd] = CLOSED]
  BY FramesDiffer DEF FdsSound, Closed
<1>2. \A x \in Listed \ {r} : x.fd # r.fd
  <2> SUFFICES ASSUME NEW x \in Listed \ {r}, x.fd = r.fd PROVE FALSE
    OBVIOUS
  <2>1. fdOf[r.fd] = r.dir /\ fdOf[r.fd] = x.dir
    BY <1>1, FramesDiffer DEF FdsSound
  <2> QED BY <2>1, FramesDiffer
<1>3. \A g \in 1..job.nfds, n \in Nodes :
         fdOf'[g] = n <=> \E x \in Listed' : x.fd = g /\ x.dir = n
  <2> TAKE g \in 1..job.nfds, n \in Nodes
  <2>1. CASE g = r.fd
    <3>1. fdOf'[g] = CLOSED /\ n # CLOSED
      BY <1>1, <2>1, JobFacts DEF CLOSED
    <3> QED BY <1>2, <2>1, <3>1
  <2>2. CASE g # r.fd
    BY <1>1, <2>2 DEF FdsSound
  <2> QED BY <2>1, <2>2
<1>4. fdOf' \in [1..job.nfds -> {CLOSED} \cup Nodes]
  BY <1>1
<1> QED BY <1>3, <1>4 DEF FdsSound

(* When no descriptor is left there are as many open directories; those of
   the recursive tools are above the one that cannot be opened.            *)
LEMMA NoFdLeft ==
    ASSUME job \in Jobs, FramesSound, FdsSound, walkAt = "walk", FreeFds = {},
           \A x \in Listed : job.kind[x.dir] = "dir",
           NEW e \in Nodes \ {1}, job.kind[e] = "dir",
           job.parent[e] = frames[Reading].dir, \A x \in Listed : x.dir # e
    PROVE  job.nfds < IF job.tool = "duclinkfd"
                      THEN Cardinality({n \in Nodes : job.kind[n] = "dir"})
                      ELSE Height
<1> DEFINE D == {x.dir : x \in Listed}
           dirs == {n \in Nodes : job.kind[n] = "dir"}
<1>1. IsFiniteSet(dirs) /\ D \in SUBSET dirs
  <2>1. IsFiniteSet(Nodes) /\ dirs \in SUBSET Nodes
    BY FS_Interval, DiskUsageAssumption DEF Nodes
  <2>2. D \in SUBSET dirs
    BY FramesDiffer
  <2> QED BY <2>1, <2>2, FS_Subset
<1>2. IsFiniteSet(D) /\ Cardinality(D) \in Nat /\ Cardinality(dirs) \in Nat
  BY <1>1, FS_Subset, FS_CardinalityType
<1>3. fdOf \in Injection(1..job.nfds, D)
  <2>1. ASSUME NEW f \in 1..job.nfds
        PROVE  \E x \in Listed : x.fd = f /\ fdOf[f] = x.dir
    <3>1. fdOf[f] \in Nodes
      BY DEF FdsSound, FreeFds
    <3> QED BY <3>1 DEF FdsSound
  <2>2. fdOf \in [1..job.nfds -> D]
    BY <2>1 DEF FdsSound
  <2>3. ASSUME NEW f \in 1..job.nfds, NEW g \in 1..job.nfds, fdOf[f] = fdOf[g]
        PROVE  f = g
    BY <2>1, <2>3, FramesDiffer
  <2> QED BY <2>2, <2>3 DEF Injection, IsInjective
<1>4. job.nfds <= Cardinality(D)
  <2>1. Cardinality(1..job.nfds) = job.nfds /\ job.nfds \in Nat
    <3>1. job.nfds \in Nat /\ job.nfds > 0
      BY JobFacts
    <3>2. Cardinality(1..job.nfds) = IF 1 > job.nfds THEN 0 ELSE job.nfds - 1 + 1
      BY <3>1, FS_Interval
    <3> QED BY <3>1, <3>2
  <2> HIDE DEF D
  <2> QED BY <1>2, <1>3, <2>1, FS_Injection
<1>5. CASE job.tool = "duclinkfd"
  <2>1. D \cup {e} \in SUBSET dirs /\ e \notin D
    BY <1>1
  <2> HIDE DEF D, dirs
  <2>2. Cardinality(D \cup {e}) = Cardinality(D) + 1
    BY <1>2, <2>1, FS_AddElement
  <2>3. Cardinality(D \cup {e}) <= Cardinality(dirs)
    BY <1>1, <2>1, FS_Subset
  <2>4. job.nfds < Cardinality(dirs)
    BY <1>2, <1>4, <2>2, <2>3, JobFacts
  <2> QED BY <1>5, <2>4 DEF dirs
<1>6. CASE job.tool # "duclinkfd"
  <2>1. D \in SUBSET Above[e]
    <3> SUFFICES ASSUME NEW k \in DOMAIN frames PROVE frames[k].dir \in Above[e]
      BY DEF Listed
    <3>1. /\ DOMAIN frames = 1..Len(frames) /\ Len(frames) \in DOMAIN frames
          /\ Len(frames) \in Nat /\ Reading = Len(frames)
      BY <1>6, ReadingIs
    <3>2. Above[e] = {frames[Len(frames)].dir} \cup Above[frames[Len(frames)].dir]
      BY <3>1, AboveIs
    <3>3. k = Len(frames) \/ k < Len(frames)
      BY <3>1
    <3> QED BY <1>6, <3>1, <3>2, <3>3 DEF FramesSound
  <2>2. /\ IsFiniteSet(Above[e]) /\ Cardinality(Above[e]) \in Nat /\ Height \in Nat
        /\ Cardinality(Above[e]) < Height
    BY HeightExceeds
  <2> HIDE DEF D
  <2>3. Cardinality(D) <= Cardinality(Above[e])
    BY <2>1, <2>2, FS_Subset
  <2> QED BY <1>2, <1>4, <1>6, <2>2, <2>3, JobFacts
<1> QED BY <1>5, <1>6

-----------------------------------------------------------------------------
(* The steps.                                                              *)

LEMMA JobStays ==
    ASSUME job' = job
    PROVE  /\ Height' = Height /\ Nodes' = Nodes
           /\ (job \in Jobs) => (job \in Jobs)'
           /\ \A S, V, W, miss : ReadAre(S, V, W, miss) => ReadAre(S, V, W, miss)'
           /\ \A S, V, miss : Walking(S, V, miss) => Walking(S, V, miss)'
           /\ \A V, W, c : Tally(V, W, c) => Tally(V, W, c)'
<1>1. Height' = Height /\ Nodes' = Nodes
  BY DEF Height, Above
<1>2. (job \in Jobs) => (job \in Jobs)'
  BY DEF Jobs
<1>3. /\ \A n : Entries(n)' = Entries(n)
      /\ \A V, miss : Opened(V, miss)' = Opened(V, miss)
      /\ \A V, kind : OfKind(V, kind)' = OfKind(V, kind)
  BY DEF Entries, Opened, OfKind
<1>4. ASSUME NEW S, NEW V, NEW W, NEW miss, ReadAre(S, V, W, miss)
      PROVE  ReadAre(S, V, W, miss)'
  BY <1>3, <1>4 DEF ReadAre
<1>5. ASSUME NEW S, NEW V, NEW miss, Walking(S, V, miss)
      PROVE  Walking(S, V, miss)'
  BY <1>3, <1>5 DEF Walking
<1>6. ASSUME NEW V, NEW W, NEW c, Tally(V, W, c) PROVE Tally(V, W, c)'
  BY <1>3, <1>6 DEF Tally
<1> QED BY <1>1, <1>2, <1>4, <1>5, <1>6

LEMMA WalkStarts ==
    ASSUME NEW j \in Jobs, DuStart(j)
    PROVE  WalkInv
<1>1. /\ job \in Jobs /\ frames = <<Frame(1, 1)>> /\ missed = {} /\ walkAt = "walk"
      /\ fdOf = [f \in 1..job.nfds |-> IF f = 1 THEN 1 ELSE CLOSED]
      /\ counted = [dirs |-> 0, files |-> 0]
  BY DEF DuStart
<1> DEFINE y == Frame(1, 1)
<1>2. y.dir = 1 /\ y.fd = 1 /\ y.left = Entries(1) /\ y \in FrameSet
  BY <1>1, JobFacts DEF Frame, FrameSet, Entries, Dots
<1>3. Listed = {y}
  BY <1>1 DEF Listed
<1> HIDE DEF y
<1>4. FramesSound
  <2>1. frames = <<y>>
    BY <1>1 DEF y
  <2> QED BY <1>2, <2>1 DEF FramesSound
<1>5. FdsSound
  <2>1. 1 \in Nodes /\ \A n \in Nodes : n # CLOSED
    BY <1>1, JobFacts DEF CLOSED
  <2> QED BY <1>1, <1>2, <1>3, <2>1 DEF FdsSound
<1>6. ReadAre(Listed, {}, {}, missed) /\ Walking(Listed, {}, missed)
  <2>1. Opened({}, missed) = {1}
    BY <1>1, JobFacts DEF Opened
  <2>2. \A n \in Nodes \ {1} : job.parent[n] = 1 => n \in y.left
    BY <1>2, EntryIs
  <2>3. \A d \in Dots : job.tool = "duc" => d \in y.left
    BY <1>2, EntryIs
  <2> QED BY <1>1, <1>2, <1>3, <2>1, <2>2, <2>3 DEF ReadAre, Walking
<1>7. Tally({}, {}, counted)
  <2>1. OfKind({}, "dir") = {} /\ OfKind({}, "file") = {}
    BY DEF OfKind
  <2>2. Cardinality({}) = 0 /\ Cardinality(OfKind({}, "dir")) = 0
        /\ Cardinality(OfKind({}, "file")) = 0
    BY <2>1, FS_EmptySet, Zenon
  <2>3. counted \in [dirs : Nat, files : Nat] /\ counted.dirs = 0 /\ counted.files = 0
    BY <1>1
  <2> HIDE DEF y
  <2> QED BY <2>2, <2>3 DEF Tally
<1>8. WalkSound
  BY <1>1, <1>6, <1>7 DEF WalkSound
<1>9. MissedSound
  BY <1>1 DEF MissedSound
<1> QED BY <1>1, <1>4, <1>5, <1>8, <1>9 DEF WalkInv

(* The walk and the counts after an entry.                                 *)
LEMMA WalkGoesOn ==
    ASSUME job' = job, walkAt' = "walk",
           NEW S, S = Listed', NEW V, NEW W, NEW miss, miss = missed',
           NEW c, c = counted',
           ReadAre(S, V, W, miss), Walking(S, V, miss), Tally(V, W, c)
    PROVE  WalkSound'
<1>1. /\ ReadAre(S, V, W, miss)' /\ Walking(S, V, miss)' /\ Tally(V, W, c)'
  BY JobStays
<1>2. /\ ReadAre(Listed, V, W, missed)' /\ Walking(Listed, V, missed)'
      /\ Tally(V, W, counted)'
  BY <1>1
<1> QED BY <1>2 DEF WalkSound

(* The end: what is still to be read is in a directory that is missed.     *)
LEMMA WalkEnds ==
    ASSUME job' = job, walkAt' = "done",
           NEW S, S = Listed', NEW V, NEW W, NEW miss, miss = missed',
           NEW c, c = counted',
           ReadAre(S, V, W, miss), \A x \in S : x.dir \in miss, Tally(V, W, c)
    PROVE  WalkSound'
<1>1. ReadAre(S, V, W, miss)' /\ Tally(V, W, c)'
  BY JobStays
<1>2. ReadAre(Listed, V, W, missed)' /\ Tally(V, W, counted)'
  BY <1>1
<1> QED BY <1>2 DEF WalkSound

LEMMA MissedStays ==
    ASSUME MissedSound, job' = job, missed' = missed
    PROVE  MissedSound'
BY JobStays DEF MissedSound

(* An entry is read, and if it is a directory missed.                      *)
LEMMA EntryKeeps ==
    ASSUME WalkInv, walkAt = "walk", NEW e \in frames[Reading].left,
           counted' = Count(e, counted), ReadEntry(e) \/ Skip(e)
    PROVE  WalkInv'
<1> DEFINE r == frames[Reading]
           s == [r EXCEPT !.left = @ \ {e}]
           T == (Listed \ {r}) \cup {s}
<1>1. /\ job \in Jobs /\ job' = job /\ walkAt' = "walk" /\ fdOf' = fdOf /\ Read(e)
      /\ FramesSound /\ FdsSound /\ MissedSound
  BY DEF WalkInv, ReadEntry, Skip
<1>2. PICK V, W : /\ ReadAre(Listed, V, W, missed)
                  /\ Tally(V, W, counted)
                  /\ Walking(Listed, V, missed)
  BY DEF WalkInv, WalkSound
<1>3. r \in Listed /\ r \in FrameSet /\ e \in r.left
  BY <1>1, ReadingIs
<1>4. s.dir = r.dir /\ s.fd = r.fd /\ s.left = r.left \ {e}
  BY <1>3 DEF FrameSet
<1>5. LeftUnread(Listed, V, W, missed)
  BY <1>1, <1>2, Unread
<1>6. /\ \A x, y \in Listed : x.dir = y.dir => x = y
      /\ V \in SUBSET Nodes /\ W \in SUBSET (Nodes \X Dots)
  BY <1>1, <1>2, FramesDiffer DEF ReadAre
<1>7. FramesSound' /\ Listed' = T
  BY <1>1, FramesRead
<1> HIDE DEF r, s, T
<1>8. FdsSound'
  BY <1>1, <1>3, <1>4, <1>7, FdsRead DEF T
<1>9. CASE e \in Nodes
  <2> DEFINE also == IF job.kind[e] = "dir" THEN {e} ELSE {}
             lost == missed \cup also
  <2>1. missed' = lost
    BY <1>9 DEF ReadEntry, Skip, IsSubdir
  <2>2. e # 1 /\ job.parent[e] = r.dir /\ e \notin V /\ \A x \in Listed : x.dir # e
    BY <1>2, <1>3, <1>5, <1>9 DEF LeftUnread, Walking
  <2>3. ReadAre(T, V \cup {e}, W, lost) /\ Walking(T, V \cup {e}, lost)
    BY <1>1, <1>2, <1>3, <1>4, <1>6, <1>9, FileIsRead DEF T
  <2>4. Tally(V \cup {e}, W, Count(e, counted))
    BY <1>1, <1>2, <1>6, <1>9, <2>2, TallyNode
  <2>5. WalkSound'
    <3> HIDE DEF lost
    <3> QED BY <1>1, <1>7, <2>1, <2>3, <2>4, WalkGoesOn
  <2>6. MissedSound'
    <3>1. CASE job.kind[e] # "dir"
      <4>1. missed' = missed
        BY <2>1, <3>1
      <4> QED BY <1>1, <4>1, MissedStays
    <3>2. CASE job.kind[e] = "dir"
      <4>1. FreeFds = {} \/ job.fails
        BY <1>9, <3>2 DEF ReadEntry, Skip, IsSubdir
      <4>2. \A x \in Listed : job.kind[x.dir] = "dir"
        BY <1>2 DEF Walking, Opened
      <4>3. FreeFds = {} =>
              job.nfds < IF job.tool = "duclinkfd"
                         THEN Cardinality({n \in Nodes : job.kind[n] = "dir"})
                         ELSE Height
        BY <1>1, <1>9, <2>2, <3>2, <4>2, NoFdLeft DEF r
      <4> QED BY <1>1, <1>9, <2>1, <4>1, <4>3, JobStays DEF MissedSound
    <3> QED BY <3>1, <3>2
  <2> QED BY <1>1, <1>7, <1>8, <2>5, <2>6, JobStays DEF WalkInv
<1>10. CASE e \notin Nodes
  <2>1. missed' = missed
    BY <1>10 DEF ReadEntry, Skip, IsSubdir
  <2>2. e \in Dots /\ <<r.dir, e>> \notin W
    BY <1>3, <1>5, <1>10 DEF LeftUnread
  <2>3. ReadAre(T, V, W \cup {<<r.dir, e>>}, missed) /\ Walking(T, V, missed)
    BY <1>1, <1>2, <1>3, <1>4, <1>6, <2>2, DotIsRead DEF T
  <2>4. Tally(V, W \cup {<<r.dir, e>>}, Count(e, counted))
    BY <1>2, <1>6, <2>2, TallyDot
  <2>5. WalkSound'
    BY <1>1, <1>7, <2>1, <2>3, <2>4, WalkGoesOn
  <2> QED BY <1>1, <1>7, <1>8, <2>1, <2>5, JobStays, MissedStays DEF WalkInv
<1> QED BY <1>9, <1>10

(* A directory is opened.                                                  *)
LEMMA EnterKeeps ==
    ASSUME WalkInv, walkAt = "walk", NEW e \in frames[Reading].left,
           counted' = Count(e, counted), Enter(e)
    PROVE  WalkInv'
<1> DEFINE f == CHOOSE g \in FreeFds : \A o \in FreeFds : g <= o
           r == frames[Reading]
           s == [r EXCEPT !.left = @ \ {e}]
           y == Frame(e, f)
           T == (Listed \ {r}) \cup {s, y}
<1>1. /\ job \in Jobs /\ job' = job /\ walkAt' = "walk" /\ missed' = missed
      /\ FramesSound /\ FdsSound /\ MissedSound
      /\ e \in Nodes /\ job.kind[e] = "dir" /\ FreeFds # {}
      /\ fdOf' = [fdOf EXCEPT ![f] = e]
      /\ frames' = Append([frames EXCEPT ![Reading].left = @ \ {e}], Frame(e, f))
  BY DEF WalkInv, Enter, IsSubdir
<1>2. f \in FreeFds /\ f \in 1..job.nfds
  <2>1. FreeFds \in SUBSET Nat /\ FreeFds \subseteq 1..job.nfds
    BY <1>1 DEF FdsSound, FreeFds
  <2>2. \E g \in FreeFds : \A o \in FreeFds : g <= o
    BY <1>1, <2>1, LeastExists
  <2> QED BY <2>1, <2>2
<1> HIDE DEF f
<1>3. PICK V, W : /\ ReadAre(Listed, V, W, missed)
                  /\ Tally(V, W, counted)
                  /\ Walking(Listed, V, missed)
  BY DEF WalkInv, WalkSound
<1>4. r \in Listed /\ r \in FrameSet /\ e \in r.left
  BY <1>1, ReadingIs
<1>5. /\ s.dir = r.dir /\ s.fd = r.fd /\ s.left = r.left \ {e}
      /\ y.dir = e /\ y.fd = f /\ y.left = Entries(e)
  BY <1>4 DEF FrameSet, Frame
<1>6. LeftUnread(Listed, V, W, missed)
  BY <1>1, <1>3, Unread
<1>7. /\ \A x, z \in Listed : x.dir = z.dir => x = z
      /\ V \in SUBSET Nodes /\ W \in SUBSET (Nodes \X Dots)
      /\ \A x \in Listed : x.dir \in Nodes /\ x.dir # 0
  BY <1>1, <1>3, FramesDiffer, JobFacts DEF ReadAre
<1>8. e # 1 /\ job.parent[e] = r.dir /\ e \notin V /\ \A x \in Listed : x.dir # e
  BY <1>1, <1>3, <1>4, <1>6 DEF LeftUnread, Walking
<1>9. FramesSound' /\ Listed' = T
  BY <1>1, <1>2, <1>8, FramesEnter
<1> HIDE DEF r, s, y, T
<1>10. FdsSound'
  BY <1>1, <1>2, <1>4, <1>5, <1>7, <1>9, FdsEnter DEF T
<1>11. ReadAre(T, V \cup {e}, W, missed) /\ Walking(T, V \cup {e}, missed)
  BY <1>1, <1>3, <1>4, <1>5, <1>7, DirIsOpened DEF T
<1>12. Tally(V \cup {e}, W, Count(e, counted))
  BY <1>1, <1>3, <1>7, <1>8, TallyNode
<1>13. WalkSound'
  BY <1>1, <1>9, <1>11, <1>12, WalkGoesOn
<1> QED BY <1>1, <1>9, <1>10, <1>13, JobStays, MissedStays DEF WalkInv

(* duc writes past the end of a path.                                      *)
LEMMA OverrunKeeps ==
    ASSUME WalkInv, NEW e, Overrun(e)
    PROVE  WalkInv'
<1>1. walkAt' = "crashed" /\ UNCHANGED <<job, frames, fdOf, missed>>
  BY DEF Overrun
<1>2. FrameSet' = FrameSet /\ Above' = Above /\ \A n : Entries(n)' = Entries(n)
  BY <1>1 DEF FrameSet, Above, Entries
<1>3. FramesSound' /\ FdsSound'
  BY <1>1, <1>2 DEF WalkInv, FramesSound, FdsSound, Listed
<1> QED BY <1>1, <1>3, JobStays, MissedStays DEF WalkInv, WalkSound

LEMMA FinishKeeps ==
    ASSUME WalkInv, Finish
    PROVE  WalkInv'
<1> DEFINE r == frames[Reading]
           T == Listed \ {r}
<1>1. /\ job \in Jobs /\ job' = job /\ walkAt = "walk" /\ r.left = {}
      /\ FramesSound /\ FdsSound /\ MissedSound
      /\ fdOf' = Closed(r.fd) /\ frames' = WithoutReading
      /\ walkAt' = IF Len(frames) = 1 THEN "done" ELSE "walk"
      /\ counted' = counted /\ missed' = missed
  BY DEF WalkInv, Finish
<1>2. PICK V, W : /\ ReadAre(Listed, V, W, missed)
                  /\ Tally(V, W, counted)
                  /\ Walking(Listed, V, missed)
  BY <1>1 DEF WalkInv, WalkSound
<1>3. r \in Listed
  BY <1>1, ReadingIs
<1>4. FramesSound' /\ Listed' = T
  BY <1>1, FramesFinish
<1>5. FdsSound'
  BY <1>1, <1>3, <1>4, FdsClose
<1>6. ReadAre(T, V, W, missed)
  BY <1>1, <1>2, <1>3, DirIsClosed
<1>7. Walking(T, V, missed)
  BY <1>2 DEF Walking
<1>8. walkAt' = "done" => T = {}
  <2>1. ASSUME Len(frames) = 1 PROVE T = {}
    <3>1. DOMAIN frames = {1} /\ Reading = 1
      BY <1>1, <2>1, ReadingIs
    <3> QED BY <3>1 DEF Listed
  <2> QED BY <1>1, <2>1
<1> HIDE DEF T, r
<1>9. WalkSound'
  <2>1. CASE walkAt' = "walk"
    BY <1>1, <1>2, <1>4, <1>6, <1>7, <2>1, WalkGoesOn
  <2>2. CASE walkAt' = "done"
    BY <1>1, <1>2, <1>4, <1>6, <1>8, <2>2, WalkEnds
  <2> QED BY <1>1, <2>1, <2>2
<1> QED BY <1>1, <1>4, <1>5, <1>9, JobStays, MissedStays DEF WalkInv

(* The first of the list cannot be read and the rest is not tried: all that
   is in them has still to be read.                                        *)
LEMMA GiveUpKeeps ==
    ASSUME WalkInv, GiveUp
    PROVE  WalkInv'
<1> DEFINE r == frames[1]
           T == Listed \ {r}
           gone == {x.dir : x \in Listed}
           miss == missed \cup gone
<1>1. /\ job \in Jobs /\ job' = job /\ walkAt = "walk" /\ walkAt' = "done"
      /\ job.tool = "duclinkfd" /\ job.fails /\ r.left = Entries(r.dir)
      /\ FramesSound /\ FdsSound /\ MissedSound
      /\ fdOf' = Closed(r.fd) /\ frames' = Tail(frames)
      /\ counted' = counted
  BY DEF WalkInv, GiveUp
<1>2. PICK V, W : /\ ReadAre(Listed, V, W, missed)
                  /\ Tally(V, W, counted)
                  /\ Walking(Listed, V, missed)
  BY <1>1 DEF WalkInv, WalkSound
<1>3. Reading = 1 /\ r \in Listed /\ WithoutReading = Tail(frames)
  BY <1>1, ReadingIs DEF WithoutReading
<1>4. FramesSound' /\ Listed' = T
  BY <1>1, <1>3, FramesFinish
<1>5. FdsSound'
  BY <1>1, <1>3, <1>4, FdsClose
<1>6. missed' = miss
  BY DEF GiveUp, Listed
<1>7. \A x \in Listed : x.left = Entries(x.dir)
  BY <1>1 DEF FramesSound, Listed
<1>8. gone \subseteq Nodes
  BY <1>1, FramesDiffer
<1> HIDE DEF r
<1>9. \A n : n \in Opened(V, miss) <=> n \in Opened(V, missed) /\ n \notin gone
  BY DEF Opened
<1>10. ASSUME NEW n \in Nodes \ {1}
       PROVE  n \in V <=> /\ job.parent[n] \in Opened(V, miss)
                          /\ \A x \in T : n \notin x.left
  <2>1. n \in V <=> /\ job.parent[n] \in Opened(V, missed)
                    /\ \A x \in Listed : n \notin x.left
    BY <1>2 DEF ReadAre
  <2>2. \A x \in Listed : n \in x.left <=> job.parent[n] = x.dir
    <3>1. n \notin Dots
      BY <1>1, JobFacts DEF Dots
    <3> QED BY <1>7, <3>1, EntryIs
  <2> QED BY <1>9, <2>1, <2>2
<1>11. \A n \in Nodes, d \in Dots : <<n, d>> \notin W
  BY <1>1, <1>2 DEF ReadAre
<1>12. ReadAre(T, V, W, miss)
  <2>1. /\ V \in SUBSET (Nodes \ {1}) /\ W \in SUBSET (Nodes \X Dots)
        /\ \A x \in T : x.left \subseteq Entries(x.dir)
    BY <1>2 DEF ReadAre
  <2>2. \A n \in Nodes, d \in Dots :
          <<n, d>> \in W <=> /\ job.tool = "duc" /\ n \in Opened(V, miss)
                             /\ \A x \in T : x.dir = n => d \notin x.left
    BY <1>1, <1>11
  <2> HIDE DEF T, miss
  <2> QED BY <1>10, <2>1, <2>2 DEF ReadAre
<1>13. \A x \in T : x.dir \in miss
  OBVIOUS
<1> HIDE DEF T, miss
<1>14. WalkSound'
  BY <1>1, <1>2, <1>4, <1>6, <1>12, <1>13, WalkEnds
<1>15. MissedSound'
  <2>1. missed' \subseteq Nodes
    BY <1>1, <1>6, <1>8 DEF MissedSound, miss
  <2> QED BY <1>1, <2>1 DEF MissedSound
<1> QED BY <1>1, <1>4, <1>5, <1>14, <1>15, JobStays DEF WalkInv

LEMMA WalkKeeps ==
    ASSUME WalkInv, DuStep
    PROVE  WalkInv'
<1>1. CASE ReadDir
  <2>1. PICK e \in frames[Reading].left :
               /\ counted' = Count(e, counted)
               /\ ReadEntry(e) \/ Enter(e) \/ Skip(e) \/ Overrun(e)
    BY <1>1 DEF ReadDir
  <2>2. walkAt = "walk"
    BY <1>1 DEF ReadDir
  <2> QED BY <2>1, <2>2, EntryKeeps, EnterKeeps, OverrunKeeps
<1> QED BY <1>1, FinishKeeps, GiveUpKeeps DEF DuStep

-----------------------------------------------------------------------------
(* What has been read when the walk is done.                               *)
LEMMA SeenAre ==
    ASSUME job \in Jobs, NEW S, NEW V, NEW W, NEW miss, ReadAre(S, V, W, miss),
           \A x \in S : x.dir \in miss
    PROVE  /\ \A n \in Nodes : n = 1 \/ n \in V <=> Above[n] \cap miss = {}
           /\ \A n \in Nodes \ {1} : n \in V <=> job.parent[n] \in Opened(V, miss)
<1> DEFINE Seen(n) == n = 1 \/ n \in V <=> Above[n] \cap miss = {}
           M == {m \in Nat : \A n \in Nodes : n <= m => Seen(n)}
<1>1. ASSUME NEW n \in Nodes \ {1}
      PROVE  n \in V <=> job.parent[n] \in Opened(V, miss)
  <2>1. ASSUME NEW x \in S, n \in x.left, job.parent[n] \in Opened(V, miss) PROVE FALSE
    <3>1. n \in Entries(x.dir) /\ n \notin Dots
      BY <2>1, JobFacts DEF ReadAre, Dots
    <3>2. job.parent[n] = x.dir
      BY <3>1, EntryIs
    <3> QED BY <2>1, <3>2 DEF Opened
  <2> QED BY <2>1 DEF ReadAre
<1>2. 0 \in M
  BY JobFacts
<1>3. ASSUME NEW m \in Nat, m \in M PROVE m + 1 \in M
  <2> SUFFICES ASSUME NEW n \in Nodes, n <= m + 1 PROVE Seen(n)
    OBVIOUS
  <2>1. CASE n = 1
    BY <2>1, AboveIs
  <2>2. CASE n # 1
    <3> DEFINE p == job.parent[n]
    <3>1. p \in Nodes /\ p < n /\ p \in Nat /\ n \in Nat /\ job.kind[p] = "dir"
      BY <2>2, JobFacts
    <3>2. Seen(p)
      BY <1>3, <3>1
    <3>3. Above[n] = {p} \cup Above[p]
      BY <2>2, AboveIs
    <3>4. n \in V <=> (p = 1 \/ p \in V) /\ p \notin miss
      BY <1>1, <2>2, <3>1 DEF Opened
    <3> HIDE DEF p
    <3> QED BY <2>2, <3>2, <3>3, <3>4
  <2> QED BY <2>1, <2>2
<1>4. \A m \in Nat : m \in M
  <2> HIDE DEF M
  <2> QED BY <1>2, <1>3, AllNumbers
<1>5. \A n \in Nodes : Seen(n)
  BY <1>4, JobFacts
<1> QED BY <1>1, <1>5

(* The counts at the end of a walk.                                        *)
LEMMA DoneCounts ==
    ASSUME WalkInv, walkAt = "done"
    PROVE  LET seen == {n \in Nodes \ {1} : Above[n] \cap missed = {}}
               entered == {n \in Nodes : job.kind[n] = "dir"
                                         /\ (Above[n] \cup {n}) \cap missed = {}}
           IN  /\ counted.files = Cardinality({n \in seen : job.kind[n] = "file"})
               /\ counted.dirs = Cardinality({n \in seen : job.kind[n] = "dir"})
                    + (IF job.tool = "duc" THEN 2 * Cardinality(entered) ELSE 0)
<1> DEFINE seen == {n \in Nodes \ {1} : Above[n] \cap missed = {}}
           entered == {n \in Nodes : job.kind[n] = "dir"
                                     /\ (Above[n] \cup {n}) \cap missed = {}}
<1>1. PICK V, W : /\ ReadAre(Listed, V, W, missed)
                  /\ Tally(V, W, counted)
                  /\ \A x \in Listed : x.dir \in missed
  BY DEF WalkInv, WalkSound
<1>2. job \in Jobs /\ V \in SUBSET (Nodes \ {1}) /\ W \in SUBSET (Nodes \X Dots)
  BY <1>1 DEF WalkInv, ReadAre
<1>3. \A n \in Nodes : n = 1 \/ n \in V <=> Above[n] \cap missed = {}
  BY <1>1, <1>2, SeenAre
<1>4. V = seen
  BY <1>2, <1>3
<1>5. OfKind(V, "file") = {n \in seen : job.kind[n] = "file"}
      /\ OfKind(V, "dir") = {n \in seen : job.kind[n] = "dir"}
  BY <1>4 DEF OfKind
<1>6. entered = Opened(V, missed) /\ entered \in SUBSET Nodes
  <2>1. 1 \in Nodes
    BY <1>2, JobFacts
  <2> QED BY <1>2, <1>3, <2>1 DEF Opened
<1>7. \A n \in Nodes, d \in Dots :
        <<n, d>> \in W <=> job.tool = "duc" /\ n \in Opened(V, missed)
  <2>1. \A n \in Opened(V, missed) : \A x \in Listed : x.dir # n
    BY <1>1 DEF Opened
  <2> QED BY <1>1, <2>1 DEF ReadAre
<1> HIDE DEF seen, entered
<1>8. Cardinality(W) = IF job.tool = "duc" THEN 2 * Cardinality(entered) ELSE 0
  <2>1. CASE job.tool # "duc"
    <3>1. W = {}
      BY <1>2, <1>7, <2>1
    <3> QED BY <2>1, <3>1, FS_EmptySet
  <2>2. CASE job.tool = "duc"
    <3>1. W = entered \X Dots
      BY <1>2, <1>6, <1>7, <2>2
    <3>2. IsFiniteSet(Nodes)
      BY FS_Interval, DiskUsageAssumption DEF Nodes
    <3>3. IsFiniteSet(entered) /\ Cardinality(entered) \in Nat
      BY <1>6, <3>2, FS_Subset, FS_CardinalityType
    <3>4. IsFiniteSet(Dots) /\ Cardinality(Dots) = 2
      <4>1. IsFiniteSet({Dot}) /\ Cardinality({Dot}) = 1
        BY FS_Singleton
      <4>2. Dots = {Dot} \cup {DotDot} /\ DotDot \notin {Dot}
        BY DiskUsageAssumption DEF Dots
      <4> QED BY <4>1, <4>2, FS_AddElement
    <3>5. Cardinality(entered \X Dots) = Cardinality(entered) * Cardinality(Dots)
      BY <3>3, <3>4, FS_Product
    <3> QED BY <2>2, <3>1, <3>3, <3>4, <3>5
  <2> QED BY <2>1, <2>2
<1>9. /\ counted.files = Cardinality(OfKind(V, "file"))
      /\ counted.dirs = Cardinality(OfKind(V, "dir")) + Cardinality(W)
  BY <1>1 DEF Tally
<1> QED BY <1>5, <1>8, <1>9 DEF seen, entered

LEMMA WalkMeans == WalkInv => WalkExact
<1> SUFFICES ASSUME WalkInv PROVE WalkExact
  OBVIOUS
<1>1. \A f \in DOMAIN fdOf, n \in Nodes :
         fdOf[f] = n <=> \E i \in DOMAIN frames : frames[i].fd = f /\ frames[i].dir = n
  BY DEF WalkInv, FdsSound, Listed
<1>2. ~job.fails /\ missed # {} =>
         job.nfds < IF job.tool = "duclinkfd"
                    THEN Cardinality({n \in Nodes : job.kind[n] = "dir"})
                    ELSE Height
  BY DEF WalkInv, MissedSound
<1> QED BY <1>1, <1>2, DoneCounts DEF WalkExact

LEMMA WalkBegins == ASSUME Init PROVE WalkInv
<1> DEFINE j == [tool |-> "duc", nfds |-> 1, fails |-> FALSE,
                 parent |-> [n \in Nodes |-> IF n = 1 THEN 0 ELSE 1],
                 kind |-> [n \in Nodes |-> "dir"]]
<1>1. j \in Jobs
  <2>1. NodeCount \in Nat /\ NodeCount >= 1 /\ 1 \in Nodes /\ 1 \in 1..MaxFds
    BY DiskUsageAssumption DEF Nodes
  <2>2. \A n \in Nodes \ {1} : 1 \in 1..n - 1
    BY DEF Nodes
  <2> QED BY <2>1, <2>2 DEF Jobs, Kinds
<1>2. Chosen(Jobs, "disk usage") \subseteq Jobs
  <2> HIDE DEF j
  <2> QED BY <1>1, Zenon DEF Chosen
<1>3. \E k \in Chosen(Jobs, "disk usage") : DuStart(k)
  BY DEF Init
<1> QED BY <1>2, <1>3, WalkStarts

LEMMA WalkPreserved == ASSUME WalkInv, [Next]_vars PROVE WalkInv'
<1>1. CASE UNCHANGED duVars
  <2>1. /\ job' = job /\ frames' = frames /\ fdOf' = fdOf /\ counted' = counted
        /\ missed' = missed /\ walkAt' = walkAt
    BY <1>1 DEF duVars
  <2>2. FrameSet' = FrameSet /\ Above' = Above /\ Height' = Height /\ Listed' = Listed
    BY <2>1 DEF FrameSet, Above, Height, Listed
  <2>3. \A n : Entries(n)' = Entries(n)
    BY <2>1 DEF Entries
  <2>4. FramesSound' = FramesSound
    BY <2>1, <2>2, <2>3 DEF FramesSound
  <2>5. FdsSound' = FdsSound /\ MissedSound' = MissedSound
    BY <2>1, <2>2 DEF FdsSound, MissedSound
  <2>6. WalkSound => WalkSound'
    BY <2>1, <2>2, JobStays DEF WalkSound
  <2> QED BY <2>1, <2>4, <2>5, <2>6, JobStays DEF WalkInv
<1>2. CASE DuStep
  BY <1>2, WalkKeeps
<1>3. UNCHANGED duVars \/ DuStep
  BY DEF Next, vars, PollClientRuns, OutputIsRead, SelectClientRuns, UserActs,
     DuRuns, StackRuns, TreeRuns, PipesRun, Killed, RaceRuns, CopyRuns,
     ForkWaitRuns, NotClients, NotStack, NotTree, NotPipes, NotRace, NotCopy,
     NotFork
<1> QED BY <1>1, <1>2, <1>3

(* Whatever directory of any size is walked, with whatever descriptors and
   failures, a tool that comes to its end has counted each file it could see
   once, has a descriptor open exactly while it walks the directory, and
   misses nothing when nothing fails and the descriptors are enough.        *)
THEOREM WalksAlwaysExact == Spec => []WalksExact
<1>1. Init => WalkInv
  BY WalkBegins
<1>2. WalkInv /\ [Next]_vars => WalkInv'
  BY WalkPreserved
<1>3. WalkInv => WalksExact
  BY WalkMeans DEF WalksExact
<1> QED BY <1>1, <1>2, <1>3, PTL DEF Spec

-----------------------------------------------------------------------------
(* Pipes.  A process has an end of the pipe open exactly where its place
   says so.  If all that are left waited, then a writer would wait for a
   reader that waits for a cell, and the pipe would be full and empty; a
   reader would wait for an end that only a writer in write has open; and a
   parent would wait for a child that does.  Each step leads closer to the
   end, so that not to be stuck is to come there.                           *)

(* The ends of the pipe that a process has open are those its place says.  *)
BothOpen == {"fork1", "fork2", "close"}

PipePlaces == BothOpen \cup {"read", "write", "closeOwn", "wait"} \cup Stopped

PlacesSound ==
    /\ pipeJob \in {"pf", "cf", "oversize"}
    /\ place \in [Processes -> PipePlaces]
    /\ place["parent"] # "unborn"
    /\ place["parent"] = "fork1" => place["child1"] = "unborn"
    /\ place["parent"] \in {"fork1", "fork2"} => place["child2"] = "unborn"
    /\ place["parent"] = "fork2" => pipeJob = "oversize"
    /\ \A p \in Processes :
         /\ p \notin Children \cup {"parent"} => place[p] = "unborn"
         /\ place[p] \in {"fork1", "fork2"} => p = "parent"
         /\ place[p] = "wait" => p = "parent" /\ pipeJob = "oversize"
         /\ place[p] = "read" => p = Reader
         /\ place[p] = "write" => p # Reader

EndsSound ==
    /\ readEnd \subseteq Processes /\ writeEnd \subseteq Processes
    /\ \A p \in Processes :
         /\ p \in readEnd <=> \/ place[p] \in BothOpen
                              \/ p = Reader /\ place[p] \in {"read", "closeOwn"}
         /\ p \in writeEnd <=> \/ place[p] \in BothOpen
                               \/ p # Reader /\ place[p] \in {"write", "closeOwn"}

CellsIn == /\ pipe \in Seq(Processes) /\ shown \in Seq(Processes)
           /\ Len(pipe) <= PipeSize
           /\ wrote \in [Processes -> Nat]

(* No cell is lost on its way.                                             *)
CellsKept == \A w \in Writers : Of(Named(w), shown \o pipe) = wrote[w]

(* How many cells a writer has written, and that none comes any more when
   the reader has stopped reading.                                         *)
CellsWritten ==
    /\ \A p \in Processes : /\ wrote[p] <= ToWrite
                            /\ place[p] = "write" => wrote[p] < ToWrite
    /\ \A w \in Writers :
         /\ place[w] \in BothOpen \cup {"unborn"} => wrote[w] = 0
         /\ place[w] = "closeOwn" => wrote[w] = ToWrite
         /\ place[w] = "end" => wrote[w] = ToWrite \/ place[Reader] = "unborn"
         /\ pipeJob # "oversize" => Len(pipe) <= wrote[w]
    /\ place[Reader] \in {"closeOwn", "wait", "end"} =>
         /\ pipe = <<>>
         /\ \A w \in Writers : place[w] \notin BothOpen \cup {"write"}

CellsSound == CellsIn /\ CellsKept /\ CellsWritten

PipesInv == PlacesSound /\ EndsSound /\ CellsSound

(* The processes that a program has.                                       *)
LEMMA ProcessFacts ==
    ASSUME pipeJob \in {"pf", "cf", "oversize"}
    PROVE  /\ Reader \in Processes /\ Children \subseteq Processes
           /\ Writers \subseteq Processes /\ Reader \notin Writers
           /\ \A w \in Writers : Named(w) \in Processes
           /\ \A v, w \in Writers : Named(v) = Named(w) => v = w
           /\ ToWrite \in Nat /\ ToWrite > 0 /\ ToWrite <= Oversize
           /\ Oversize \in Nat /\ PipeSize \in Nat /\ PipeSize > 0
           /\ pipeJob # "oversize" => ToWrite = 1
  BY PipesAssumption DEF Reader, Children, Writers, Processes, Named, ToWrite

(* The cells of one writer.                                                *)
LEMMA OfEmpty == \A c : Of(c, <<>>) = 0
<1> TAKE c
<1>1. {i \in DOMAIN <<>> : <<>>[i] = c} = {}
  OBVIOUS
<1> QED BY <1>1, FS_EmptySet DEF Of

LEMMA OfAppend ==
    ASSUME NEW S, NEW s \in Seq(S), NEW x \in S
    PROVE  \A c : /\ Of(c, s) \in Nat
                  /\ Of(c, Append(s, x)) = IF x = c THEN Of(c, s) + 1 ELSE Of(c, s)
<1> TAKE c
<1> DEFINE A == {i \in DOMAIN s : s[i] = c}
           t == Append(s, x)
           B == {i \in DOMAIN t : t[i] = c}
<1>1. DOMAIN s = 1..Len(s) /\ Len(s) \in Nat /\ DOMAIN t = 1..Len(s) + 1
  OBVIOUS
<1>2. t[Len(s) + 1] = x /\ \A i \in 1..Len(s) : t[i] = s[i]
  OBVIOUS
<1>3. IsFiniteSet(A) /\ Cardinality(A) \in Nat
  <2>1. IsFiniteSet(1..Len(s)) /\ A \subseteq 1..Len(s)
    BY <1>1, FS_Interval
  <2> QED BY <2>1, FS_Subset, FS_CardinalityType
<1>4. Len(s) + 1 \notin A
  BY <1>1
<1> HIDE DEF t
<1>5. B = IF x = c THEN A \cup {Len(s) + 1} ELSE A
  BY <1>1, <1>2
<1>6. Cardinality(B) = IF x = c THEN Cardinality(A) + 1 ELSE Cardinality(A)
  <2> HIDE DEF A, B
  <2> QED BY <1>3, <1>4, <1>5, FS_AddElement
<1>7. Of(c, s) = Cardinality(A) /\ Of(c, t) = Cardinality(B)
  BY DEF Of
<1> QED BY <1>3, <1>6, <1>7 DEF t

LEMMA PipesStart == ASSUME NEW j \in {"pf", "cf", "oversize"}, PipeStart(j)
                    PROVE PipesInv
<1>1. pipeJob \in {"pf", "cf", "oversize"} /\ pipe = <<>> /\ shown = <<>>
      /\ readEnd = {"parent"} /\ writeEnd = {"parent"}
      /\ place = [p \in Processes |-> IF p = "parent" THEN "fork1" ELSE "unborn"]
      /\ wrote = [p \in Processes |-> 0]
  BY DEF PipeStart
<1>2. PlacesSound
  BY <1>1 DEF PlacesSound, PipePlaces, BothOpen, Stopped, Processes
<1>3. EndsSound
  BY <1>1 DEF EndsSound, BothOpen, Processes
<1>4. CellsIn
  BY <1>1, ProcessFacts DEF CellsIn
<1>5. CellsKept
  <2>1. shown \o pipe = <<>>
    BY <1>1
  <2> QED BY <1>1, <2>1, OfEmpty, ProcessFacts DEF CellsKept
<1>6. CellsWritten
  <2>1. \A p \in Processes : wrote[p] = 0 /\ place[p] \in {"fork1", "unborn"}
    BY <1>1
  <2>2. Len(pipe) = 0
    BY <1>1
  <2> QED BY <1>1, <2>1, <2>2, ProcessFacts DEF CellsWritten
<1> QED BY <1>2, <1>3, <1>4, <1>5, <1>6 DEF PipesInv, CellsSound

(* Nothing is written or read.                                             *)
LEMMA CellsStay ==
    ASSUME CellsIn, CellsKept, UNCHANGED <<pipeJob, pipe, shown, wrote>>
    PROVE  CellsIn' /\ CellsKept'
<1>1. Writers' = Writers /\ \A w : Named(w)' = Named(w)
  BY DEF Writers, Children, Named
<1> QED BY <1>1 DEF CellsIn, CellsKept, Of

LEMMA ForkKeeps ==
    ASSUME PipesInv,
           NEW c \in {"child1", "child2"}, NEW here, NEW next,
           Fork(c, here, next),
           \/ c = "child1" /\ here = "fork1"
              /\ next = IF pipeJob = "oversize" THEN "fork2" ELSE "close"
           \/ c = "child2" /\ here = "fork2" /\ next = "close"
    PROVE  PipesInv'
<1>1. /\ pipeJob \in {"pf", "cf", "oversize"} /\ c \in Processes
      /\ c \in Children
      /\ place["parent"] = here /\ place[c] = "unborn" /\ "parent" \in Processes
      /\ here \in {"fork1", "fork2"}
      /\ here = "fork2" => pipeJob = "oversize"
  BY DEF PipesInv, PlacesSound, Fork, Processes
<1>2. UNCHANGED <<pipeJob, pipe, shown, wrote>>
  BY DEF Fork
<1>3. Reader' = Reader /\ Children' = Children /\ Writers' = Writers /\ ToWrite' = ToWrite
  BY <1>2 DEF Reader, Children, Writers, ToWrite
<1>4. CellsIn' /\ CellsKept'
  BY <1>2, CellsStay DEF PipesInv, CellsSound
<1>5. \/ /\ \A p \in Processes : place'[p] = IF p = "parent" THEN next
                                             ELSE IF p = c THEN "close" ELSE place[p]
         /\ readEnd' = readEnd \cup {c} /\ writeEnd' = writeEnd \cup {c}
      \/ /\ \A p \in Processes : place'[p] = IF p = "parent" THEN next ELSE place[p]
         /\ readEnd' = readEnd /\ writeEnd' = writeEnd /\ pipeJob = "oversize"
      \/ /\ \A p \in Processes : place'[p] = IF p = "parent" THEN "end" ELSE place[p]
         /\ readEnd' = {} /\ writeEnd' = {} /\ pipeJob # "oversize"
  BY DEF Fork, Go, PipesInv, PlacesSound
<1>6. place' \in [Processes -> PipePlaces]
  BY <1>1 DEF Fork, Go, PipesInv, PlacesSound, PipePlaces, BothOpen, Stopped
<1>7. PlacesSound'
  BY <1>1, <1>2, <1>3, <1>5, <1>6 DEF PipesInv, PlacesSound, Processes
<1>8. EndsSound'
  BY <1>1, <1>3, <1>5 DEF PipesInv, PlacesSound, EndsSound, Processes, Children, BothOpen
<1>9. CellsWritten'
  BY <1>1, <1>2, <1>3, <1>5 DEF PipesInv, PlacesSound, CellsSound, CellsWritten,
     Processes, Children, Writers, Reader, BothOpen
<1> QED BY <1>4, <1>7, <1>8, <1>9 DEF PipesInv, CellsSound

(* A process goes on, with no cell written or read.                        *)
LEMMA CloseOtherKeeps ==
    ASSUME PipesInv, NEW p \in Processes, CloseOther(p)
    PROVE  PipesInv'
<1>1. /\ pipeJob \in {"pf", "cf", "oversize"} /\ place[p] = "close"
      /\ UNCHANGED <<pipeJob, pipe, shown, wrote>>
  BY DEF PipesInv, PlacesSound, CloseOther
<1>2. Reader' = Reader /\ Children' = Children /\ Writers' = Writers /\ ToWrite' = ToWrite
  BY <1>1 DEF Reader, Children, Writers, ToWrite
<1>3. CellsIn' /\ CellsKept'
  BY <1>1, CellsStay DEF PipesInv, CellsSound
<1>4. /\ place' \in [Processes -> PipePlaces]
      /\ \A q \in Processes : place'[q] = IF q # p THEN place[q]
                                          ELSE IF p = Reader THEN "read" ELSE "write"
  BY DEF CloseOther, Go, PipesInv, PlacesSound, PipePlaces
<1>5. PlacesSound'
  BY <1>1, <1>2, <1>4 DEF PipesInv, PlacesSound, Processes
<1>6. EndsSound'
  BY <1>1, <1>2, <1>4 DEF PipesInv, EndsSound, CloseOther, BothOpen
<1>7. CellsWritten'
  <2>1. wrote[p] = 0 \/ p \notin Writers
    BY <1>1 DEF PipesInv, CellsSound, CellsWritten, BothOpen
  <2>2. p \in Writers \/ p = Reader
    BY <1>1 DEF PipesInv, PlacesSound, Writers, Reader, Children, Processes
  <2> QED BY <1>1, <1>2, <1>4, <2>1, <2>2, ProcessFacts
          DEF PipesInv, CellsSound, CellsWritten, BothOpen
<1> QED BY <1>3, <1>5, <1>6, <1>7 DEF PipesInv, CellsSound

LEMMA CloseOwnKeeps ==
    ASSUME PipesInv, NEW p \in Processes, CloseOwn(p)
    PROVE  PipesInv'
<1>1. /\ pipeJob \in {"pf", "cf", "oversize"} /\ place[p] = "closeOwn"
      /\ UNCHANGED <<pipeJob, pipe, shown, wrote>>
  BY DEF PipesInv, PlacesSound, CloseOwn
<1>2. Reader' = Reader /\ Children' = Children /\ Writers' = Writers /\ ToWrite' = ToWrite
  BY <1>1 DEF Reader, Children, Writers, ToWrite
<1>3. CellsIn' /\ CellsKept'
  BY <1>1, CellsStay DEF PipesInv, CellsSound
<1>4. /\ place' \in [Processes -> PipePlaces]
      /\ \A q \in Processes : place'[q] = IF q # p THEN place[q]
                       ELSE IF pipeJob = "oversize" /\ p = "parent" THEN "wait" ELSE "end"
  BY DEF CloseOwn, Go, PipesInv, PlacesSound, PipePlaces, Stopped
<1>5. PlacesSound'
  BY <1>1, <1>2, <1>4 DEF PipesInv, PlacesSound, Processes
<1>6. EndsSound'
  BY <1>1, <1>2, <1>4 DEF PipesInv, EndsSound, CloseOwn, BothOpen
<1>7. CellsWritten'
  BY <1>1, <1>2, <1>4, ProcessFacts DEF PipesInv, CellsSound, CellsWritten, BothOpen
<1> QED BY <1>3, <1>5, <1>6, <1>7 DEF PipesInv, CellsSound

LEMMA KillKeeps ==
    ASSUME PipesInv, Kill
    PROVE  PipesInv'
<1>1. PICK p \in Processes :
          /\ place[p] \notin Stopped
          /\ place' = [place EXCEPT ![p] = "killed"]
          /\ readEnd' = readEnd \ {p} /\ writeEnd' = writeEnd \ {p}
          /\ UNCHANGED <<pipeJob, pipe, wrote, shown>>
  BY DEF Kill, Go
<1>2. Reader' = Reader /\ Children' = Children /\ Writers' = Writers /\ ToWrite' = ToWrite
  BY <1>1 DEF Reader, Children, Writers, ToWrite
<1>3. CellsIn' /\ CellsKept' /\ pipeJob \in {"pf", "cf", "oversize"}
  BY <1>1, CellsStay DEF PipesInv, CellsSound, PlacesSound
<1>4. /\ place' \in [Processes -> PipePlaces]
      /\ \A q \in Processes : place'[q] = IF q = p THEN "killed" ELSE place[q]
  BY <1>1 DEF PipesInv, PlacesSound, PipePlaces, Stopped
<1>5. PlacesSound'
  BY <1>1, <1>2, <1>4 DEF PipesInv, PlacesSound, Processes, Stopped
<1>6. EndsSound'
  BY <1>1, <1>2, <1>4 DEF PipesInv, EndsSound, BothOpen
<1>7. CellsWritten'
  BY <1>1, <1>2, <1>3, <1>4, ProcessFacts
     DEF PipesInv, CellsSound, CellsWritten, BothOpen, Stopped
<1> QED BY <1>3, <1>5, <1>6, <1>7 DEF PipesInv, CellsSound

LEMMA WaitKeeps ==
    ASSUME PipesInv, WaitChildren
    PROVE  PipesInv'
<1>1. /\ pipeJob = "oversize" /\ place["parent"] = "wait" /\ "parent" \in Processes
      /\ UNCHANGED <<pipeJob, pipe, shown, wrote, readEnd, writeEnd>>
      /\ place' = [place EXCEPT !["parent"] = "end"]
  BY DEF PipesInv, PlacesSound, WaitChildren, Go, Processes
<1>2. Reader' = Reader /\ Children' = Children /\ Writers' = Writers /\ ToWrite' = ToWrite
      /\ Reader = "parent"
  BY <1>1 DEF Reader, Children, Writers, ToWrite
<1>3. CellsIn' /\ CellsKept'
  BY <1>1, CellsStay DEF PipesInv, CellsSound
<1>4. /\ place' \in [Processes -> PipePlaces]
      /\ \A q \in Processes : place'[q] = IF q = "parent" THEN "end" ELSE place[q]
  BY <1>1 DEF PipesInv, PlacesSound, PipePlaces, Stopped
<1>5. PlacesSound'
  BY <1>1, <1>2, <1>4 DEF PipesInv, PlacesSound, Processes
<1>6. EndsSound'
  BY <1>1, <1>2, <1>4 DEF PipesInv, EndsSound, BothOpen
<1>7. CellsWritten'
  BY <1>1, <1>2, <1>4, ProcessFacts DEF PipesInv, CellsSound, CellsWritten, BothOpen
<1> QED BY <1>3, <1>5, <1>6, <1>7 DEF PipesInv, CellsSound

LEMMA WritePipeKeeps ==
    ASSUME PipesInv, NEW p \in Processes, WritePipe(p)
    PROVE  PipesInv'
<1>1. /\ pipeJob \in {"pf", "cf", "oversize"} /\ place[p] = "write"
      /\ UNCHANGED <<pipeJob, shown, readEnd>>
  BY DEF PipesInv, PlacesSound, WritePipe
<1>2. /\ Reader' = Reader /\ Children' = Children /\ Writers' = Writers
      /\ ToWrite' = ToWrite /\ \A w : Named(w)' = Named(w)
  BY <1>1 DEF Reader, Children, Writers, ToWrite, Named
<1>3. p \in Writers /\ p # Reader
  BY <1>1 DEF PipesInv, PlacesSound, Writers, Reader, Children, Processes
<1>4. CASE readEnd = {}
  <2>1. /\ UNCHANGED <<pipe, wrote>> /\ writeEnd' = writeEnd \ {p}
        /\ place' = [place EXCEPT ![p] = "killed"]
    BY <1>4 DEF WritePipe, Go
  <2>2. /\ place' \in [Processes -> PipePlaces]
        /\ \A q \in Processes : place'[q] = IF q = p THEN "killed" ELSE place[q]
    BY <2>1 DEF PipesInv, PlacesSound, PipePlaces, Stopped
  <2>3. PlacesSound'
    BY <1>1, <1>2, <2>2 DEF PipesInv, PlacesSound, Processes
  <2>4. EndsSound'
    BY <1>1, <1>2, <1>3, <2>1, <2>2 DEF PipesInv, EndsSound, BothOpen
  <2>5. CellsWritten'
    BY <1>1, <1>2, <2>1, <2>2, ProcessFacts DEF PipesInv, CellsSound, CellsWritten, BothOpen
  <2>6. CellsIn' /\ CellsKept'
    BY <1>1, <2>1, CellsStay DEF PipesInv, CellsSound
  <2> QED BY <2>3, <2>4, <2>5, <2>6 DEF PipesInv, CellsSound
<1>5. CASE readEnd # {}
  <2>1. /\ Len(pipe) < PipeSize /\ pipe' = Append(pipe, Named(p))
        /\ wrote' = [wrote EXCEPT ![p] = @ + 1] /\ writeEnd' = writeEnd
        /\ place' = [place EXCEPT ![p] = IF wrote'[p] = ToWrite THEN "closeOwn" ELSE "write"]
    BY <1>5 DEF WritePipe, Go
  <2>2. /\ place' \in [Processes -> PipePlaces]
        /\ \A q \in Processes : place'[q] = IF q # p THEN place[q]
                                 ELSE IF wrote'[p] = ToWrite THEN "closeOwn" ELSE "write"
    BY <2>1 DEF PipesInv, PlacesSound, PipePlaces
  <2>3. /\ wrote \in [Processes -> Nat] /\ wrote' \in [Processes -> Nat]
        /\ \A q \in Processes : wrote'[q] = IF q = p THEN wrote[q] + 1 ELSE wrote[q]
        /\ pipe \in Seq(Processes) /\ shown \in Seq(Processes)
        /\ Named(p) \in Processes /\ Len(pipe) \in Nat
    <3>1. wrote \in [Processes -> Nat] /\ pipe \in Seq(Processes) /\ shown \in Seq(Processes)
      BY DEF PipesInv, CellsSound, CellsIn
    <3>2. Named(p) \in Processes
      BY <1>1, <1>3, ProcessFacts
    <3> QED BY <2>1, <3>1, <3>2
  <2>4. PlacesSound'
    BY <1>1, <1>2, <2>2 DEF PipesInv, PlacesSound, Processes
  <2>5. EndsSound'
    BY <1>1, <1>2, <1>3, <2>1, <2>2 DEF PipesInv, EndsSound, BothOpen
  <2>6. pipe' \in Seq(Processes) /\ Len(pipe') = Len(pipe) + 1
    BY <2>1, <2>3, AppendProperties
  <2>7. CellsIn'
    BY <1>1, <2>1, <2>3, <2>6, ProcessFacts DEF CellsIn
  <2>8. CellsKept'
    <3>1. shown' \o pipe' = Append(shown \o pipe, Named(p)) /\ shown \o pipe \in Seq(Processes)
      BY <1>1, <2>1, <2>3
    <3>2. \A w \in Writers : Of(Named(w), shown' \o pipe') = wrote'[w]
      <4> TAKE w \in Writers
      <4>1. Of(Named(w), shown \o pipe) = wrote[w]
        BY DEF PipesInv, CellsSound, CellsKept
      <4>2. Named(p) = Named(w) <=> w = p
        BY <1>1, <1>3, ProcessFacts
      <4>3. w \in Processes
        BY <1>1, ProcessFacts
      <4>4. Of(Named(w), Append(shown \o pipe, Named(p)))
              = IF w = p THEN Of(Named(w), shown \o pipe) + 1 ELSE Of(Named(w), shown \o pipe)
        <5>1. \A s \in Seq(Processes), x \in Processes : \A c :
                 Of(c, Append(s, x)) = IF x = c THEN Of(c, s) + 1 ELSE Of(c, s)
          BY OfAppend
        <5>2. Of(Named(w), Append(shown \o pipe, Named(p)))
                = IF Named(p) = Named(w) THEN Of(Named(w), shown \o pipe) + 1
                  ELSE Of(Named(w), shown \o pipe)
          BY <2>3, <3>1, <5>1, Zenon
        <5> QED BY <4>2, <5>2, Zenon
      <4>5. wrote'[w] = IF w = p THEN wrote[w] + 1 ELSE wrote[w]
        BY <2>3, <4>3
      <4> QED BY <3>1, <4>1, <4>4, <4>5, Zenon
    <3> QED BY <1>2, <3>2 DEF CellsKept, Of
  <2>9. CellsWritten'
    <3>1. wrote[p] < ToWrite /\ \A q \in Processes : wrote[q] <= ToWrite
      BY <1>1 DEF PipesInv, CellsSound, CellsWritten
    <3>2. \A q \in Processes : /\ wrote'[q] <= ToWrite
                               /\ place'[q] = "write" => wrote'[q] < ToWrite
      <4>1. ToWrite \in Nat
        BY <1>1, ProcessFacts
      <4>2. \A q \in Processes : place[q] = "write" => wrote[q] < ToWrite
        BY DEF PipesInv, CellsSound, CellsWritten
      <4>3. ASSUME NEW q \in Processes, q = p
            PROVE  wrote'[q] <= ToWrite /\ (place'[q] = "write" => wrote'[q] < ToWrite)
        <5>1. wrote'[p] = wrote[p] + 1 /\ wrote[p] \in Nat
          BY <2>3
        <5>2. place'[p] = "write" => wrote'[p] # ToWrite
          BY <2>2
        <5> QED BY <3>1, <4>1, <4>3, <5>1, <5>2
      <4>4. ASSUME NEW q \in Processes, q # p
            PROVE  wrote'[q] <= ToWrite /\ (place'[q] = "write" => wrote'[q] < ToWrite)
        BY <2>2, <2>3, <3>1, <4>2, <4>4
      <4> QED BY <4>3, <4>4
    <3>3. place'[Reader] = place[Reader] /\ place[Reader] \notin {"closeOwn", "wait", "end"}
      BY <1>1, <1>3, <2>2, ProcessFacts DEF PipesInv, CellsSound, CellsWritten
    <3>4. ASSUME NEW w \in Writers
          PROVE  /\ place'[w] \in BothOpen \cup {"unborn"} => wrote'[w] = 0
                 /\ place'[w] = "closeOwn" => wrote'[w] = ToWrite
                 /\ place'[w] = "end" => wrote'[w] = ToWrite \/ place'[Reader] = "unborn"
                 /\ pipeJob # "oversize" => Len(pipe') <= wrote'[w]
      <4>1. w \in Processes /\ ToWrite \in Nat
        BY <1>1, ProcessFacts
      <4>2. CASE w = p
        <5>1. pipeJob # "oversize" => Len(pipe) <= wrote[p]
          BY <1>3 DEF PipesInv, CellsSound, CellsWritten
        <5>2. place'[p] \in {"write", "closeOwn"}
              /\ (place'[p] = "closeOwn" => wrote'[p] = ToWrite)
          BY <2>2
        <5>3. wrote'[p] = wrote[p] + 1 /\ wrote[p] \in Nat
          BY <2>3
        <5>4. pipeJob # "oversize" => Len(pipe') <= wrote'[p]
          BY <2>3, <2>6, <5>1, <5>3
        <5> QED BY <4>2, <5>2, <5>4 DEF BothOpen
      <4>3. CASE w # p
        <5>1. pipeJob = "oversize"
          BY <1>1, <1>3, <4>3 DEF Writers, Children
        <5> QED BY <2>2, <2>3, <3>3, <4>1, <4>3, <5>1
                DEF PipesInv, CellsSound, CellsWritten
      <4> QED BY <4>2, <4>3
    <3> QED BY <1>1, <1>2, <3>2, <3>3, <3>4 DEF CellsWritten
  <2> QED BY <2>4, <2>5, <2>7, <2>8, <2>9 DEF PipesInv, CellsSound
<1> QED BY <1>4, <1>5

LEMMA ReadPipeKeeps ==
    ASSUME PipesInv, NEW p \in Processes, ReadPipe(p)
    PROVE  PipesInv'
<1>1. /\ pipeJob \in {"pf", "cf", "oversize"} /\ place[p] = "read"
      /\ UNCHANGED <<pipeJob, readEnd, writeEnd, wrote>>
      /\ p = Reader
  BY DEF PipesInv, PlacesSound, ReadPipe
<1>2. /\ Reader' = Reader /\ Children' = Children /\ Writers' = Writers
      /\ ToWrite' = ToWrite /\ \A w : Named(w)' = Named(w)
  BY <1>1 DEF Reader, Children, Writers, ToWrite, Named
<1>3. pipe \in Seq(Processes) /\ shown \in Seq(Processes) /\ Len(pipe) \in Nat
      /\ wrote \in [Processes -> Nat] /\ Len(pipe) <= PipeSize
  BY DEF PipesInv, CellsSound, CellsIn
<1>4. /\ place' \in [Processes -> PipePlaces]
      /\ \A q \in Processes :
            place'[q] = IF q # p THEN place[q]
                        ELSE IF pipeJob = "oversize" /\ pipe # <<>> THEN "read" ELSE "closeOwn"
  BY DEF ReadPipe, Go, PipesInv, PlacesSound, PipePlaces
<1>5. PlacesSound'
  BY <1>1, <1>2, <1>4 DEF PipesInv, PlacesSound, Processes
<1>6. EndsSound'
  BY <1>1, <1>2, <1>4 DEF PipesInv, EndsSound, BothOpen
<1>7. /\ pipe' \in Seq(Processes) /\ shown' \in Seq(Processes)
      /\ shown' \o pipe' = shown \o pipe
      /\ Len(pipe') <= Len(pipe) /\ Len(pipe') \in Nat
      /\ pipe # <<>> => Len(pipe') < Len(pipe)
      /\ pipe = <<>> => pipe' = <<>>
  <2>1. CASE pipe = <<>>
    <3>1. UNCHANGED <<shown, pipe>>
      BY <2>1 DEF ReadPipe
    <3> QED BY <1>3, <2>1, <3>1
  <2>2. CASE pipe # <<>>
    <3>1. PICK n \in 1..Len(pipe) : /\ shown' = shown \o SubSeq(pipe, 1, n)
                                    /\ pipe' = SubSeq(pipe, n + 1, Len(pipe))
      BY <2>2 DEF ReadPipe
    <3>2. /\ SubSeq(pipe, 1, n) \in Seq(Processes)
          /\ SubSeq(pipe, n + 1, Len(pipe)) \in Seq(Processes)
          /\ Len(SubSeq(pipe, n + 1, Len(pipe))) = Len(pipe) - n
      BY <1>3
    <3>3. SubSeq(pipe, 1, n) \o SubSeq(pipe, n + 1, Len(pipe)) = pipe
      BY <1>3
    <3>4. shown' \o pipe' = shown \o (SubSeq(pipe, 1, n) \o SubSeq(pipe, n + 1, Len(pipe)))
      <4>1. \A s, u, v \in Seq(Processes) : (s \o u) \o v = s \o (u \o v)
        BY ConcatAssociative
      <4> QED BY <1>3, <3>1, <3>2, <4>1, Zenon
    <3>5. shown' \in Seq(Processes)
      <4>1. \A s, u \in Seq(Processes) : s \o u \in Seq(Processes)
        BY ConcatProperties
      <4> QED BY <1>3, <3>1, <3>2, <4>1, Zenon
    <3>6. shown' \o pipe' = shown \o pipe
      BY <3>3, <3>4
    <3>7. Len(pipe') = Len(pipe) - n /\ pipe' \in Seq(Processes)
      BY <3>1, <3>2
    <3> QED BY <1>3, <2>2, <3>5, <3>6, <3>7
  <2> QED BY <2>1, <2>2
<1>8. CellsIn'
  BY <1>1, <1>3, <1>7, PipesAssumption DEF CellsIn
<1>9. CellsKept'
  <2>1. \A w \in Writers : Of(Named(w), shown' \o pipe') = wrote'[w]
    BY <1>1, <1>7 DEF PipesInv, CellsSound, CellsKept
  <2> QED BY <1>2, <2>1 DEF CellsKept, Of
<1>10. CellsWritten'
  <2>1. \A w \in Writers : w # p /\ w \in Processes /\ place'[w] = place[w]
    BY <1>1, <1>4, ProcessFacts
  <2>2. \A q \in Processes : place'[q] = "write" => place[q] = "write"
    BY <1>4
  <2>3. ASSUME place'[Reader] \in {"closeOwn", "wait", "end"}
        PROVE  pipe' = <<>> /\ \A w \in Writers : place[w] \notin BothOpen \cup {"write"}
    <3>1. pipeJob # "oversize" \/ pipe = <<>>
      BY <1>1, <1>4, <2>3
    <3>2. CASE pipe = <<>>
      <4>1. writeEnd = {}
        BY <3>2 DEF ReadPipe
      <4> QED BY <1>1, <1>7, <2>1, <3>2, <4>1, ProcessFacts DEF PipesInv, EndsSound
    <3>3. CASE pipe # <<>>
      <4>1. pipeJob # "oversize" /\ ToWrite = 1
        BY <1>1, <3>1, <3>3, ProcessFacts
      <4>2. \A w \in Writers : Len(pipe) <= wrote[w] /\ wrote[w] <= 1
        BY <1>1, <2>1, <4>1 DEF PipesInv, CellsSound, CellsWritten
      <4>3. Len(pipe) > 0
        BY <1>3, <3>3
      <4>4. \E w \in Writers : TRUE
        BY <1>1, <4>1 DEF Writers, Children
      <4>5. Len(pipe') = 0 /\ \A w \in Writers : wrote[w] = 1
        BY <1>3, <1>7, <2>1, <3>3, <4>2, <4>3, <4>4
      <4>6. pipe' = <<>>
        BY <1>7, <4>5
      <4> QED BY <1>1, <2>1, <4>1, <4>5, <4>6 DEF PipesInv, CellsSound, CellsWritten
    <3> QED BY <3>2, <3>3
  <2>4. \A w \in Writers : pipeJob # "oversize" => Len(pipe') <= wrote[w]
    <3> SUFFICES ASSUME NEW w \in Writers, pipeJob # "oversize"
                 PROVE  Len(pipe') <= wrote[w]
      OBVIOUS
    <3>1. Len(pipe) <= wrote[w] /\ wrote[w] \in Nat
      BY <1>3, <2>1 DEF PipesInv, CellsSound, CellsWritten
    <3> QED BY <1>3, <1>7, <3>1
  <2>5. place[Reader] # "unborn" /\ place'[Reader] # "unborn"
    BY <1>1, <1>4
  <2> QED BY <1>1, <1>2, <2>1, <2>2, <2>3, <2>4, <2>5
          DEF PipesInv, CellsSound, CellsWritten
<1> QED BY <1>5, <1>6, <1>8, <1>9, <1>10 DEF PipesInv, CellsSound

LEMMA PipesKeep == ASSUME PipesInv, PipeStep \/ Kill PROVE PipesInv'
<1>1. CASE Forks
  <2>1. CASE Fork("child1", "fork1", IF pipeJob = "oversize" THEN "fork2" ELSE "close")
    BY <2>1, ForkKeeps
  <2>2. CASE Fork("child2", "fork2", "close")
    BY <2>2, ForkKeeps
  <2> QED BY <1>1, <2>1, <2>2 DEF Forks
<1>2. CASE \E p \in Processes : CloseOther(p) \/ WritePipe(p) \/ ReadPipe(p) \/ CloseOwn(p)
  BY <1>2, CloseOtherKeeps, WritePipeKeeps, ReadPipeKeeps, CloseOwnKeeps
<1> QED BY <1>1, <1>2, KillKeeps, WaitKeeps DEF PipeStep

LEMMA PipesStay == ASSUME PipesInv, UNCHANGED pipeVars PROVE PipesInv'
<1>1. UNCHANGED <<pipeJob, place, readEnd, writeEnd, pipe, wrote, shown>>
  BY DEF pipeVars
<1>2. /\ Reader' = Reader /\ Children' = Children /\ Writers' = Writers
      /\ ToWrite' = ToWrite
  BY <1>1 DEF Reader, Children, Writers, ToWrite
<1>3. CellsIn' /\ CellsKept'
  BY <1>1, CellsStay DEF PipesInv, CellsSound
<1>4. PlacesSound' /\ EndsSound' /\ CellsWritten'
  BY <1>1, <1>2 DEF PipesInv, CellsSound, PlacesSound, EndsSound, CellsWritten
<1> QED BY <1>3, <1>4 DEF PipesInv, CellsSound

(* What the parts of the invariant are for.                                *)
LEMMA PipesMean == PipesInv => NoCircularWait /\ NothingUnread
<1> SUFFICES ASSUME PipesInv PROVE NoCircularWait /\ NothingUnread
  OBVIOUS
<1>1. pipeJob \in {"pf", "cf", "oversize"}
  BY DEF PipesInv, PlacesSound
<1>2. NoCircularWait
  <2> SUFFICES ASSUME \A p \in Processes : place[p] \in Stopped \/ Waits(p),
                      NEW p \in Processes, place[p] \notin Stopped
               PROVE  FALSE
    BY DEF NoCircularWait
  <2>1. \A q \in Processes : place[q] \in Stopped \cup {"read", "write", "wait"}
    BY DEF Waits
  <2>2. ASSUME NEW q \in Processes, place[q] = "write" PROVE FALSE
    <3>1. readEnd # {} /\ Len(pipe) = PipeSize
      BY <2>2 DEF Waits, Stopped
    <3>2. Reader \in Processes /\ place[Reader] = "read"
      BY <1>1, <2>1, <3>1, ProcessFacts DEF PipesInv, EndsSound, BothOpen, Stopped
    <3>3. pipe = <<>>
      BY <3>2 DEF Waits, Stopped
    <3> QED BY <3>1, <3>3, PipesAssumption
  <2>3. ASSUME NEW q \in Processes, place[q] = "read" PROVE FALSE
    <3>1. writeEnd # {}
      BY <2>3 DEF Waits, Stopped
    <3> QED BY <2>1, <2>2, <3>1 DEF PipesInv, EndsSound, BothOpen, Stopped
  <2>4. ASSUME NEW q \in Processes, place[q] = "wait" PROVE FALSE
    <3>1. PICK c \in Children : place[c] \notin Stopped
      BY <2>4 DEF Waits, Stopped
    <3>2. c \in Processes /\ c # "parent"
      BY <1>1, ProcessFacts DEF Children
    <3>3. place[c] # "wait"
      BY <3>2 DEF PipesInv, PlacesSound
    <3> QED BY <2>1, <2>2, <2>3, <3>1, <3>2, <3>3
  <2> QED BY <2>1, <2>2, <2>3, <2>4
<1>3. NothingUnread
  <2> SUFFICES ASSUME place[Reader] = "end", NEW w \in Writers, place[w] = "end"
               PROVE  Of(Named(w), shown) = ToWrite
    BY DEF NothingUnread
  <2>1. pipe = <<>> /\ wrote[w] = ToWrite
    BY DEF PipesInv, CellsSound, CellsWritten
  <2>2. shown \in Seq(Processes) /\ Of(Named(w), shown \o pipe) = wrote[w]
    BY DEF PipesInv, CellsSound, CellsIn, CellsKept
  <2>3. shown \o pipe = shown
    BY <2>1, <2>2
  <2> QED BY <2>1, <2>2, <2>3
<1> QED BY <1>2, <1>3

(* How many steps a process has before it at most, when it is at a place. *)
StepsFrom == [here \in PipePlaces |->
                CASE here = "fork1" -> 7
                  [] here \in {"fork2", "unborn"} -> 6
                  [] here = "close" -> 5
                  [] here \in {"read", "write"} -> 4
                  [] here = "closeOwn" -> 3
                  [] here = "wait" -> 2
                  [] here \in {"end", "killed"} -> 0]

(* A cell that is still to be written is a write and a read.               *)
StepsOf(p) == StepsFrom[place[p]] + 2 * (Oversize - wrote[p])

StepsLeft == StepsOf("parent") + StepsOf("child1") + StepsOf("child2") + Len(pipe)

LEMMA StepsAre ==
    /\ StepsFrom["fork1"] = 7 /\ StepsFrom["fork2"] = 6 /\ StepsFrom["unborn"] = 6
    /\ StepsFrom["close"] = 5 /\ StepsFrom["read"] = 4 /\ StepsFrom["write"] = 4
    /\ StepsFrom["closeOwn"] = 3 /\ StepsFrom["wait"] = 2
    /\ StepsFrom["end"] = 0 /\ StepsFrom["killed"] = 0
    /\ \A here \in PipePlaces : StepsFrom[here] \in Nat
                                /\ (here \notin Stopped => StepsFrom[here] > 0)
  BY DEF StepsFrom, PipePlaces, BothOpen, Stopped

LEMMA StepsCount ==
    ASSUME PipesInv
    PROVE  /\ \A p \in Processes : /\ StepsFrom[place[p]] \in Nat
                                   /\ wrote[p] \in Nat /\ wrote[p] <= Oversize
                                   /\ StepsOf(p) \in Nat
           /\ Oversize \in Nat /\ Len(pipe) \in Nat /\ StepsLeft \in Nat
<1>1. Oversize \in Nat /\ ToWrite \in Nat /\ ToWrite <= Oversize
  BY ProcessFacts DEF PipesInv, PlacesSound
<1>2. Len(pipe) \in Nat
  BY DEF PipesInv, CellsSound, CellsIn
<1>3. ASSUME NEW p \in Processes
      PROVE  /\ StepsFrom[place[p]] \in Nat
             /\ wrote[p] \in Nat /\ wrote[p] <= Oversize /\ StepsOf(p) \in Nat
  <2>1. place[p] \in PipePlaces /\ wrote[p] \in Nat /\ wrote[p] <= ToWrite
    BY DEF PipesInv, PlacesSound, CellsSound, CellsIn, CellsWritten
  <2>2. StepsFrom[place[p]] \in Nat
    BY <2>1, StepsAre
  <2> QED BY <1>1, <2>1, <2>2 DEF StepsOf
<1>4. StepsLeft \in Nat
  <2>1. StepsOf("parent") \in Nat /\ StepsOf("child1") \in Nat /\ StepsOf("child2") \in Nat
    BY <1>3 DEF Processes
  <2> QED BY <1>2, <2>1 DEF StepsLeft
<1> QED BY <1>1, <1>2, <1>3, <1>4

LEMMA StepsCountNext ==
    ASSUME PipesInv, PipesInv', UNCHANGED pipeJob
    PROVE  /\ \A p \in Processes : /\ StepsFrom[place'[p]] \in Nat
                                   /\ StepsOf(p)' \in Nat
           /\ StepsFrom' = StepsFrom /\ Len(pipe)' \in Nat /\ Oversize \in Nat
<1>1. ToWrite' = ToWrite /\ StepsFrom' = StepsFrom
  BY DEF ToWrite, StepsFrom, PipePlaces
<1>2. Oversize \in Nat /\ ToWrite \in Nat /\ ToWrite <= Oversize
  BY ProcessFacts DEF PipesInv, PlacesSound
<1>3. Len(pipe)' \in Nat
  BY DEF PipesInv, CellsSound, CellsIn
<1>4. ASSUME NEW p \in Processes PROVE StepsFrom[place'[p]] \in Nat /\ StepsOf(p)' \in Nat
  <2>1. place'[p] \in PipePlaces /\ wrote'[p] \in Nat /\ wrote'[p] <= ToWrite
    BY <1>1 DEF PipesInv, PlacesSound, CellsSound, CellsIn, CellsWritten
  <2>2. StepsFrom[place'[p]] \in Nat
    BY <2>1, StepsAre
  <2>3. StepsOf(p)' = StepsFrom[place'[p]] + 2 * (Oversize - wrote'[p])
    BY <1>1 DEF StepsOf
  <2> HIDE DEF StepsOf
  <2> QED BY <1>2, <2>1, <2>2, <2>3
<1> QED BY <1>1, <1>2, <1>3, <1>4

(* Only one process does something.                                        *)
LEMMA OneMoves ==
    ASSUME PipesInv, PipesInv', UNCHANGED pipeJob, NEW p \in Processes,
           \A q \in Processes \ {p} : place'[q] = place[q] /\ wrote'[q] = wrote[q],
           StepsOf(p)' + Len(pipe)' < StepsOf(p) + Len(pipe)
    PROVE  StepsLeft' < StepsLeft
<1>1. \A q \in Processes : StepsOf(q) \in Nat /\ StepsOf(q)' \in Nat
  BY StepsCount, StepsCountNext
<1>2. Len(pipe) \in Nat /\ Len(pipe)' \in Nat
  BY StepsCount, StepsCountNext
<1>3. \A q \in Processes \ {p} : StepsOf(q)' = StepsOf(q)
  BY DEF StepsOf, StepsFrom, PipePlaces
<1> HIDE DEF StepsOf
<1>4. p \in {"parent", "child1", "child2"}
  BY DEF Processes
<1>5. CASE p = "parent"
  BY <1>1, <1>2, <1>3, <1>5 DEF StepsLeft, Processes
<1>6. CASE p = "child1"
  BY <1>1, <1>2, <1>3, <1>6 DEF StepsLeft, Processes
<1>7. CASE p = "child2"
  BY <1>1, <1>2, <1>3, <1>7 DEF StepsLeft, Processes
<1> QED BY <1>4, <1>5, <1>6, <1>7

(* It goes to a place from which it has fewer steps.                       *)
LEMMA OneGoes ==
    ASSUME PipesInv, PipesInv', UNCHANGED pipeJob, NEW p \in Processes, NEW goal,
           Go(p, goal), UNCHANGED wrote, Len(pipe') <= Len(pipe),
           StepsFrom[goal] < StepsFrom[place[p]]
    PROVE  StepsLeft' < StepsLeft
<1>1. place' = [place EXCEPT ![p] = goal] /\ place \in [Processes -> PipePlaces]
  BY DEF Go, PipesInv, PlacesSound
<1>2. \A q \in Processes : place'[q] = IF q = p THEN goal ELSE place[q]
  BY <1>1
<1>3. StepsFrom' = StepsFrom
  BY DEF StepsFrom, PipePlaces
<1>4. /\ StepsFrom[place[p]] \in Nat /\ StepsFrom[goal] \in Nat
      /\ wrote[p] \in Nat /\ wrote[p] <= Oversize /\ Oversize \in Nat
      /\ Len(pipe) \in Nat /\ Len(pipe)' \in Nat
  <2>1. StepsFrom[place'[p]] \in Nat /\ place'[p] = goal
    BY <1>2, StepsCountNext
  <2> QED BY <2>1, StepsCount, StepsCountNext
<1>5. StepsOf(p)' = StepsFrom[goal] + 2 * (Oversize - wrote[p])
  BY <1>2, <1>3 DEF StepsOf
<1>6. StepsOf(p)' + Len(pipe)' < StepsOf(p) + Len(pipe)
  <2>1. StepsOf(p) = StepsFrom[place[p]] + 2 * (Oversize - wrote[p])
    BY DEF StepsOf
  <2> HIDE DEF StepsOf
  <2> QED BY <1>4, <1>5, <2>1
<1> QED BY <1>2, <1>6, OneMoves

LEMMA PipesLead ==
    ASSUME PipesInv, PipesInv', PipeStep \/ Kill
    PROVE  StepsLeft' < StepsLeft
<1>0. UNCHANGED pipeJob
  BY DEF PipeStep, Kill, Forks, Fork, WaitChildren, CloseOther, WritePipe, ReadPipe, CloseOwn
<1>1. ASSUME NEW c \in {"child1", "child2"}, NEW here, NEW next, Fork(c, here, next),
             \/ c = "child1" /\ here = "fork1" /\ next \in {"fork2", "close"}
             \/ c = "child2" /\ here = "fork2" /\ next = "close"
      PROVE  StepsLeft' < StepsLeft
  <2>1. /\ place \in [Processes -> PipePlaces] /\ place["parent"] = here
        /\ place[c] = "unborn" /\ UNCHANGED <<wrote, pipe>>
    BY <1>1 DEF PipesInv, PlacesSound, Fork
  <2>2. "parent" \in Processes /\ c \in Processes /\ c # "parent"
    BY DEF Processes
  <2>3. \/ /\ place'["parent"] = next /\ place'[c] = "close"
           /\ \A q \in Processes \ {"parent", c} : place'[q] = place[q]
        \/ Go("parent", next) \/ Go("parent", "end")
    BY <1>1, <2>1, <2>2 DEF Fork
  <2>4. StepsFrom[next] < StepsFrom[here] /\ StepsFrom["end"] < StepsFrom[here]
        /\ StepsFrom["close"] < StepsFrom["unborn"]
        /\ StepsFrom[next] \in Nat /\ StepsFrom[here] \in Nat
    BY <1>1, StepsAre
  <2>5. CASE Go("parent", next) \/ Go("parent", "end")
    <3>1. Len(pipe') <= Len(pipe)
      BY <2>1, StepsCount
    <3> QED BY <2>1, <2>2, <2>4, <2>5, <3>1, OneGoes, <1>0
  <2>6. CASE /\ place'["parent"] = next /\ place'[c] = "close"
             /\ \A q \in Processes \ {"parent", c} : place'[q] = place[q]
    <3>1. StepsFrom' = StepsFrom
      BY DEF StepsFrom, PipePlaces
    <3>2. \A q \in Processes : StepsOf(q)' = StepsFrom[place'[q]] + 2 * (Oversize - wrote[q])
      BY <2>1, <3>1 DEF StepsOf
    <3>3. \A q \in Processes : /\ StepsOf(q) = StepsFrom[place[q]] + 2 * (Oversize - wrote[q])
                               /\ StepsOf(q) \in Nat /\ wrote[q] \in Nat
      BY StepsCount DEF StepsOf
    <3>4. Len(pipe)' = Len(pipe) /\ Len(pipe) \in Nat /\ Oversize \in Nat
      BY <2>1, StepsCount
    <3> HIDE DEF StepsOf
    <3>10. \A q \in Processes : wrote[q] <= Oversize /\ StepsFrom[place[q]] \in Nat
      BY StepsCount
    <3>5. StepsOf("parent")' < StepsOf("parent") /\ StepsOf("parent")' \in Nat
      <4>1. StepsOf("parent")' = StepsFrom[next] + 2 * (Oversize - wrote["parent"])
        BY <2>2, <2>6, <3>2
      <4>2. StepsOf("parent") = StepsFrom[here] + 2 * (Oversize - wrote["parent"])
        BY <2>1, <2>2, <3>3
      <4>3. wrote["parent"] \in Nat /\ wrote["parent"] <= Oversize
        BY <2>2, <3>3, <3>10
      <4> QED BY <2>4, <3>4, <4>1, <4>2, <4>3
    <3>6. StepsOf(c)' < StepsOf(c) /\ StepsOf(c)' \in Nat
      <4>1. StepsOf(c)' = 5 + 2 * (Oversize - wrote[c])
        BY <2>2, <2>6, <3>2, StepsAre
      <4>2. StepsOf(c) = 6 + 2 * (Oversize - wrote[c])
        BY <2>1, <2>2, <3>3, StepsAre
      <4>3. wrote[c] \in Nat /\ wrote[c] <= Oversize
        BY <2>2, <3>3, <3>10
      <4> QED BY <3>4, <4>1, <4>2, <4>3
    <3>7. \A q \in Processes \ {"parent", c} : StepsOf(q)' = StepsOf(q)
      BY <2>6, <3>2, <3>3
    <3>8. CASE c = "child1"
      BY <3>3, <3>4, <3>5, <3>6, <3>7, <3>8 DEF StepsLeft, Processes
    <3>9. CASE c = "child2"
      BY <3>3, <3>4, <3>5, <3>6, <3>7, <3>9 DEF StepsLeft, Processes
    <3> QED BY <3>8, <3>9
  <2> QED BY <2>3, <2>5, <2>6
<1>2. ASSUME NEW p \in Processes, CloseOther(p) \/ CloseOwn(p) PROVE StepsLeft' < StepsLeft
  <2>1. UNCHANGED wrote /\ Len(pipe') <= Len(pipe)
    BY <1>2, StepsCount DEF CloseOther, CloseOwn
  <2>2. \E goal : Go(p, goal) /\ StepsFrom[goal] < StepsFrom[place[p]]
    BY <1>2, StepsAre DEF CloseOther, CloseOwn
  <2> QED BY <2>1, <2>2, OneGoes, <1>0
<1>3. ASSUME NEW p \in Processes, WritePipe(p) PROVE StepsLeft' < StepsLeft
  <2>1. CASE readEnd = {}
    <3>1. UNCHANGED <<pipe, wrote>> /\ Go(p, "killed") /\ place[p] = "write"
      BY <1>3, <2>1 DEF WritePipe
    <3>2. Len(pipe') <= Len(pipe)
      BY <3>1, StepsCount
    <3> QED BY <3>1, <3>2, OneGoes, StepsAre, <1>0
  <2>2. CASE readEnd # {}
    <3>1. /\ place[p] = "write" /\ pipe' = Append(pipe, Named(p))
          /\ wrote' = [wrote EXCEPT ![p] = @ + 1]
          /\ place' = [place EXCEPT ![p] = IF wrote'[p] = ToWrite THEN "closeOwn" ELSE "write"]
      BY <1>3, <2>2 DEF WritePipe, Go
    <3>2. /\ place \in [Processes -> PipePlaces] /\ wrote \in [Processes -> Nat]
          /\ pipe \in Seq(Processes) /\ Named(p) \in Processes
      <4>1. Named(p) \in Processes
        BY DEF Named, Processes
      <4> QED BY <4>1 DEF PipesInv, PlacesSound, CellsSound, CellsIn
    <3>3. /\ \A q \in Processes \ {p} : place'[q] = place[q] /\ wrote'[q] = wrote[q]
          /\ place'[p] \in {"closeOwn", "write"} /\ wrote'[p] = wrote[p] + 1
      BY <3>1, <3>2
    <3>4. Len(pipe)' = Len(pipe) + 1
      BY <3>1, <3>2, AppendProperties
    <3>5. StepsFrom' = StepsFrom
      BY DEF StepsFrom, PipePlaces
    <3>6. StepsOf(p)' = StepsFrom[place'[p]] + 2 * (Oversize - (wrote[p] + 1))
      BY <3>3, <3>5 DEF StepsOf
    <3>7. StepsOf(p) = 4 + 2 * (Oversize - wrote[p])
      BY <3>1, StepsAre DEF StepsOf
    <3>8. StepsFrom[place'[p]] \in {3, 4}
      BY <3>3, StepsAre
    <3>9. StepsOf(p)' + Len(pipe)' < StepsOf(p) + Len(pipe)
      <4> HIDE DEF StepsOf
      <4>1. wrote[p] \in Nat /\ Oversize \in Nat /\ Len(pipe) \in Nat
        BY StepsCount
      <4>2. StepsFrom[place'[p]] <= 4 /\ StepsFrom[place'[p]] \in Nat
        BY <3>8
      <4>3. ASSUME NEW a \in Nat, a <= 4, NEW b \in Nat, NEW d \in Nat, NEW l \in Nat
            PROVE  a + 2 * (d - (b + 1)) + (l + 1) < 4 + 2 * (d - b) + l
        BY <4>3
      <4>4. wrote[p] <= Oversize
        BY StepsCount
      <4> QED BY <3>4, <3>6, <3>7, <4>1, <4>2, <4>3, Zenon
    <3> QED BY <3>3, <3>9, OneMoves, <1>0
  <2> QED BY <2>1, <2>2
<1>4. ASSUME NEW p \in Processes, ReadPipe(p) PROVE StepsLeft' < StepsLeft
  <2>1. UNCHANGED wrote /\ place[p] = "read"
    BY <1>4 DEF ReadPipe
  <2>2. CASE pipe = <<>>
    <3>1. Go(p, "closeOwn") /\ UNCHANGED pipe
      BY <1>4, <2>2 DEF ReadPipe
    <3>2. Len(pipe') <= Len(pipe)
      BY <3>1, StepsCount
    <3> QED BY <2>1, <3>1, <3>2, OneGoes, StepsAre, <1>0
  <2>3. CASE pipe # <<>>
    <3>1. PICK n \in 1..Len(pipe) : pipe' = SubSeq(pipe, n + 1, Len(pipe))
      BY <1>4, <2>3 DEF ReadPipe
    <3>2. Len(pipe') < Len(pipe)
      BY <3>1 DEF PipesInv, CellsSound, CellsIn
    <3>3. PICK goal \in {"read", "closeOwn"} : place' = [place EXCEPT ![p] = goal]
      BY <1>4 DEF ReadPipe, Go
    <3>4. \A q \in Processes : place'[q] = IF q = p THEN goal ELSE place[q]
      BY <3>3 DEF PipesInv, PlacesSound
    <3>5. StepsFrom' = StepsFrom
      BY DEF StepsFrom, PipePlaces
    <3>6. /\ StepsOf(p)' = StepsFrom[goal] + 2 * (Oversize - wrote[p])
          /\ StepsOf(p) = 4 + 2 * (Oversize - wrote[p])
      BY <2>1, <3>4, <3>5, StepsAre DEF StepsOf
    <3>7. StepsOf(p)' + Len(pipe)' < StepsOf(p) + Len(pipe)
      <4> HIDE DEF StepsOf
      <4>1. wrote[p] \in Nat /\ Oversize \in Nat /\ Len(pipe) \in Nat /\ Len(pipe)' \in Nat
        BY <1>0, StepsCount, StepsCountNext
      <4>2. StepsFrom[goal] <= 4 /\ StepsFrom[goal] \in Nat
        BY StepsAre
      <4> QED BY <3>2, <3>6, <4>1, <4>2
    <3> QED BY <2>1, <3>4, <3>7, OneMoves, <1>0
  <2> QED BY <2>2, <2>3
<1>5. ASSUME Kill PROVE StepsLeft' < StepsLeft
  <2>1. PICK p \in Processes : /\ place[p] \notin Stopped /\ Go(p, "killed")
                               /\ UNCHANGED <<pipe, wrote>>
    BY <1>5 DEF Kill
  <2>2. place[p] \in PipePlaces /\ Len(pipe') <= Len(pipe)
    BY <2>1, StepsCount DEF PipesInv, PlacesSound
  <2> QED BY <2>1, <2>2, OneGoes, StepsAre, <1>0
<1>6. ASSUME WaitChildren PROVE StepsLeft' < StepsLeft
  <2>1. /\ "parent" \in Processes /\ place["parent"] = "wait" /\ Go("parent", "end")
        /\ UNCHANGED <<pipe, wrote>>
    BY <1>6 DEF WaitChildren, Processes
  <2>2. Len(pipe') <= Len(pipe)
    BY <2>1, StepsCount
  <2> QED BY <2>1, <2>2, OneGoes, StepsAre, <1>0
<1> QED BY <1>1, <1>2, <1>3, <1>4, <1>5, <1>6 DEF PipeStep, Forks

LEMMA PipesBegin == ASSUME Init PROVE PipesInv
<1>1. Chosen({"pf", "cf", "oversize"}, "pipes") \subseteq {"pf", "cf", "oversize"}
  BY Zenon DEF Chosen
<1>2. \E j \in Chosen({"pf", "cf", "oversize"}, "pipes") : PipeStart(j)
  BY DEF Init
<1> QED BY <1>1, <1>2, PipesStart

LEMMA PipesOnly ==
    ASSUME [Next]_vars PROVE UNCHANGED pipeVars \/ PipeStep \/ Kill
  BY DEF Next, vars, PollClientRuns, OutputIsRead, SelectClientRuns, UserActs,
     DuRuns, StackRuns, TreeRuns, PipesRun, Killed, RaceRuns, CopyRuns,
     ForkWaitRuns, NotClients, NotDu, NotStack, NotTree, NotRace, NotCopy, NotFork

(* Every step of a process of the pipes leads to fewer steps that are left:
   together with NoCircularWait, the processes come to their end as long as
   they are scheduled.                                                      *)
THEOREM PipesRunOut == Spec => [](StepsLeft \in Nat) /\ [][StepsLeft' < StepsLeft]_pipeVars
<1>1. Init => PipesInv
  BY PipesBegin
<1>2. PipesInv /\ [Next]_vars => PipesInv'
  BY PipesOnly, PipesKeep, PipesStay
<1>3. PipesInv => StepsLeft \in Nat
  BY StepsCount
<1>4. PipesInv /\ PipesInv' /\ [Next]_vars => [StepsLeft' < StepsLeft]_pipeVars
  BY PipesOnly, PipesLead
<1> QED BY <1>1, <1>2, <1>3, <1>4, PTL DEF Spec

-----------------------------------------------------------------------------
(* ForkWait                                                                *)

(* exit_status is that of the child of this test, if it had one.           *)
WaitSound ==
    /\ testNo \in 1..4 /\ parentAt \in {"fork", "wait", "report"}
    /\ child \in {"none", "run", "zombie"}
    /\ ended \in [Tests -> Statuses \cup {Unset}]
    /\ reported \in [Tests -> Statuses \cup {Unset}]
    /\ parentAt # "fork" => testNo \in Tests
    /\ parentAt # "wait" => child = "none"
    /\ parentAt = "wait" => (child = "zombie" <=> ended[testNo] # Unset)
    /\ parentAt = "report" /\ ended[testNo] # Unset => exit_status = ended[testNo]
    /\ exit_status \in Statuses \cup {Unset}
    /\ \A t \in Tests : /\ t > testNo => ended[t] = Unset
                        /\ t = testNo /\ parentAt = "fork" => ended[t] = Unset
                        /\ t < testNo /\ ended[t] # Unset => reported[t] = ended[t]

LEMMA WaitStarts == ForkInit => WaitSound
  BY DEF ForkInit, WaitSound, Tests

LEMMA WaitPreserved == ASSUME WaitSound, ForkWaitStep \/ KillChild PROVE WaitSound'
<1>1. /\ Unset \notin Statuses /\ Signalled(SIGKILL) \in Statuses
      /\ \A t \in Tests : Ends(t) \subseteq Statuses
  <2>1. \A t \in Tests : \A s \in Ends(t) : s.how \in {"exited", "signalled"}
    BY DEF Ends, Exited, Signalled, Tests
  <2>2. Signalled(SIGKILL).how = "signalled" /\ Unset.how = "unset"
    BY DEF Signalled, Unset
  <2>3. /\ \A t \in Tests : Ends(t) \subseteq Statuses
        /\ Signalled(SIGKILL) \in Statuses
        /\ \A s \in Statuses : s = Signalled(SIGKILL) \/ \E t \in Tests : s \in Ends(t)
    <3> HIDE DEF Signalled, Tests, Ends
    <3>1. Statuses = (UNION {Ends(t) : t \in Tests}) \cup {Signalled(SIGKILL)}
      BY DEF Statuses
    <3> QED BY <3>1
  <2>4. \A s \in Statuses : s.how \in {"exited", "signalled"}
    BY <2>1, <2>2, <2>3
  <2> QED BY <2>2, <2>3, <2>4
<1>2. CASE ForkTest
  BY <1>2 DEF ForkTest, WaitSound, Tests
<1>3. ASSUME NEW S \in SUBSET Statuses, ChildEnds(S) PROVE WaitSound'
  <2>1. PICK s \in S : ended' = [ended EXCEPT ![testNo] = s]
    BY <1>3 DEF ChildEnds
  <2>2. /\ child = "run" /\ child' = "zombie" /\ parentAt = "wait" /\ testNo \in Tests
        /\ UNCHANGED <<testNo, parentAt, exit_status, reported>>
    BY <1>3 DEF ChildEnds, WaitSound
  <2>3. s \in Statuses /\ s # Unset /\ ended \in [Tests -> Statuses \cup {Unset}]
    BY <1>1 DEF WaitSound
  <2> HIDE DEF Statuses, Unset
  <2>4. /\ ended' \in [Tests -> Statuses \cup {Unset}]
        /\ \A t \in Tests : ended'[t] = IF t = testNo THEN s ELSE ended[t]
    BY <2>1, <2>3
  <2>5. testNo \in Nat /\ \A t \in Tests : t \in Nat
    BY <2>2 DEF Tests
  <2> QED BY <2>2, <2>3, <2>4, <2>5 DEF WaitSound
<1>4. CASE WaitForChild
  BY <1>1, <1>4 DEF WaitForChild, WaitSound
<1>5. CASE Report
  BY <1>5 DEF Report, WaitSound, Tests
<1> QED BY <1>1, <1>2, <1>3, <1>4, <1>5 DEF ForkWaitStep, KillChild, ChildRuns, WaitSound

LEMMA WaitMeans == WaitSound => OwnStatus
  BY DEF WaitSound, OwnStatus

(* The processes that are left never all wait for each other, a reader that
   comes to its end has shown all that was written by those that came to
   theirs, and the parent reports for each child the status of that child and
   leaves none behind.                                                      *)
THEOREM ProcessesAlwaysSound == Spec => []ProcessesSound
<1>1. Init => PipesInv /\ WaitSound
  BY PipesBegin, WaitStarts DEF Init
<1>2. PipesInv /\ [Next]_vars => PipesInv'
  BY PipesOnly, PipesKeep, PipesStay
<1>3. WaitSound /\ [Next]_vars => WaitSound'
  <2> SUFFICES ASSUME WaitSound, [Next]_vars PROVE WaitSound'
    OBVIOUS
  <2>1. CASE UNCHANGED forkVars
    BY <2>1 DEF forkVars, WaitSound
  <2>2. CASE ForkWaitStep \/ KillChild
    BY <2>2, WaitPreserved
  <2>3. UNCHANGED forkVars \/ ForkWaitStep \/ KillChild
    BY DEF Next, vars, PollClientRuns, OutputIsRead, SelectClientRuns, UserActs,
       DuRuns, StackRuns, TreeRuns, PipesRun, Killed, RaceRuns, CopyRuns,
       ForkWaitRuns, NotClients, NotDu, NotStack, NotTree, NotPipes, NotRace,
       NotCopy
  <2> QED BY <2>1, <2>2, <2>3
<1>4. PipesInv /\ WaitSound => ProcessesSound
  BY PipesMean, WaitMeans DEF ProcessesSound, ResultsComplete
<1> QED BY <1>1, <1>2, <1>3, <1>4, PTL DEF Spec
=============================================================================
