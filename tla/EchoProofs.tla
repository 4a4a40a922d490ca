----------------------------- MODULE EchoProofs -----------------------------
(***************************************************************************)
(* Proofs about the echo servers, for every number of clients, descriptors *)
(* and chunks and every size of their tables: first the select server,     *)
(* then what the four of them wait for and own, and what they do with the  *)
(* data.                                                                   *)
(***************************************************************************)
EXTENDS MCEchoServers, FiniteSetTheorems, TLAPS

(* What the proofs use of the constants.                                   *)
LEMMA EchoConstants == /\ NFds \in Nat /\ NULL \notin Clients
                       /\ \A n \in SetSizes : n \in Nat /\ n > 1
BY EchoNetAssumption, SelectServerAssumption

(* Every connection has one descriptor, and none while it waits.           *)
ConnectionsSound ==
    /\ fdtab \in [Fds -> Clients \cup {NULL}]
    /\ rx \in [Clients -> Nat]
    /\ backlog \subseteq came /\ came \subseteq Clients
    /\ \A f \in Fds : fdtab[f] # NULL => fdtab[f] \in came \ backlog
    /\ \A f, g \in Fds : fdtab[f] = fdtab[g] /\ fdtab[f] # NULL => f = g

(* Every descriptor below maxfd is open or free, and there is room for all
   of them; for one more while a connection may still be accepted.         *)
MaxSound ==
    /\ maxfd \in Nat /\ maxfd > 0 /\ fd_setsize \in Nat
    /\ readfd_cache = {Listen} \cup {f \in Fds : fdtab[f] # NULL}
    /\ \A f \in readfd_cache : f < maxfd
    /\ maxfd <= fd_setsize

(* What is left of a turn: connections that are open and have something to
   read.                                                                   *)
TurnSound ==
    at \in {"scan", "write"} =>
        /\ i \in Nat
        /\ readfd \subseteq Fds \cup {Listen}
        /\ i = Listen => maxfd < fd_setsize
        /\ \A f \in readfd \ {Listen} : i <= f =>
               fdtab[f] # NULL /\ Readable(fdtab[f])

WriteSound ==
    at = "write" => cur \in Fds /\ i # Listen

Sound == ConnectionsSound /\ MaxSound /\ TurnSound /\ WriteSound

SelectInv == server = "select" => Sound

-----------------------------------------------------------------------------
LEMMA SelectInvInit == Init => SelectInv
BY EchoConstants DEF Init, EchoInit, SelectInit, SelectInv, Sound,
   ConnectionsSound, MaxSound, TurnSound, WriteSound, Fds, Listen

(* The other servers are other programs.                                   *)
LEMMA OthersKeep ==
    ASSUME PollStep \/ KqueueStep \/ NonblockingStep
    PROVE  SelectInv'
<1>1. server # "select" /\ server' = server
  <2>1. CASE PollStep
    BY <2>1 DEF PollStep, Poll, PollAccept, PollRefuse, PollAcceptFails,
       PollTurnDone, PollRead, PollClose, PollWrite, PollSigpipe, Runs, Die
  <2>2. CASE KqueueStep
    BY <2>2 DEF KqueueStep, KeventFor, TurnDoneFor, KqAccept, KqAcceptFails,
       ConnEventFor, ReadFor, ReadErrorFor, WriteFor, EofFor, Runs, Die
  <2>3. CASE NonblockingStep
    BY <2>3 DEF NonblockingStep, KeventFor, TurnDoneFor, NbMalloc, NbAccept,
       NbAddFails, NbAcceptNone, ConnEventFor, ReadFor, ReadErrorFor,
       NbReadAgain, WriteFor, NbWriteAgain, EofFor, Runs, Die, echoVars
  <2> QED BY <2>1, <2>2, <2>3
<1> QED BY <1>1 DEF SelectInv

(* Clients send and leave; what could be read still can.                   *)
LEMMA ClientsKeep ==
    ASSUME Sound, ClientStep, UNCHANGED selectVars
    PROVE  Sound'
<1> USE DEF Sound
<1> PICK c \in Clients : Connect(c) \/ Send(c) \/ ReadEcho(c) \/ Finish(c) \/ Reset(c)
  BY DEF ClientStep
<1>1. UNCHANGED <<server, fdtab, at, cur, died>>
  BY DEF ClientStep
<1> USE <1>1 DEF selectVars
<1>2. ConnectionsSound'
  <2> USE DEF ConnectionsSound, dataVars, clientVars
  <2>1. CASE Connect(c)
    BY <2>1 DEF Connect
  <2>2. CASE Send(c)
    BY <2>2 DEF Send
  <2>3. CASE ReadEcho(c) \/ Finish(c)
    BY <2>3 DEF ReadEcho, Finish
  <2>4. CASE Reset(c)
    BY <2>4 DEF Reset
  <2> QED BY <2>1, <2>2, <2>3, <2>4
<1>3. \A d \in Clients : Readable(d) => Readable(d)'
  BY DEF Connect, Send, ReadEcho, Finish, Reset, Readable, ConnectionsSound,
     dataVars, clientVars
<1>4. MaxSound' /\ WriteSound'
  BY DEF MaxSound, WriteSound
<1>5. TurnSound'
  BY <1>3 DEF TurnSound, ConnectionsSound
<1> QED BY <1>2, <1>4, <1>5

-----------------------------------------------------------------------------
LEMMA SelectCallKeeps ==
    ASSUME Sound, Select
    PROVE  Sound'
<1> USE DEF Sound
<1>1. /\ maxfd < fd_setsize /\ i' = Listen /\ at' = "scan"
      /\ readfd' = ReadableFds(readfd_cache)
      /\ UNCHANGED <<netVars, readfd_cache, maxfd, fd_setsize>>
  BY DEF Select
<1>2. ConnectionsSound' /\ MaxSound' /\ WriteSound'
  BY <1>1 DEF ConnectionsSound, MaxSound, WriteSound, netVars, clientVars, dataVars
<1>3. TurnSound'
  BY <1>1 DEF TurnSound, MaxSound, ReadableFds, Readable, netVars, clientVars,
     dataVars, Listen
<1> QED BY <1>2, <1>3

(* A new descriptor is at most maxfd: if maxfd itself were not free, it
   would be in the set and below maxfd.                                    *)
LEMMA NewFdAtMostMax ==
    ASSUME Sound, NEW f \in Fds, LowestFree(f)
    PROVE  f <= maxfd
<1> SUFFICES ASSUME f > maxfd PROVE FALSE
  BY DEF Fds, Sound, MaxSound
<1>1. maxfd \in Fds
  BY EchoConstants DEF Fds, Sound, MaxSound
<1>2. maxfd \notin FreeFds
  BY <1>1 DEF LowestFree, Fds
<1>3. maxfd \in readfd_cache
  BY <1>1, <1>2 DEF FreeFds, Sound, MaxSound
<1> QED BY <1>3 DEF Sound, MaxSound

LEMMA SelectAcceptKeeps ==
    ASSUME Sound, SelectAccept
    PROVE  Sound'
<1> USE DEF Sound
<1> PICK c \in backlog, f \in FreeFds :
         /\ Accept(f, c)
         /\ readfd_cache' = readfd_cache \cup {f}
         /\ maxfd' = IF f >= maxfd THEN f + 1 ELSE maxfd
  BY DEF SelectAccept
<1>1. /\ at = "scan" /\ at' = at /\ Listen \in readfd /\ i <= Listen
      /\ i' = Listen + 1 /\ UNCHANGED <<readfd, fd_setsize, cur>>
  BY DEF SelectAccept, Runs, ComesTo, Passed
<1>2. /\ f \in Fds /\ fdtab[f] = NULL /\ fdtab' = [fdtab EXCEPT ![f] = c]
      /\ backlog' = backlog \ {c} /\ UNCHANGED <<came, fin, rst, rx, shut>>
      /\ c \in Clients /\ c # NULL
  BY EchoConstants DEF Accept, FreeFds, dataVars, ConnectionsSound
<1>3. ConnectionsSound'
  BY <1>2 DEF ConnectionsSound
<1>4. f <= maxfd /\ i = Listen /\ maxfd < fd_setsize
  <2>1. i = Listen
    BY <1>1 DEF TurnSound, Listen
  <2> QED BY <1>1, <1>2, <2>1, NewFdAtMostMax DEF TurnSound, Accept
<1>5. f \in Nat /\ f # Listen /\ Listen = 0 /\ Listen \notin Fds
  BY <1>2 DEF Fds, Listen
<1>6. MaxSound'
  <2>1. readfd_cache' = {Listen} \cup {g \in Fds : fdtab'[g] # NULL}
    BY <1>2 DEF MaxSound, ConnectionsSound
  <2>2. /\ maxfd' \in Nat /\ maxfd' > f /\ maxfd' >= maxfd
        /\ maxfd' <= fd_setsize
    BY <1>4, <1>5 DEF MaxSound
  <2>3. \A g \in readfd_cache : g \in Nat
    BY <1>5 DEF MaxSound, Fds
  <2>4. \A g \in readfd_cache' : g < maxfd'
    BY <2>2, <2>3, <1>5 DEF MaxSound
  <2> QED BY <2>1, <2>2, <2>4, <1>1 DEF MaxSound
<1>7. TurnSound'
  <2>1. \A g \in readfd \ {Listen} : g \in Fds /\ i <= g
    BY <1>1, <1>4 DEF TurnSound, Fds, Listen
  <2>2. \A g \in readfd \ {Listen} : g # f /\ fdtab'[g] = fdtab[g]
    BY <1>1, <1>2, <2>1 DEF TurnSound, ConnectionsSound
  <2>3. \A g \in readfd \ {Listen} : (fdtab[g] # NULL /\ Readable(fdtab[g]))'
    BY <1>1, <1>2, <2>1, <2>2 DEF TurnSound, Readable
  <2>4. i' \in Nat /\ i' # Listen /\ at' = "scan"
    BY <1>1 DEF Listen
  <2>5. readfd' \subseteq Fds \cup {Listen}
    BY <1>1 DEF TurnSound
  <2> QED BY <1>1, <2>3, <2>4, <2>5 DEF TurnSound
<1> QED BY <1>1, <1>3, <1>6, <1>7 DEF WriteSound

LEMMA SelectAcceptFailsKeeps ==
    ASSUME Sound, SelectAcceptFails
    PROVE  Sound'
<1> USE DEF Sound
<1>1. /\ at = "scan" /\ at' = at /\ i <= Listen /\ i' = Listen + 1
      /\ UNCHANGED <<netVars, readfd, readfd_cache, maxfd, fd_setsize>>
  BY DEF SelectAcceptFails, Runs, ComesTo, Passed
<1>2. ConnectionsSound' /\ MaxSound' /\ WriteSound'
  BY <1>1 DEF ConnectionsSound, MaxSound, WriteSound, netVars, clientVars, dataVars
<1>3. TurnSound'
  <2>1. \A g \in readfd \ {Listen} : i <= g
    BY <1>1 DEF TurnSound, Fds, Listen
  <2>2. i' \in Nat /\ i' # Listen
    BY <1>1 DEF Listen
  <2> QED BY <1>1, <2>1, <2>2 DEF TurnSound, Readable, netVars, clientVars, dataVars
<1> QED BY <1>2, <1>3

(* The loop has come to f and goes on behind it.                           *)
LEMMA ComingTo ==
    ASSUME Sound, at = "scan", NEW f \in readfd \ {Listen}, ComesTo(f)
    PROVE  /\ f \in Fds /\ f < maxfd /\ f \in readfd_cache
           /\ fdtab[f] \in Clients /\ Readable(fdtab[f])
           /\ \A g \in Fds : f + 1 <= g => i <= g /\ g # f
BY DEF Sound, ConnectionsSound, MaxSound, TurnSound, ComesTo, Fds

LEMMA SelectReadKeeps ==
    ASSUME Sound, SelectRead
    PROVE  Sound'
<1> USE DEF Sound
<1> PICK f \in readfd \ {Listen} :
         /\ ComesTo(f)
         /\ ReadsData(fdtab[f]) /\ TakeData(fdtab[f])
         /\ cur' = f
         /\ Passed(f)
  BY DEF SelectRead
<1>1. /\ at = "scan" /\ at' = "write" /\ i' = f + 1 /\ cur' = f
      /\ UNCHANGED <<readfd, readfd_cache, maxfd, fd_setsize>>
  BY DEF SelectRead, Runs, Passed
<1>2. /\ rx' = [rx EXCEPT ![fdtab[f]] = @ - 1] /\ rx[fdtab[f]] > 0
      /\ UNCHANGED <<backlog, came, fin, rst, shut, fdtab>>
  BY DEF TakeData, ReadsData, clientVars
<1>3. /\ f \in Fds /\ fdtab[f] \in Clients
      /\ \A g \in Fds : f + 1 <= g => i <= g /\ g # f
  BY <1>1, ComingTo
<1>4. f \in Nat /\ f + 1 \in Nat /\ f + 1 # Listen
  BY <1>3 DEF Fds, Listen
<1>5. ConnectionsSound' /\ MaxSound'
  BY <1>1, <1>2, <1>3 DEF ConnectionsSound, MaxSound
<1>6. TurnSound'
  <2> SUFFICES ASSUME NEW g \in readfd \ {Listen}, f + 1 <= g
               PROVE  fdtab[g] # NULL /\ Readable(fdtab[g])'
    BY <1>1, <1>2, <1>4 DEF TurnSound, Readable
  <2>1. g \in Fds /\ i <= g /\ g # f
    BY <1>1, <1>3 DEF TurnSound
  <2>2. fdtab[g] # NULL /\ Readable(fdtab[g])
    BY <1>1, <2>1 DEF TurnSound
  <2>3. fdtab[g] # fdtab[f]
    BY <1>3, <2>1, <2>2 DEF ConnectionsSound
  <2> QED BY <1>2, <2>2, <2>3 DEF Readable, ConnectionsSound
<1>7. WriteSound'
  BY <1>1, <1>3, <1>4 DEF WriteSound
<1> QED BY <1>5, <1>6, <1>7

(* The loop that computes the new maximum still sees the descriptor that is
   being closed, and so finds the old one.                                 *)
LEMMA MaxNeverFalls ==
    ASSUME MaxSound, NEW f \in readfd_cache, f = maxfd - 1
    PROVE  NewMax(f) = maxfd
<1>1. /\ maxfd \in 1..maxfd /\ maxfd - 1 \in readfd_cache
      /\ \A g \in readfd_cache : g < maxfd => g < maxfd
  BY DEF MaxSound
<1>2. \A m \in 1..maxfd :
        (m - 1 \in readfd_cache /\ (\A g \in readfd_cache : g < maxfd => g < m))
            => m = maxfd
  BY <1>1 DEF MaxSound
<1> QED BY <1>1, <1>2 DEF NewMax

LEMMA SelectCloseKeeps ==
    ASSUME Sound, SelectClose
    PROVE  Sound'
<1> USE DEF Sound
<1> PICK f \in readfd \ {Listen} :
         /\ ComesTo(f)
         /\ maxfd' = IF f = maxfd - 1 THEN NewMax(f) ELSE maxfd
         /\ readfd_cache' = readfd_cache \ {f}
         /\ fdtab' = [fdtab EXCEPT ![f] = NULL]
         /\ Passed(f)
  BY DEF SelectClose
<1>1. /\ at = "scan" /\ at' = "scan" /\ i' = f + 1
      /\ UNCHANGED <<readfd, fd_setsize, backlog, came, fin, rst, rx, shut>>
  BY DEF SelectClose, Runs, Passed, clientVars
<1>2. /\ f \in Fds /\ f \in readfd_cache
      /\ \A g \in Fds : f + 1 <= g => i <= g /\ g # f
  BY <1>1, ComingTo
<1>3. f \in Nat /\ f + 1 \in Nat /\ f + 1 # Listen /\ f # Listen
  BY <1>2 DEF Fds, Listen
<1>4. maxfd' = maxfd
  BY <1>2, MaxNeverFalls
<1>5. ConnectionsSound'
  BY <1>1, <1>2 DEF ConnectionsSound
<1>6. MaxSound'
  BY <1>1, <1>2, <1>3, <1>4 DEF MaxSound, ConnectionsSound
<1>7. TurnSound'
  BY <1>1, <1>2, <1>3 DEF TurnSound, Readable, ConnectionsSound
<1> QED BY <1>1, <1>5, <1>6, <1>7 DEF WriteSound

LEMMA SelectWriteKeeps ==
    ASSUME Sound, SelectWrite
    PROVE  Sound'
<1> USE DEF Sound
<1>1. /\ at = "write" /\ at' = "scan" /\ shut \subseteq shut'
      /\ UNCHANGED <<cur, i, readfd, readfd_cache, maxfd, fd_setsize>>
  BY DEF SelectWrite, Runs, selectVars
<1>2. UNCHANGED <<backlog, came, fin, rst, rx, fdtab>>
  BY DEF SelectWrite, Written, WriteFails, clientVars
<1>3. ConnectionsSound' /\ MaxSound' /\ WriteSound'
  BY <1>1, <1>2 DEF ConnectionsSound, MaxSound, WriteSound
<1>4. TurnSound'
  BY <1>1, <1>2 DEF TurnSound, Readable
<1> QED BY <1>3, <1>4

(* A turn that ends and a process that ends change nothing else.           *)
LEMMA SelectEndKeeps ==
    ASSUME Sound, SelectTurnDone \/ SelectFull \/ SelectSigpipe
    PROVE  Sound'
<1>1. /\ UNCHANGED <<netVars, cur, selectVars>>
      /\ at' = at \/ at' = "wait"
  BY DEF SelectTurnDone, SelectFull, SelectSigpipe, Die
<1> QED BY <1>1 DEF Sound, ConnectionsSound, MaxSound, TurnSound, WriteSound,
        Readable, netVars, clientVars, dataVars, selectVars

-----------------------------------------------------------------------------
(* The invariant of the select server.                                     *)
THEOREM SelectInvariant == Spec => []SelectInv
<1>1. SelectInv /\ [Next]_vars => SelectInv'
  <2> SUFFICES ASSUME SelectInv, [Next]_vars, server' = "select"
               PROVE  SelectInv'
    BY DEF SelectInv
  <2>1. CASE ClientStep /\ UNCHANGED <<selectVars, pollVars, kqueueVars>>
    BY <2>1, ClientsKeep DEF SelectInv, ClientStep
  <2>2. CASE SelectStep
    <3>1. server = "select" /\ Sound
      BY <2>2 DEF SelectInv, SelectStep, SelectFull, Select, SelectTurnDone,
         SelectAccept, SelectAcceptFails, SelectRead, SelectClose, SelectWrite,
         SelectSigpipe, Runs
    <3> QED BY <2>2, <3>1, SelectCallKeeps, SelectAcceptKeeps,
            SelectAcceptFailsKeeps, SelectReadKeeps, SelectCloseKeeps,
            SelectWriteKeeps, SelectEndKeeps DEF SelectStep, SelectInv
  <2>3. CASE PollStep \/ KqueueStep \/ NonblockingStep
    BY <2>3, OthersKeep
  <2>4. CASE UNCHANGED vars
    BY <2>4 DEF vars, echoVars, netVars, clientVars, dataVars, selectVars,
       SelectInv, Sound, ConnectionsSound, MaxSound, TurnSound, WriteSound,
       Readable
  <2> QED BY <2>1, <2>2, <2>3, <2>4 DEF Next, ServerStep
<1> QED BY <1>1, SelectInvInit, PTL DEF Spec

(* No descriptor of the select server is ever too large for its fd_set,
   though the number is checked before select and not where a connection is
   added.                                                                  *)
THEOREM SelectFdsFit == Spec => []FdsFitTheSet
<1>1. SelectInv => FdsFitTheSet
  <2> SUFFICES ASSUME Sound, NEW f \in readfd_cache PROVE f < fd_setsize
    BY DEF SelectInv, FdsFitTheSet
  <2>1. f \in Nat /\ f < maxfd /\ maxfd <= fd_setsize
    BY DEF Sound, MaxSound, Fds, Listen
  <2> QED BY <2>1 DEF Sound, MaxSound
<1> QED BY <1>1, SelectInvariant, PTL

(* The select server never waits in a read: what it comes to in its loop is
   open and readable, whatever was closed and accepted before in the turn. *)
THEOREM SelectReadsWithoutWaiting == Spec => []ReportedCanBeRead
<1>1. SelectInv => ReportedCanBeRead
  BY DEF SelectInv, Sound, TurnSound, ReportedCanBeRead, Runs, ComesTo
<1> QED BY <1>1, SelectInvariant, PTL

-----------------------------------------------------------------------------
(* What the four servers wait for.                                         *)

(* The table of descriptors is one, and nobody in the queue is nobody.     *)
TableSound == /\ fdtab \in [Fds -> Clients \cup {NULL}]
              /\ backlog \subseteq Clients

(* Each entry of the poll server's table is that of another open descriptor,
   and poll is told of all of them.                                        *)
PollSound == /\ nfds \in Nat
             /\ slot \in [Entries -> Fds \cup {NULL}]
             /\ \A j \in Entries : slot[j] # NULL => fdtab[slot[j]] # NULL /\ j < nfds
             /\ \A f \in Fds : fdtab[f] # NULL => \E j \in Entries : slot[j] = f
             /\ \A j, l \in Entries : slot[j] = slot[l] /\ slot[j] # NULL => j = l

PollInv == IF server = "poll" THEN PollSound
                              ELSE \A j \in Entries : slot[j] = NULL

(* A descriptor is registered with kqueue exactly as long as it is open.   *)
KqSound == /\ kq \in [Fds -> Records \cup {NULL}]
           /\ \A f \in Fds : kq[f] # NULL <=> fdtab[f] # NULL
           /\ at = "accept" => record \in Records

KqInv == server \in {"kqueue", "nonblocking"} => KqSound

(* Where the blocking kqueue server is, a descriptor is meant.             *)
PlaceSound == /\ evs \subseteq Fds \cup {Listen}
              /\ at \in {"read", "write"} => cur \in Fds

OwnInv == RecordsOwned /\ (server = "kqueue" => PlaceSound)

LEMMA KqConstants == /\ NULL \notin Records /\ NULL \notin Clients /\ NULL \notin Fds
                     /\ Listen \notin Fds
<1>1. \A f \in Fds : f \in Nat /\ f # 0
  BY EchoNetAssumption DEF Fds
<1> QED BY <1>1, KqueueServersAssumption, EchoNetAssumption DEF Listen

LEMMA TableKeeps == ASSUME TableSound, [Next]_vars PROVE TableSound'
<1> USE DEF TableSound
<1>1. CASE ClientStep
  BY <1>1 DEF ClientStep, Connect, Send, ReadEcho, Finish, Reset, dataVars,
     clientVars
<1>2. CASE SelectStep
  BY <1>2 DEF SelectStep, SelectFull, Select, SelectTurnDone, SelectAccept,
     SelectAcceptFails, SelectRead, SelectClose, SelectWrite, SelectSigpipe, Die,
     Accept, TakeData, Written, WriteFails, netVars, clientVars
<1>3. CASE PollStep
  BY <1>3 DEF PollStep, Poll, PollAccept, PollRefuse, PollAcceptFails,
     PollTurnDone, PollRead, PollClose, PollWrite, PollSigpipe, Die,
     Accept, Refuse, TakeData, Written, WriteFails, netVars, clientVars
<1>4. CASE KqueueStep
  BY <1>4 DEF KqueueStep, KeventFor, TurnDoneFor, KqAccept, KqAcceptFails,
     ConnEventFor, ReadFor, ReadErrorFor, WriteFor, EofFor, Die, Close,
     Accept, TakeData, TakeError, Written, WriteFails, netVars, clientVars
<1>5. CASE NonblockingStep
  BY <1>5 DEF NonblockingStep, KeventFor, TurnDoneFor, NbMalloc, NbAccept,
     NbAddFails, NbAcceptNone, ConnEventFor, ReadFor, ReadErrorFor, Close, Refuse,
     NbReadAgain, WriteFor, NbWriteAgain, EofFor, Die, echoVars,
     Accept, TakeData, TakeError, Written, WriteFails, netVars, clientVars
<1>6. CASE UNCHANGED vars
  BY <1>6 DEF vars, echoVars, netVars, clientVars
<1> QED BY <1>1, <1>2, <1>3, <1>4, <1>5, <1>6 DEF Next, ServerStep

(* Which server runs never changes, and a step is its own or a client's.   *)
LEMMA WhoSteps ==
    ASSUME [Next]_vars
    PROVE  /\ server' = server
           /\ \/ fdtab' = fdtab /\ UNCHANGED <<at, cur, selectVars, pollVars, kqueueVars>>
              \/ server = "select" /\ UNCHANGED <<pollVars, kqueueVars>>
              \/ server = "poll" /\ PollStep /\ UNCHANGED <<selectVars, kqueueVars>>
              \/ server = "kqueue" /\ KqueueStep /\ UNCHANGED <<selectVars, pollVars>>
              \/ server = "nonblocking" /\ NonblockingStep
                    /\ UNCHANGED <<selectVars, pollVars>>
<1>1. CASE ClientStep /\ UNCHANGED <<selectVars, pollVars, kqueueVars>>
  BY <1>1 DEF ClientStep
<1>2. CASE SelectStep /\ UNCHANGED <<pollVars, kqueueVars>>
  BY <1>2 DEF SelectStep, SelectFull, Select, SelectTurnDone, SelectAccept,
     SelectAcceptFails, SelectRead, SelectClose, SelectWrite, SelectSigpipe,
     Runs, Die
<1>3. CASE PollStep /\ UNCHANGED <<selectVars, kqueueVars>>
  BY <1>3 DEF PollStep, Poll, PollAccept, PollRefuse, PollAcceptFails,
     PollTurnDone, PollRead, PollClose, PollWrite, PollSigpipe, Runs, Die
<1>4. CASE KqueueStep /\ UNCHANGED <<selectVars, pollVars>>
  BY <1>4 DEF KqueueStep, KeventFor, TurnDoneFor, KqAccept, KqAcceptFails,
     ConnEventFor, ReadFor, ReadErrorFor, WriteFor, EofFor, Runs, Die
<1>5. CASE NonblockingStep /\ UNCHANGED <<selectVars, pollVars>>
  BY <1>5 DEF NonblockingStep, KeventFor, TurnDoneFor, NbMalloc, NbAccept,
     NbAddFails, NbAcceptNone, ConnEventFor, ReadFor, ReadErrorFor,
     NbReadAgain, WriteFor, NbWriteAgain, EofFor, Runs, Die, echoVars
<1>6. CASE UNCHANGED vars
  BY <1>6 DEF vars, echoVars, netVars
<1> QED BY <1>1, <1>2, <1>3, <1>4, <1>5, <1>6 DEF Next, ServerStep

-----------------------------------------------------------------------------
(* The poll server.                                                        *)

LEMMA PollAcceptKeeps ==
    ASSUME TableSound, PollSound, PollAccept
    PROVE  PollSound'
<1> PICK c \in backlog, f \in FreeFds, j \in FreeEntries :
         /\ Accept(f, c)
         /\ slot' = [slot EXCEPT ![j] = f]
         /\ nfds' = IF j >= nfds THEN j + 1 ELSE nfds
  BY DEF PollAccept
<1>1. /\ f \in Fds /\ fdtab[f] = NULL /\ f # NULL /\ c \in Clients /\ c # NULL
      /\ fdtab' = [fdtab EXCEPT ![f] = c] /\ fdtab \in [Fds -> Clients \cup {NULL}]
  BY KqConstants DEF Accept, FreeFds, TableSound
<1>2. j \in Entries /\ slot[j] = NULL /\ j \in Nat
  BY DEF FreeEntries, Entries
<1>3. /\ PollSize' = PollSize /\ Entries' = Entries
      /\ nfds \in Nat /\ slot \in [Entries -> Fds \cup {NULL}]
  BY DEF PollAccept, Entries, PollSound
<1>4. nfds' \in Nat /\ nfds' > j /\ nfds' >= nfds
  BY <1>2, <1>3
<1>5. \A l \in Entries : slot'[l] # NULL => fdtab'[slot'[l]] # NULL /\ l < nfds'
  <2> SUFFICES ASSUME NEW l \in Entries, slot'[l] # NULL
               PROVE  fdtab'[slot'[l]] # NULL /\ l < nfds'
    OBVIOUS
  <2>1. CASE l = j
    BY <2>1, <1>1, <1>2, <1>3, <1>4
  <2>2. CASE l # j
    <3>1. slot'[l] = slot[l] /\ slot[l] \in Fds
      BY <2>2, <1>3
    <3>2. fdtab[slot[l]] # NULL /\ l < nfds
      BY <3>1 DEF PollSound
    <3>3. l < nfds'
      BY <3>2, <1>3, <1>4 DEF Entries
    <3> QED BY <3>1, <3>2, <3>3, <1>1
  <2> QED BY <2>1, <2>2
<1>6. \A g \in Fds : fdtab'[g] # NULL => \E l \in Entries : slot'[l] = g
  <2> SUFFICES ASSUME NEW g \in Fds, fdtab'[g] # NULL
               PROVE  \E l \in Entries : slot'[l] = g
    OBVIOUS
  <2>1. CASE g = f
    BY <2>1, <1>2, <1>3
  <2>2. CASE g # f
    <3> PICK l \in Entries : slot[l] = g
      BY <2>2, <1>1 DEF PollSound
    <3> QED BY <1>2, <1>3, KqConstants
  <2> QED BY <2>1, <2>2
<1>7. \A l \in Entries : slot[l] # f
  BY <1>1 DEF PollSound
<1>8. \A l, m \in Entries : slot'[l] = slot'[m] /\ slot'[l] # NULL => l = m
  BY <1>2, <1>3, <1>7 DEF PollSound
<1> QED BY <1>1, <1>3, <1>4, <1>5, <1>6, <1>8 DEF PollSound

LEMMA PollCloseKeeps ==
    ASSUME TableSound, PollSound, PollClose
    PROVE  PollSound'
<1> PICK j \in Entries :
         /\ GetsTo(j)
         /\ fdtab' = [fdtab EXCEPT ![slot[j]] = NULL]
         /\ slot' = [slot EXCEPT ![j] = NULL]
  BY DEF PollClose
<1>1. slot[j] \in Fds
  BY DEF GetsTo, Due, PollSound
<1>2. Entries' = Entries /\ nfds' = nfds /\ PollSize' = PollSize
  BY DEF PollClose, Entries
<1>3. \A l \in Entries \ {j} : slot'[l] = slot[l] /\ (slot[l] # NULL => slot[l] # slot[j])
  BY <1>1 DEF PollSound
<1> QED BY <1>1, <1>2, <1>3 DEF PollSound, TableSound

LEMMA PollInvKeeps ==
    ASSUME TableSound, PollInv, [Next]_vars
    PROVE  PollInv'
<1>1. server' = server
  BY WhoSteps
<1>2. CASE server # "poll"
  <2>1. UNCHANGED <<slot, PollSize>>
    BY <1>2, WhoSteps DEF pollVars
  <2> QED BY <1>1, <1>2, <2>1 DEF PollInv, Entries
<1>3. CASE server = "poll"
  <2> SUFFICES PollSound'
    BY <1>1, <1>3 DEF PollInv
  <2>1. PollSound
    BY <1>3 DEF PollInv
  <2>2. CASE UNCHANGED <<fdtab, pollVars>>
    BY <2>1, <2>2 DEF PollSound, pollVars, Entries
  <2>3. CASE PollStep
    <3>1. CASE PollAccept
      BY <2>1, <3>1, PollAcceptKeeps
    <3>2. CASE PollClose
      BY <2>1, <3>2, PollCloseKeeps
    <3>3. CASE Poll \/ PollRefuse \/ PollAcceptFails \/ PollTurnDone
               \/ PollRead \/ PollWrite \/ PollSigpipe
      <4>1. UNCHANGED <<fdtab, slot, nfds, PollSize>>
        BY <3>3 DEF Poll, PollRefuse, PollAcceptFails, PollTurnDone, PollRead,
           PollWrite, PollSigpipe, Die, Refuse, TakeData, Written, WriteFails,
           netVars, pollVars
      <4> QED BY <2>1, <4>1 DEF PollSound, Entries
    <3> QED BY <2>3, <3>1, <3>2, <3>3 DEF PollStep
  <2> QED BY <1>3, <2>2, <2>3, WhoSteps
<1> QED BY <1>2, <1>3

-----------------------------------------------------------------------------
(* The kqueue servers.                                                     *)

LEMMA KqSoundKeeps ==
    ASSUME TableSound, KqSound, KqueueStep \/ NonblockingStep
    PROVE  KqSound'
<1> USE DEF KqSound, TableSound
<1>1. CASE KqAccept
  <2> PICK c \in backlog, f \in FreeFds, r \in Records \ heap :
         /\ Accept(f, c)
         /\ kq' = [kq EXCEPT ![f] = r]
         /\ record' = r
    BY <1>1 DEF KqAccept
  <2> QED BY <1>1, KqConstants DEF KqAccept, Accept, FreeFds
<1>2. CASE NbAccept
  <2> PICK c \in backlog, f \in FreeFds :
         /\ Accept(f, c)
         /\ kq' = [kq EXCEPT ![f] = record]
    BY <1>2 DEF NbAccept
  <2>1. at = "accept" /\ UNCHANGED <<at, record>>
    BY <1>2 DEF NbAccept, Runs
  <2> QED BY <2>1, KqConstants DEF Accept, FreeFds
<1>3. CASE EofFor("kqueue") \/ EofFor("nonblocking")
  BY <1>3 DEF EofFor, Close
<1>4. CASE NbMalloc
  BY <1>4 DEF NbMalloc, Runs, netVars
<1>5. CASE \/ KeventFor("kqueue") \/ TurnDoneFor("kqueue") \/ KqAcceptFails
           \/ ConnEventFor("kqueue") \/ ReadFor("kqueue")
           \/ ReadErrorFor("kqueue") \/ WriteFor("kqueue")
           \/ KeventFor("nonblocking") \/ TurnDoneFor("nonblocking")
           \/ NbAddFails \/ NbAcceptNone
           \/ ConnEventFor("nonblocking") \/ ReadFor("nonblocking")
           \/ ReadErrorFor("nonblocking") \/ NbReadAgain
           \/ WriteFor("nonblocking") \/ NbWriteAgain
  <2>1. UNCHANGED <<fdtab, kq, record>> /\ (at' = "accept" => at = "accept")
    BY <1>5 DEF KeventFor, TurnDoneFor, KqAcceptFails, ConnEventFor, ReadFor,
       ReadErrorFor, WriteFor, NbAddFails, NbAcceptNone, NbReadAgain,
       NbWriteAgain, Die, Refuse, TakeData, TakeError, Written, WriteFails,
       echoVars, netVars, kqueueVars
  <2> QED BY <2>1
<1> QED BY <1>1, <1>2, <1>3, <1>4, <1>5 DEF KqueueStep, NonblockingStep

LEMMA KqInvKeeps ==
    ASSUME TableSound, KqInv, [Next]_vars
    PROVE  KqInv'
<1> SUFFICES ASSUME server' \in {"kqueue", "nonblocking"} PROVE KqSound'
  BY DEF KqInv
<1>1. server \in {"kqueue", "nonblocking"} /\ KqSound
  BY WhoSteps DEF KqInv
<1>2. CASE UNCHANGED <<fdtab, at, kqueueVars>>
  BY <1>1, <1>2 DEF KqSound, kqueueVars
<1>3. CASE KqueueStep \/ NonblockingStep
  BY <1>1, <1>3, KqSoundKeeps
<1> QED BY <1>1, <1>2, <1>3, WhoSteps

(* The records of the blocking server.                                     *)
LEMMA OwnedKeeps ==
    ASSUME TableSound, KqSound, KqueueStep, OwnInv, server = "kqueue",
           server' = server
    PROVE  OwnInv'
<1> DEFINE Owned == heap = {kq[f] : f \in {g \in Fds : fdtab[g] # NULL}}
           Own == \A f, g \in Fds : kq[f] = kq[g] /\ kq[f] # NULL => f = g
<1>1. Owned /\ Own /\ PlaceSound
  BY DEF OwnInv, RecordsOwned
<1> SUFFICES Owned' /\ Own' /\ PlaceSound'
  BY DEF OwnInv, RecordsOwned
<1> USE DEF KqSound, TableSound
<1>2. CASE KqAccept
  <2> PICK c \in backlog, f \in FreeFds, r \in Records \ heap :
         /\ Accept(f, c)
         /\ kq' = [kq EXCEPT ![f] = r]
         /\ heap' = heap \cup {r}
    BY <1>2 DEF KqAccept
  <2>1. /\ f \in Fds /\ fdtab[f] = NULL /\ fdtab' = [fdtab EXCEPT ![f] = c]
        /\ c # NULL /\ c \in Clients /\ r # NULL
    BY KqConstants DEF Accept, FreeFds
  <2>2. \A g \in Fds : kq[g] # NULL => kq[g] \in heap
    BY <1>1
  <2>3. Owned'
    BY <1>1, <2>1
  <2>4. Own'
    BY <1>1, <2>1, <2>2
  <2>5. PlaceSound'
    BY <1>1, <1>2 DEF KqAccept, PlaceSound
  <2> QED BY <2>3, <2>4, <2>5
<1>3. CASE EofFor("kqueue")
  <2>1. /\ at = "read" /\ at' = "scan" /\ evs' = evs
        /\ kq' = [kq EXCEPT ![cur] = NULL] /\ heap' = heap \ {kq[cur]}
        /\ fdtab' = [fdtab EXCEPT ![cur] = NULL]
    BY <1>3 DEF EofFor, Close, Free, Runs
  <2>2. cur \in Fds
    BY <1>1, <2>1 DEF PlaceSound
  <2>3. Own'
    BY <1>1, <2>1, <2>2
  <2>4. Owned'
    BY <1>1, <2>1, <2>2, KqConstants
  <2>5. PlaceSound'
    BY <1>1, <2>1 DEF PlaceSound
  <2> QED BY <2>3, <2>4, <2>5
<1>4. CASE \/ KeventFor("kqueue") \/ TurnDoneFor("kqueue") \/ KqAcceptFails
           \/ ConnEventFor("kqueue") \/ ReadFor("kqueue")
           \/ ReadErrorFor("kqueue") \/ WriteFor("kqueue")
  <2>1. UNCHANGED <<fdtab, kq, heap>>
    BY <1>4 DEF KeventFor, TurnDoneFor, KqAcceptFails, ConnEventFor, ReadFor,
       ReadErrorFor, WriteFor, Die, TakeData, TakeError, Written, WriteFails,
       netVars, kqueueVars
  <2>2. PlaceSound'
    BY <1>1, <1>4 DEF PlaceSound, KeventFor, TurnDoneFor, KqAcceptFails,
       ConnEventFor, ReadFor, ReadErrorFor, WriteFor, Die, Runs, Ready, kqueueVars
  <2> QED BY <1>1, <2>1, <2>2
<1> QED BY <1>2, <1>3, <1>4 DEF KqueueStep

LEMMA OwnInvKeeps ==
    ASSUME TableSound, KqInv, OwnInv, [Next]_vars
    PROVE  OwnInv'
<1>1. server' = server
  BY WhoSteps
<1>2. CASE server # "kqueue"
  BY <1>1, <1>2 DEF OwnInv, RecordsOwned
<1>3. CASE server = "kqueue" /\ KqueueStep
  BY <1>1, <1>3, OwnedKeeps DEF KqInv
<1>4. CASE UNCHANGED <<fdtab, at, cur, kqueueVars>>
  BY <1>1, <1>4 DEF OwnInv, RecordsOwned, PlaceSound, kqueueVars
<1> QED BY <1>2, <1>3, <1>4, WhoSteps

-----------------------------------------------------------------------------
LEMMA TablesInit == Init => TableSound /\ PollInv /\ KqInv /\ OwnInv
<1> SUFFICES ASSUME Init PROVE TableSound /\ PollInv /\ KqInv /\ OwnInv
  OBVIOUS
<1>1. /\ fdtab = [f \in Fds |-> NULL] /\ backlog = {} /\ at = "wait"
      /\ slot = [j \in Entries |-> NULL] /\ nfds = 1
      /\ kq = [f \in Fds |-> NULL] /\ heap = {} /\ evs = {}
  BY DEF Init, EchoInit, PollInit, KqueueInit
<1>2. TableSound /\ KqInv
  BY <1>1 DEF TableSound, KqInv, KqSound
<1>3. PollInv
  BY <1>1 DEF PollInv, PollSound
<1>4. OwnInv
  BY <1>1 DEF OwnInv, RecordsOwned, PlaceSound
<1> QED BY <1>2, <1>3, <1>4

(* The invariant of the tables of all four servers.                        *)
THEOREM TablesInvariant == Spec => [](TableSound /\ PollInv /\ KqInv /\ OwnInv)
<1>1. TableSound /\ PollInv /\ KqInv /\ OwnInv /\ [Next]_vars
        => (TableSound /\ PollInv /\ KqInv /\ OwnInv)'
  BY TableKeeps, PollInvKeeps, KqInvKeeps, OwnInvKeeps
<1> QED BY <1>1, TablesInit, PTL DEF Spec

(* Each server, when it waits, waits for exactly the connections that are
   open, and for none of them twice.                                       *)
THEOREM WatchesExactly == Spec => []WatchesWhatIsOpen
<1>1. SelectInv /\ TableSound /\ PollInv /\ KqInv /\ server \in Servers
        => WatchesWhatIsOpen
  <2> SUFFICES ASSUME SelectInv, TableSound, PollInv, KqInv, server \in Servers
               PROVE  WatchesWhatIsOpen
    OBVIOUS
  <2>1. \A j, l \in Entries : slot[j] = slot[l] /\ slot[j] # NULL => j = l
    BY DEF PollInv, PollSound
  <2>2. CASE server = "select"
    <3>1. Watched = {f \in Fds : fdtab[f] # NULL}
      BY <2>2, KqConstants DEF SelectInv, Sound, MaxSound, Watched
    <3> QED BY <2>1, <3>1 DEF WatchesWhatIsOpen
  <2>3. CASE server = "poll"
    <3>1. PollSound
      BY <2>3 DEF PollInv
    <3>2. Watched = {slot[j] : j \in {l \in Entries : l < nfds}} \ {NULL}
      BY <2>3 DEF Watched
    <3>3. \A j \in Entries : slot[j] # NULL =>
            slot[j] \in Fds /\ fdtab[slot[j]] # NULL /\ j < nfds
      BY <3>1 DEF PollSound
    <3>4. \A f \in Fds : fdtab[f] # NULL => f # NULL /\ \E j \in Entries : slot[j] = f
      BY <3>1, KqConstants DEF PollSound
    <3>5. Watched = {f \in Fds : fdtab[f] # NULL}
      BY <3>2, <3>3, <3>4
    <3> QED BY <2>1, <3>5 DEF WatchesWhatIsOpen
  <2>4. CASE server \in {"kqueue", "nonblocking"}
    <3>1. Watched = {f \in Fds : kq[f] # NULL}
      BY <2>4 DEF Watched
    <3>2. Watched = {f \in Fds : fdtab[f] # NULL}
      BY <2>4, <3>1 DEF KqInv, KqSound
    <3> QED BY <2>1, <3>2 DEF WatchesWhatIsOpen
  <2> QED BY <2>2, <2>3, <2>4 DEF Servers
<1>2. Spec => [](server \in Servers)
  <2>1. Init => server \in Servers
    BY RunningAssumption DEF Init
  <2>2. server \in Servers /\ [Next]_vars => (server \in Servers)'
    <3>1. [Next]_vars => server' = server
      BY WhoSteps
    <3> QED BY <3>1
  <2> QED BY <2>1, <2>2, PTL DEF Spec
<1> QED BY <1>1, <1>2, SelectInvariant, TablesInvariant, PTL

(* Each connection of the blocking kqueue server has a record of its own as
   long as it is open, and no other record is left.                        *)
THEOREM RecordsAlwaysOwned == Spec => []RecordsOwned
<1>1. OwnInv => RecordsOwned
  BY DEF OwnInv
<1> QED BY <1>1, TablesInvariant, PTL

-----------------------------------------------------------------------------
(* What they do with the data.                                             *)

(* What a server has written back it has read, what it is at is open, and
   what it is about to write back it has not written back yet.             *)
ServedSound ==
    /\ \A c \in Clients : rx[c] + got[c] <= MaxChunks /\ echoed[c] <= got[c]
    /\ at \in {"read", "write"} => cur \in Fds /\ fdtab[cur] # NULL
    /\ at = "write" => echoed[fdtab[cur]] < got[fdtab[cur]]

(* The events of a turn of the kqueue servers are about open descriptors,
   and none is about the one that is being read.                           *)
EventsSound ==
    server \in {"kqueue", "nonblocking"} =>
        /\ \A f \in evs \ {Listen} : fdtab[f] # NULL
        /\ at \in {"read", "write"} => cur \notin evs

Calls == EchoTypeOK /\ SelectInv /\ PollInv /\ KqInv /\ ServedSound /\ EventsSound
         /\ SelectTypeOK /\ PollTypeOK /\ KqueueTypeOK

(* What a step does to the data: a chunk is read, one is written back or
   not, or nothing happens to it.                                          *)
DataRead == /\ \E f \in Fds : /\ fdtab[f] \in Clients
                              /\ ReadsData(fdtab[f]) /\ TakeData(fdtab[f])
                              /\ cur' = f
            /\ at' = "write"
            /\ died' = died

DataWritten == /\ at = "write" /\ at' \in {"read", "scan"}
               /\ \/ Written(fdtab[cur])
                  \/ UNCHANGED <<rx, tx, got, echoed>> /\ err' \subseteq err
               /\ shut' \subseteq Clients
               /\ UNCHANGED <<clientVars, fdtab, cur, died>>

DataKept == /\ UNCHANGED <<came, fin, rst, rx, tx, shut, got, echoed>>
            /\ backlog' \subseteq backlog /\ err' \subseteq err
            /\ at' \in {"wait", "scan", "accept", "read", "write"}
            /\ cur' \in Fds \cup {NULL}
            /\ at' = "write" => UNCHANGED <<at, cur, fdtab>>
            /\ at' = "read" => cur' \in Fds /\ fdtab'[cur'] # NULL
            /\ died' \in {"no", "exit", "sigpipe", "double free"}

LEMMA Counts ==
    ASSUME EchoTypeOK, NEW c \in Clients
    PROVE  /\ rx[c] \in Nat /\ tx[c] \in Nat /\ got[c] \in Nat /\ echoed[c] \in Nat
           /\ rx[c] <= MaxChunks /\ got[c] <= MaxChunks /\ echoed[c] <= MaxChunks
           /\ tx[c] <= SendBuf
           /\ MaxChunks \in Nat /\ SendBuf \in Nat
<1>1. /\ rx[c] \in 0..MaxChunks /\ got[c] \in 0..MaxChunks
      /\ echoed[c] \in 0..MaxChunks /\ tx[c] \in 0..SendBuf
  BY DEF EchoTypeOK
<1> QED BY <1>1, EchoNetAssumption

LEMMA ReadKeeps ==
    ASSUME EchoTypeOK, ServedSound, DataRead, server' = server
    PROVE  EchoTypeOK' /\ ServedSound'
<1>1. PICK f \in Fds : /\ fdtab[f] \in Clients
                       /\ ReadsData(fdtab[f]) /\ TakeData(fdtab[f])
                       /\ cur' = f
  BY DEF DataRead
<1> DEFINE c == fdtab[f]
<1>2. /\ rx[c] \in 0..MaxChunks /\ got[c] \in 0..MaxChunks /\ rx[c] > 0
      /\ rx[c] + got[c] <= MaxChunks /\ echoed[c] <= got[c]
      /\ rx' = [rx EXCEPT ![c] = @ - 1] /\ got' = [got EXCEPT ![c] = @ + 1]
  BY <1>1 DEF EchoTypeOK, ServedSound, ReadsData, TakeData
<1>3. rx[c] - 1 \in 0..MaxChunks /\ got[c] + 1 \in 0..MaxChunks
  BY <1>2, EchoNetAssumption
<1>4. EchoTypeOK'
  <2>1. /\ UNCHANGED <<clientVars, tx, err, shut, echoed, fdtab, server, died>>
        /\ at' = "write" /\ cur' \in Fds
    BY <1>1 DEF DataRead, TakeData
  <2>2. rx' \in [Clients -> 0..MaxChunks] /\ got' \in [Clients -> 0..MaxChunks]
    BY <1>2, <1>3 DEF EchoTypeOK
  <2> QED BY <2>1, <2>2 DEF EchoTypeOK, clientVars
<1>5. \A d \in Clients : rx'[d] + got'[d] <= MaxChunks /\ echoed'[d] <= got'[d]
  <2> TAKE d \in Clients
  <2>1. CASE d = c
    <3>1. rx'[c] = rx[c] - 1 /\ got'[c] = got[c] + 1 /\ echoed'[c] = echoed[c]
      BY <1>1, <1>2 DEF EchoTypeOK, TakeData
    <3>2. /\ rx[c] \in Nat /\ got[c] \in Nat /\ echoed[c] \in Nat
          /\ MaxChunks \in Nat
      BY <1>1, Counts
    <3> QED BY <1>2, <2>1, <3>1, <3>2
  <2>2. CASE d # c
    BY <1>1, <1>2, <2>2 DEF EchoTypeOK, ServedSound, TakeData
  <2> QED BY <2>1, <2>2
<1>6. /\ cur' \in Fds /\ fdtab' = fdtab /\ fdtab[cur'] = c /\ c # NULL
      /\ echoed'[c] < got'[c]
  <2>1. cur' = f /\ fdtab' = fdtab /\ c # NULL
    BY <1>1, EchoNetAssumption DEF TakeData
  <2>2. got'[c] = got[c] + 1 /\ echoed'[c] = echoed[c]
    BY <1>1, <1>2 DEF EchoTypeOK, TakeData
  <2>3. got[c] \in Nat /\ echoed[c] \in Nat
    BY <1>1, Counts
  <2> HIDE DEF c
  <2>4. echoed'[c] < got'[c]
    BY <1>2, <2>2, <2>3
  <2> QED BY <2>1, <2>4 DEF c
<1> QED BY <1>4, <1>5, <1>6 DEF ServedSound

LEMMA WriteKeeps ==
    ASSUME EchoTypeOK, ServedSound, DataWritten, server' = server
    PROVE  EchoTypeOK' /\ ServedSound'
<1> DEFINE c == fdtab[cur]
<1>1. cur \in Fds /\ c \in Clients /\ echoed[c] < got[c]
  BY DEF DataWritten, ServedSound, EchoTypeOK
<1>2. CASE Written(c)
  <2>1. /\ tx' = [tx EXCEPT ![c] = @ + 1] /\ echoed' = [echoed EXCEPT ![c] = @ + 1]
        /\ tx[c] < SendBuf /\ UNCHANGED <<rx, err, got>>
    BY <1>2 DEF Written
  <2>2. tx[c] + 1 \in 0..SendBuf /\ echoed[c] + 1 \in 0..MaxChunks
        /\ echoed[c] + 1 <= got[c]
    <3>1. /\ tx[c] \in Nat /\ got[c] \in Nat /\ echoed[c] \in Nat
          /\ got[c] <= MaxChunks /\ MaxChunks \in Nat /\ SendBuf \in Nat
      BY <1>1, Counts
    <3> QED BY <1>1, <2>1, <3>1
  <2>3. EchoTypeOK'
    BY <2>1, <2>2 DEF EchoTypeOK, DataWritten, clientVars
  <2> QED BY <1>1, <2>1, <2>2, <2>3 DEF ServedSound, EchoTypeOK, DataWritten
<1>3. CASE UNCHANGED <<rx, tx, got, echoed>> /\ err' \subseteq err
  <2>1. EchoTypeOK'
    BY <1>3 DEF EchoTypeOK, DataWritten, clientVars
  <2> QED BY <1>1, <1>3, <2>1 DEF ServedSound, DataWritten
<1> QED BY <1>2, <1>3 DEF DataWritten

LEMMA KeptKeeps ==
    ASSUME EchoTypeOK, ServedSound, DataKept, server' = server, TableSound'
    PROVE  EchoTypeOK' /\ ServedSound'
<1>1. EchoTypeOK'
  BY DEF EchoTypeOK, DataKept, TableSound
<1>2. ServedSound'
  BY DEF ServedSound, DataKept
<1> QED BY <1>1, <1>2

LEMMA ClientKeeps ==
    ASSUME EchoTypeOK, ServedSound, ClientStep
    PROVE  EchoTypeOK' /\ ServedSound'
<1> PICK c \in Clients : Connect(c) \/ Send(c) \/ ReadEcho(c) \/ Finish(c) \/ Reset(c)
  BY DEF ClientStep
<1>1. UNCHANGED <<server, fdtab, at, cur, died>>
  BY DEF ClientStep
<1>2. CASE Connect(c) \/ Finish(c)
  BY <1>1, <1>2 DEF Connect, Finish, EchoTypeOK, ServedSound, dataVars
<1>3. CASE Send(c)
  <2>1. /\ rx' = [rx EXCEPT ![c] = @ + 1] /\ rx[c] + got[c] < MaxChunks
        /\ UNCHANGED <<clientVars, tx, err, shut, got, echoed>>
    BY <1>3 DEF Send
  <2>2. rx[c] + 1 \in 0..MaxChunks /\ rx[c] + 1 + got[c] <= MaxChunks
    <3>1. rx[c] \in Nat /\ got[c] \in Nat /\ MaxChunks \in Nat
      BY Counts
    <3> QED BY <2>1, <3>1
  <2>3. EchoTypeOK'
    BY <1>1, <2>1, <2>2 DEF EchoTypeOK, clientVars
  <2> QED BY <1>1, <2>1, <2>2, <2>3 DEF ServedSound, EchoTypeOK
<1>4. CASE ReadEcho(c)
  <2>1. tx' = [tx EXCEPT ![c] = @ - 1] /\ tx[c] > 0
        /\ UNCHANGED <<clientVars, rx, err, shut, got, echoed>>
    BY <1>4 DEF ReadEcho
  <2>2. tx[c] - 1 \in 0..SendBuf
    <3>1. tx[c] \in Nat /\ tx[c] <= SendBuf /\ SendBuf \in Nat
      BY Counts
    <3> QED BY <2>1, <3>1
  <2> QED BY <1>1, <2>1, <2>2 DEF EchoTypeOK, ServedSound, clientVars
<1>5. CASE Reset(c)
  <2>1. 0 \in 0..MaxChunks
    BY EchoNetAssumption
  <2>2. EchoTypeOK'
    BY <1>1, <1>5, <2>1 DEF EchoTypeOK, Reset
  <2>3. \A d \in Clients : rx'[d] + got'[d] <= MaxChunks
    <3> TAKE d \in Clients
    <3>1. rx'[d] = IF d = c THEN 0 ELSE rx[d]
      BY <1>5 DEF Reset, EchoTypeOK
    <3>2. rx[d] \in Nat /\ got[d] \in Nat /\ got[d] <= MaxChunks
      BY Counts
    <3>3. got' = got
      BY <1>5 DEF Reset
    <3> QED BY <3>1, <3>2, <3>3 DEF ServedSound
  <2> QED BY <1>1, <1>5, <2>2, <2>3 DEF ServedSound, Reset
<1> QED BY <1>2, <1>3, <1>4, <1>5

-----------------------------------------------------------------------------
LEMMA SelectData ==
    ASSUME Calls, TableSound, SelectStep
    PROVE  DataRead \/ DataWritten \/ DataKept
<1>1. server = "select" /\ Sound
  BY DEF Calls, SelectInv, SelectStep, SelectFull, Select, SelectTurnDone,
     SelectAccept, SelectAcceptFails, SelectRead, SelectClose, SelectWrite,
     SelectSigpipe, Runs
<1>2. CASE SelectRead
  <2>1. PICK f \in readfd \ {Listen} :
               /\ ComesTo(f) /\ ReadsData(fdtab[f]) /\ TakeData(fdtab[f])
               /\ cur' = f
    BY <1>2 DEF SelectRead
  <2>2. f \in Fds /\ fdtab[f] \in Clients
    BY <1>1, <1>2, <2>1, ComingTo DEF SelectRead, Runs
  <2> QED BY <1>2, <2>1, <2>2 DEF DataRead, SelectRead
<1>3. CASE SelectWrite
  <2>1. fdtab[cur] \in Clients /\ shut \subseteq Clients
    BY <1>3 DEF Calls, EchoTypeOK, ServedSound, SelectWrite, Runs
  <2> QED BY <1>3, <2>1 DEF SelectWrite, Runs, DataWritten, WriteFails, Written
<1>4. CASE SelectClose \/ SelectAccept \/ SelectAcceptFails \/ SelectFull \/ Select
           \/ SelectTurnDone \/ SelectSigpipe
  BY <1>4 DEF Calls, EchoTypeOK, ServedSound, DataKept, SelectClose, SelectAccept,
     SelectAcceptFails, SelectFull, Select, SelectTurnDone, SelectSigpipe, Runs,
     Die, Accept, netVars, clientVars, dataVars
<1> QED BY <1>2, <1>3, <1>4 DEF SelectStep

LEMMA PollData ==
    ASSUME Calls, TableSound, PollStep
    PROVE  DataRead \/ DataWritten \/ DataKept
<1>1. server = "poll" /\ PollSound
  BY DEF Calls, PollInv, PollStep, Poll, PollAccept, PollRefuse, PollAcceptFails,
     PollTurnDone, PollRead, PollClose, PollWrite, PollSigpipe, Runs
<1>2. CASE PollRead
  <2>1. PICK j \in Entries :
               /\ GetsTo(j) /\ ReadsData(fdtab[slot[j]]) /\ TakeData(fdtab[slot[j]])
               /\ cur' = slot[j]
    BY <1>2 DEF PollRead
  <2>2. slot[j] \in Fds /\ fdtab[slot[j]] \in Clients
    BY <1>1, <2>1 DEF PollSound, GetsTo, Due, TableSound
  <2> QED BY <1>2, <2>1, <2>2 DEF DataRead, PollRead
<1>3. CASE PollWrite
  BY <1>3 DEF Calls, EchoTypeOK, PollWrite, Runs, DataWritten, WriteFails, Written
<1>4. CASE Poll \/ PollAccept \/ PollRefuse \/ PollAcceptFails \/ PollTurnDone
           \/ PollClose \/ PollSigpipe
  BY <1>4 DEF Calls, EchoTypeOK, ServedSound, DataKept, Poll, PollAccept,
     PollRefuse, PollAcceptFails, PollTurnDone, PollClose, PollSigpipe, Runs, Die,
     Accept, Refuse, netVars, clientVars, dataVars
<1> QED BY <1>2, <1>3, <1>4 DEF PollStep

LEMMA KqueueData ==
    ASSUME Calls, TableSound, KqueueStep \/ NonblockingStep
    PROVE  DataRead \/ DataWritten \/ DataKept
<1> PICK s \in {"kqueue", "nonblocking"} : server = s
  BY DEF KqueueStep, NonblockingStep, KeventFor, TurnDoneFor, KqAccept,
     KqAcceptFails, ConnEventFor, ReadFor, ReadErrorFor, WriteFor, EofFor,
     NbMalloc, NbAccept, NbAddFails, NbAcceptNone, NbReadAgain, NbWriteAgain, Runs
<1>1. CASE ReadFor("kqueue") \/ ReadFor("nonblocking")
  BY <1>1 DEF Calls, EchoTypeOK, ServedSound, ReadFor, Runs, DataRead
<1>2. CASE WriteFor("kqueue") \/ WriteFor("nonblocking")
  BY <1>2 DEF Calls, EchoTypeOK, WriteFor, Runs, DataWritten, WriteFails, Written
<1>3. CASE EofFor("kqueue") \/ EofFor("nonblocking")
  BY <1>3 DEF Calls, EchoTypeOK, EofFor, Close, Free, Runs, DataKept, clientVars,
     dataVars
<1>4. CASE ConnEventFor("kqueue") \/ ConnEventFor("nonblocking")
  BY <1>4 DEF Calls, EchoTypeOK, EventsSound, KqueueTypeOK, ConnEventFor, Runs,
     DataKept, netVars, clientVars, dataVars
<1>5. CASE ReadErrorFor("kqueue") \/ ReadErrorFor("nonblocking") \/ NbReadAgain
           \/ NbWriteAgain
  BY <1>5 DEF Calls, EchoTypeOK, ServedSound, ReadErrorFor, NbReadAgain,
     NbWriteAgain, TakeError, Runs, DataKept, echoVars, netVars, clientVars, dataVars
<1>6. CASE \/ KeventFor("kqueue") \/ TurnDoneFor("kqueue") \/ KqAccept
           \/ KqAcceptFails \/ KeventFor("nonblocking") \/ TurnDoneFor("nonblocking")
           \/ NbMalloc \/ NbAccept \/ NbAddFails \/ NbAcceptNone
  BY <1>6 DEF Calls, EchoTypeOK, ServedSound, KeventFor, TurnDoneFor, KqAccept,
     KqAcceptFails, NbMalloc, NbAccept, NbAddFails, NbAcceptNone, Runs, Die, Free,
     Accept, Refuse, DataKept, netVars, clientVars, dataVars
<1> QED BY <1>1, <1>2, <1>3, <1>4, <1>5, <1>6 DEF KqueueStep, NonblockingStep

-----------------------------------------------------------------------------
LEMMA EventsKeep ==
    ASSUME Calls, TableSound, [Next]_vars
    PROVE  EventsSound'
<1> SUFFICES ASSUME server' \in {"kqueue", "nonblocking"}
             PROVE  /\ \A f \in evs' \ {Listen} : fdtab'[f] # NULL
                    /\ at' \in {"read", "write"} => cur' \notin evs'
  BY DEF EventsSound
<1>1. server \in {"kqueue", "nonblocking"} /\ server' = server
  BY WhoSteps
<1>2. /\ \A f \in evs \ {Listen} : fdtab[f] # NULL
      /\ at \in {"read", "write"} => cur \notin evs /\ cur \in Fds
      /\ evs \subseteq Fds \cup {Listen} /\ fdtab \in [Fds -> Clients \cup {NULL}]
  BY <1>1 DEF Calls, EventsSound, ServedSound, KqueueTypeOK, EchoTypeOK
<1>3. CASE fdtab' = fdtab /\ UNCHANGED <<at, cur, kqueueVars>>
  BY <1>2, <1>3 DEF kqueueVars
<1>4. CASE KeventFor("kqueue") \/ KeventFor("nonblocking")
  <2>1. evs' = Ready /\ fdtab' = fdtab /\ at' = "scan"
    BY <1>4 DEF KeventFor, netVars
  <2>2. \A f \in Ready \ {Listen} : fdtab[f] # NULL
    BY <1>1 DEF Calls, KqInv, KqSound, Ready
  <2> QED BY <2>1, <2>2
<1>5. CASE ConnEventFor("kqueue") \/ ConnEventFor("nonblocking")
  BY <1>2, <1>5 DEF ConnEventFor, netVars
<1>6. CASE EofFor("kqueue") \/ EofFor("nonblocking")
  <2>1. /\ at = "read" /\ at' = "scan" /\ evs' = evs
        /\ fdtab' = [fdtab EXCEPT ![cur] = NULL]
    BY <1>6 DEF EofFor, Close, Runs
  <2> QED BY <1>2, <2>1
<1>7. CASE KqAccept \/ NbAccept
  <2>1. PICK c \in backlog, f \in FreeFds : fdtab' = [fdtab EXCEPT ![f] = c]
    BY <1>7 DEF KqAccept, NbAccept, Accept
  <2>2. c # NULL
    BY KqConstants DEF TableSound
  <2>3. evs' \subseteq evs /\ at' \notin {"read", "write"}
    BY <1>7 DEF KqAccept, NbAccept, Runs
  <2> QED BY <1>2, <2>1, <2>2, <2>3
<1>8. CASE \/ TurnDoneFor("kqueue") \/ KqAcceptFails \/ ReadFor("kqueue")
           \/ ReadErrorFor("kqueue") \/ WriteFor("kqueue")
           \/ TurnDoneFor("nonblocking") \/ NbMalloc \/ NbAddFails \/ NbAcceptNone
           \/ ReadFor("nonblocking") \/ ReadErrorFor("nonblocking") \/ NbReadAgain
           \/ WriteFor("nonblocking") \/ NbWriteAgain
  <2>1. /\ fdtab' = fdtab /\ cur' = cur /\ evs' \subseteq evs
        /\ at' \in {"read", "write"} => at \in {"read", "write"}
    BY <1>8 DEF TurnDoneFor, KqAcceptFails, ReadFor, ReadErrorFor, WriteFor,
       NbMalloc, NbAddFails, NbAcceptNone, NbReadAgain, NbWriteAgain, Die, Refuse,
       TakeData, TakeError, Written, WriteFails, Runs, echoVars, netVars, kqueueVars
  <2> QED BY <1>2, <2>1
<1> QED BY <1>1, <1>3, <1>4, <1>5, <1>6, <1>7, <1>8, WhoSteps
        DEF KqueueStep, NonblockingStep

LEMMA KqueueTypeKeeps ==
    ASSUME Calls, TableSound, [Next]_vars
    PROVE  KqueueTypeOK'
<1>1. KqueueTypeOK
  BY DEF Calls
<1>2. CASE UNCHANGED kqueueVars
  BY <1>1, <1>2 DEF KqueueTypeOK, kqueueVars
<1>3. CASE (KqueueStep \/ NonblockingStep) /\ server \in {"kqueue", "nonblocking"}
  <2>1. kq' \in [Fds -> Records \cup {NULL}]
    BY <1>3, WhoSteps, KqInvKeeps DEF Calls, KqInv, KqSound
  <2>2. heap' \subseteq Records /\ record' \in Records \cup {NULL}
        /\ evs' \subseteq Fds \cup {Listen}
    BY <1>1, <1>3 DEF KqueueTypeOK, KqueueStep, NonblockingStep, KeventFor,
       TurnDoneFor, KqAccept, KqAcceptFails, ConnEventFor, ReadFor, ReadErrorFor,
       WriteFor, EofFor, NbMalloc, NbAccept, NbAddFails, NbAcceptNone, NbReadAgain,
       NbWriteAgain, Free, Ready, kqueueVars
  <2> QED BY <2>1, <2>2 DEF KqueueTypeOK
<1> QED BY <1>2, <1>3, WhoSteps

LEMMA PollTypeKeeps ==
    ASSUME Calls, TableSound, [Next]_vars
    PROVE  PollTypeOK'
<1>1. PollTypeOK
  BY DEF Calls
<1>2. CASE UNCHANGED pollVars
  BY <1>1, <1>2 DEF PollTypeOK, pollVars, Entries
<1>3. CASE PollStep /\ server = "poll"
  <2>1. PollSize' = PollSize /\ Entries' = Entries
    BY <1>3 DEF PollStep, Poll, PollAccept, PollRefuse, PollAcceptFails,
       PollTurnDone, PollRead, PollClose, PollWrite, PollSigpipe, pollVars, Entries
  <2>2. \A j \in Entries : j + 1 \in 1..PollSize
    <3>1. PollSize \in Nat
      BY <1>1, PollServerAssumption DEF PollTypeOK
    <3> QED BY <3>1 DEF Entries
  <2>3. 1 \in 1..PollSize
    BY <1>1, PollServerAssumption DEF PollTypeOK
  <2>4. nfds' \in 1..PollSize /\ k' \in 1..PollSize
    <3>1. CASE PollAccept
      BY <1>1, <3>1, <2>2 DEF PollAccept, FreeEntries, PollTypeOK
    <3>2. CASE PollRead \/ PollClose
      BY <1>1, <3>2, <2>2 DEF PollRead, PollClose, PollTypeOK
    <3>3. CASE Poll
      BY <1>1, <3>3, <2>3 DEF Poll, PollTypeOK
    <3>4. CASE PollRefuse \/ PollAcceptFails \/ PollTurnDone \/ PollWrite \/ PollSigpipe
      BY <1>1, <3>4 DEF PollRefuse, PollAcceptFails, PollTurnDone, PollWrite,
         PollSigpipe, pollVars, PollTypeOK
    <3> QED BY <1>3, <3>1, <3>2, <3>3, <3>4 DEF PollStep
  <2>5. revents' \subseteq Entries
    BY <1>1, <1>3 DEF PollStep, Poll, PollAccept, PollRefuse, PollAcceptFails,
       PollTurnDone, PollRead, PollClose, PollWrite, PollSigpipe, pollVars,
       PollTypeOK, Reported
  <2>6. slot' \in [Entries -> Fds \cup {NULL}]
    BY <1>3, <2>1, WhoSteps, PollInvKeeps DEF Calls, PollInv, PollSound
  <2> QED BY <1>1, <2>1, <2>4, <2>5, <2>6 DEF PollTypeOK
<1> QED BY <1>2, <1>3, WhoSteps

LEMMA SelectTypeKeeps ==
    ASSUME Calls, TableSound, [Next]_vars
    PROVE  SelectTypeOK'
<1>1. SelectTypeOK
  BY DEF Calls
<1>2. CASE UNCHANGED selectVars
  BY <1>1, <1>2 DEF SelectTypeOK, selectVars
<1>3. CASE SelectStep /\ server = "select"
  <2>1. Sound
    BY <1>3 DEF Calls, SelectInv
  <2>2. \A f \in Fds \cup {Listen} : f + 1 \in 1..NFds + 1 /\ f + 1 \in 0..NFds + 1
    BY EchoConstants DEF Fds, Listen
  <2>3. readfd_cache' \subseteq Fds \cup {Listen} /\ readfd' \subseteq Fds \cup {Listen}
    BY <1>1, <1>3 DEF SelectTypeOK, SelectStep, SelectFull, Select, SelectTurnDone,
       SelectAccept, SelectAcceptFails, SelectRead, SelectClose, SelectWrite,
       SelectSigpipe, ReadableFds, FreeFds, Passed, selectVars
  <2>4. maxfd' \in 1..NFds + 1
    <3>1. CASE SelectAccept
      BY <1>1, <3>1, <2>2 DEF SelectTypeOK, SelectAccept, FreeFds
    <3>2. CASE SelectClose
      <4>1. PICK f \in readfd \ {Listen} :
                   /\ ComesTo(f)
                   /\ maxfd' = IF f = maxfd - 1 THEN NewMax(f) ELSE maxfd
        BY <3>2 DEF SelectClose
      <4>2. f \in readfd_cache
        BY <2>1, <3>2, <4>1, ComingTo DEF SelectClose, Runs
      <4> QED BY <1>1, <2>1, <4>1, <4>2, MaxNeverFalls DEF SelectTypeOK, Sound
    <3>3. CASE ~SelectAccept /\ ~SelectClose
      BY <1>1, <1>3, <3>3 DEF SelectTypeOK, SelectStep, SelectFull, Select,
         SelectTurnDone, SelectAcceptFails, SelectRead, SelectWrite, SelectSigpipe,
         selectVars
    <3> QED BY <3>1, <3>2, <3>3
  <2>5. ret' \in 0..NFds + 1 /\ i' \in 0..NFds + 1
    <3>1. CASE Select
      <4>1. readfd' \subseteq 0..NFds /\ ret' = Cardinality(readfd') /\ i' = 0
        BY <2>3, <3>1, EchoConstants DEF Select, Fds, Listen
      <4>2. IsFiniteSet(0..NFds) /\ Cardinality(0..NFds) = NFds + 1
        BY EchoConstants, FS_Interval
      <4>3. ret' \in Nat /\ ret' <= NFds + 1
        BY <4>1, <4>2, FS_Subset, FS_CardinalityType
      <4> QED BY <4>1, <4>3, EchoConstants
    <3>2. CASE SelectAccept \/ SelectAcceptFails \/ SelectRead \/ SelectClose
      <4>1. PICK f \in readfd \cup {Listen} : ComesTo(f) /\ Passed(f)
        BY <3>2 DEF SelectAccept, SelectAcceptFails, SelectRead, SelectClose
      <4>2. f \in Fds \cup {Listen} /\ ret # 0 /\ ret' = ret - 1 /\ i' = f + 1
        BY <1>1, <4>1 DEF SelectTypeOK, ComesTo, Passed
      <4>3. ret \in 0..NFds + 1
        BY <1>1 DEF SelectTypeOK
      <4> QED BY <2>2, <4>2, <4>3, EchoConstants
    <3>3. CASE SelectFull \/ SelectTurnDone \/ SelectWrite \/ SelectSigpipe
      BY <1>1, <3>3 DEF SelectTypeOK, SelectFull, SelectTurnDone, SelectWrite,
         SelectSigpipe, selectVars
    <3> QED BY <1>3, <3>1, <3>2, <3>3 DEF SelectStep
  <2>6. fd_setsize' = fd_setsize
    BY <1>3 DEF SelectStep, SelectFull, Select, SelectTurnDone, SelectAccept,
       SelectAcceptFails, SelectRead, SelectClose, SelectWrite, SelectSigpipe,
       selectVars
  <2> QED BY <1>1, <2>3, <2>4, <2>5, <2>6 DEF SelectTypeOK
<1> QED BY <1>2, <1>3
        DEF Next, ServerStep, SelectStep, SelectFull, Select, SelectTurnDone,
            SelectAccept, SelectAcceptFails, SelectRead, SelectClose, SelectWrite,
            SelectSigpipe, Runs, vars

-----------------------------------------------------------------------------
LEMMA CallsInit == Init => TypeOK /\ ServedSound /\ EventsSound
<1> SUFFICES ASSUME Init PROVE TypeOK /\ ServedSound /\ EventsSound
  OBVIOUS
<1>1. server \in Servers
  BY RunningAssumption DEF Init
<1>2. 0 \in 0..MaxChunks /\ 0 \in 0..SendBuf /\ 1 \in 1..NFds + 1 /\ 0 \in 0..NFds + 1
  BY EchoNetAssumption
<1>3. EchoTypeOK
  BY <1>1, <1>2 DEF Init, EchoInit, EchoTypeOK
<1>4. SelectTypeOK
  BY <1>2 DEF Init, SelectInit, SelectTypeOK, Listen
<1>5. PollTypeOK
  <2>1. PollSize \in PollSizes /\ 1 \in 1..PollSize
    BY PollServerAssumption DEF Init, PollInit
  <2> QED BY <2>1 DEF Init, PollInit, PollTypeOK
<1>6. KqueueTypeOK
  BY DEF Init, KqueueInit, KqueueTypeOK
<1>7. ServedSound
  <2>1. \A c \in Clients : rx[c] = 0 /\ got[c] = 0 /\ echoed[c] = 0
    BY DEF Init, EchoInit
  <2>2. at = "wait"
    BY DEF Init, EchoInit
  <2> QED BY <2>1, <2>2, EchoNetAssumption DEF ServedSound
<1>8. EventsSound
  BY DEF Init, EchoInit, KqueueInit, EventsSound
<1> QED BY <1>3, <1>4, <1>5, <1>6, <1>7, <1>8 DEF TypeOK

(* Whichever server runs, with however many clients, descriptors and
   chunks: every variable keeps its type, no client is echoed more than was
   read from it, and a server that reads or writes does so on a connection
   that is open.                                                           *)
THEOREM ServersTypeOK == Spec => [](TypeOK /\ ServedSound)
<1> DEFINE Inv == TypeOK /\ ServedSound /\ EventsSound
           Tables == TableSound /\ PollInv /\ KqInv /\ OwnInv
<1>1. Init => Inv
  BY CallsInit
<1>2. ASSUME Inv, SelectInv, Tables, Tables', [Next]_vars PROVE Inv'
  <2>1. Calls
    BY <1>2 DEF Calls, TypeOK
  <2>2. EventsSound' /\ KqueueTypeOK' /\ PollTypeOK' /\ SelectTypeOK'
    BY <1>2, <2>1, EventsKeep, KqueueTypeKeeps, PollTypeKeeps, SelectTypeKeeps
  <2>3. server' = server
    BY <1>2, WhoSteps
  <2>4. EchoTypeOK /\ ServedSound
    BY <2>1 DEF Calls
  <2>5. EchoTypeOK' /\ ServedSound'
    <3>1. CASE UNCHANGED vars
      BY <2>4, <3>1 DEF EchoTypeOK, ServedSound, vars, echoVars, netVars, clientVars,
         dataVars
    <3>2. CASE ClientStep
      BY <2>4, <3>2, ClientKeeps
    <3>3. CASE ServerStep
      <4>1. DataRead \/ DataWritten \/ DataKept
        BY <1>2, <2>1, <3>3, SelectData, PollData, KqueueData DEF ServerStep
      <4> QED BY <1>2, <2>3, <2>4, <4>1, ReadKeeps, WriteKeeps, KeptKeeps
    <3> QED BY <1>2, <3>1, <3>2, <3>3 DEF Next
  <2> QED BY <2>2, <2>5 DEF TypeOK
<1>3. Inv => TypeOK /\ ServedSound
  OBVIOUS
<1> HIDE DEF Inv, Tables
<1>4. Spec => []SelectInv /\ []Tables
  BY SelectInvariant, TablesInvariant, PTL DEF Tables
<1> QED BY <1>1, <1>2, <1>3, <1>4, PTL DEF Spec
=============================================================================
