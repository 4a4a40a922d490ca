--------------------------- MODULE AcoHttpdProofs ---------------------------
(***************************************************************************)
(* Proofs about AcoHttpd, for every number of clients, descriptors and     *)
(* chunks.                                                                 *)
(***************************************************************************)
EXTENDS AcoHttpd, TLAPS

(* What the proofs use of the constants: 0 is none of the descriptors.     *)
LEMMA Constants == /\ NULL \notin Clients /\ Listen \notin Fds
                   /\ MaxChunks \in Nat /\ SendBuf \in Nat
                   /\ \A f \in Fds : f \in Nat
BY AcoHttpdAssumption DEF Listen, Fds

(* What is on its way to a client and what was read of it are bounded
   together.                                                               *)
ChunksSound == \A c \in Clients : rx[c] + asked[c] <= MaxChunks

(* A descriptor is that of a routine that has not ended, and conversely.   *)
FdsSound ==
    /\ \A f \in Fds : kq[f] # NULL => fdtab[f] = kq[f]
    /\ \A f \in Fds : fdtab[f] # NULL =>
         routine[fdtab[f]] \in {"suspended", "running"} /\ fd[fdtab[f]] = f
    /\ \A c \in Clients : routine[c] \in {"suspended", "running"} =>
         fd[c] \in Fds /\ fdtab[fd[c]] = c
    /\ \A c \in Clients : routine[c] = "running" => kq[fd[c]] = c

(* A conn_t lives as long as its routine; who waits to be accepted has none. *)
ConnsSound ==
    /\ \A c \in Clients : conn[c] = "none" <=> routine[c] = "none"
    /\ \A c \in Clients : conn[c] = "freed" <=> routine[c] = "destroyed"
    /\ \A c \in backlog : conn[c] = "none"

(* Where the server is tells which routine runs, and only the routine that
   was resumed last can have ended without being destroyed.                *)
PlaceSound ==
    /\ pc \in {"read", "write"} => cur \in Clients /\ routine[cur] = "running"
    /\ pc = "after" => cur \in Clients /\ routine[cur] \in {"suspended", "ended"}
    /\ \A c \in Clients : routine[c] = "running" => c = cur /\ pc \in {"read", "write"}
    /\ \A c \in Clients : routine[c] = "ended" => c = cur /\ pc = "after"

(* An event is good and has something to read behind it.                   *)
EventsSound ==
    \A e \in evs : e.ident # Listen =>
        /\ e.udata \in Clients /\ conn[e.udata] = "live"
        /\ routine[e.udata] = "suspended"
        /\ e.ident \in Fds /\ fdtab[e.ident] = e.udata /\ kq[e.ident] = e.udata
        /\ fd[e.udata] = e.ident
        /\ Readable(e.udata)

(* Whoever is about to answer has read more than was answered, or will find
   something to read first.                                                *)
AnswersSound ==
    /\ \A c \in Clients : answered[c] <= asked[c]
    /\ pc = "write" => answered[cur] < asked[cur]
    /\ pc = "read" => answered[cur] < asked[cur] \/ Readable(cur)

HttpdInv == /\ TypeOK
            /\ ChunksSound
            /\ FdsSound
            /\ ConnsSound
            /\ PlaceSound
            /\ EventsSound
            /\ AnswersSound
            /\ died # "misuse"

-----------------------------------------------------------------------------
LEMMA HttpdInit == Init => HttpdInv
<1> SUFFICES ASSUME Init PROVE HttpdInv
  OBVIOUS
<1>1. TypeOK
  BY Constants DEF Init, TypeOK
<1>2. ChunksSound /\ FdsSound /\ ConnsSound
  BY Constants DEF Init, ChunksSound, FdsSound, ConnsSound
<1>3. PlaceSound /\ EventsSound /\ AnswersSound
  BY Constants DEF Init, PlaceSound, EventsSound, AnswersSound
<1> QED BY <1>1, <1>2, <1>3 DEF Init, HttpdInv

(* The clients change what there is to read, and never so that a routine
   that was to find something finds nothing.                               *)
LEMMA ClientKeeps == ASSUME HttpdInv, ClientStep PROVE HttpdInv'
<1> USE DEF HttpdInv
<1> PICK c \in Clients : Connect(c) \/ Send(c) \/ Drain(c) \/ Finish(c) \/ Reset(c)
  BY DEF ClientStep
<1>1. UNCHANGED <<kernelVars, connVars, loopVars, countVars>>
  BY DEF ClientStep
<1>2. TypeOK' /\ ChunksSound'
  <2> USE <1>1, Constants DEF TypeOK, ChunksSound, kernelVars, connVars, loopVars, countVars
  <2>1. CASE Connect(c)
    BY <2>1 DEF Connect
  <2>2. CASE Send(c)
    BY <2>2 DEF Send
  <2>3. CASE Drain(c)
    BY <2>3 DEF Drain
  <2>4. CASE Finish(c)
    BY <2>4 DEF Finish
  <2>5. CASE Reset(c)
    BY <2>5 DEF Reset
  <2> QED BY <2>1, <2>2, <2>3, <2>4, <2>5
<1>3. \A d \in Clients : Readable(d) => Readable(d)'
  BY DEF Connect, Send, Drain, Finish, Reset, Readable, TypeOK
<1>4. FdsSound' /\ PlaceSound'
  BY <1>1 DEF FdsSound, PlaceSound, kernelVars, connVars, loopVars
<1>5. ConnsSound'
  BY <1>1 DEF ConnsSound, Connect, Send, Drain, Finish, Reset, connVars
<1>6. EventsSound'
  BY <1>1, <1>3 DEF EventsSound, kernelVars, connVars, loopVars
<1>7. AnswersSound'
  BY <1>1, <1>3 DEF AnswersSound, PlaceSound, loopVars, countVars
<1> QED BY <1>1, <1>2, <1>4, <1>5, <1>6, <1>7 DEF loopVars

-----------------------------------------------------------------------------
(* The loop.                                                               *)

LEMMA KeventKeeps == ASSUME HttpdInv, Kevent PROVE HttpdInv'
<1> USE DEF HttpdInv
<1>1. /\ evs' = Ready /\ pc = "kevent" /\ pc' = "items"
      /\ UNCHANGED <<netVars, kernelVars, connVars, countVars, cur, died>>
  BY DEF Kevent, At
<1> USE <1>1 DEF netVars, kernelVars, connVars, countVars
<1>2. \A e \in Ready : /\ e \in Events
                       /\ e.ident # Listen => /\ e.ident \in Fds /\ kq[e.ident] # NULL
                                              /\ e.udata = kq[e.ident]
                                              /\ Readable(fdtab[e.ident])
  BY Constants DEF Ready, Events, TypeOK
<1>3. TypeOK'
  BY <1>2 DEF TypeOK
<1>4. ChunksSound' /\ FdsSound' /\ ConnsSound' /\ PlaceSound' /\ AnswersSound'
  BY DEF ChunksSound, FdsSound, ConnsSound, PlaceSound, AnswersSound
<1>5. \A c \in Clients : routine[c] # "running"
  BY DEF PlaceSound
<1>6. EventsSound'
  <2> SUFFICES ASSUME NEW e \in Ready, e.ident # Listen
               PROVE  /\ e.udata \in Clients /\ conn[e.udata] = "live"
                      /\ routine[e.udata] = "suspended"
                      /\ e.ident \in Fds /\ fdtab[e.ident] = e.udata
                      /\ kq[e.ident] = e.udata
                      /\ fd[e.udata] = e.ident
                      /\ Readable(e.udata)
    BY DEF EventsSound, Readable
  <2>1. /\ e.udata \in Clients /\ e.ident \in Fds /\ kq[e.ident] = e.udata
        /\ fdtab[e.ident] = e.udata /\ Readable(e.udata)
    BY <1>2 DEF FdsSound, TypeOK
  <2>2. routine[e.udata] = "suspended" /\ fd[e.udata] = e.ident
    BY <1>5, <2>1, Constants DEF FdsSound
  <2>3. conn[e.udata] = "live"
    BY <2>1, <2>2 DEF ConnsSound, TypeOK
  <2> QED BY <2>1, <2>2, <2>3
<1> QED BY <1>3, <1>4, <1>6

(* A step to another place in the loop, where no routine runs.             *)
LEMMA LoopKeeps ==
    ASSUME HttpdInv, UNCHANGED <<rx, tx, fin, rst, kernelVars, connVars, countVars, cur, died>>,
           pc \in {"items", "accept"}, pc' \in {"kevent", "items", "accept"},
           evs' \subseteq evs, backlog' \subseteq backlog
    PROVE  HttpdInv'
<1> USE DEF HttpdInv, kernelVars, connVars, countVars
<1>1. TypeOK'
  BY DEF TypeOK
<1>2. ChunksSound' /\ FdsSound' /\ ConnsSound' /\ PlaceSound' /\ AnswersSound'
  BY DEF ChunksSound, FdsSound, ConnsSound, PlaceSound, AnswersSound
<1>3. EventsSound'
  BY DEF EventsSound, Readable
<1> QED BY <1>1, <1>2, <1>3

(* Only the event that is handled is of the connection it is about.        *)
LEMMA ConnEventKeeps == ASSUME HttpdInv, ConnEvent PROVE HttpdInv'
<1> USE DEF HttpdInv
<1> PICK e \in evs : /\ e.ident # Listen
                     /\ evs' = evs \ {e}
                     /\ cur' = e.udata
                     /\ IF conn[e.udata] = "live" /\ routine[e.udata] = "suspended"
                        THEN /\ routine' = [routine EXCEPT ![e.udata] = "running"]
                             /\ pc' = "read"
                             /\ UNCHANGED died
                        ELSE /\ died' = "misuse"
                             /\ UNCHANGED <<routine, pc>>
  BY DEF ConnEvent
<1> DEFINE c == e.udata
<1>1. /\ c \in Clients /\ conn[c] = "live" /\ routine[c] = "suspended"
      /\ e.ident \in Fds /\ fdtab[e.ident] = c /\ kq[e.ident] = c
      /\ fd[c] = e.ident /\ Readable(c)
  BY DEF EventsSound
<1>2. /\ evs' = evs \ {e} /\ cur' = c /\ pc = "items" /\ pc' = "read"
      /\ routine' = [routine EXCEPT ![c] = "running"] /\ UNCHANGED died
      /\ UNCHANGED <<netVars, kernelVars, countVars, conn, fd>>
  BY <1>1 DEF ConnEvent, At
<1> HIDE DEF c
<1> USE DEF netVars, kernelVars, countVars
<1>3. \A d \in Clients : routine'[d] = IF d = c THEN "running" ELSE routine[d]
  BY <1>2 DEF TypeOK
<1>4. TypeOK'
  BY <1>1, <1>2 DEF TypeOK
<1>5. ChunksSound' /\ ConnsSound'
  BY <1>1, <1>2, <1>3 DEF ChunksSound, ConnsSound
<1>6. FdsSound'
  <2>1. \A f \in Fds : fdtab[f] # NULL => fdtab[f] \in Clients
    BY DEF TypeOK
  <2> QED BY <1>1, <1>2, <1>3, <2>1 DEF FdsSound
<1>7. PlaceSound'
  BY <1>1, <1>2, <1>3 DEF PlaceSound
<1>8. EventsSound'
  <2> SUFFICES ASSUME NEW d \in evs', d.ident # Listen
               PROVE  /\ d.udata \in Clients /\ conn[d.udata] = "live"
                      /\ routine'[d.udata] = "suspended"
                      /\ d.ident \in Fds /\ fdtab[d.ident] = d.udata
                      /\ kq[d.ident] = d.udata
                      /\ fd[d.udata] = d.ident
                      /\ Readable(d.udata)
    BY <1>2 DEF EventsSound, Readable
  <2>1. d \in evs /\ d # e
    BY <1>2
  <2>2. d.udata # c
    <3>1. d \in Events /\ e \in Events
      BY <2>1 DEF TypeOK
    <3>2. d.udata = c => d.ident = e.ident
      BY <1>1, <2>1 DEF EventsSound
    <3> QED BY <2>1, <3>1, <3>2 DEF Events, c
  <2> QED BY <1>3, <2>1, <2>2 DEF EventsSound
<1>9. AnswersSound'
  BY <1>1, <1>2 DEF AnswersSound, Readable
<1> QED BY <1>2, <1>4, <1>5, <1>6, <1>7, <1>8, <1>9

LEMMA AfterKeeps == ASSUME HttpdInv, AfterResume PROVE HttpdInv'
<1> USE DEF HttpdInv
<1>1. /\ pc = "after" /\ pc' = "items" /\ cur \in Clients
      /\ UNCHANGED <<netVars, kernelVars, countVars, fd, evs, cur, died>>
  BY DEF AfterResume, At, PlaceSound
<1> USE DEF netVars, kernelVars, countVars
<1>2. CASE routine[cur] = "ended"
  <2>1. /\ routine' = [routine EXCEPT ![cur] = "destroyed"]
        /\ conn' = [conn EXCEPT ![cur] = "freed"]
    BY <1>2 DEF AfterResume
  <2>2. \A d \in Clients : /\ routine'[d] = IF d = cur THEN "destroyed" ELSE routine[d]
                           /\ conn'[d] = IF d = cur THEN "freed" ELSE conn[d]
    BY <1>1, <2>1 DEF TypeOK
  <2>3. TypeOK'
    BY <1>1, <2>1 DEF TypeOK
  <2>4. ChunksSound' /\ ConnsSound'
    BY <1>1, <1>2, <2>2 DEF ChunksSound, ConnsSound, TypeOK
  <2>5. FdsSound'
    <3>1. \A f \in Fds : fdtab[f] # NULL => fdtab[f] \in Clients /\ fdtab[f] # cur
      BY <1>2 DEF TypeOK, FdsSound
    <3> QED BY <1>1, <1>2, <2>2, <3>1 DEF FdsSound
  <2>6. PlaceSound' /\ AnswersSound'
    BY <1>1, <2>2 DEF PlaceSound, AnswersSound
  <2>7. EventsSound'
    BY <1>1, <1>2, <2>2 DEF EventsSound, Readable
  <2> QED BY <1>1, <2>3, <2>4, <2>5, <2>6, <2>7
<1>3. CASE routine[cur] # "ended"
  <2>1. UNCHANGED <<routine, conn>>
    BY <1>3 DEF AfterResume
  <2>2. TypeOK' /\ ChunksSound' /\ ConnsSound' /\ FdsSound'
    BY <1>1, <2>1 DEF TypeOK, ChunksSound, ConnsSound, FdsSound
  <2>3. PlaceSound' /\ AnswersSound'
    BY <1>1, <1>3, <2>1 DEF PlaceSound, AnswersSound
  <2>4. EventsSound'
    BY <1>1, <2>1 DEF EventsSound, Readable
  <2> QED BY <1>1, <2>2, <2>3, <2>4
<1> QED BY <1>2, <1>3

-----------------------------------------------------------------------------
(* A new connection gets a number that no event of this turn is about: the
   number is free, and those of the events are not.                        *)
LEMMA AcceptKeeps == ASSUME HttpdInv, AcceptClient PROVE HttpdInv'
<1> USE DEF HttpdInv
<1> PICK c \in backlog \ rst, f \in FreeFds :
           /\ backlog' = backlog \ {c}
           /\ fdtab' = [fdtab EXCEPT ![f] = c]
           /\ conn' = [conn EXCEPT ![c] = "live"]
           /\ fd' = [fd EXCEPT ![c] = f]
           /\ routine' = [routine EXCEPT ![c] = "suspended"]
           /\ PollAdd(c, f)
  BY DEF AcceptClient
<1>1. /\ c \in Clients /\ conn[c] = "none" /\ routine[c] = "none"
      /\ f \in Fds /\ fdtab[f] = NULL /\ c # NULL
  BY Constants DEF FreeFds, TypeOK, ConnsSound
<1>2. kq[f] = NULL
  BY <1>1, Constants DEF FdsSound, TypeOK
<1>3. UNCHANGED <<rx, tx, fin, rst, evs, pc, cur, died, asked, answered>> /\ pc = "accept"
  BY DEF AcceptClient, At, loopVars, countVars
<1>4. kq' \in [Fds -> Clients \cup {NULL}]
      /\ \A g \in Fds : kq'[g] = kq[g] \/ (g = f /\ kq'[g] = c)
  BY <1>1 DEF PollAdd, TypeOK
<1>5. /\ \A g \in Fds : fdtab'[g] = IF g = f THEN c ELSE fdtab[g]
      /\ \A d \in Clients : /\ conn'[d] = IF d = c THEN "live" ELSE conn[d]
                            /\ fd'[d] = IF d = c THEN f ELSE fd[d]
                            /\ routine'[d] = IF d = c THEN "suspended" ELSE routine[d]
  BY <1>1 DEF TypeOK
<1>6. TypeOK'
  BY <1>1, <1>3, <1>4 DEF TypeOK
<1>7. ChunksSound' /\ ConnsSound'
  BY <1>1, <1>3, <1>5 DEF ChunksSound, ConnsSound, TypeOK
<1>8. FdsSound'
  <2>1. ASSUME NEW g \in Fds, kq'[g] # NULL PROVE fdtab'[g] = kq'[g]
    BY <1>2, <1>4, <1>5, <2>1 DEF FdsSound
  <2>2. ASSUME NEW g \in Fds, fdtab'[g] # NULL
        PROVE  routine'[fdtab'[g]] \in {"suspended", "running"} /\ fd'[fdtab'[g]] = g
    BY <1>1, <1>5, <2>2 DEF FdsSound, TypeOK
  <2>3. ASSUME NEW d \in Clients, routine'[d] \in {"suspended", "running"}
        PROVE  fd'[d] \in Fds /\ fdtab'[fd'[d]] = d
    BY <1>1, <1>5, <2>3, Constants DEF FdsSound, TypeOK
  <2>4. \A d \in Clients : routine'[d] # "running"
    BY <1>3, <1>5 DEF PlaceSound
  <2> QED BY <2>1, <2>2, <2>3, <2>4 DEF FdsSound
<1>9. PlaceSound' /\ AnswersSound'
  BY <1>1, <1>3, <1>5 DEF PlaceSound, AnswersSound
<1>10. EventsSound'
  <2> SUFFICES ASSUME NEW e \in evs, e.ident # Listen
               PROVE  /\ e.udata \in Clients /\ conn'[e.udata] = "live"
                      /\ routine'[e.udata] = "suspended"
                      /\ e.ident \in Fds /\ fdtab'[e.ident] = e.udata
                      /\ kq'[e.ident] = e.udata
                      /\ fd'[e.udata] = e.ident
                      /\ Readable(e.udata)
    BY <1>3 DEF EventsSound, Readable
  <2>1. e.ident # f /\ e.udata # c
    BY <1>1, <1>2, Constants DEF EventsSound
  <2> QED BY <1>4, <1>5, <2>1 DEF EventsSound
<1> QED BY <1>3, <1>6, <1>7, <1>8, <1>9, <1>10

-----------------------------------------------------------------------------
(* The routine.  The one that runs is that of no event that is left.       *)
LEMMA OtherEvents ==
    ASSUME HttpdInv, pc \in {"read", "write"}
    PROVE  /\ cur \in Clients /\ routine[cur] = "running" /\ conn[cur] = "live"
           /\ fd[cur] \in Fds /\ fdtab[fd[cur]] = cur /\ kq[fd[cur]] = cur
           /\ \A e \in evs : e.ident # Listen => e.udata # cur /\ e.ident # fd[cur]
<1>1. cur \in Clients /\ routine[cur] = "running"
  BY DEF HttpdInv, PlaceSound
<1>2. /\ conn[cur] = "live" /\ fd[cur] \in Fds
      /\ fdtab[fd[cur]] = cur /\ kq[fd[cur]] = cur
  BY <1>1 DEF HttpdInv, ConnsSound, FdsSound, TypeOK
<1>3. \A e \in evs : e.ident # Listen => e.udata # cur /\ e.ident # fd[cur]
  BY <1>1, <1>2 DEF HttpdInv, EventsSound
<1> QED BY <1>1, <1>2, <1>3

LEMMA LeaveKeeps ==
    ASSUME HttpdInv, pc \in {"read", "write"}, Leave PROVE HttpdInv'
<1> USE DEF HttpdInv
<1> DEFINE f == fd[cur]
<1>1. /\ cur \in Clients /\ routine[cur] = "running" /\ conn[cur] = "live"
      /\ f \in Fds /\ fdtab[f] = cur /\ kq[f] = cur
      /\ \A e \in evs : e.ident # Listen => e.udata # cur /\ e.ident # f
  BY OtherEvents
<1>2. /\ kq' = [kq EXCEPT ![f] = NULL] /\ fdtab' = [fdtab EXCEPT ![f] = NULL]
      /\ routine' = [routine EXCEPT ![cur] = "ended"] /\ pc' = "after"
      /\ UNCHANGED <<netVars, conn, fd, evs, cur, died, countVars>>
  BY <1>1, Constants DEF Leave, PollDelete
<1> HIDE DEF f
<1> USE DEF netVars, countVars
<1>3. /\ \A g \in Fds : /\ kq'[g] = IF g = f THEN NULL ELSE kq[g]
                        /\ fdtab'[g] = IF g = f THEN NULL ELSE fdtab[g]
      /\ \A d \in Clients : routine'[d] = IF d = cur THEN "ended" ELSE routine[d]
  BY <1>1, <1>2 DEF TypeOK
<1>4. TypeOK'
  BY <1>1, <1>2 DEF TypeOK
<1>5. ChunksSound' /\ ConnsSound'
  BY <1>1, <1>2, <1>3 DEF ChunksSound, ConnsSound
<1>6. FdsSound'
  <2>1. ASSUME NEW g \in Fds, kq'[g] # NULL PROVE fdtab'[g] = kq'[g]
    BY <1>3, <2>1 DEF FdsSound
  <2>2. ASSUME NEW g \in Fds, fdtab'[g] # NULL
        PROVE  routine'[fdtab'[g]] \in {"suspended", "running"} /\ fd'[fdtab'[g]] = g
    BY <1>2, <1>3, <2>2 DEF FdsSound, TypeOK, f
  <2>3. ASSUME NEW d \in Clients, routine'[d] \in {"suspended", "running"}
        PROVE  fd'[d] \in Fds /\ fdtab'[fd'[d]] = d
    BY <1>1, <1>2, <1>3, <2>3 DEF FdsSound
  <2>4. \A d \in Clients : routine'[d] # "running"
    BY <1>3 DEF PlaceSound
  <2> QED BY <2>1, <2>2, <2>3, <2>4 DEF FdsSound
<1>7. PlaceSound' /\ AnswersSound'
  BY <1>1, <1>2, <1>3 DEF PlaceSound, AnswersSound
<1>8. EventsSound'
  BY <1>1, <1>2, <1>3 DEF EventsSound, Readable
<1> QED BY <1>2, <1>4, <1>5, <1>6, <1>7, <1>8

LEMMA ReadKeeps == ASSUME HttpdInv, ReadChunk \/ ReadAgain PROVE HttpdInv'
<1> USE DEF HttpdInv
<1>1. /\ cur \in Clients
      /\ \A e \in evs : e.ident # Listen => e.udata # cur
  BY OtherEvents DEF ReadChunk, ReadAgain, At
<1>2. CASE ReadChunk
  <2>1. /\ rx[cur] > 0 /\ pc = "read"
        /\ rx' = [rx EXCEPT ![cur] = @ - 1]
        /\ asked' = [asked EXCEPT ![cur] = @ + 1]
        /\ UNCHANGED <<backlog, tx, fin, rst, kernelVars, connVars, loopVars, answered>>
    BY <1>2 DEF ReadChunk, At
  <2> USE DEF kernelVars, connVars, loopVars
  <2>2. \A d \in Clients : /\ rx'[d] = IF d = cur THEN rx[d] - 1 ELSE rx[d]
                           /\ asked'[d] = IF d = cur THEN asked[d] + 1 ELSE asked[d]
                           /\ rx[d] \in Nat /\ asked[d] \in Nat /\ answered[d] \in Nat
    BY <2>1, Constants DEF TypeOK
  <2>3. ChunksSound'
    BY <1>1, <2>2, Constants DEF ChunksSound
  <2>4. rx' \in [Clients -> 0..MaxChunks] /\ asked' \in [Clients -> 0..MaxChunks]
    BY <1>1, <2>1, Constants DEF TypeOK, ChunksSound
  <2>5. TypeOK'
    BY <2>1, <2>4 DEF TypeOK
  <2>6. FdsSound' /\ ConnsSound' /\ PlaceSound'
    BY <2>1 DEF FdsSound, ConnsSound, PlaceSound
  <2>7. EventsSound'
    BY <1>1, <2>1, <2>2 DEF EventsSound, Readable
  <2>8. AnswersSound'
    BY <1>1, <2>1, <2>2 DEF AnswersSound
  <2> QED BY <2>1, <2>3, <2>5, <2>6, <2>7, <2>8
<1>3. CASE ReadAgain
  <2>1. /\ cur \notin fin \cup rst /\ rx[cur] = 0 /\ pc = "read" /\ pc' = "write"
        /\ UNCHANGED <<netVars, kernelVars, connVars, countVars, evs, cur, died>>
    BY <1>3 DEF ReadAgain, At
  <2> USE DEF netVars, kernelVars, connVars, countVars
  <2>2. TypeOK' /\ ChunksSound' /\ FdsSound' /\ ConnsSound'
    BY <2>1 DEF TypeOK, ChunksSound, FdsSound, ConnsSound
  <2>3. PlaceSound'
    BY <2>1 DEF PlaceSound
  <2>4. EventsSound'
    BY <2>1 DEF EventsSound, Readable
  <2>5. AnswersSound'
    BY <2>1 DEF AnswersSound, Readable
  <2> QED BY <2>1, <2>2, <2>3, <2>4, <2>5
<1> QED BY <1>2, <1>3

LEMMA WriteKeeps == ASSUME HttpdInv, WriteYield \/ WriteReset PROVE HttpdInv'
<1> USE DEF HttpdInv
<1>1. /\ cur \in Clients /\ routine[cur] = "running" /\ conn[cur] = "live"
      /\ \A e \in evs : e.ident # Listen => e.udata # cur
  BY OtherEvents DEF WriteYield, WriteReset, At
<1>2. CASE WriteYield
  <2>1. /\ tx[cur] < SendBuf /\ pc = "write" /\ pc' = "after"
        /\ tx' = [tx EXCEPT ![cur] = @ + 1]
        /\ answered' = [answered EXCEPT ![cur] = @ + 1]
        /\ routine' = [routine EXCEPT ![cur] = "suspended"]
        /\ UNCHANGED <<backlog, rx, fin, rst, kernelVars, conn, fd, evs, cur, died,
                       asked>>
    BY <1>2 DEF WriteYield, At
  <2> USE DEF kernelVars
  <2>2. \A d \in Clients :
          /\ answered'[d] = IF d = cur THEN answered[d] + 1 ELSE answered[d]
          /\ routine'[d] = IF d = cur THEN "suspended" ELSE routine[d]
          /\ asked[d] \in Nat /\ answered[d] \in Nat
    BY <2>1, Constants DEF TypeOK
  <2>3. TypeOK'
    <3>1. tx' \in [Clients -> 0..SendBuf] /\ answered' \in [Clients -> Nat]
      BY <1>1, <2>1, Constants DEF TypeOK
    <3>2. routine' \in [Clients -> {"none", "suspended", "running", "ended",
                                    "destroyed"}]
      BY <2>1 DEF TypeOK
    <3> QED BY <2>1, <3>1, <3>2 DEF TypeOK
  <2>4. ChunksSound' /\ ConnsSound'
    BY <1>1, <2>1, <2>2 DEF ChunksSound, ConnsSound
  <2>5. FdsSound'
    BY <1>1, <2>1, <2>2 DEF FdsSound, TypeOK
  <2>6. PlaceSound'
    BY <1>1, <2>1, <2>2 DEF PlaceSound
  <2>7. EventsSound'
    BY <1>1, <2>1, <2>2 DEF EventsSound, Readable
  <2>8. AnswersSound'
    BY <1>1, <2>1, <2>2 DEF AnswersSound
  <2> QED BY <2>1, <2>3, <2>4, <2>5, <2>6, <2>7, <2>8
<1>3. CASE WriteReset
  <2>1. /\ died' = "sigpipe"
        /\ UNCHANGED <<netVars, kernelVars, connVars, countVars, evs, pc, cur>>
    BY <1>3 DEF WriteReset
  <2> USE DEF netVars, kernelVars, connVars, countVars
  <2>2. TypeOK' /\ ChunksSound' /\ FdsSound' /\ ConnsSound'
    BY <2>1 DEF TypeOK, ChunksSound, FdsSound, ConnsSound
  <2>3. PlaceSound' /\ EventsSound' /\ AnswersSound'
    BY <2>1 DEF PlaceSound, EventsSound, AnswersSound, Readable
  <2> QED BY <2>1, <2>2, <2>3
<1> QED BY <1>2, <1>3

-----------------------------------------------------------------------------
LEMMA HttpdStep == HttpdInv /\ [Next]_vars => HttpdInv'
<1> SUFFICES ASSUME HttpdInv, [Next]_vars PROVE HttpdInv'
  OBVIOUS
<1>1. CASE TurnDone \/ ListenEvent \/ AcceptNone \/ AcceptAborted
  <2>1. UNCHANGED <<rx, tx, fin, rst, kernelVars, connVars, countVars, cur, died>>
    BY <1>1 DEF TurnDone, ListenEvent, AcceptNone, AcceptAborted, netVars
  <2>2. /\ pc \in {"items", "accept"} /\ pc' \in {"kevent", "items", "accept"}
        /\ evs' \subseteq evs /\ backlog' \subseteq backlog
    BY <1>1 DEF TurnDone, ListenEvent, AcceptNone, AcceptAborted, At, netVars
  <2> QED BY <2>1, <2>2, LoopKeeps
<1>2. CASE ReadReset \/ ReadEof \/ WriteFull
  BY <1>2, LeaveKeeps DEF ReadReset, ReadEof, WriteFull, At
<1>3. CASE UNCHANGED vars
  <2> USE <1>3 DEF vars, netVars, kernelVars, connVars, loopVars, countVars, HttpdInv
  <2>1. TypeOK' /\ ChunksSound' /\ FdsSound' /\ ConnsSound'
    BY DEF TypeOK, ChunksSound, FdsSound, ConnsSound
  <2>2. PlaceSound' /\ EventsSound' /\ AnswersSound'
    BY DEF PlaceSound, EventsSound, AnswersSound, Readable
  <2> QED BY <2>1, <2>2
<1> QED BY <1>1, <1>2, <1>3, ClientKeeps, KeventKeeps, ConnEventKeeps, AfterKeeps,
           AcceptKeeps, ReadKeeps, WriteKeeps DEF Next, ServerStep

(* The state of the server stays consistent, whatever the clients do.      *)
THEOREM HttpdInvariant == Spec => []HttpdInv
<1> QED BY HttpdInit, HttpdStep, PTL DEF Spec

(* Every variable of the server keeps its type.                            *)
THEOREM HttpdTypeCorrect == Spec => []TypeOK
<1>1. HttpdInv => TypeOK
  BY DEF HttpdInv
<1> QED BY <1>1, HttpdInvariant, PTL

(* No event that is still to be handled goes stale while the others of its
   turn are.                                                               *)
THEOREM EventsNeverStale == Spec => []EventsStayGood
<1>1. HttpdInv => EventsStayGood
  BY DEF HttpdInv, EventsSound, EventsStayGood
<1> QED BY <1>1, HttpdInvariant, PTL

(* Descriptors, registrations and routines agree, always.                  *)
THEOREM DescriptorsAlwaysMatch == Spec => []DescriptorsMatch
<1>1. HttpdInv => DescriptorsMatch
  <2> SUFFICES ASSUME HttpdInv PROVE DescriptorsMatch
    OBVIOUS
  <2>1. \A c \in Clients : IsOpen(c) => routine[c] \in {"suspended", "running"}
                                        /\ fdtab[fd[c]] = c
    BY Constants DEF HttpdInv, FdsSound, IsOpen
  <2>2. \A c \in Clients : routine[c] \in {"suspended", "running"} => IsOpen(c)
    BY DEF HttpdInv, FdsSound, IsOpen
  <2> QED BY <2>1, <2>2 DEF HttpdInv, FdsSound, DescriptorsMatch
<1> QED BY <1>1, HttpdInvariant, PTL

(* There never are more responses than chunks that were sent.              *)
THEOREM NeverUnasked == Spec => []NoResponseUnasked
<1>1. HttpdInv => NoResponseUnasked
  BY DEF HttpdInv, AnswersSound, NoResponseUnasked
<1> QED BY <1>1, HttpdInvariant, PTL

-----------------------------------------------------------------------------
(* The routines of the server, seen as coroutines of libaco.               *)

LiveCos == {c \in Clients : routine[c] \in {"suspended", "running", "ended"}}
EndedCos == {c \in Clients : routine[c] = "ended"}
RunningCo == IF pc \in {"read", "write"} THEN cur ELSE NULL

(* A step that changes what libaco sees only in these three.               *)
Sees(live, ended, running) ==
    /\ LiveCos' = live /\ EndedCos' = ended /\ RunningCo' = running

(* The stacks of the routines are not looked at: they stay as they are.    *)
LEMMA StacksAside ==
    ASSUME NEW c \in Clients
    PROVE  /\ [[d \in Clients |-> 0] EXCEPT ![c] = 0] = [d \in Clients |-> 0]
           /\ [[d \in Clients |-> [i \in 1..0 |-> 0]] EXCEPT ![c] = Private!Empty]
                = [d \in Clients |-> [i \in 1..0 |-> 0]]
BY DEF Private!Empty

(* The server resumes only routines that wait, one at a time, and destroys
   each once after it has ended: whatever the clients do, its steps are
   those of a program that uses libaco as it must be used.                 *)
THEOREM LibacoUsedWell == Spec => UsesLibacoWell
<1>1. Init => Private!Init
  BY DEF Init, Private!Init, Private!Empty
<1>2. HttpdInv /\ HttpdInv' /\ [Next]_vars => [Private!Next]_Private!vars
  <2> SUFFICES ASSUME HttpdInv, HttpdInv', [Next]_vars
               PROVE  Private!Next \/ UNCHANGED Private!vars
    OBVIOUS
  <2>0. (died = "misuse") = FALSE /\ (died = "misuse")' = FALSE
    BY DEF HttpdInv
  <2>1. ASSUME UNCHANGED routine, RunningCo' = RunningCo
        PROVE  UNCHANGED Private!vars
    BY <2>0, <2>1 DEF Private!vars, RunningCo, HttpdInv
  <2>2. CASE \/ ClientStep \/ Kevent \/ TurnDone \/ ListenEvent \/ AcceptNone
             \/ AcceptAborted \/ ReadChunk \/ ReadAgain \/ WriteReset
             \/ UNCHANGED vars
    <3>1. UNCHANGED routine
      BY <2>2 DEF ClientStep, Kevent, TurnDone, ListenEvent, AcceptNone, AcceptAborted,
                  ReadChunk, ReadAgain, WriteReset, connVars, vars
    <3>2. RunningCo' = RunningCo
      BY <2>2 DEF ClientStep, Kevent, TurnDone, ListenEvent, AcceptNone, AcceptAborted,
                  ReadChunk, ReadAgain, WriteReset, loopVars, vars, At, RunningCo
    <3> QED BY <2>1, <3>1, <3>2
  <2>3. CASE ConnEvent
    <3>1. PICK c \in Clients : /\ routine[c] = "suspended" /\ cur' = c
                               /\ routine' = [routine EXCEPT ![c] = "running"]
                               /\ pc = "items" /\ pc' = "read"
      BY <2>3 DEF ConnEvent, At, HttpdInv, EventsSound
    <3>2. \A d \in Clients : routine'[d] = IF d = c THEN "running" ELSE routine[d]
      BY <3>1 DEF HttpdInv, TypeOK
    <3>3. Sees(LiveCos, EndedCos, c) /\ RunningCo = NULL /\ c \in LiveCos \ EndedCos
      BY <3>1, <3>2 DEF Sees, LiveCos, EndedCos, RunningCo
    <3>4. Private!Resume(c)
      BY <2>0, <3>3 DEF Private!Resume, Private!MainRuns, Sees, LiveCos, EndedCos,
                        RunningCo
    <3> QED BY <3>4 DEF Private!Next
  <2>4. CASE AfterResume
    <3>0. PICK c \in Clients : pc = "after" /\ pc' = "items" /\ c = cur
      BY <2>4 DEF AfterResume, At, HttpdInv, PlaceSound
    <3>1. CASE routine[c] # "ended"
      BY <2>1, <2>4, <3>0, <3>1 DEF AfterResume, RunningCo
    <3>2. CASE routine[c] = "ended"
      <4>1. \A d \in Clients : routine'[d] = IF d = c THEN "destroyed" ELSE routine[d]
        BY <2>4, <3>0, <3>2 DEF AfterResume, HttpdInv, TypeOK
      <4>2. Sees(LiveCos \ {c}, EndedCos \ {c}, NULL) /\ RunningCo = NULL
            /\ c \in LiveCos
        BY <3>0, <3>2, <4>1 DEF Sees, LiveCos, EndedCos, RunningCo
      <4>3. Private!Destroy(c)
        BY <2>0, <4>2, StacksAside DEF Private!Destroy, Private!MainRuns, Sees,
                        LiveCos, EndedCos, RunningCo
      <4> QED BY <4>3 DEF Private!Next
    <3> QED BY <3>1, <3>2
  <2>5. CASE AcceptClient
    <3>1. PICK c \in Clients : /\ routine[c] = "none"
                               /\ routine' = [routine EXCEPT ![c] = "suspended"]
                               /\ pc = "accept" /\ pc' = "accept"
      BY <2>5 DEF AcceptClient, At, HttpdInv, ConnsSound, TypeOK, loopVars
    <3>2. \A d \in Clients : routine'[d] = IF d = c THEN "suspended" ELSE routine[d]
      BY <3>1 DEF HttpdInv, TypeOK
    <3>3. Sees(LiveCos \cup {c}, EndedCos, NULL) /\ RunningCo = NULL /\ c \notin LiveCos
      BY <3>1, <3>2 DEF Sees, LiveCos, EndedCos, RunningCo
    <3>4. Private!Create(c)
      BY <2>0, <3>3 DEF Private!Create, Private!MainRuns, Sees, LiveCos, EndedCos,
                        RunningCo
    <3> QED BY <3>4 DEF Private!Next
  <2>6. CASE ReadReset \/ ReadEof \/ WriteFull
    <3>1. /\ pc \in {"read", "write"} /\ pc' = "after"
          /\ routine' = [routine EXCEPT ![cur] = "ended"]
      BY <2>6 DEF ReadReset, ReadEof, WriteFull, Leave, At
    <3>2. PICK c \in Clients : c = cur /\ routine[c] = "running"
      BY <3>1 DEF HttpdInv, PlaceSound
    <3>3. \A d \in Clients : routine'[d] = IF d = c THEN "ended" ELSE routine[d]
      BY <3>1, <3>2 DEF HttpdInv, TypeOK
    <3>4. Sees(LiveCos, EndedCos \cup {c}, NULL) /\ RunningCo = c
      BY <3>1, <3>2, <3>3 DEF Sees, LiveCos, EndedCos, RunningCo
    <3>5. Private!Exit(c)
      BY <2>0, <3>4, StacksAside DEF Private!Exit, Private!Runs, Sees, LiveCos,
                        EndedCos, RunningCo
    <3> QED BY <3>5 DEF Private!Next
  <2>7. CASE WriteYield
    <3>1. /\ pc = "write" /\ pc' = "after"
          /\ routine' = [routine EXCEPT ![cur] = "suspended"]
      BY <2>7 DEF WriteYield, At
    <3>2. cur \in Clients /\ routine[cur] = "running"
      BY <3>1 DEF HttpdInv, PlaceSound
    <3>3. \A d \in Clients : routine'[d] = IF d = cur THEN "suspended" ELSE routine[d]
      BY <3>1 DEF HttpdInv, TypeOK
    <3>4. Sees(LiveCos, EndedCos, NULL) /\ RunningCo = cur
      BY <3>1, <3>2, <3>3 DEF Sees, LiveCos, EndedCos, RunningCo
    <3>5. Private!Yield(cur)
      BY <2>0, <3>2, <3>4 DEF Private!Yield, Private!Runs, Sees, LiveCos, EndedCos,
                        RunningCo
    <3> QED BY <3>2, <3>5 DEF Private!Next
  <2> QED BY <2>2, <2>3, <2>4, <2>5, <2>6, <2>7 DEF Next, ServerStep
<1> QED BY <1>1, <1>2, HttpdInvariant, PTL DEF Spec, UsesLibacoWell, Private!Spec
=============================================================================
