------------------------------ MODULE AcoHttpd ------------------------------
(***************************************************************************)
(* The HTTP server of codes/aco_httpd (main.c, unix_kqueue.c): one thread, *)
(* an event loop on kqueue, and one coroutine for each connection, all on  *)
(* one share stack.  The clients and the kernel's side of their sockets    *)
(* run beside the server: a client may act between any two system calls.   *)
(*                                                                         *)
(* A client connects once.  A chunk is what one read returns.              *)
(***************************************************************************)
EXTENDS Naturals, FiniteSets

CONSTANTS
    Clients,
    NFds,       \* descriptors left to connections: RLIMIT_NOFILE
    MaxChunks,  \* bound on the chunks a client sends
    SendBuf,    \* responses that fit in the send buffer of a socket
    AddMayFail, \* the kevent of poll_add may fail
    NULL

ASSUME AcoHttpdAssumption ==
    /\ NFds \in Nat \ {0} /\ MaxChunks \in Nat /\ SendBuf \in Nat \ {0}
    /\ AddMayFail \in BOOLEAN
    /\ NULL \notin Clients

Fds == 1..NFds
Listen == 0   \* s_fd, below the descriptors of the connections

VARIABLES
    backlog,    \* the clients that wait for accept
    rx,         \* rx[c]: chunks received and not read
    tx,         \* tx[c]: responses written that the client has not read
    fin,        \* the clients that have closed their side
    rst,        \* the clients that have reset the connection
    fdtab,      \* fdtab[f]: the client at the other end of f, or NULL
    kq,         \* kq[f]: the conn_t registered for f, or NULL
    conn,       \* conn[c]: the conn_t of c is "none", "live" or "freed"
    fd,         \* conn[c]->fd
    routine,    \* conn[c]->routine
    evs,        \* the events of this turn that are still to be handled
    pc,         \* where the server is
    cur,        \* the connection whose routine was resumed last
    died,       \* how the process died, or "no"
    asked,      \* asked[c]: chunks read
    answered    \* answered[c]: responses written

netVars == <<backlog, rx, tx, fin, rst>>
kernelVars == <<fdtab, kq>>
connVars == <<conn, fd, routine>>
loopVars == <<evs, pc, cur, died>>
countVars == <<asked, answered>>
vars == <<netVars, kernelVars, connVars, loopVars, countVars>>

Events == [ident : Fds \cup {Listen}, udata : Clients \cup {NULL}]

TypeOK ==
    /\ backlog \subseteq Clients /\ fin \subseteq Clients /\ rst \subseteq Clients
    /\ rx \in [Clients -> 0..MaxChunks] /\ tx \in [Clients -> 0..SendBuf]
    /\ fdtab \in [Fds -> Clients \cup {NULL}]
    /\ kq \in [Fds -> Clients \cup {NULL}]
    /\ conn \in [Clients -> {"none", "live", "freed"}]
    /\ fd \in [Clients -> Fds \cup {NULL}]
    /\ routine \in [Clients -> {"none", "suspended", "running", "ended",
                                "destroyed"}]
    /\ evs \subseteq Events
    /\ pc \in {"kevent", "items", "accept", "read", "write", "after"}
    /\ cur \in Clients \cup {NULL}
    /\ died \in {"no", "sigpipe", "misuse"}
    /\ asked \in [Clients -> 0..MaxChunks]
    /\ answered \in [Clients -> Nat]

(* The server listens and its listening socket is in the kqueue.           *)
Init == /\ backlog = {} /\ fin = {} /\ rst = {}
        /\ rx = [c \in Clients |-> 0] /\ tx = [c \in Clients |-> 0]
        /\ fdtab = [f \in Fds |-> NULL] /\ kq = [f \in Fds |-> NULL]
        /\ conn = [c \in Clients |-> "none"]
        /\ fd = [c \in Clients |-> NULL]
        /\ routine = [c \in Clients |-> "none"]
        /\ evs = {} /\ pc = "kevent" /\ cur = NULL /\ died = "no"
        /\ asked = [c \in Clients |-> 0] /\ answered = [c \in Clients |-> 0]

-----------------------------------------------------------------------------
(* The clients.                                                            *)

IsOpen(c) == \E f \in Fds : fdtab[f] = c

Connected(c) == c \in backlog \/ IsOpen(c)

(* A client that has gone does not come back.                              *)
Connect(c) == /\ conn[c] = "none"
              /\ c \notin backlog \cup fin \cup rst
              /\ backlog' = backlog \cup {c}
              /\ UNCHANGED <<rx, tx, fin, rst>>

Send(c) == /\ Connected(c)
           /\ c \notin fin \cup rst
           /\ rx[c] + asked[c] < MaxChunks
           /\ rx' = [rx EXCEPT ![c] = @ + 1]
           /\ UNCHANGED <<backlog, tx, fin, rst>>

Drain(c) == /\ tx[c] > 0
            /\ c \notin rst
            /\ tx' = [tx EXCEPT ![c] = @ - 1]
            /\ UNCHANGED <<backlog, rx, fin, rst>>

(* shutdown or close: what was sent before is still delivered.             *)
Finish(c) == /\ Connected(c)
             /\ c \notin fin \cup rst
             /\ fin' = fin \cup {c}
             /\ UNCHANGED <<backlog, rx, tx, rst>>

(* A reset discards what was sent before.                                  *)
Reset(c) == /\ Connected(c)
            /\ c \notin rst
            /\ rst' = rst \cup {c}
            /\ rx' = [rx EXCEPT ![c] = 0]
            /\ UNCHANGED <<backlog, tx, fin>>

ClientStep == /\ \E c \in Clients : \/ Connect(c) \/ Send(c) \/ Drain(c)
                                    \/ Finish(c) \/ Reset(c)
              /\ UNCHANGED <<kernelVars, connVars, loopVars, countVars>>

-----------------------------------------------------------------------------
(* main: the event loop.                                                   *)

At(place) == pc = place /\ died = "no"

(* A registered descriptor is reported in every turn in which a read of it
   would not block: EV_ADD without EV_CLEAR.                               *)
Readable(c) == rx[c] > 0 \/ c \in fin \cup rst

Ready == {[ident |-> f, udata |-> kq[f]] :
             f \in {g \in Fds : kq[g] # NULL /\ Readable(fdtab[g])}}
         \cup {[ident |-> Listen, udata |-> u] :
                  u \in IF backlog = {} THEN {} ELSE {NULL}}

(* kevent returns all the events there are; its timeout changes nothing.   *)
Kevent == /\ At("kevent")
          /\ Ready # {}
          /\ evs' = Ready
          /\ pc' = "items"
          /\ UNCHANGED <<netVars, kernelVars, connVars, countVars, cur, died>>

TurnDone == /\ At("items")
            /\ evs = {}
            /\ pc' = "kevent"
            /\ UNCHANGED <<netVars, kernelVars, connVars, countVars, evs, cur,
                           died>>

(* The events come in any order.                                           *)
ListenEvent == /\ At("items")
               /\ \E e \in evs : /\ e.ident = Listen
                                 /\ evs' = evs \ {e}
               /\ pc' = "accept"
               /\ UNCHANGED <<netVars, kernelVars, connVars, countVars, cur,
                              died>>

(* aco_resume(conn->routine), with what udata points to at that moment.    *)
ConnEvent ==
    /\ At("items")
    /\ \E e \in evs :
         LET c == e.udata
         IN  /\ e.ident # Listen
             /\ evs' = evs \ {e}
             /\ cur' = c
             /\ IF conn[c] = "live" /\ routine[c] = "suspended"
                THEN /\ routine' = [routine EXCEPT ![c] = "running"]
                     /\ pc' = "read"
                     /\ UNCHANGED died
                ELSE /\ died' = "misuse"
                     /\ UNCHANGED <<routine, pc>>
    /\ UNCHANGED <<netVars, kernelVars, countVars, conn, fd>>

(* A loop that destroys the routine without a look at is_end.              *)
AfterResumeAlways ==
    /\ At("after")
    /\ routine' = [routine EXCEPT ![cur] = "destroyed"]
    /\ conn' = [conn EXCEPT ![cur] = "freed"]
    /\ pc' = "items"
    /\ UNCHANGED <<netVars, kernelVars, countVars, fd, evs, cur, died>>

(* Back in the loop: an ended routine is destroyed and its conn_t freed.   *)
AfterResume ==
    /\ At("after")
    /\ IF routine[cur] = "ended"
       THEN /\ routine' = [routine EXCEPT ![cur] = "destroyed"]
            /\ conn' = [conn EXCEPT ![cur] = "freed"]
       ELSE UNCHANGED <<routine, conn>>
    /\ pc' = "items"
    /\ UNCHANGED <<netVars, kernelVars, countVars, fd, evs, cur, died>>

-----------------------------------------------------------------------------
(* handle_accept: one action for what an accept of its loop may return.    *)

FreeFds == {f \in Fds : fdtab[f] = NULL}

Lowest(f) == \A g \in FreeFds : f <= g

PollAdd(c, f) == \/ kq' = [kq EXCEPT ![f] = c]
                 \/ AddMayFail /\ UNCHANGED kq

(* A new connection gets the lowest free descriptor, which may be that of
   a connection that was closed in this turn.  If poll_add fails that is
   only logged.                                                            *)
AcceptClient ==
    /\ At("accept")
    /\ \E c \in backlog \ rst, f \in FreeFds :
         /\ Lowest(f)
         /\ backlog' = backlog \ {c}
         /\ fdtab' = [fdtab EXCEPT ![f] = c]
         /\ conn' = [conn EXCEPT ![c] = "live"]
         /\ fd' = [fd EXCEPT ![c] = f]
         /\ routine' = [routine EXCEPT ![c] = "suspended"]
         /\ PollAdd(c, f)
    /\ UNCHANGED <<rx, tx, fin, rst, loopVars, countVars>>

(* EAGAIN, or EMFILE, which leaves the client in the backlog.              *)
AcceptNone == /\ At("accept")
              /\ backlog = {} \/ FreeFds = {}
              /\ pc' = "items"
              /\ UNCHANGED <<netVars, kernelVars, connVars, countVars, evs, cur,
                             died>>

(* ECONNABORTED: the loop is left, though others may wait in the backlog.  *)
AcceptAborted ==
    /\ At("accept")
    /\ FreeFds # {}
    /\ \E c \in backlog \cap rst : backlog' = backlog \ {c}
    /\ pc' = "items"
    /\ UNCHANGED <<rx, tx, fin, rst, kernelVars, connVars, countVars, evs, cur,
                   died>>

-----------------------------------------------------------------------------
(* client_routine, from one system call to the next.                       *)

(* poll_delete that forgets to close the descriptor.                       *)
PollDeleteOnly(c) ==
    IF kq[fd[c]] = NULL
    THEN UNCHANGED kernelVars
    ELSE /\ kq' = [kq EXCEPT ![fd[c]] = NULL]
         /\ UNCHANGED fdtab

(* Without a registration EV_DELETE fails and nothing is closed.           *)
PollDelete(c) ==
    IF kq[fd[c]] = NULL
    THEN UNCHANGED kernelVars
    ELSE /\ kq' = [kq EXCEPT ![fd[c]] = NULL]
         /\ fdtab' = [fdtab EXCEPT ![fd[c]] = NULL]

(* A routine that ends without poll_delete.                                *)
LeaveOpen == /\ routine' = [routine EXCEPT ![cur] = "ended"]
             /\ pc' = "after"
             /\ UNCHANGED <<netVars, kernelVars, conn, fd, evs, cur, died,
                            countVars>>

(* poll_delete and aco_exit.                                               *)
Leave == /\ PollDelete(cur)
         /\ routine' = [routine EXCEPT ![cur] = "ended"]
         /\ pc' = "after"
         /\ UNCHANGED <<netVars, conn, fd, evs, cur, died, countVars>>

ReadChunk == /\ At("read")
             /\ cur \notin rst /\ rx[cur] > 0
             /\ rx' = [rx EXCEPT ![cur] = @ - 1]
             /\ asked' = [asked EXCEPT ![cur] = @ + 1]
             /\ UNCHANGED <<backlog, tx, fin, rst, kernelVars, connVars,
                            loopVars, answered>>

(* ECONNRESET.                                                             *)
ReadReset == At("read") /\ cur \in rst /\ Leave

(* A loop that takes the end of input for input: bytes_read >= 0.          *)
ReadEofMore == /\ At("read") /\ cur \notin rst /\ rx[cur] = 0 /\ cur \in fin
               /\ UNCHANGED vars

ReadEof == At("read") /\ cur \notin rst /\ rx[cur] = 0 /\ cur \in fin /\ Leave

(* EAGAIN: everything has been read, the response is next.                 *)
ReadAgain == /\ At("read")
             /\ cur \notin fin \cup rst /\ rx[cur] = 0
             /\ pc' = "write"
             /\ UNCHANGED <<netVars, kernelVars, connVars, countVars, evs, cur,
                            died>>

(* A routine that tries to read once more before it yields.                *)
WriteNoYield == /\ At("write")
                /\ cur \notin rst /\ tx[cur] < SendBuf
                /\ tx' = [tx EXCEPT ![cur] = @ + 1]
                /\ answered' = [answered EXCEPT ![cur] = @ + 1]
                /\ pc' = "read"
                /\ UNCHANGED <<backlog, rx, fin, rst, kernelVars, connVars,
                               evs, cur, died, asked>>

(* A write whose result nobody looks at.                                   *)
WriteUnchecked == /\ At("write")
                  /\ cur \notin rst
                  /\ tx' = [tx EXCEPT ![cur] = @ + 1]
                  /\ answered' = [answered EXCEPT ![cur] = @ + 1]
                  /\ routine' = [routine EXCEPT ![cur] = "suspended"]
                  /\ pc' = "after"
                  /\ UNCHANGED <<backlog, rx, fin, rst, kernelVars, conn, fd,
                                 evs, cur, died, asked>>

(* A routine that yields when there is no more to read, without a word.    *)
YieldNoWrite == /\ At("write")
                /\ cur \notin rst /\ tx[cur] < SendBuf
                /\ routine' = [routine EXCEPT ![cur] = "suspended"]
                /\ pc' = "after"
                /\ UNCHANGED <<netVars, kernelVars, conn, fd, evs, cur, died,
                               countVars>>

WriteYield == /\ At("write")
              /\ cur \notin rst /\ tx[cur] < SendBuf
              /\ tx' = [tx EXCEPT ![cur] = @ + 1]
              /\ answered' = [answered EXCEPT ![cur] = @ + 1]
              /\ routine' = [routine EXCEPT ![cur] = "suspended"]
              /\ pc' = "after"
              /\ UNCHANGED <<backlog, rx, fin, rst, kernelVars, conn, fd, evs,
                             cur, died, asked>>

(* The send buffer is full: the connection is closed.                      *)
WriteFull == At("write") /\ cur \notin rst /\ tx[cur] = SendBuf /\ Leave

(* Nobody ignores SIGPIPE.                                                 *)
WriteReset == /\ At("write")
              /\ cur \in rst
              /\ died' = "sigpipe"
              /\ UNCHANGED <<netVars, kernelVars, connVars, countVars, evs, pc,
                             cur>>

-----------------------------------------------------------------------------
ServerStep ==
    \/ Kevent \/ TurnDone \/ ListenEvent \/ ConnEvent \/ AfterResume
    \/ AcceptClient \/ AcceptNone \/ AcceptAborted
    \/ ReadChunk \/ ReadReset \/ ReadEof \/ ReadAgain
    \/ WriteYield \/ WriteFull \/ WriteReset

Next == ClientStep \/ ServerStep

Spec == Init /\ [][Next]_vars

(* The server is one thread that the system schedules.  Nothing is assumed
   of the clients.                                                         *)
FairSpec == Spec /\ WF_vars(ServerStep)

-----------------------------------------------------------------------------
(* The events still to be handled stay good while others of the same turn
   are: each is of a connection that has not been freed, whose routine waits
   for it and which still has the descriptor, though handling an event may
   close a descriptor and accept may give its number to a new connection.  *)
EventsStayGood ==
    \A e \in evs : e.ident # Listen =>
        LET c == e.udata
        IN  /\ conn[c] = "live"
            /\ routine[c] = "suspended"
            /\ fdtab[e.ident] = c /\ kq[e.ident] = c /\ fd[c] = e.ident

(* A descriptor is open as long as its connection has a routine that has
   not ended; what kqueue hands out for it is the connection that owns it;
   no two connections have one descriptor.  A connection that poll_add
   failed to register keeps its descriptor for ever.                       *)
DescriptorsMatch ==
    /\ \A f \in Fds : kq[f] # NULL => fdtab[f] = kq[f]
    /\ \A c \in Clients :
         routine[c] \in {"suspended", "running"} <=> IsOpen(c)
    /\ \A c \in Clients : IsOpen(c) => fdtab[fd[c]] = c
    /\ \A c \in Clients : routine[c] = "running" => kq[fd[c]] = c

(* A response answers something: there are never more of them than chunks
   that the client sent, because the loop resumes a routine only when there
   is something to read and a routine yields after each response.          *)
NoResponseUnasked == \A c \in Clients : answered[c] <= asked[c]

(* The server uses libaco as it must be used: it resumes only coroutines
   that exist and have not ended, one at a time and from the main one, and
   destroys each of them once.                                             *)
Private == INSTANCE AcoPrivate WITH
    Cos       <- Clients,
    Words     <- {},
    None      <- NULL,
    SafeDepth <- 0,
    Room      <- 1,
    live      <- {c \in Clients : routine[c] \in {"suspended", "running",
                                                  "ended"}},
    ended     <- {c \in Clients : routine[c] = "ended"},
    running   <- IF pc \in {"read", "write"} THEN cur ELSE NULL,
    depth     <- [c \in Clients |-> 0],
    frame     <- [c \in Clients |-> [i \in 1..0 |-> 0]],
    crashed   <- died = "misuse"

UsesLibacoWell == Private!Spec

(* What a client sends is answered in the end, unless the client goes first,
   does not read its responses and is thrown out, or the process dies.  For
   a client that closes its side right after its request there is no such
   promise: the routine reads the end of input before it would answer.     *)
EveryRequestAnswered ==
    \A c \in Clients : \A n \in 0..MaxChunks :
        rx[c] > 0 /\ answered[c] = n ~>
            \/ answered[c] > n
            \/ c \in fin \cup rst
            \/ conn[c] = "freed"
            \/ died = "sigpipe"

(* The descriptor and the conn_t of a client that has gone are given back. *)
GoneReclaimed ==
    \A c \in Clients : IsOpen(c) /\ c \in fin \cup rst ~>
        (conn[c] = "freed" /\ ~IsOpen(c)) \/ died = "sigpipe"

(* A client that waits in the backlog is accepted, though the loop is left
   at the first connection that was aborted.                               *)
EveryoneAccepted ==
    \A c \in Clients : c \in backlog ~> c \notin backlog \/ died = "sigpipe"
=============================================================================
