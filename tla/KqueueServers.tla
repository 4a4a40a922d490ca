---------------------------- MODULE KqueueServers ----------------------------
(***************************************************************************)
(* The two servers of codes/apue/kqueue_server: server.c, whose sockets    *)
(* are blocking ("kqueue"), and no_block_server.c ("nonblocking").         *)
(*                                                                         *)
(* The filter of every event is EVFILT_READ, which is -1, so filter &      *)
(* EVFILT_READ holds of each and the first branch of the loop of server.c  *)
(* is never taken.                                                         *)
(***************************************************************************)
EXTENDS EchoNet

CONSTANTS
    Records,     \* addresses that malloc can return for a sockaddr_in
    AddMayFail   \* the kevent that adds a connection may fail

ASSUME KqueueServersAssumption ==
    NULL \notin Records /\ AddMayFail \in BOOLEAN

VARIABLES
    kq,      \* kq[f]: the udata f is registered with, or NULL
    heap,    \* the records that are allocated
    record,  \* client_addr
    evs      \* the descriptors of this turn's events still to be handled

kqueueVars == <<kq, heap, record, evs>>

KqueueTypeOK == /\ kq \in [Fds -> Records \cup {NULL}]
                /\ heap \subseteq Records
                /\ record \in Records \cup {NULL}
                /\ evs \subseteq Fds \cup {Listen}

KqueueInit == /\ kq = [f \in Fds |-> NULL]
              /\ heap = {} /\ record = NULL /\ evs = {}

(* With EV_CLEAR, as no_block_server.c has it, nothing changes: it leaves a
   connection only when it is closed.                                      *)
Ready == {f \in Fds : kq[f] # NULL /\ Readable(fdtab[f])}
         \cup {f \in {Listen} : backlog # {}}

KeventFor(s) == /\ Runs(s, "wait")
                /\ Ready # {}
                /\ evs' = Ready
                /\ at' = "scan"
                /\ UNCHANGED <<server, netVars, cur, died, kq, heap, record>>

TurnDoneFor(s) == /\ Runs(s, "scan")
                  /\ evs = {}
                  /\ at' = "wait"
                  /\ UNCHANGED <<server, netVars, cur, died, kqueueVars>>

ConnEventFor(s) == /\ Runs(s, "scan")
                   /\ \E f \in evs \ {Listen} : cur' = f /\ evs' = evs \ {f}
                   /\ at' = "read"
                   /\ UNCHANGED <<server, netVars, died, kq, heap, record>>

ReadFor(s) == /\ Runs(s, "read")
              /\ ReadsData(fdtab[cur]) /\ TakeData(fdtab[cur])
              /\ at' = "write"
              /\ UNCHANGED <<server, cur, died, kqueueVars>>

(* bytes_read is a size_t: -1 is not < 0 but the largest number, the write
   of so many bytes fails, and the loop reads again.                       *)
ReadErrorFor(s) == /\ Runs(s, "read")
                   /\ ReadsError(fdtab[cur]) /\ TakeError(fdtab[cur])
                   /\ UNCHANGED <<server, at, cur, died, kqueueVars>>

(* SIGPIPE is ignored, and what write returns too.                         *)
WriteFor(s) == /\ Runs(s, "write")
               /\ Written(fdtab[cur]) \/ WriteFails(fdtab[cur])
               /\ at' = "read"
               /\ UNCHANGED <<server, shut, cur, died, kqueueVars>>

(* free                                                                    *)
Free(r) == /\ heap' = heap \ {r}
           /\ died' = IF r \in heap THEN died ELSE "double free"

(* The end of a connection whose record is not freed.                      *)
EofKeepsRecordFor(s) == /\ Runs(s, "read")
                        /\ ReadsEof(fdtab[cur])
                        /\ kq' = [kq EXCEPT ![cur] = NULL]
                        /\ Close(cur)
                        /\ at' = "scan"
                        /\ UNCHANGED <<server, cur, died, heap, record, evs>>

EofFor(s) == /\ Runs(s, "read")
             /\ ReadsEof(fdtab[cur])
             /\ kq' = [kq EXCEPT ![cur] = NULL]
             /\ Close(cur)
             /\ Free(kq[cur])
             /\ at' = "scan"
             /\ UNCHANGED <<server, cur, record, evs>>

-----------------------------------------------------------------------------
(* server.c                                                                *)

(* One connection for an event.  If the client has gone from the queue
   accept waits for the next one.                                          *)
KqAccept == /\ Runs("kqueue", "scan") /\ Listen \in evs
            /\ FreeFds # {}
            /\ \E c \in backlog, f \in FreeFds, r \in Records \ heap :
                 /\ Accept(f, c)
                 /\ kq' = [kq EXCEPT ![f] = r]
                 /\ heap' = heap \cup {r}
                 /\ record' = r
            /\ evs' = evs \ {Listen}
            /\ UNCHANGED <<server, at, cur, died>>

(* malloc, accept or kevent fail.                                          *)
KqAcceptFails ==
    /\ Runs("kqueue", "scan") /\ Listen \in evs
    /\ \/ heap = Records
       \/ NoFd
       \/ backlog # {} /\ AddMayFail
    /\ Die("exit")
    /\ UNCHANGED kqueueVars

KqueueStep ==
    \/ KeventFor("kqueue") \/ TurnDoneFor("kqueue")
    \/ KqAccept \/ KqAcceptFails
    \/ ConnEventFor("kqueue") \/ ReadFor("kqueue") \/ ReadErrorFor("kqueue")
    \/ WriteFor("kqueue") \/ EofFor("kqueue")

-----------------------------------------------------------------------------
(* no_block_server.c                                                       *)

(* One record for all the connections that are accepted in the turn.       *)
NbMalloc == /\ Runs("nonblocking", "scan") /\ Listen \in evs
            /\ evs' = evs \ {Listen}
            /\ \/ \E r \in Records \ heap : /\ heap' = heap \cup {r}
                                            /\ record' = r
                                            /\ at' = "accept"
               \/ heap = Records /\ UNCHANGED <<heap, record, at>>
            /\ UNCHANGED <<server, netVars, cur, died, kq>>

NbAccept == /\ Runs("nonblocking", "accept") /\ FreeFds # {}
            /\ \E c \in backlog, f \in FreeFds :
                 /\ Accept(f, c)
                 /\ kq' = [kq EXCEPT ![f] = record]
            /\ UNCHANGED <<server, at, cur, died, heap, record, evs>>

(* The connection is closed and the record freed, but the loop goes on.    *)
NbAddFails == /\ Runs("nonblocking", "accept") /\ FreeFds # {}
              /\ AddMayFail
              /\ \E c \in backlog : Refuse(c)
              /\ Free(record)
              /\ UNCHANGED <<server, at, cur, kq, record, evs>>

(* EAGAIN, or an error that is only logged.                                *)
NbAcceptNone == /\ Runs("nonblocking", "accept")
                /\ backlog = {} \/ NoFd
                /\ at' = "scan"
                /\ UNCHANGED <<server, netVars, cur, died, kqueueVars>>

(* EAGAIN: -1 again, so the loop is not left.                              *)
NbReadAgain ==
    /\ Runs("nonblocking", "read")
    /\ ~Readable(fdtab[cur])
    /\ UNCHANGED <<echoVars, kqueueVars>>

(* A full send buffer: the chunk is dropped.                               *)
NbWriteAgain ==
    /\ Runs("nonblocking", "write")
    /\ fdtab[cur] \notin rst /\ tx[fdtab[cur]] = SendBuf
    /\ at' = "read"
    /\ UNCHANGED <<server, netVars, cur, died, kqueueVars>>

NonblockingStep ==
    \/ KeventFor("nonblocking") \/ TurnDoneFor("nonblocking")
    \/ NbMalloc \/ NbAccept \/ NbAddFails \/ NbAcceptNone
    \/ ConnEventFor("nonblocking") \/ ReadFor("nonblocking")
    \/ ReadErrorFor("nonblocking") \/ NbReadAgain
    \/ WriteFor("nonblocking") \/ NbWriteAgain \/ EofFor("nonblocking")

(* Each connection of server.c has a record of its own until it is closed,
   and none is left behind.                                                *)
RecordsOwned ==
    server = "kqueue" =>
        /\ heap = {kq[f] : f \in {g \in Fds : fdtab[g] # NULL}}
        /\ \A f, g \in Fds : kq[f] = kq[g] /\ kq[f] # NULL => f = g

(* The loop that reads from a connection ends when everything that has come
   in is read: no_block_server.c:145, "finished reading".                  *)
DrainedReadEnds ==
    \A c \in Clients :
        Runs("nonblocking", "read") /\ fdtab[cur] = c /\ ~Readable(c) ~>
            at # "read" \/ Readable(c)
=============================================================================
