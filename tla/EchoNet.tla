------------------------------- MODULE EchoNet -------------------------------
(***************************************************************************)
(* What the echo servers of codes/apue share: the kernel's side of a       *)
(* listening socket and of its connections, and clients that connect,      *)
(* send, read the echo, close and reset at any time.  A server is one      *)
(* thread; `at` is the system call it is in front of.                      *)
(*                                                                         *)
(* A client connects once.  A chunk is what one read returns.              *)
(***************************************************************************)
EXTENDS Naturals, FiniteSets

CONSTANTS
    Clients,
    NFds,       \* descriptors left to connections: RLIMIT_NOFILE
    MaxChunks,  \* bound on the chunks a client sends
    SendBuf,    \* chunks that fit in the send buffer of a socket
    AcceptMayFail,  \* accept may fail though a descriptor is free: ENFILE
    NULL

ASSUME EchoNetAssumption ==
    /\ NFds \in Nat \ {0} /\ MaxChunks \in Nat /\ SendBuf \in Nat \ {0}
    /\ AcceptMayFail \in BOOLEAN
    /\ NULL \notin Clients \cup Nat

Fds == 1..NFds
Listen == 0   \* the listening socket, below the descriptors of connections

VARIABLES
    server,   \* the program that runs
    backlog,  \* the clients that wait for accept
    came,     \* the clients that have connected
    rx,       \* rx[c]: chunks received and not read
    tx,       \* tx[c]: echoes that the client has not read
    fin,      \* the clients that have closed their side
    rst,      \* the clients that have reset the connection
    err,      \* those of them whose error the server has not been told
    shut,     \* the clients whose socket the server has shut for reading
    got,      \* got[c]: chunks read from c
    echoed,   \* echoed[c]: chunks written back to c
    fdtab,    \* fdtab[f]: the client at the other end of f, or NULL
    at,       \* the system call the server is in front of
    cur,      \* the descriptor it is at
    died      \* how the process ended, or "no"

clientVars == <<backlog, came, fin, rst>>
dataVars == <<rx, tx, err, shut, got, echoed>>
netVars == <<clientVars, dataVars, fdtab>>
echoVars == <<server, netVars, at, cur, died>>

Servers == {"select", "poll", "kqueue", "nonblocking"}

EchoTypeOK ==
    /\ server \in Servers
    /\ backlog \subseteq Clients /\ came \subseteq Clients
    /\ fin \subseteq Clients /\ rst \subseteq Clients /\ err \subseteq rst
    /\ shut \subseteq Clients
    /\ rx \in [Clients -> 0..MaxChunks] /\ tx \in [Clients -> 0..SendBuf]
    /\ got \in [Clients -> 0..MaxChunks] /\ echoed \in [Clients -> 0..MaxChunks]
    /\ fdtab \in [Fds -> Clients \cup {NULL}]
    /\ at \in {"wait", "scan", "accept", "read", "write"}
    /\ cur \in Fds \cup {NULL}
    /\ died \in {"no", "exit", "sigpipe", "double free"}

EchoInit == /\ backlog = {} /\ came = {} /\ fin = {} /\ rst = {} /\ err = {}
            /\ shut = {}
            /\ rx = [c \in Clients |-> 0] /\ tx = [c \in Clients |-> 0]
            /\ got = [c \in Clients |-> 0] /\ echoed = [c \in Clients |-> 0]
            /\ fdtab = [f \in Fds |-> NULL]
            /\ at = "wait" /\ cur = NULL /\ died = "no"

-----------------------------------------------------------------------------
(* The clients.                                                            *)

Open == {c \in Clients : \E f \in Fds : fdtab[f] = c}

Connected(c) == c \in backlog \cup Open

Connect(c) == /\ c \notin came
              /\ came' = came \cup {c}
              /\ backlog' = backlog \cup {c}
              /\ UNCHANGED <<fin, rst, dataVars>>

Send(c) == /\ Connected(c)
           /\ c \notin fin \cup rst
           /\ rx[c] + got[c] < MaxChunks
           /\ rx' = [rx EXCEPT ![c] = @ + 1]
           /\ UNCHANGED <<clientVars, tx, err, shut, got, echoed>>

ReadEcho(c) == /\ tx[c] > 0 /\ c \notin rst
               /\ tx' = [tx EXCEPT ![c] = @ - 1]
               /\ UNCHANGED <<clientVars, rx, err, shut, got, echoed>>

(* shutdown or close: what was sent before is still delivered.             *)
Finish(c) == /\ Connected(c)
             /\ c \notin fin \cup rst
             /\ fin' = fin \cup {c}
             /\ UNCHANGED <<backlog, came, rst, dataVars>>

(* A reset discards what was sent before.  A connection that is reset while
   it waits for accept may vanish from the queue.                          *)
Reset(c) == /\ Connected(c)
            /\ c \notin rst
            /\ rst' = rst \cup {c}
            /\ \/ UNCHANGED backlog
               \/ c \in backlog /\ backlog' = backlog \ {c}
            /\ err' = err \cup {c}
            /\ rx' = [rx EXCEPT ![c] = 0]
            /\ UNCHANGED <<came, fin, tx, shut, got, echoed>>

ClientStep ==
    /\ \E c \in Clients : \/ Connect(c) \/ Send(c) \/ ReadEcho(c)
                          \/ Finish(c) \/ Reset(c)
    /\ UNCHANGED <<server, fdtab, at, cur, died>>

-----------------------------------------------------------------------------
(* The system calls.  Each is a conjunct of the actions of the servers.    *)

Runs(s, place) == server = s /\ at = place /\ died = "no"

Die(how) == died' = how /\ UNCHANGED <<server, netVars, at, cur>>

FreeFds == {f \in Fds : fdtab[f] = NULL}

LowestFree(f) == f \in FreeFds /\ \A g \in FreeFds : f <= g

(* A read of the socket of c would not block.                              *)
Readable(c) == rx[c] > 0 \/ c \in fin \cup rst \cup shut

(* EMFILE or ENFILE: the client stays in the queue.                       *)
NoFd == backlog # {} /\ (FreeFds = {} \/ AcceptMayFail)

Accept(f, c) == /\ LowestFree(f)
                /\ backlog' = backlog \ {c}
                /\ fdtab' = [fdtab EXCEPT ![f] = c]
                /\ UNCHANGED <<came, fin, rst, dataVars>>

(* accept and close.                                                       *)
Refuse(c) == /\ backlog' = backlog \ {c}
             /\ UNCHANGED <<came, fin, rst, dataVars, fdtab>>

Close(f) == /\ fdtab' = [fdtab EXCEPT ![f] = NULL]
            /\ UNCHANGED <<clientVars, dataVars>>

(* read returns -1 once after a reset, then 0.  After shutdown(SHUT_RD) it
   may still return what has been received, on Linux, or not.              *)
ReadsError(c) == c \in err

ReadsData(c) == c \notin err /\ rx[c] > 0

ReadsEof(c) == /\ c \notin err
               /\ \/ c \in shut
                  \/ rx[c] = 0 /\ c \in fin \cup rst

TakeData(c) == /\ rx' = [rx EXCEPT ![c] = @ - 1]
               /\ got' = [got EXCEPT ![c] = @ + 1]
               /\ UNCHANGED <<clientVars, tx, err, shut, echoed, fdtab>>

TakeError(c) == /\ err' = err \ {c}
                /\ UNCHANGED <<clientVars, rx, tx, shut, got, echoed, fdtab>>

(* write to a blocking socket waits for room in the send buffer.           *)
Written(c) == /\ c \notin rst /\ tx[c] < SendBuf
              /\ tx' = [tx EXCEPT ![c] = @ + 1]
              /\ echoed' = [echoed EXCEPT ![c] = @ + 1]
              /\ UNCHANGED <<clientVars, rx, err, got, fdtab>>

WriteFails(c) == /\ c \in rst
                 /\ err' = err \ {c}
                 /\ UNCHANGED <<clientVars, rx, tx, got, echoed, fdtab>>
=============================================================================
