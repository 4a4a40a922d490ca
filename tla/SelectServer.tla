---------------------------- MODULE SelectServer ----------------------------
(***************************************************************************)
(* codes/apue/io-multiply-server/select-server.c.                          *)
(***************************************************************************)
EXTENDS EchoNet

CONSTANT SetSizes   \* values of FD_SETSIZE

ASSUME SelectServerAssumption == \A n \in SetSizes : n \in Nat /\ n > 1

VARIABLES
    readfd_cache,  \* the descriptors to wait for
    readfd,        \* those of them that select found readable
    maxfd,
    ret,           \* how many of readfd are still to come
    i,             \* the loop over the descriptors is at i
    fd_setsize     \* FD_SETSIZE of the system it was built for

selectVars == <<readfd_cache, readfd, maxfd, ret, i, fd_setsize>>

SelectTypeOK == /\ readfd_cache \subseteq Fds \cup {Listen}
                /\ readfd \subseteq Fds \cup {Listen}
                /\ maxfd \in 1..NFds + 1
                /\ ret \in 0..NFds + 1
                /\ i \in 0..NFds + 1
                /\ fd_setsize \in SetSizes

SelectInit == /\ readfd_cache = {Listen} /\ readfd = {Listen}
              /\ maxfd = Listen + 1
              /\ ret = 0 /\ i = Listen
              /\ fd_setsize \in SetSizes

ReadableFds(fds) ==
    {f \in fds : f < maxfd /\ IF f = Listen THEN backlog # {}
                                            ELSE Readable(fdtab[f])}

SelectFull == /\ Runs("select", "wait")
              /\ maxfd >= fd_setsize
              /\ Die("exit")
              /\ UNCHANGED selectVars

(* A server that does not look at the size of fd_set.                      *)
SelectNoLimit == /\ Runs("select", "wait")
                 /\ readfd' = ReadableFds(readfd_cache)
                 /\ readfd' # {}
                 /\ ret' = Cardinality(readfd')
                 /\ i' = Listen
                 /\ at' = "scan"
                 /\ UNCHANGED <<server, netVars, cur, died, readfd_cache, maxfd,
                                fd_setsize>>

Select == /\ Runs("select", "wait")
          /\ maxfd < fd_setsize
          /\ readfd' = ReadableFds(readfd_cache)
          /\ readfd' # {}
          /\ ret' = Cardinality(readfd')
          /\ i' = Listen
          /\ at' = "scan"
          /\ UNCHANGED <<server, netVars, cur, died, readfd_cache, maxfd,
                         fd_setsize>>

(* The loop over i comes to f next.                                        *)
ComesTo(f) == /\ ret # 0
              /\ f \in readfd /\ i <= f /\ f < maxfd
              /\ \A g \in readfd : i <= g => f <= g

(* A count that goes down twice for a descriptor.                          *)
PassedTwice(f) == i' = f + 1 /\ ret' = ret - 2

Passed(f) == i' = f + 1 /\ ret' = ret - 1

SelectTurnDone == /\ Runs("select", "scan")
                  /\ ~\E f \in readfd : ComesTo(f)
                  /\ at' = "wait"
                  /\ UNCHANGED <<server, netVars, cur, died, selectVars>>

(* A new connection that is put in the set select has filled.              *)
SelectAcceptNow ==
    /\ Runs("select", "scan") /\ ComesTo(Listen) /\ FreeFds # {}
    /\ \E c \in backlog, f \in FreeFds :
         /\ Accept(f, c)
         /\ readfd_cache' = readfd_cache \cup {f}
         /\ readfd' = readfd \cup {f}
         /\ maxfd' = IF f >= maxfd THEN f + 1 ELSE maxfd
    /\ i' = Listen + 1 /\ UNCHANGED ret
    /\ UNCHANGED <<server, at, cur, died, fd_setsize>>

(* A new connection for which maxfd is left as it is.                      *)
SelectAcceptSameMax ==
    /\ Runs("select", "scan") /\ ComesTo(Listen) /\ FreeFds # {}
    /\ \E c \in backlog, f \in FreeFds :
         /\ Accept(f, c)
         /\ readfd_cache' = readfd_cache \cup {f}
    /\ Passed(Listen)
    /\ UNCHANGED <<server, at, cur, died, readfd, maxfd, fd_setsize>>

(* If the client has gone from the queue accept waits for the next one.    *)
SelectAccept ==
    /\ Runs("select", "scan") /\ ComesTo(Listen) /\ FreeFds # {}
    /\ \E c \in backlog, f \in FreeFds :
         /\ Accept(f, c)
         /\ readfd_cache' = readfd_cache \cup {f}
         /\ maxfd' = IF f >= maxfd THEN f + 1 ELSE maxfd
    /\ Passed(Listen)
    /\ UNCHANGED <<server, at, cur, died, readfd, fd_setsize>>

(* No descriptor, in a loop that gives up the turn.                               *)
SelectAcceptGivesUp ==
    /\ Runs("select", "scan") /\ ComesTo(Listen)
    /\ NoFd
    /\ at' = "wait"
    /\ UNCHANGED <<server, netVars, cur, died, selectVars>>

(* No descriptor: the client stays in the queue, the loop goes on.         *)
SelectAcceptFails ==
    /\ Runs("select", "scan") /\ ComesTo(Listen)
    /\ NoFd
    /\ Passed(Listen)
    /\ UNCHANGED <<server, netVars, at, cur, died, readfd_cache, readfd, maxfd,
                   fd_setsize>>

SelectRead ==
    /\ Runs("select", "scan")
    /\ \E f \in readfd \ {Listen} :
         /\ ComesTo(f)
         /\ ReadsData(fdtab[f]) /\ TakeData(fdtab[f])
         /\ cur' = f
         /\ Passed(f)
    /\ at' = "write"
    /\ UNCHANGED <<server, died, readfd_cache, readfd, maxfd, fd_setsize>>

(* The top of the set: f, which is being closed, is still in it.           *)
NewMax(f) == CHOOSE m \in 1..maxfd :
                /\ m - 1 \in readfd_cache
                /\ \A g \in readfd_cache : g < maxfd => g < m

(* The end of a connection.                                                *)
SelectClose ==
    /\ Runs("select", "scan")
    /\ \E f \in readfd \ {Listen} :
         LET c == fdtab[f]
         IN  /\ ComesTo(f)
             /\ ReadsEof(c) \/ ReadsError(c)
             /\ maxfd' = IF f = maxfd - 1 THEN NewMax(f) ELSE maxfd
             /\ readfd_cache' = readfd_cache \ {f}
             /\ fdtab' = [fdtab EXCEPT ![f] = NULL]
             /\ err' = err \ {c}
             /\ Passed(f)
    /\ UNCHANGED <<server, clientVars, rx, tx, shut, got, echoed, at, cur, died,
                   readfd, fd_setsize>>

(* write, then shutdown(SHUT_RD).  Nobody ignores SIGPIPE.                 *)
SelectWrite == /\ Runs("select", "write")
               /\ Written(fdtab[cur]) \/ WriteFails(fdtab[cur])
               /\ shut' = shut \cup {fdtab[cur]}
               /\ at' = "scan"
               /\ UNCHANGED <<server, cur, died, selectVars>>

SelectSigpipe == /\ Runs("select", "write")
                 /\ fdtab[cur] \in rst
                 /\ Die("sigpipe")
                 /\ UNCHANGED selectVars

SelectStep ==
    \/ SelectFull \/ Select \/ SelectTurnDone
    \/ SelectAccept \/ SelectAcceptFails
    \/ SelectRead \/ SelectClose \/ SelectWrite \/ SelectSigpipe

(* A set that outgrows fd_set is undefined behaviour: the check of maxfd
   comes before select and not where descriptors are added, but a new one is
   at most maxfd, since every descriptor below is open or free.            *)
FdsFitTheSet == server = "select" => \A f \in readfd_cache : f < fd_setsize

(* A connection that select has reported can be read without waiting when
   the loop comes to it, though a descriptor may be closed and given to
   another client in the same turn.  One thread serves all of them, so a
   read that waits stops all of them.                                      *)
ReportedCanBeRead ==
    Runs("select", "scan") =>
        \A f \in readfd \ {Listen} : ComesTo(f) =>
            fdtab[f] # NULL /\ Readable(fdtab[f])
=============================================================================
