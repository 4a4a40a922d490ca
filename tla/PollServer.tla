----------------------------- MODULE PollServer -----------------------------
(***************************************************************************)
(* codes/apue/io-multiply-server/poll-server.c.                            *)
(***************************************************************************)
EXTENDS EchoNet

CONSTANT PollSizes   \* values of PollSize

ASSUME PollServerAssumption == \A n \in PollSizes : n \in Nat /\ n > 1

VARIABLES
    slot,     \* slot[k]: clientPoll[k].fd, NULL for -1
    revents,  \* the k for which clientPoll[k].revents has POLLIN or POLLHUP
    nfds,
    k,        \* the loop over the entries is at k
    PollSize  \* entries of clientPoll, for which the server was built

pollVars == <<slot, revents, nfds, k, PollSize>>

Entries == 1..PollSize - 1   \* clientPoll[0] is the listening socket

PollTypeOK == /\ slot \in [Entries -> Fds \cup {NULL}]
              /\ revents \subseteq Entries
              /\ nfds \in 1..PollSize
              /\ k \in 1..PollSize
              /\ PollSize \in PollSizes

(* revents is not initialized: poll writes it, for the first nfds entries. *)
PollInit == /\ PollSize \in PollSizes
            /\ slot = [j \in Entries |-> NULL]
            /\ revents \in SUBSET Entries
            /\ nfds = 1 /\ k = 1

Reported == {j \in Entries : /\ j < nfds /\ slot[j] # NULL
                             /\ Readable(fdtab[slot[j]])}

Poll == /\ Runs("poll", "wait")
        /\ Reported # {} \/ backlog # {}
        /\ revents' = Reported \cup {j \in revents : j >= nfds}
        /\ k' = 1
        /\ at' = IF backlog # {} THEN "accept" ELSE "scan"
        /\ UNCHANGED <<server, netVars, cur, died, slot, nfds, PollSize>>

FreeEntries == {j \in Entries : slot[j] = NULL}

PollAccept ==
    /\ Runs("poll", "accept") /\ FreeFds # {} /\ FreeEntries # {}
    /\ \E c \in backlog, f \in FreeFds, j \in FreeEntries :
         /\ \A g \in FreeEntries : j <= g
         /\ Accept(f, c)
         /\ slot' = [slot EXCEPT ![j] = f]
         /\ nfds' = IF j >= nfds THEN j + 1 ELSE nfds
    /\ at' = "scan"
    /\ UNCHANGED <<server, cur, died, revents, k, PollSize>>

(* The table is full.                                                      *)
PollRefuse == /\ Runs("poll", "accept") /\ FreeFds # {} /\ FreeEntries = {}
              /\ \E c \in backlog : Refuse(c)
              /\ at' = "scan"
              /\ UNCHANGED <<server, cur, died, pollVars>>

(* No descriptor: the turn is given up, what else poll has reported is not
   looked at, and the client stays in the queue.                                  *)
PollAcceptFails == /\ Runs("poll", "accept") /\ NoFd
                   /\ at' = "wait"
                   /\ UNCHANGED <<server, netVars, cur, died, pollVars>>

(* The loop over the entries comes to j next.                              *)
Due(j) == k <= j /\ j < nfds /\ slot[j] # NULL /\ j \in revents

GetsTo(j) == Due(j) /\ \A l \in Entries : Due(l) => j <= l

PollTurnDone == /\ Runs("poll", "scan")
                /\ ~\E j \in Entries : GetsTo(j)
                /\ at' = "wait"
                /\ UNCHANGED <<server, netVars, cur, died, pollVars>>

(* The socket is blocking: without data read waits, and with it all.       *)
PollRead ==
    /\ Runs("poll", "scan")
    /\ \E j \in Entries :
         /\ GetsTo(j)
         /\ ReadsData(fdtab[slot[j]]) /\ TakeData(fdtab[slot[j]])
         /\ cur' = slot[j]
         /\ k' = j + 1
    /\ at' = "write"
    /\ UNCHANGED <<server, died, slot, revents, nfds, PollSize>>

PollClose ==
    /\ Runs("poll", "scan")
    /\ \E j \in Entries :
         LET c == fdtab[slot[j]]
         IN  /\ GetsTo(j)
             /\ ReadsEof(c) \/ ReadsError(c)
             /\ fdtab' = [fdtab EXCEPT ![slot[j]] = NULL]
             /\ err' = err \ {c}
             /\ slot' = [slot EXCEPT ![j] = NULL]
             /\ k' = j + 1
    /\ UNCHANGED <<server, clientVars, rx, tx, shut, got, echoed, at, cur, died,
                   revents, nfds, PollSize>>

(* strlen(buf) is 0 if the chunk starts with a NUL.                        *)
PollWrite == /\ Runs("poll", "write")
             /\ \/ Written(fdtab[cur]) \/ WriteFails(fdtab[cur])
                \/ UNCHANGED <<clientVars, rx, tx, err, got, echoed, fdtab>>
             /\ at' = "scan"
             /\ UNCHANGED <<server, shut, cur, died, pollVars>>

(* The line that would ignore SIGPIPE is commented out.                    *)
PollSigpipe == /\ Runs("poll", "write")
               /\ fdtab[cur] \in rst
               /\ Die("sigpipe")
               /\ UNCHANGED pollVars

PollStep ==
    \/ Poll \/ PollAccept \/ PollRefuse \/ PollAcceptFails \/ PollTurnDone
    \/ PollRead \/ PollClose \/ PollWrite \/ PollSigpipe
=============================================================================
