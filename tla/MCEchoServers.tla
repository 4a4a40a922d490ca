---------------------------- MODULE MCEchoServers ----------------------------
(***************************************************************************)
(* The echo servers side by side: any one of them runs, with the same      *)
(* clients.                                                                *)
(***************************************************************************)
EXTENDS SelectServer, PollServer, KqueueServers

CONSTANT Running   \* the servers of this instance

ASSUME RunningAssumption == Running \subseteq Servers

vars == <<echoVars, selectVars, pollVars, kqueueVars>>

TypeOK == EchoTypeOK /\ SelectTypeOK /\ PollTypeOK /\ KqueueTypeOK

Init == /\ server \in Running
        /\ EchoInit /\ SelectInit /\ KqueueInit
        /\ PollInit
        /\ server # "poll" =>
               revents = {} /\ PollSize = CHOOSE n \in PollSizes : TRUE
        /\ server # "select" => fd_setsize = CHOOSE n \in SetSizes : TRUE

ServerStep ==
    \/ SelectStep /\ UNCHANGED <<pollVars, kqueueVars>>
    \/ PollStep /\ UNCHANGED <<selectVars, kqueueVars>>
    \/ KqueueStep /\ UNCHANGED <<selectVars, pollVars>>
    \/ NonblockingStep /\ UNCHANGED <<selectVars, pollVars>>

Next == \/ ClientStep /\ UNCHANGED <<selectVars, pollVars, kqueueVars>>
        \/ ServerStep

Spec == Init /\ [][Next]_vars

(* A server is one thread that the system schedules.                       *)
FairSpec == Spec /\ WF_vars(ServerStep)

(* What a server waits for.                                                *)
Watched ==
    CASE server = "select" -> {f \in readfd_cache : f < maxfd} \ {Listen}
      [] server = "poll" -> {slot[j] : j \in {l \in Entries : l < nfds}} \ {NULL}
      [] OTHER -> {f \in Fds : kq[f] # NULL}

(* When a server waits, it waits for the connections that are open and for
   no descriptor that is closed, in whatever order they have come, gone and
   taken each other's numbers, and for none of them twice.  A connection it
   has lost would be served no more, a closed descriptor would be reported
   for ever, and one that is watched twice would be closed twice, though
   the number may be somebody else's by then.                              *)
WatchesWhatIsOpen ==
    /\ at = "wait" => Watched = {f \in Fds : fdtab[f] # NULL}
    /\ \A j, l \in Entries : slot[j] = slot[l] /\ slot[j] # NULL => j = l

(* A server that does not stop for ever in a write, an accept or the read of
   one connection gives back the descriptor of every client that has gone.
   This is not so for the poll server, which looks at nothing else as long
   as accept fails.                                                        *)
GoneAreClosed ==
    []<>(at = "wait" /\ died = "no") =>
        \A c \in Clients :
            server # "poll" /\ c \in Open \cap (fin \cup rst) ~> c \notin Open
=============================================================================
