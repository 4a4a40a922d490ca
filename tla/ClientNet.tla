------------------------------ MODULE ClientNet ------------------------------
(***************************************************************************)
(* What the TCP clients of codes/apue/io-multiply-server share: a user who *)
(* types and ends the input, one connection, and a server that echoes what *)
(* it reads, one cell at a time, with both directions bounded as socket    *)
(* buffers are.  The server may also quit or reset at any time.            *)
(***************************************************************************)
EXTENDS Naturals, Sequences

CONSTANTS
    MaxTyped,   \* bound on what the user types
    UpSize,     \* cells that fit between the client and the server
    DownSize    \* cells that fit between the server and the client

ASSUME ClientNetAssumption ==
    MaxTyped \in Nat /\ UpSize \in Nat \ {0} /\ DownSize \in Nat \ {0}

VARIABLES
    program,    \* the program that runs
    typed,      \* what the user has typed so far
    inputEnded, \* the user has ended the input
    taken,      \* what the program has read of it
    up,         \* cells on their way to the server
    down,       \* cells on their way back
    peer,       \* what the connection is, as the kernel of the client knows
    at,         \* the system call the client is in front of, or how it ended
    out         \* cells the client has shown

netVars == <<program, typed, inputEnded, taken, up, down, peer, at, out>>

Ended == {"done", "end", "exit", "sigpipe"}

At(c, place) == program = c /\ at = place

(* A read of standard input would not block.                               *)
InputReady == taken < typed \/ inputEnded

(* The peer has sent all it will send.                                     *)
Gone == peer \in {"closed", "quit"}

SmallerOf(m, n) == IF m < n THEN m ELSE n

Type == /\ ~inputEnded /\ typed < MaxTyped
        /\ typed' = typed + 1
        /\ UNCHANGED <<inputEnded, up, down, peer>>

EndInput == /\ ~inputEnded
            /\ inputEnded' = TRUE
            /\ UNCHANGED <<typed, up, down, peer>>

(* The connection is established or refused.                               *)
Answer == /\ peer = "connecting"
          /\ peer' \in {"open", "refused"}
          /\ UNCHANGED <<typed, inputEnded, up, down>>

Echo == /\ peer \in {"open", "half"}
        /\ up # <<>> /\ Len(down) < DownSize
        /\ down' = Append(down, Head(up))
        /\ up' = Tail(up)
        /\ UNCHANGED <<typed, inputEnded, peer>>

(* The client has shut its side and everything is echoed.                  *)
EchoEnd == /\ peer = "half" /\ up = <<>>
           /\ peer' = "closed"
           /\ UNCHANGED <<typed, inputEnded, up, down>>

(* The server ends early; a reset also discards what was on its way.       *)
Quit == /\ peer \in {"open", "half"}
        /\ up' = <<>>
        /\ \/ peer' = "quit" /\ UNCHANGED down
           \/ peer' = "reset" /\ down' = <<>>
        /\ UNCHANGED <<typed, inputEnded>>

(* The steps that are bound to come, and those that may.                   *)
ServerDue == Answer \/ Echo \/ EchoEnd

(* One of them can come: the connection is answered, the next cell echoed, or
   the server ends after the last.                                         *)
ServerCanGoOn == \/ peer = "connecting"
                 \/ peer \in {"open", "half"} /\ up # <<>> /\ Len(down) < DownSize
                 \/ peer = "half" /\ up = <<>>

OthersStep == /\ Type \/ EndInput \/ ServerDue \/ Quit
              /\ UNCHANGED <<program, taken, at, out>>

(* shutdown(fd, SHUT_WR)                                                   *)
Shut(p) == IF p = "open" THEN "half" ELSE p

(* What has come back was sent, in the order in which it was sent, and as
   long as the server has not ended early nothing of it is missing.        *)
Carried(back, sent) ==
    /\ Len(back) <= Len(sent)
    /\ back = SubSeq(sent, 1, Len(back))
    /\ peer \in {"connecting", "open", "half", "closed"} =>
           back \o up = sent
=============================================================================
