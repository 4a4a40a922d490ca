----------------------------- MODULE PollClient -----------------------------
(***************************************************************************)
(* no_blocking_tcp_client.c: one loop around poll that moves bytes from    *)
(* standard input to the server through the buffer `to`, and from the      *)
(* server to standard output through `fr`, without ever blocking.  A byte  *)
(* is the number at which it was typed.                                    *)
(***************************************************************************)
EXTENDS ClientNet

CONSTANTS
    ToSize,     \* sizeof(to)
    FrSize,     \* sizeof(fr)
    OutSize     \* bytes that standard output takes before it would block

ASSUME PollClientAssumption ==
    ToSize \in Nat \ {0} /\ FrSize \in Nat \ {0} /\ OutSize \in Nat \ {0}

VARIABLES
    cn,         \* the connection is established: cn is 0 and not -1
    to, toS, toE,  \* the buffer to, to_sptr and to_eptr
    fr, frS, frE,  \* the buffer fr, fr_sptr and fr_eptr
    stdineof,
    revents,    \* what poll has reported
    outq        \* bytes in standard output that nobody has read

toVars == <<to, toS, toE>>
frVars == <<fr, frS, frE>>
pollVars == <<cn, toVars, frVars, stdineof, revents, outq>>

(* connect returns 0 or EINPROGRESS.                                       *)
PollClientStart(p) ==
    /\ peer = p /\ cn = (p = "open")
    /\ to = [i \in 0..ToSize - 1 |-> 0] /\ toS = 0 /\ toE = 0
    /\ fr = [i \in 0..FrSize - 1 |-> 0] /\ frS = 0 /\ frE = 0
    /\ stdineof = FALSE /\ revents = {} /\ outq = 0

(* The bytes between two pointers into a buffer, and a buffer with bytes
   copied to a pointer.                                                    *)
Slice(buf, s, e) == [i \in 1..e - s |-> buf[s + i - 1]]

Filled(buf, e, bytes) ==
    [i \in DOMAIN buf |-> IF i \in e..e + Len(bytes) - 1
                          THEN bytes[i - e + 1] ELSE buf[i]]

-----------------------------------------------------------------------------
(* What is asked of poll, and what it can report of that.                  *)
Reportable ==
    IF ~cn THEN IF peer = "connecting" THEN {} ELSE {"in", "out"}
    ELSE {e \in {"stdin", "in", "out", "stdout"} :
            \/ e = "stdin" /\ ~stdineof /\ toE < ToSize /\ InputReady
            \/ e = "in" /\ frE < FrSize /\ (down # <<>> \/ Gone \/ peer = "reset")
            \/ e = "out" /\ toS # toE /\ (Len(up) < UpSize \/ peer = "reset")
            \/ e = "stdout" /\ frS # frE /\ outq < OutSize}

(* The conditions in front of the branches of a turn.                      *)
AfterFd == IF "stdout" \in revents' THEN "stdout" ELSE "poll"

AfterStdin == IF revents' \cap {"in", "out"} # {} THEN "fd" ELSE AfterFd

Poll == /\ At("nbtc", "poll")
        /\ Reportable # {}
        /\ revents' = Reportable
        /\ at' = IF "stdin" \in revents' THEN "stdin" ELSE AfterStdin
        /\ UNCHANGED <<program, typed, inputEnded, taken, up, down, peer, out,
                       cn, toVars, frVars, stdineof, outq>>

(* read(STDIN_FILENO): the write to the server is tried in the same turn.  *)
StdinRead ==
    /\ At("nbtc", "stdin") /\ taken < typed
    /\ \E n \in 1..SmallerOf(typed - taken, ToSize - toE) :
         /\ to' = Filled(to, toE, [i \in 1..n |-> taken + i])
         /\ toE' = toE + n
         /\ taken' = taken + n
    /\ at' = "fd"
    /\ UNCHANGED <<program, typed, inputEnded, up, down, peer, out, cn, toS,
                   frVars, stdineof, revents, outq>>

(* An end of input that forgets the connection.                            *)
StdinEofOnly == /\ At("nbtc", "stdin") /\ taken = typed
                /\ stdineof' = TRUE
                /\ UNCHANGED revents
                /\ at' = AfterStdin
                /\ UNCHANGED <<program, typed, inputEnded, taken, up, down, peer,
                               out, cn, toVars, frVars, outq>>

StdinEof == /\ At("nbtc", "stdin") /\ taken = typed
            /\ stdineof' = TRUE
            /\ peer' = IF toS = toE THEN Shut(peer) ELSE peer
            /\ UNCHANGED revents
            /\ at' = AfterStdin
            /\ UNCHANGED <<program, typed, inputEnded, taken, up, down, out, cn,
                           toVars, frVars, outq>>

(* getsockopt(SO_ERROR)                                                    *)
FdConnected == /\ At("nbtc", "fd") /\ ~cn
               /\ IF peer \in {"refused", "reset"}
                  THEN at' = "exit" /\ UNCHANGED cn
                  ELSE at' = "poll" /\ cn' = TRUE
               /\ UNCHANGED <<program, typed, inputEnded, taken, up, down, peer,
                              out, toVars, frVars, stdineof, revents, outq>>

FdRead ==
    /\ At("nbtc", "fd") /\ cn /\ "in" \in revents
    /\ \/ /\ down # <<>>
          /\ LET n == SmallerOf(Len(down), FrSize - frE)
             IN  /\ fr' = Filled(fr, frE, SubSeq(down, 1, n))
                 /\ frE' = frE + n
                 /\ down' = SubSeq(down, n + 1, Len(down))
          /\ at' = "stdout"
       \/ /\ down = <<>>
          /\ at' = IF Gone THEN "done" ELSE "exit"
          /\ UNCHANGED <<fr, frE, down>>
    /\ UNCHANGED <<program, typed, inputEnded, taken, up, peer, out, cn, toVars,
                   frS, stdineof, revents, outq>>

(* A reset that leaves the read pointer of the buffer where it was.        *)
AdvancedBy1(n, p) == IF toS + n = toE
                     THEN /\ toS' = 0 /\ toE' = 1
                          /\ peer' = IF stdineof THEN Shut(p) ELSE p
                     ELSE toS' = toS + n /\ peer' = p /\ UNCHANGED toE

(* to_sptr += wn; an empty buffer starts again, and after the end of the
   input it is shut.                                                       *)
Advanced(n, p) == IF toS + n = toE
                  THEN /\ toS' = 0 /\ toE' = 0
                       /\ peer' = IF stdineof THEN Shut(p) ELSE p
                  ELSE toS' = toS + n /\ peer' = p /\ UNCHANGED toE

(* write(fd): what it takes, nothing if there is no room, or an error.  A
   peer that has quit answers with a reset.                                *)
FdWrite ==
    /\ At("nbtc", "fd") /\ cn /\ "in" \notin revents
    /\ IF peer = "reset"
       THEN /\ at' \in {"exit", "sigpipe"}
            /\ UNCHANGED <<up, toS, toE, peer>>
       ELSE /\ UNCHANGED revents /\ at' = AfterFd
            /\ IF Gone
               THEN Advanced(toE - toS, "reset") /\ UNCHANGED up
               ELSE LET n == SmallerOf(toE - toS, UpSize - Len(up))
                    IN  /\ up' = up \o Slice(to, toS, toS + n)
                        /\ Advanced(n, peer)
    /\ UNCHANGED <<program, typed, inputEnded, taken, down, out, cn, to, frVars,
                   stdineof, revents, outq>>

StdoutWrite ==
    /\ At("nbtc", "stdout")
    /\ LET n == SmallerOf(frE - frS, OutSize - outq)
       IN  /\ out' = out \o Slice(fr, frS, frS + n)
           /\ outq' = outq + n
           /\ IF frS + n = frE
              THEN frS' = 0 /\ frE' = 0
              ELSE frS' = frS + n /\ UNCHANGED frE
    /\ at' = "poll"
    /\ UNCHANGED <<program, typed, inputEnded, taken, up, down, peer, cn, toVars,
                   fr, stdineof, revents>>

PollClientStep == \/ Poll \/ StdinRead \/ StdinEof \/ FdConnected \/ FdRead
                  \/ FdWrite \/ StdoutWrite

(* Somebody reads the standard output of the client.                       *)
ReadOut == /\ program = "nbtc" /\ outq > 0
           /\ outq' = outq - 1
           /\ UNCHANGED <<netVars, cn, toVars, frVars, stdineof, revents>>

-----------------------------------------------------------------------------
(* Every byte that was read from standard input is in exactly one place on
   its way round - `to`, the connection, `fr` or standard output - and all
   of them are in the order in which they were typed; the connection is shut
   only when the input has ended and every byte of it is sent.  Wherever the
   client ends, the bytes it has shown are the first ones typed.           *)
BytesKept ==
    LET sent == taken - (toE - toS)
    IN  program = "nbtc" =>
          /\ Slice(to, toS, toE) = [i \in 1..toE - toS |-> sent + i]
          /\ Carried(out \o Slice(fr, frS, frE) \o down, [i \in 1..sent |-> i])
          /\ peer \in {"half", "closed"} =>
               stdineof /\ sent = typed

(* When poll has nothing to report, whoever reads the output or the server
   will change that; the client waits for the user only when everything that
   was typed is shown, and never after the end of the input.               *)
PollNeverStuck ==
    At("nbtc", "poll") /\ Reportable = {} =>
        \/ outq > 0 \/ ServerCanGoOn
        \/ ~inputEnded /\ out = [i \in 1..typed |-> i]
=============================================================================
