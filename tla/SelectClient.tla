---------------------------- MODULE SelectClient ----------------------------
(***************************************************************************)
(* tcp-client.c: a loop around select with blocking calls.  Lines are read *)
(* with fgets, so some may wait in the buffer of stdin, where select does  *)
(* not see them.  Each line is sent as a record of sizeof(sendline) bytes, *)
(* and what comes back is read one byte less at a time.                    *)
(*                                                                         *)
(* A cell stands for a run of bytes: the first cell of a record is the     *)
(* number of its line, the others, PAD, are what follows the line there:   *)
(* zeros, or what is left of earlier lines.                                *)
(***************************************************************************)
EXTENDS ClientNet

CONSTANTS
    RecordSize, \* cells of a record; a read returns at most one less
    PAD

ASSUME SelectClientAssumption ==
    RecordSize \in 2..UpSize /\ PAD \notin 0..MaxTyped

VARIABLES
    endLine,    \* the line that says "end", 0 if none does
    test,       \* the program was called with "test"
    buffered,   \* lines in the buffer of stdin
    sent,       \* lines sent
    noInput,    \* stdineof
    ready       \* what select has returned

selectVars == <<endLine, test, buffered, sent, noInput, ready>>

SelectClientStart(line, mode) ==
    /\ endLine = line /\ test = mode
    /\ buffered = 0 /\ sent = 0 /\ noInput = FALSE /\ ready = {}

(* The stream of the first n records.                                      *)
Records(n) == [i \in 1..n * RecordSize |->
                 IF i % RecordSize = 1 THEN i \div RecordSize + 1 ELSE PAD]

(* What is ready of what select is asked for.                              *)
Selectable == {e \in {"fd", "stdin"} :
                 \/ e = "fd" /\ (down # <<>> \/ Gone \/ peer = "reset")
                 \/ e = "stdin" /\ ~noInput /\ InputReady}

Select == /\ At("tcp-client", "select")
          /\ Selectable # {}
          /\ ready' = Selectable
          /\ at' = IF "fd" \in ready' THEN "fd" ELSE "stdin"
          /\ UNCHANGED <<program, typed, inputEnded, taken, up, down, peer, out,
                         endLine, test, buffered, sent, noInput>>

(* strcmp(recvline, "end\n") == 0: the read begins with that line.         *)
SaysEnd(cells) == Head(cells) = endLine

(* The server is read before standard input.                               *)
FdReceive ==
    /\ At("tcp-client", "fd")
    /\ \/ /\ down # <<>>
          /\ LET n == SmallerOf(Len(down), RecordSize - 1)
             IN  /\ out' = out \o SubSeq(down, 1, n)
                 /\ down' = SubSeq(down, n + 1, Len(down))
          /\ at' = IF SaysEnd(down) /\ noInput THEN "end"
                   ELSE IF test THEN "done"
                   ELSE IF "stdin" \in ready THEN "stdin" ELSE "select"
       \/ /\ down = <<>>
          /\ at' = IF Gone THEN "done" ELSE "exit"
          /\ UNCHANGED <<out, down>>
    /\ UNCHANGED <<program, typed, inputEnded, taken, up, peer, selectVars>>

(* fgets: an empty buffer is filled with all there is; NULL at the end.    *)
Fgets == /\ At("tcp-client", "stdin")
         /\ LET lines == IF buffered = 0 THEN typed - taken ELSE buffered
            IN  IF lines = 0
                THEN /\ noInput' = TRUE /\ at' = "select"
                     /\ UNCHANGED <<buffered, taken>>
                ELSE /\ buffered' = lines - 1
                     /\ taken' = IF buffered = 0 THEN typed ELSE taken
                     /\ at' = "write"
                     /\ UNCHANGED noInput
         /\ UNCHANGED <<program, typed, inputEnded, up, down, peer, out, endLine,
                        test, sent, ready>>

(* write(fd, sendline, sizeof(sendline)) waits until the record fits.      *)
WriteRecord ==
    /\ At("tcp-client", "write")
    /\ \/ /\ peer = "open" /\ Len(up) + RecordSize <= UpSize
          /\ up' = up \o SubSeq(Records(sent + 1), sent * RecordSize + 1,
                                (sent + 1) * RecordSize)
          /\ sent' = sent + 1 /\ at' = "select"
          /\ UNCHANGED peer
       \/ /\ Gone
          /\ peer' = "reset" /\ sent' = sent + 1 /\ at' = "select"
          /\ UNCHANGED up
       \/ /\ peer = "reset"
          /\ at' = "sigpipe"
          /\ UNCHANGED <<up, peer, sent>>
    /\ UNCHANGED <<program, typed, inputEnded, taken, down, out, endLine, test,
                   buffered, noInput, ready>>

SelectClientStep == Select \/ FdReceive \/ Fgets \/ WriteRecord

-----------------------------------------------------------------------------
(* The lines are sent whole and in order, what comes back is what was sent,
   and a line that was read is either sent, about to be sent or still in the
   buffer of stdin.  A client that ends because it has received "end" has
   sent everything that was typed.                                         *)
LinesKept ==
    program = "tcp-client" =>
      /\ Carried(out \o down, Records(sent))
      /\ taken = sent + buffered + (IF at \in {"write", "sigpipe"} THEN 1 ELSE 0)
      /\ at = "end" => sent = typed

(* The client waits in write for room, and the server for the client.      *)
BothWait == /\ At("tcp-client", "write") /\ peer = "open"
            /\ Len(up) + RecordSize > UpSize
            /\ Len(down) = DownSize

(* When write has no room, the server makes some, or both sides wait.  When
   select has nothing to return, the server will change that, or everything
   that was sent has come back and was shown; unless the input may go on,
   that is everything that was typed.                                      *)
SelectNeverStuck ==
    /\ At("tcp-client", "write") /\ peer = "open" /\ Len(up) + RecordSize > UpSize =>
         ServerCanGoOn \/ BothWait
    /\ At("tcp-client", "select") /\ Selectable = {} =>
         \/ ServerCanGoOn
         \/ out = Records(sent) /\ (sent = typed \/ ~inputEnded)
=============================================================================
