----------------------------- MODULE MCPrograms -----------------------------
(***************************************************************************)
(* The programs that share nothing with each other, side by side: any one  *)
(* of them runs, the variables of the others keep a value they may start   *)
(* with.                                                                   *)
(***************************************************************************)
EXTENDS PollClient, SelectClient, DiskUsage, ShareStack, TreeRotate, Pipes,
        WriteRace, CopyFile, ForkWait

clientVars == <<netVars, pollVars, selectVars>>

\* All but the variables of one program.
NotClients == <<duVars, stackVars, tree, pipeVars, raceVars, copyVars, forkVars>>
NotDu      == <<clientVars, stackVars, tree, pipeVars, raceVars, copyVars, forkVars>>
NotStack   == <<clientVars, duVars, tree, pipeVars, raceVars, copyVars, forkVars>>
NotTree    == <<clientVars, duVars, stackVars, pipeVars, raceVars, copyVars, forkVars>>
NotPipes   == <<clientVars, duVars, stackVars, tree, raceVars, copyVars, forkVars>>
NotRace    == <<clientVars, duVars, stackVars, tree, pipeVars, copyVars, forkVars>>
NotCopy    == <<clientVars, duVars, stackVars, tree, pipeVars, raceVars, forkVars>>
NotFork    == <<clientVars, duVars, stackVars, tree, pipeVars, raceVars, copyVars>>

vars == <<clientVars, NotClients>>

Is(p) == program = p

\* The ways in which a program may be started; one is enough for the others.
Chosen(S, p) == IF Is(p) THEN S ELSE {CHOOSE e \in S : TRUE}

ClientsInit ==
    /\ typed = 0 /\ inputEnded = FALSE /\ taken = 0
    /\ up = <<>> /\ down = <<>> /\ out = <<>>
    /\ at = IF Is("nbtc") THEN "poll" ELSE "select"
    /\ IF Is("nbtc")
       THEN \E p \in {"open", "connecting"} : PollClientStart(p)
       ELSE PollClientStart("open")
    /\ IF Is("tcp-client")
       THEN \E line \in 0..MaxTyped, mode \in BOOLEAN : SelectClientStart(line, mode)
       ELSE SelectClientStart(0, FALSE)

Init == /\ program \in {"nbtc", "tcp-client", "disk usage", "share stack",
                        "tree", "pipes", "write race", "copy", "fork wait"}
        /\ ClientsInit /\ TreeInit /\ RaceInit /\ ForkInit
        /\ \E j \in Chosen(Jobs, "disk usage") : DuStart(j)
        /\ \E a \in Chosen(Askable, "share stack") : ShareStackStart(a)
        /\ \E j \in Chosen({"pf", "cf", "oversize"}, "pipes") : PipeStart(j)
        /\ \E j \in Chosen(CopyJobs, "copy") : CopyStart(j)
        /\ ~Is("copy") => copyAt = "exit"

PollClientRuns == PollClientStep /\ UNCHANGED <<selectVars, NotClients>>
OutputIsRead == ReadOut /\ UNCHANGED <<selectVars, NotClients>>
SelectClientRuns == SelectClientStep /\ UNCHANGED <<pollVars, NotClients>>
ServerAnswers == /\ program \in {"nbtc", "tcp-client"} /\ ServerDue
                 /\ UNCHANGED <<program, taken, at, out, pollVars, selectVars,
                                NotClients>>
UserActs == /\ program \in {"nbtc", "tcp-client"} /\ OthersStep
            /\ UNCHANGED <<pollVars, selectVars, NotClients>>
DuRuns == Is("disk usage") /\ DuStep /\ UNCHANGED NotDu
StackRuns == Is("share stack") /\ ShareStackStep /\ UNCHANGED NotStack
TreeRuns == Is("tree") /\ Rotate /\ UNCHANGED NotTree
PipesRun == Is("pipes") /\ PipeStep /\ UNCHANGED NotPipes
Killed == \/ Is("pipes") /\ Kill /\ UNCHANGED NotPipes
          \/ Is("fork wait") /\ KillChild /\ UNCHANGED NotFork
RaceRuns == Is("write race") /\ RaceStep /\ UNCHANGED NotRace
CopyRuns == Is("copy") /\ CopyStep /\ UNCHANGED NotCopy
ForkWaitRuns == Is("fork wait") /\ ForkWaitStep /\ UNCHANGED NotFork

Next == \/ PollClientRuns \/ OutputIsRead \/ SelectClientRuns \/ UserActs
        \/ DuRuns \/ StackRuns \/ TreeRuns \/ PipesRun \/ Killed \/ RaceRuns
        \/ CopyRuns \/ ForkWaitRuns

Spec == Init /\ [][Next]_vars

(* Every program is scheduled, the server serves and the output is read;
   nobody has to type, to end the input, to quit or to kill.               *)
FairSpec == /\ Spec
            /\ WF_vars(PollClientRuns) /\ WF_vars(SelectClientRuns)
            /\ WF_vars(OutputIsRead) /\ WF_vars(ServerAnswers)
            /\ WF_vars(PipesRun) /\ WF_vars(ForkWaitRuns)

(* Nothing that was typed is lost, repeated or reordered on its way through
   the buffers of either client.                                           *)
InputKept == BytesKept /\ LinesKept

(* Neither client ever waits for something that cannot come.               *)
ClientsNeverStuck == PollNeverStuck /\ SelectNeverStuck

(* The clients keep what was typed and never hold it up for good.          *)
ClientsSound == InputKept /\ ClientsNeverStuck

(* When the user ends the input, the non-blocking client sends what is left,
   gets its echo and ends; the client that writes whole records sends every
   line, or has lost the server, unless both sides wait for the other to
   read.                                                                   *)
InputEnds ==
    /\ Is("nbtc") /\ inputEnded ~> at \in Ended
    /\ Is("tcp-client") /\ inputEnded ~> sent = typed \/ at \in Ended \/ BothWait

(* The walks of the disk usage tools are exact: see WalkExact.              *)
WalksExact == Is("disk usage") => WalkExact

(* Rotations keep the tree a tree in the same order: see RotationsKeepOrder. *)
TreeKept == Is("tree") => RotationsKeepOrder

(* A file holds what its writers meant to write, whether two threads share
   it or one file is copied to another.                                    *)
FilesWhole == BlocksStayWhole /\ CopyFaithful

(* What a process reads or waits for is complete when it has it: see
   NothingUnread and OwnStatus.                                            *)
ResultsComplete == NothingUnread /\ OwnStatus

(* Processes that wait for each other never do so in a circle, and get all
   that the others have left for them.                                     *)
ProcessesSound == NoCircularWait /\ ResultsComplete

(* Processes that wait for each other - at a pipe, or for a child - come to
   their end with what the others have left for them.                      *)
ProcessesEnd == /\ Is("pipes") => EofReachesReader
                /\ Is("fork wait") => ReportsMatch

(* The programs that wait for others come to their end.                    *)
ProgramsEnd == InputEnds /\ ProcessesEnd
=============================================================================
