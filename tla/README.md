# TLA+ models of the code in ukgoll.github.io

The repository is a blog and, under `codes/`, the programs its posts are
about. This directory holds TLA+ modules for the programs that have logic of
their own, TLC configurations that check them on small instances, and proofs
checked by TLAPS that hold for every instance.

    tlc -config AcoShared.cfg MCAcoStack      # a run: see PROJECT.json for the pairs
    tlapm ThreadPoolProofs.tla                # a proof module

`PROJECT.json` lists the components, the runs, the faults each property was
tried against ("mutants"), the lines every definition models, the findings,
the hazards and the theorems.

## Inventory

| Part | Where | State | Operations | Modelled in |
|---|---|---|---|---|
| libaco runtime | `codes/aco_httpd/lib/aco.c`, `aco.h` | coroutines, share stacks, save stacks, `aco_gtls_co` | `aco_create`, `aco_resume`, `aco_yield`, `aco_exit`, `aco_destroy` | `AcoStack` |
| libaco switch | `codes/aco_httpd/lib/acosw.S` | registers of the processor and of each coroutine | `acosw`, the return protector | `AcoSwitch` |
| HTTP server | `codes/aco_httpd/main.c`, `unix_kqueue.c` | kqueue registrations, one `conn_t` and one coroutine per connection | event loop, `handle_accept`, `client_routine`, `poll_add`, `poll_delete` | `AcoHttpd` |
| thread pool | `codes/apue/threadpool/main.c` | list of tasks, mutex, condition variable, `stop` | `create_thread_pool`, `add_task`, `thread_pool_item`, `release_thread_poll` | `ThreadPool` |
| kqueue echo servers | `codes/apue/kqueue_server/*server.c` | kqueue registrations, one address record per connection | accept, read, echo, close | `KqueueServers` |
| select and poll servers | `codes/apue/io-multiply-server/*-server.c` | descriptor tables | accept, echo, close | `SelectServer`, `PollServer` |
| TCP clients | `codes/apue/io-multiply-server/no_blocking_tcp_client.c`, `tcp-client.c` | two buffers with two pointers each; the buffer of stdin | copy in both directions, shutdown | `ClientNet`, `PollClient`, `SelectClient` |
| share stacks | `aco_share_stack_new2`, `aco_share_stack_destroy` in `aco.c` | the mapping, its limits | sizing, guard page, alignment | `ShareStack` |
| process demos | `codes/apue/process` | pipes, children, exit status | fork, pipe, wait | `Pipes`, `ForkWait` |
| signal demos | `codes/apue/signal` | mask, pending signals, a flag | sigprocmask, pause, the handler | `SigMask` |
| mutex demos | `codes/apue/pthreadl` | a mutex, a file | lock, write | `WriteRace` |
| disk usage tools, file copy | `codes/apue/timec` | a tree, descriptors, a list of them; a pipe | walk, count; copy | `DiskUsage`, `CopyFile` |
| algorithms | `codes/algorithm` | a binary search tree | rotations | `TreeRotate` |
| C++, Python, assembly, ncurses demos | `codes/cplusplus`, `codes/python`, ... | none that outlives a call | - | no: they show one language feature each |
| the blog | `_posts`, `_config.yml`, `tools`, ... | none | - | no: text and build scripts |

How they interact: `AcoHttpd` calls libaco and kqueue. libaco's runtime calls
the switch. The thread pool stands alone, on top of pthreads. The other
programs are separate executables.

What is hard in them, and what must hold:

* **libaco runtime.** Coroutines share a stack; the frames of the one that is
  not running are copied out and in. The order of creates, resumes, yields,
  exits and destroys is free and `malloc` reuses addresses. Correct means: the
  stack's `owner` is never stale, the copy that is restored is the one the
  coroutine left, copies fit, and above all that sharing cannot be noticed.
* **libaco switch.** A register stored in the wrong place shows up in another
  coroutine, later. Each architecture is written separately.
* **HTTP server.** One turn of the loop handles a batch of events that were
  true when `kevent` returned. Handling one closes descriptors, frees memory
  and accepts new connections that reuse the numbers, while clients go on.
* **Thread pool.** Workers and the main thread meet in the list, the mutex and
  the condition variable; the signal is sent outside of the mutex; `stop` comes
  at any moment; `pthread_create` and `malloc` may fail.

* **Echo servers.** One thread, tables of descriptors that are filled and
  emptied in any order while numbers are reused, and results of `select`, `poll`
  or `kevent` that are acted on after the clients have moved on. Correct means
  that a server waits for exactly what is open and that one client cannot make
  it forget another.

* **TCP clients.** Bytes wait in buffers while the other side fills its own;
  the end of the input, the end of the stream and a reset come at any moment.
  Correct means that nothing is lost, repeated or reordered, and that the end of
  the input is passed on after the last byte, once.
* **Processes, signals, files.** Each program is small; what is hard is what
  the others do meanwhile: a child that is killed holds no pipe open, a signal
  comes between a check and `pause`, a write moves less than it was given,
  descriptors run out in the middle of a directory.

`PROJECT.json` "hazards" gives the line of each difficulty and the properties
aimed at it.

## Modules

### AcoPrivate, AcoStack, MCAcoStack: the coroutine runtime

`AcoPrivate` is the promise: each coroutine has a stack of its own, which only
it changes, and the process dies only if the program misuses the library.

`AcoStack` is the code. `Create`, `Resume`, `Yield`, `Exit` and `Destroy` are
`aco_create`, `aco_resume`, `aco_yield1`, `aco_exit1` and `aco_destroy`, each in
one step, because nothing runs in between in one thread. `Resume` makes the
assertions of the code in their order (`ResumeVerdict`), copies the frames of
the owner out (`SaveFrames`), the frames of the resumed coroutine in
(`RestoreFrames`) and switches. What a coroutine does with its stack is `Push`,
`Pop` and `Store`; `Overrun` is the guard page and `Return` a coroutine
function that returns.

The variables are the fields of `aco_t` and `aco_share_stack_t` by their names,
`reg` for `reg[ACO_REG_IDX_SP]`, `mem` for the words of the stack, `alive` for
the addresses that are allocated. Sizes are in words and a stack pointer is its
distance below `align_retptr`. With a stack of S words the code gives

* x86_64: `RetGap` = 1, `Room` = S - 3, `AlignLimit` = S - 4 = `Room` - 1;
* aarch64: `RetGap` = 2, `Room` = S - 4, `AlignLimit` = S - 4 = `Room`.

The mapping to `AcoPrivate` (`PrivateStacks`) finds the words of a coroutine in
`mem` if it owns the stack and in `save_ptr` if it does not.

Left out: the statistics (`ct_save`, `ct_restore`, `max_cpsz`), the words that
`aco_create` allocates for the main coroutine, a resume from a coroutine that
is not the main one (forbidden by the library, not checked by it), several
threads (the state is thread local), and running out of memory, which
aborts. How a stack gets its size and limits is `ShareStack`.

### ShareStack: the memory of a share stack

`NewStack` is the arithmetic of `aco_share_stack_new2` on `size_t`, from the
size that is asked for to `align_limit`; `Overflows` is the assertion on the
rounded size. The sizes are scaled down in the run (`WordLimit` for 2^64) and
arbitrary in the proof. A stack without a guard page whose size is not a multiple
of 16 may lose up to 15 bytes to the alignment: its limit then lies that much
below its memory, which `StackInRegion` states.

### AcoSwitch: the register switch

Registers are one value for the callee-saved integer registers, one for the
floating point control word, and the return address. `Switch` stores and loads
them where `acosw` does, per architecture (`ControlSlot`, `GprSlot`). `Compute`
and `SetControl` are what a coroutine does with its registers. `Return` goes
where the return address leads (`ReturnTarget`). The i386 branch has the
structure of the x86_64 one and is left out, and so are d8 to d15 of aarch64,
which `acosw` does not save at all.

### AcoHttpd, MCAcoHttpd: the HTTP server

The server is sequential. A step is one system call and what the code does up
to the next, and clients (`Connect`, `Send`, `Drain`, `Finish`, `Reset`) act
between any two steps. `evs` is what is left of the array that `kevent` filled;
`kq` is what is registered for each descriptor, `fdtab` who is at its other
end. The events come in any order, which is more than kqueue does.

`ConnEvent` resumes the routine of the `conn_t` that `udata` points to; if that
has been freed or the routine has ended, the process is lost (`died` =
"misuse"), so a stale event would be seen. `PollAdd` may fail, `PollDelete`
does nothing if there is no registration, as in the code, `WriteReset` is the
SIGPIPE that nobody ignores, and `AcceptNone` covers EAGAIN and EMFILE.

Not modelled: the calls of `main` before the loop (Init is the state after
them), a failing `fcntl` (its result is compared with < 0, but
`set_non_blocking` returns `errno`, which is positive: the checks in lines 48
and 146 are dead), EINTR of `read` (a retry), blocks of memory that leak, and
`unix_epoll.c`, which the Makefile selects outside macOS but which does not
build with this `main.c`.

`UsesLibacoWell` composes the server with the library: the steps of `AcoHttpd`
are steps of `AcoPrivate`, so the server resumes and destroys coroutines as
libaco requires, and by `SharingIsInvisible` it may ignore that they share one
stack.

### TaskPool, ThreadPool, MCThreadPool: the thread pool

`TaskPool` is the promise: a task that was added is run once, and the release
waits for all of them.

`ThreadPool` is the code, cut where another thread can come in. For a worker:
`Lock`, then under the mutex `Wait`, `Exit` or `Take`, then `Call` and `Return`
without it; `Relock` is the second half of `pthread_cond_wait`. For main:
`CreateWorker` for each thread, `AllocTask`, `LockToAppend`, `Append` and
`Signal` for each task, and `BeginRelease`, `LockToStop`, `Stop`, `Broadcast`,
`Join`, `Free`. `thread_task` starts as `Garbage`, since it is not initialized;
calling it would set `crashed`.

Environment: `pthread_cond_wait` may wake without a signal (`MaxSpurious`
times), `pthread_create` fails for workers of `MayFail`, `malloc` fails if
`MallocMayFail`, and `pthread_join` of a thread that was never created returns
an error or crashes. That mutex and condition variable can be initialized is
assumed. Tasks are never freed by the code; the model has no memory to lose.

### EchoNet, SelectServer, PollServer, KqueueServers, MCEchoServers: the echo servers

The four servers do the same job with different calls, so `EchoNet` has the
clients and the system calls (`Accept`, `TakeData`, `Written`, `Close`, ...) once,
and each server is the part that differs: what it remembers about descriptors and
what it does between calls. `MCEchoServers` lets any of them run (`server`) and
states what all of them owe. A step is one system call with the code up to the
next; clients act in between.

`SelectServer`: `readfd_cache`, `readfd`, `maxfd`, `ret` and `i` as in the code.
`NewMax` is the loop in lines 97 to 105, which still sees the descriptor that is
being closed. After the first echo the socket is shut for reading, so a
connection ends after it (`shut`).

`PollServer`: `slot` and `revents` are the two fields of `clientPoll`; `revents` is
not initialized, so `PollInit` takes any value for the entries that `poll` has
not written yet. `PollAcceptFails` is the `continue` of line 59.

`KqueueServers`: `server.c` and `no_block_server.c`. In both `bytes_read` is a
`size_t`; an error of `read` is therefore taken for data (`ReadErrorFor`,
`NbReadAgain`). In `no_block_server.c` the connections accepted in one turn share
one record, and `died` = "double free" is where that leads. In `server.c` the
branch for EV_EOF is never taken, since `filter & EVFILT_READ` is `filter & -1`.

Not modelled: the calls before the loops, EINTR (a retry), and the text that is
echoed: `strlen` in the poll server is a choice between a chunk and nothing, and
that a chunk of 256 bytes without a NUL is read beyond its end is left out.

### ClientNet, PollClient, SelectClient: the TCP clients

`ClientNet` is what is around a client: a user who types and ends the input, a
connection with two bounded directions, and a server that echoes, quits or
resets. `up`, `down` and `out` hold what is on its way, so that the properties can
say where every byte is.

`PollClient` is `no_blocking_tcp_client.c`. `toS`, `toE`, `frS` and `frE` are
`to_sptr`, `to_eptr`, `fr_sptr` and `fr_eptr` as offsets; a step is one system call
with the code up to the next, in the order of the branches of the loop (`AfterStdin`,
`AfterFd`). `Filled` and `Slice` are what `read` and `write` do with a buffer and a
pointer. Standard input is a terminal or a file (of a pipe, `poll` reports the
end as POLLHUP alone, which the loop does not look at).

`SelectClient` is `tcp-client.c`. `buffered` is what `fgets` has taken from the
descriptor beyond the line it returns. A record of `sizeof(sendline)` bytes is
`RecordSize` cells, a read returns one cell less.

### DiskUsage and CopyFile: the tools in timec

`DiskUsage` has `duc.c`, `ducfd.c` and `duclinkfd.c` in one module, since they differ
in three places: which directory is read next (`Reading`), whether "." and ".." are
counted, and what happens when something fails (`Skip`, `GiveUp`, `Overrun`). The
tree, the order of its entries, the limit on descriptors and whether `open` may fail
are all chosen at the start (`Jobs`). `CopyFile` is `splice_copy_file.c` in both modes.

### Pipes, ForkWait, WriteRace, SigMask: processes, threads, signals

`Pipes` has the three ways in which `parent_child_tell.c` and
`pipe_oversize_write.c` share a pipe: `readEnd` and `writeEnd` are the processes that
have an end open, `Kill` is anybody who kills one. `ForkWait` is `fork_wait.c` with
the 8 bits of an exit status, a `fork` that fails and an `exit_status` that is then
never written. `WriteRace` is `write_race.c`: two threads, a mutex, one file, and a
main that may end the process early. `SigMask` is `sig_mask.c`: `Deliver` is the
handler, which runs between any two steps of main.

### TreeRotate: the rotations

`Rotated` is the rewiring of `leftRotate`; `rightRotate` mirrors it.

### MCPrograms

The programs above share nothing, so one instance runs any one of them
(`program`), and the variables of the others stay as they are.

## Runs

| Run | What it asks | Bounds |
|---|---|---|
| `AcoShared` | owner, copies, sizes and assertions of the runtime | 3 coroutines, one stack of the x86_64 layout; up to 3 words asleep, enough for two doublings of a save stack of one word |
| `AcoTwoStacks` | sharing is invisible | 2 coroutines, 2 stacks of the aarch64 layout, 2 distinguishable words |
| `AcoSwitchX86` | registers stay with their coroutine, returns are caught | 2 coroutines, 2 values of each register, 2 entries |
| `AcoSwitchArmControl` | finding: the control word on aarch64 | the same |
| `AcoSwitchArmReturn` | finding: a return on aarch64 | the same |
| `Pool` | list, tasks, wakeups, exits, main never left waiting; refinement of `TaskPool`; tasks are run and the release returns (`PoolFinishes`) | 3 workers of which one may fail to start, 3 tasks, 1 spurious wakeup, `malloc` may fail |
| `HttpdSafety` | events, descriptors, responses | 3 clients, 2 descriptors, 2 chunks each, `poll_add` may fail |
| `HttpdLiveness` | use of libaco; answers, reclaiming, accepting | 2 clients, 2 descriptors, 2 chunks each |
| `EchoServers` | what is watched, read, owned and closed by each of the four echo servers | 2 clients, 2 descriptors, 2 chunks each; FD_SETSIZE of 2 and of 4, a poll table for 1 and for 2 connections; `accept` and `kevent` may fail |
| `NonblockDrains` | finding: the read loop of the non-blocking server | 2 clients |
| `Programs` | the clients keep their input and never wait in vain (`ClientsSound`); walks count exactly; share stacks, trees and files keep their shape; processes never wait in a circle and lose nothing (`ProcessesSound`); clients and processes end (`ProgramsEnd`) | see below |
| `SigMask` | finding: a signal before `pause` | 3 signals |

`Programs` starts each program in every way its environment allows:

* clients: 4 bytes or lines typed, 2 cells in each direction, buffers of 2 bytes, an
  output that blocks after 1, records of 2 cells; the line "end" at any place or
  nowhere;
* disk usage: every tree of 4 files (directories, files, unknown), 1 to 3
  descriptors, `open` may fail or not;
* share stack: every size below 512 with pages of 32, 64 and 128, a default of 160
  and a minimum of 64, at three addresses, for both processors, with and without a
  guard page;
* tree: 5 nodes, every tree that rotations reach; pipes: 2 cells, 3 written; write
  race: 2 lines each; copy: files of up to 4 bytes, chunks of 2, a pipe for 3.

Why the bounds are enough: two coroutines on a stack already take it from each
other, the third makes the owner someone who is neither resumed nor running;
three workers let one take, one wait and one exit; three tasks are the shortest
list with an inner element; two descriptors for three clients give both reuse
of a number and EMFILE; the two sizes of fd_set and of the poll table make them
overflow in one case and never in the other. A buffer of two bytes is the smallest
that can be partly emptied, and four bytes fill it twice; a tree of four files has
one directory more than the smaller limits have descriptors; five nodes let a
rotation have an inner subtree on either side below another node. Every invariant
of the passing runs is also proved without bounds, and so are the three
refinements; only the liveness properties rest on the bounds.

Deadlock is not checked: a process that has aborted, a pool that is released, a
program that has ended and a server without clients stop.

### Fairness

* `ThreadPool!FairSpec`: weak fairness for each thread. The threads are
  preemptive and the functions of the tasks return. A thread that waits for the
  mutex competes with finitely many acquisitions, since tasks and spurious
  wakeups are bounded, so weak fairness is enough; no fairness is assumed of
  spurious wakeups.
* `AcoHttpd!FairSpec`: weak fairness for the one thread of the server. Nothing
  is assumed of clients. Each client sends at most `MaxChunks` chunks: one that
  sends for ever would keep the read loop of `client_routine` busy, a hazard the
  bound hides.
* `MCEchoServers!FairSpec`: weak fairness for the one thread of the server.
  `GoneAreClosed` assumes in addition that the server comes back to its `select`
  or `kevent` again and again: each of the four can be held for ever by one client,
  in a `write` that waits, an `accept` whose client has gone, or the read loops of
  the kqueue servers.

* `MCPrograms!FairSpec`: weak fairness for the client, for the server that
  echoes (`ServerAnswers`; it may also quit, unfairly), for whoever reads the output
  of the client, and for the processes of `Pipes` and `ForkWait`, which the system
  schedules. Nobody has to type, end the input, quit or kill.
* `SigMask!FairSpec`: main is scheduled and the kernel delivers what is not blocked.

### Findings

1. `acosw` on aarch64 stores `fpcr` in `to_co` instead of `from_co`
   (acosw.S:143), so the control word is never switched (`ControlKept`).
2. On aarch64 a coroutine function that returns jumps to its own start instead
   of to the protector (acosw.S:160, against aco.h:248; `ReturnIsCaught`).
3. The read loop of `no_block_server.c` is not left when everything is read
   (no_block_server.c:122, against line 145; `DrainedReadEnds`).
4. `sig_mask.c` looks at the flag and at the pending signals only after `pause`
   (sig_mask.c:72): a SIGTERM that comes just before it, or a SIGINT that comes
   after SIGTERM, leaves SIGINT blocked, against what the handler prints (line 110;
   `TermUnblocks`).

Remarks that have no run:

* `aco_gtls_co` is the main coroutine, not NULL, once a coroutine has run
  (aco.c:507; the comment at aco.h:205 says NULL in the main coroutine), and
  `noact_workder` (threadpool/main.c:121) is not the number its comment at line 28
  describes. Nothing in the repository depends on either.
* The poll server serves nobody while `accept` fails (poll-server.c:59), and the
  records of `no_block_server.c` are freed twice (no_block_server.c:93). No document
  contradicts them, so they are hazards.
* `tcp-client.c` can deadlock with its server (`BothWait`): it waits in `write` while
  the server waits for it to read. `SelectNeverStuck` and `InputEnds` state that nothing
  else stops it. Lines that `fgets` has taken into the buffer of stdin wait until
  `select` returns for another reason; `SelectNeverStuck` permits that only while the
  input may still go on. The client also never ends if the echo of "end" comes before the end of the input is read.
* When the server ends while standard output is full, the non-blocking client ends
  without writing what is left in `fr`.
* In the select server `maxfd` never falls: the loop that recomputes it still sees
  the descriptor that is being closed (proved as `MaxNeverFalls`).

## Proofs

`AcoStackProofs`, for every number of coroutines, stacks and words and every size:

* `RuntimeInvariant`: the inductive invariant `Inv`. `OwnerSound` alone is not
  inductive: that `aco_destroy` leaves no stale owner needs that only coroutines
  of the stack own it, that `aco_exit` finds itself the owner needs
  `RunningOwns`, and `SavesFit` needs that a copy is as deep as the stack pointer.
* `TypeCorrect`, `NoDanglingOwner`, `RunningAlwaysOwns`, `CopiesMatch`, `SavesFit` and
  `NeverInternalAbort` follow from it.
* `SharingIsInvisible`: `Spec => PrivateStacks`, step by step: each action of the
  runtime is the action of the same name of `AcoPrivate`, a failed assertion is
  its `Crash`.

Assumption: `AcoStackAssumption` (the relations between the sizes above, and that
addresses differ). That a save stack which is doubled until a copy fits is found, and is
less than twice as large as the copy, is `Doubling` of `LeastNumber`.

`LeastNumber` is the induction that the other modules need. The library states
induction with an operator as a parameter, which the provers cannot instantiate; stated
with a set instead, it is a theorem about finite sets of numbers: a set of numbers that is
not empty has a least element (`LeastExists`), so a set that holds 0 and n + 1 with
each n holds them all (`AllNumbers`).

`ThreadPoolProofs`, for every number of workers up to
65535 and of tasks:

* `PoolInvariant`: the inductive invariant. `ListSound`, `TaskHeldByOne`,
  `ExitOnlyWhenDrained` and `NoTaskIgnored` need to know which tasks exist where
  main is (`TasksSound`), which workers exist (`WorkersSound`), how far the
  release is (`ReleaseSound`), that a task out of the list is in somebody's
  hands (`HandsSound`), and who has the mutex (`MutexSound`). `ListSound` says
  that the list holds the queued tasks in the order of their numbers, which
  makes it a statement about neighbours instead of about paths.
* `PoolTypeCorrect`, `ListAlwaysSound`, `TasksHeldByOne`, `ExitsWhenDrained`,
  `NoLostWakeup`, `FreedAfterAll` follow.
* `NobodyLeftWaiting`: main never waits for the mutex, or for a worker in `pthread_join`,
  while all the workers wait. It needs one more invariant (`StopHeard`): after the
  broadcast nobody is or gets into `pthread_cond_wait`, whatever each worker was doing
  when `stop` was set. The rest of the argument is that whoever has the mutex goes on
  (`SomebodyGoesOn`).
* `PoolKeepsPromise`: the pool refines `TaskPool`.

Assumptions: `ThreadPoolAssumption`: at least one worker starts, and no more than
65535 are asked for, since `max_worker` is a `uint16_t`.

`AcoHttpdProofs`, for every number of clients, descriptors and chunks:

* `HttpdInvariant`: the inductive invariant `HttpdInv`. `EventsStayGood` alone is not
  inductive. That handling one event does not spoil a later one needs: which routine
  is running or has ended, given where the server is (`PlaceSound`); that each
  descriptor is that of one routine and each routine has one (`FdsSound`); that a
  `conn_t` lives exactly as long as its routine and that who is still in the backlog
  has none (`ConnsSound`); and, for every event left, that its routine is suspended
  and has something to read (`EventsSound`). `AnswersSound` counts what was read
  against what was answered, for `NoResponseUnasked`.
* `HttpdTypeCorrect`, `EventsNeverStale`, `DescriptorsAlwaysMatch` and `NeverUnasked`
  follow.
* `LibacoUsedWell`: every step of the server is a step of `AcoPrivate` or none, so the
  composition with the library, which `SharingIsInvisible` proves, is sound.

`AcoSwitchProofs`, for every number of coroutines and register values:
`CalleeSavedAlwaysKept` for both processors; `ReturnAlwaysCaught` and
`ControlAlwaysKept` for x86_64 only, since they are false on aarch64 (findings 1, 2).

`EchoProofs`, for every FD_SETSIZE, every size of the poll table, every number of
clients and descriptors and every set of servers of which one runs:

* `SelectFdsFit` and `SelectReadsWithoutWaiting`, from `SelectInv`: the set holds exactly
  what is open, all of it below `maxfd` (`MaxSound`), a connection has one descriptor
  (`ConnectionsSound`), and what is left of the turn is open and readable (`TurnSound`).
  The argument is that a new descriptor is the lowest free one and every descriptor
  below `maxfd` is open or free, so it is at most `maxfd` (`NewFdAtMostMax`), and the turn
  was entered with `maxfd` below FD_SETSIZE.
* `WatchesExactly`: all four servers watch what is open. It adds to the above that the
  poll table holds each open descriptor once and no other (`TableSound`, `PollSound`),
  that the kqueue has registered what is open (`KqSound`), and what is not yet, or no
  longer, true at each place of a loop (`PlaceSound`).
* `RecordsAlwaysOwned`: the records of the kqueue servers belong to open connections.
* `ServersTypeOK`: the types of all the variables of the four servers. They are not
  inductive without `ServedSound` and `EventsSound`: a server has written back no more than it has read and has read
  no more than was sent, the descriptor it is at is open, what it is about to write
  back it has not written back yet, and the events left of a turn of `kevent` are about
  open descriptors, none of them the one being read.

Assumption: `RunningAssumption`, that the servers that may run are some of the four.

`ClientProofs`: `ClientsAlwaysSound`, for every size of the clients' buffers, of the socket
buffers, of a record and of the input.

* Nothing is lost, repeated or reordered (`InputKept`). The invariants (`PollInv`,
  `SelectInv`) are `BytesKept` and `LinesKept` with the types of the buffers and what is
  known of the end of the input: once a client has seen it everything typed was taken, so
  a connection that is shut has nothing left to carry. A step moves the front of one
  sequence to the end of another and leaves their concatenation as it was (`CutInTwo`,
  `HeadMoves`, `SliceCut`, `SliceFilled`), or adds at the end what was just sent
  (`CarriesMore`); when the server ends early only the tail is lost (`OthersCarry`).
* Nobody waits in vain (`ClientsNeverStuck`): when nothing that a client waits for is
  ready, the server or the reader of the output can go on, or the user has seen
  everything. For the non-blocking client this needs that an empty buffer starts again
  at 0 - one whose pointers meet at its end would never be asked for - and that the
  connection is shut as soon as `to` is empty after the end of the input (`PollPlace`).
  For the other it needs that the two directions are never more than full
  (`SelectPlace`).

`ProgramProofs`:

* `StackAlwaysInRegion`, for every `WordLimit`, default and minimum size, for pages that
  are a power of two from 16 to 65536 (`ShareStackAssumption`).
* `FilesAlwaysWhole`: for every number of lines the blocks of the two threads do not mix
  (`RaceInv`: who writes holds the mutex, lines come from threads that have had it, and
  the last block is that of its holder), and for every length of a file and of a chunk
  the copy is faithful (`CopyInv`: `target` and `held` are consecutive parts of the file,
  unless a short write through the buffer has left a gap).
* `TreeAlwaysKept`, for trees of any size. That a tree has its nodes in a given order is
  stated by spans: each node has an interval of positions, those of its children lie on
  either side of its own position within it, and only the root has the whole. This
  says without recursion what "in order" and "no node twice" mean (`TreeInv`), and a
  rotation changes the spans of two nodes.
* `WalksAlwaysExact`, for directories of any size and every limit on descriptors.
  `WalkInv` says that there are a set of files and a set of "." and ".." entries of which
  the counters are the sizes, and that they hold exactly what is in a directory that has
  been opened and is not left to read in one that is open still (`ReadAre`, `Tally`);
  that the directories of the list are different ones, for the recursive tools each
  above the next (`FramesSound`); that a descriptor is open as long as its directory is
  on the list (`FdsSound`); and that without a failure of `opendir` a directory is
  missed only when there are fewer descriptors than the tool needs (`MissedSound`).
  The two sets are not variables: the invariant asserts that they exist, and each step
  says how they grow. The depth of a directory is defined by a recursive function, whose
  values `AllNumbers` gives.
* `ProcessesAlwaysSound`: for every size of the pipe and of what is written, processes that
  are left never all wait for each other, and a reader that ends has shown everything
  (`PipesInv`: who has which end open follows from where it is, and what each writer has
  written is what was shown and what is in the pipe); the statuses of `ForkWait` are those
  of the child of their test (`WaitSound`).
* `PipesRunOut`: every step of the processes at a pipe, and every kill, lowers the number
  `StepsLeft`. With `ProcessesAlwaysSound` this is what `EofReachesReader` says, but for
  the fairness that makes a process take the step that it can take.

Assumptions of the programs: `ShareStackAssumption`, `PipesAssumption`,
`DiskUsageAssumption` (the names "." and ".." differ from each other and from all files),
`ClientNetAssumption`, `PollClientAssumption` and `SelectClientAssumption` (sizes are not
0, and a record fits in the socket buffer).

Only model-checked: the liveness properties (`EveryRequestAnswered`, `GoneReclaimed`,
`EveryoneAccepted`, `GoneAreClosed`, `PoolFinishes`, `ProgramsEnd`), since the prover does
not do fairness, and the violations of the findings. What can be said of liveness
without fairness is proved for the pool, the clients and the pipes: that somebody can
always go on.

## Not modelled

* `unix_epoll.c`: the Makefile selects it outside macOS, but `main.c` calls `kevent`, so
  there is no program it is part of. `libaco_kqueue_server.c` is a second copy of
  `server.c` and is mapped to the same definitions.
* `codes/algorithm/head_sort.c` uses a member its heap does not have (`hp->min`) and
  does not compile.
* The logger and the HTTP parser of the server: formatting, and an empty stub.
* `client.cpp`, `signal_test.c`, `proc_grp.c`, `fork_buff.c`, `watch_file.c`: a few calls
  in a row that print what they return. `mutex_test.c` unlocks a mutex of another
  thread, which POSIX leaves undefined.
* The i386 branch of `acosw`, whose structure is that of the x86_64 one.
* The demonstrations of C++, Python, assembly and ncurses, and the blog itself.

## What is left

1. For the HTTP server and the echo servers only the runs show that nobody is left
   waiting; an invariant like `NoDeadlock` or `ClientsNeverStuck` could be proved there as
   well.
2. The two halves of the composition of server and library are proved separately
   (`LibacoUsedWell`, `SharingIsInvisible`). One module in which both run would let TLC
   see them together.
3. A model of the edge-triggered `poll_add` of `unix_epoll.c`, once a program uses it.
