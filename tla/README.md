# Verification of Oryx-Hurd

TLA+ models, TLC runs and TLAPS proofs for Oryx-Hurd, a package layer and a
Linux personality for GNU/Hurd. Sources are cited as `file:line` relative to
`src/`; `oryxlinux.c` is `src/linux-personality/oryxlinux.c`.

## 1. The system

### 1.1 The Linux personality (`linux-personality/oryxlinux.c`)

One host process runs a whole tree of Linux i386 programs. Each guest process
is a Mach task with one thread. `int $0x80` is an illegal instruction there, so
the kernel stops the thread and sends an exception message to the emulator's
one exception port. `NWORKERS` (8) threads run `serve()`: receive a message,
find the process by its task, handle the call under one mutex, answer the
message. The answer is what lets the guest run again.

| Part | State | Operations | Talks to |
|---|---|---|---|
| Process server | `procs[64]`, `next_pid`, `mtx`, `guest_done`, `guest_status`, thread-local `cur` and `defer_reply` | exit, fork, execve, wait4, faults, `finish()` | Mach threads and tasks, the exception port; descriptors (fork, exit) |
| Descriptors | `p->fd[256]`, the host's own table, `dircache[32]` | open, close, dup, dup2, pipe, fcntl64, read, write, getdents64, `fd_fork`, `fd_closeall` | the host; the process server calls it in fork and exit |
| Pipelines | pipes in the host, the pool of workers | read and write that block with the mutex released | workers, guests, the host |
| Memory | brk limits, Mach regions | brk, mmap, munmap, mprotect, `wipe_address_space`, peek, poke | every handler that copies in or out |
| Loader | none of its own | `load_one`, `build_stack`, `load_program` | memory; execve and `main` call it |
| Paths and conversions | none | `resolve`, `errno_to_linux`, flag and struct translation | every file call |
| TLS | one GDT selector per process | set_thread_area, carried over by fork | Mach |

### 1.2 The package layer (`bin/`, `target/`)

| Part | State | Operations |
|---|---|---|
| Repository pipeline | package files, `oryx.db`, `oryx.files`, `oryx-exclude.txt` in one directory | convert a `.deb`, write dependencies into packages (`oryx-setdeps.py`), build the database (`oryx-repo-add.py`), clients download |
| oryx-get | `done` set, candidate tree, download cache on disk | resolve, check against the protected list, fetch, verify, convert, install depth first |
| Hooks | `/etc/alternatives`, caches | run by pacman after every transaction, must exit 0 |
| Converters, reports, installer | files | straight-line scripts |

### 1.3 What is hard

* **Interleaving.** Eight workers share the table. The mutex is given up inside
  a handler for read, write and nanosleep, and the handler goes on using `cur`.
  fork fills a slot in several steps. `finish()` takes no mutex at all.
* **Ordering.** A child's exit and its parent's wait4 come in either order, and
  each must complete the other. The reply of a parked wait4 is sent by another
  worker, for another process's exit.
* **Partial failure.** fork can be refused by Mach at four points, one of them
  before and three after the descriptors were copied; execve can fail with the
  old image gone, and leave a process that the table calls dead and Mach runs;
  MAP_FIXED can fail with the old mapping gone; a download or an
  installation can fail half way.
* **Width.** Addresses are 32 bits wide and pages are rounded with an addition:
  near the top of the address space a length or a break becomes 0. LONG_MIN is
  used as a mark among results that may have its value.
* **Reuse.** Slots, host descriptors and cache entries are reused; numbers,
  pointers and cache keys that outlive what they named are stale.
* **Limits.** 64 slots, 256 guest descriptors, the host's descriptor limit, 32
  directory streams, 8 workers.
* **Liveness.** No stopped guest may be forgotten, and the emulator must end
  when the root process has.
* **Package layer.** A crash between rewriting a package and rebuilding the
  database; a dependency recursion over a graph with circles, whose protected
  check has to see all that will be installed; a download cache that outlives
  the run in front of a mirror that moves on.

`PROJECT.json` lists each hazard at its line, with the property that covers it
or the reason why none does yet.

### 1.4 What makes each part correct

* Process server: a stopped guest is answered exactly once, killed, or parked
  in wait4 with a child left to wake it; a status is reported once, to the
  parent, as the child gave it; numbers are unique; `cur` stays valid; the
  emulator ends with the root's status and leaves nobody behind.
* Descriptors: no two table entries share a host descriptor that may be closed;
  one process's calls do not disturb another's; a read under way keeps its
  descriptor; what nobody owns is closed; a directory is never listed through
  another one's stream.
* Pipelines: a pipeline whose stages end does end, for every pool size the
  code may have.
* Memory: what a guest concludes from its answers is what Mach has mapped; a
  result or a status lands in its buffer and nowhere else.
* Loader: the image after execve is the new program's and nothing else's.
* TLS: behind the remembered selector is the descriptor the guest asked for.
* Repository: a client never finds a database that names bytes other than those
  served, once the pipeline has ended, and a crashed run can be repeated.
* oryx-get: nothing protected is installed without the confirmation;
  dependencies are installed before what needs them; what is installed is what
  the signed index names; status 0 means installed.

## 2. The modules

| Module | What it is |
|---|---|
| `OryxServer` | the process server, in detail |
| `ProcLife` | what it promises: the abstract life of a Unix process |
| `OryxServerLife` | the refinement mapping from `OryxServer` to `ProcLife`, and what it rests on |
| `MCServer` | instances of `OryxServer` |
| `OryxServer_proofs` | the server's inductive invariant and its theorems |
| `OryxServerLife_proofs` | the server implements `ProcLife` |
| `OryxPipeline` | a pipeline of guests against the pool of workers |
| `MCPipeline` | instances of `OryxPipeline` |
| `OryxPipeline_proofs` | workers are never used up when there is one for every stage; items are neither lost nor invented |
| `OryxFiles` | descriptor tables, the host's table, the directory cache |
| `MCFiles` | instances of `OryxFiles` |
| `OryxFiles_proofs` | the inductive invariant of the tables and its theorems |
| `OryxMemory` | an address space: Mach's calls on it, peek and poke (operators) |
| `OryxLoader` | `load_one`, `build_stack`, `load_program` on an address space (operators) |
| `OryxImage` | the guests' images and the calls that change them; uses the two above |
| `MCImage` | an instance of `OryxImage` |
| `OryxLoader_proofs` | what Mach's calls, peek, poke and the loader do to an address space |
| `OryxImage_proofs` | the images: types, the guests' view of their memory, writes, statuses, TLS |
| `OryxGet` | runs of oryx-get: candidates, recursion, protected list, cache |
| `MCGet` | an instance of `OryxGet` |
| `OryxGet_proofs` | the recursive walks, and the invariant of the activations |

The definitions called mutants in a comment are plausible bugs of the operation
that follows them. No next-state relation uses them; they show that a property
tells the code from the bug.

### 2.1 `OryxServer`

A step is what happens between two points where another thread can see the
state. Handlers run under the mutex, so a whole handler is one step, except
where the code gives the mutex up or where someone reads without it:

| Action | Code |
|---|---|
| `Trap(p)` | the guest executes `int $0x80` or faults; Mach stops it and queues a message |
| `Receive(w, p)` | `mach_msg` in `serve()`, 1877 |
| `Unserved(w)` | unknown task or a thread already killed, 1801-1814 |
| `PlainCall(w, s)` | a handler that changes no process |
| `CallUnlocked`, `HostReturn` | `UNLOCKED(...)`, 259: mutex released, host call, mutex taken |
| `CallLocked`, `HostReturn` | a host call under the mutex |
| `ForkReserve`, `ForkCreate`, `ForkRefused`, `ForkNoSlot` | `sys_fork`, 1296-1353: `proc_new`, then either the child's thread or the slot given back. Two steps, because `finish()` reads the table in between |
| `Exit(w, s)`, `Fault(w, s)` | `proc_exited`, 1400-1418, from exit (1497) or any other exception (1826) |
| `ExecBotched(w, s)` | execve failing after its teardown, 1261-1269: the process is declared dead, its thread resumed (`Doomed`) |
| `WaitReap`, `WaitPark` | `sys_wait4`, 1420-1453 |
| `WaitComplete` (in `ProcExited`) | `wait_complete`, 1356-1397 |
| `Reply(w)`, `CheckDone(w)` | the reply and `if (guest_done)` of `serve()`, 1916-1920 |
| `TeardownSlot(w)`, `Leave(w)` | `finish()`, one table slot per step |

State: `procs` is the table (a slot that is not `used` is `NoProc`, whatever
the code left in it); `thread` is Mach's view of a guest's thread; `image` says
what the guest has at its eip: its program (`whole`), or what a failed execve
left there, part of the new program or nothing. The registers are left as they
were (1837), so a guest with nothing there faults, and one with part of a program
may find its own `int $0x80` again: the same static program, refused for too many
arguments (635) after its segments were mapped. The handler tests the two bytes
and not `alive` (1816-1831), so such a guest, which the table calls dead, makes
calls like any other: it may fork, wait, read, exec, or make the same call for
ever. `port` is the queue; `wpc`, `msg`, `scan` are a worker's local
state; `collected` records what wait4 told whom. `Exit`, `Fault` and the others
choose nondeterministically what the guest asked for, so every program is
covered. `next_pid` starts at 100 in the code and at 2 after the root in the
model; only that numbers are never reused matters.

### 2.2 `ProcLife` and the refinement

A process is absent, live, a zombie, or collected. It is forked by a live
parent, exits once, and its parent alone collects it, once, with the status it
exited with; a parent that is waiting collects in the same step
(`ExitTo`). `OryxServerLife!LifeOf` reads a process's life off the table and
`collected`. A child exists from the moment its thread does, so the first half
of fork is a stutter. `ImplementsLife == Life!Spec` is checked with
`ExecCanFail = FALSE`: a process that execve killed in place faults afterwards
and is exited a second time, with 139 in place of 127, or goes on running,
which the abstract life does not allow. That is a real difference the code has,
described in 4.

### 2.3 `OryxFiles`

All of a call happens under the mutex, so it is one step; read and write are
two (`BeginIO` looks the descriptor up, `EndIO` ends the host call made with the
mutex released). `host` maps each host descriptor to what it is open on; the
host gives the lowest free one. `Closed` leaves the emulator's own 0, 1 and 2
alone, as lines 337, 1548 and 1628 do by testing `> 2`. `Fork` is `fd_fork`
entry by entry: stdio that is still itself is shared, everything else is
dup()ed in table order, and an entry whose dup() fails is closed in the child.
`ForkRefused` is fork failing after `fd_fork`. `ExecBotched` is execve failing
after its teardown, which closes nothing; the process (`doomed`) may go on making
calls, exit by a fault, which does close, or lose its table to its parent's
`Wait4` (who is whose parent is `OryxServer`'s subject, and any process may be it
here). A process whose call is still under way when its table goes keeps its
name: no child is given it until the call ends. `FcntlRaw` is any fcntl64 command
but F_DUPFD, which the host gets as it is (1760-1767); with `RawDup` it has one
that duplicates, F_DUPFD_CLOEXEC say. Calls that fail and leave everything as it
was are not steps.

### 2.4 `OryxPipeline`

`OryxServer` lets a guest ask for anything and lets every host call return, so
it cannot say whether a pipeline ends. Here the guests are given: a shell that
has forked `Stages` programs joined by pipes, has to close its own copies of the
ends and then waits for each child; a first stage that writes `Items` items,
stages that pass each item on, a last stage that reads to the end or, with
`EarlyExit`, stops when it likes. `at[g]` follows a guest's exception through
`serve()`: running, on the port, in the handler, in a host call with the mutex
released, about to be replied to, parked in wait4. A worker is busy from
`Receive` to `Reply`; workers are counted, not named, because `serve()` keeps
nothing about a guest between two messages. A pipe holds `Cap` items; a read of
an empty one waits until somebody writes or nobody can, a write to a full one
until somebody reads, and a write nobody will read raises SIGPIPE in the thread
that makes it, the emulator's (`BrokenPipe`; the signal's default action is the
host's, the write and the missing handler are the code's).

### 2.5 `OryxMemory`, `OryxLoader` and `OryxImage`

`OryxMemory` has an address space as a function from the pages a task may map
to a protection and the bytes of the page, a byte being the name of who wrote it
(a segment of a file, the argument block, a mapped file, a result, the kernel's
zeros). Addresses are taken modulo `Top`, so that `PAGE_UP` and the end of a
range wrap as a `vm_address_t` does. `Poke` is `poke()` of 405-441: read the
enclosing pages, or take zeros; patch; make them writable; write them back.

`OryxLoader` runs `LoadSegment` over the PT_LOAD segments in turn (535-574), for
the executable and then for its interpreter (707-742), and computes in the code's
own numbers which of the strings `build_stack` has laid out the vector it then
stores lies upon (610-699).

`OryxImage` is the state machine over them: brk (845-864), both mmaps
(883-928), munmap, mprotect, set_thread_area (977-1028), a handler that puts a
result in the guest's memory, fork's copy of the space and of one descriptor,
execve, and the poke of a status by wait4 and by `wait_complete`. Handlers run
under the mutex with the guest's only thread stopped, so each is one step; which
exit wakes whom is `OryxServer`'s subject, and here two slots are enough for a
parent and a child. A guest whose execve has failed has no image worth the name
and is followed no further here. A descriptor of `set_thread_area` is its base,
or `NoBase` for one that is not present (992), of which Mach keeps nothing
although the selector is remembered (1021).

`view` and `stray` are not the code's. `view` is the set of pages the guest has
by the answers it got and the rules of Linux; `stray` collects the reasons why
that may no longer be what Mach has, each of them something the code does:

| `stray` | Code | Effect |
|---|---|---|
| `wrap` | 851: `PAGE_UP` of a break in the last page is 0 | all memory below the old break is lost, the break is "granted" |
| `unwrap` | 851: the next break that is granted after that | what lay below is mapped again, from 0, more than the guest counts on |
| `mapwrap` | 888: `PAGE_UP` of a length near 4 GiB is 0 | a mapping is "granted" and has no page |
| `unmapwrap` | 1705: the same of munmap's length | nothing is unmapped, the answer is 0 |
| `half` | 1836: a result equal to LONG_MIN is taken for "registers already set" | the guest makes the call again |
| `fixed` | 893-897: MAP_FIXED deallocates, then allocation is refused | the range is lost |
| `buffer` | 907-910: no host memory for the file's bytes | the mapping stays, the guest is told ENOMEM |
| `hole` | 549-550: KERN_NO_SPACE is taken for "already ours", also between the executable and the interpreter | a segment's further pages are missing |
| `unaligned` | 1704-1706: munmap of an address within a page, which Linux refuses, is answered 0 | pages the guest takes for gone stay |

`wrap`, `mapwrap`, `fixed` and `hole` only lose pages (`Losing`); the others only
leave some behind (`Leaving`).

`again` is the call a guest repeats after `half`.

### 2.6 `OryxGet`

A run of oryx-get is a sequence of steps with the activations of
`install_candidate` (oryx-get:63-98) on an explicit stack, so that a failure or
a kill can come between any two of them. `Needs` and `Kept` are
`_build_candidate` (debian_source.py:216-278) with its cycle guard;
`find_protected` is protected.py's walk, a name at a time over a list of
candidates still to be visited (`Visited`); `GetIndex`, `Fetched` and
`FetchRefused` are the InRelease file, the Packages file and the packages with
their hashes, and the cache they stay in. The mirror (`Publish`) moves on to a
new version at any time and serves only that one. A file is a version, or BAD
for anything else: cut short by a kill, or not what was signed. pacman is
external: `-U` refuses a package whose dependencies are missing and may fail for
other reasons, `-S` brings a package's own dependencies along.

`ghost` is not the code's. It remembers what the user confirmed, what failed,
what pacman brought along, and what was installed when the name in hand was
begun, for the properties to refer to.

## 3. What is checked

| Run | Instance | Checks | Result |
|---|---|---|---|
| `server_safety` | 3 slots, 3 processes, 2 workers, execve may fail | `TypeOK ServerInv OneOwner CallerKept NoLostWakeup ParkedHasChild` | holds, 1 019 859 states |
| `server_life` | 2 slots, 3 numbers, 2 workers, fair | `ExitStatus ImplementsLife RootExitEnds ExceptionAnswered` | holds, 9 738 states |
| `server_exec_fails` | 2 slots, 2 processes, execve may fail, fair | `RootExitEnds` | violated (4.1) |
| `server_survivor` | 3 slots, 4 numbers, 2 workers | `NoSurvivor` | violated (4.2) |
| `server_parent_stuck` | 2 slots, 2 processes, execve may fail, fair | `WaiterWoken` | violated (4.3) |
| `files_tables` | 2 processes, 2 guest and 4 host descriptors, a directory, a pipe, 1 cached stream, fork may be refused, execve may fail, fcntl may duplicate | `TypeOK Exclusive StdioKept InFlightKept Isolation OnlyTheseLeak OnlyTheseStrand` | holds, 125 213 states |
| `files_stale_dir` | two directories | `DirFresh` | violated (4.4) |
| `pipe_ends` | 3 stages, 3 workers, pipes of 1, 2 items, early exit, fair | `TypeOK WorkerLeft Complete PipelineEnds` | holds, 149 488 states |
| `pipe_starved` | the same with 2 workers, no early exit | `PipelineEnds` | violated (4.5) |
| `pipe_sigpipe` | as `pipe_ends` | `EndsWithRoot` | violated (4.6) |
| `image_memory` | 2 processes, 12 pages of 2 bytes under 16, 5 programs, 2 argument lists, 3 calls | `TypeOK ViewAgrees StackDamage TlsBacked OnlyAsked StatusDelivered ExecExact` | holds, 103 516 states |
| `get_install` | 7 Debian and 2 repository names, a circle of three, 5 command lines, 2 runs, 2 versions of the mirror | `TypeOK NeverReentered RefusedUntouched InOrder ProtectedConfirmed ExitHonest OnlyVerified` | holds, 66 600 states |

**Properties of the server.** `OneOwner`: a stopped guest's exception is queued,
with exactly one worker, or withheld by wait4, and a running guest's is in none
of these, so none is lost and none is answered twice; the one exception is a
guest that execve declared dead and whose slot was taken from it. `CallerKept`:
the slot of a process whose worker has given the mutex up stays its own, again
but for such a guest. `NoLostWakeup` and `ParkedHasChild`: a parked parent has a
child left to wait for, and if it is parked beside one that is dead, execve has
declared it so; `WaiterWoken` asks whether it is woken. `ServerInv`: the mutex,
the numbers, the root's slot, a half-done fork, and the threads agree with the
table. `RootExitEnds`, `ExceptionAnswered`: liveness. `ExitStatus`: the
emulator's status is the root's. `NoSurvivor`: no guest outlives the emulator.

**Properties of the descriptors.** `Exclusive`: what lets close, dup2 and exit
close a host descriptor without asking who else has it. `StdioKept`,
`InFlightKept`, `Isolation`, `OnlyTheseLeak`, `DirFresh`: see the comments in
the module. `OnlyTheseStrand`: only dup2, exit and a wait4 for a process that
execve declared dead use the directory cache up for good (a full cache is
answered ENOTDIR, 1056).

**Properties of a pipeline.** `WorkerLeft`: the workers are never used up by
host calls that wait for one another. `Complete`: at the end of file everything
written has come through. `PipelineEnds`: the emulator ends. `EndsWithRoot`: it
ends only because the root process has.

**Properties of an image.** `ViewAgrees`: the guest's view and Mach's map are
one unless one of the nine things of 2.5 has happened. After those that lose
pages Mach still has no page the guest does not know of; after those that leave
some, the guest still has all it counts on; after both, nothing is claimed.
`OnlyAsked`: a call changes the pages it named, a result its buffer; what poke
does to the pages round an unreadable buffer is spelled out. `StatusDelivered`:
a child is collected with its status in its parent's memory, in either order of
exit and wait4. `ExecExact`: every byte after execve is the new program's.
`StackDamage`: exactly how far the vector that is stored runs into the strings
(4). `TlsBacked`: behind the remembered selector is the descriptor asked for
last.

**Properties of oryx-get.** `NeverReentered`: the recursion over a circular
index ends. `RefusedUntouched`: without `--allow-protected` a name from Debian
from which something protected can be reached, at any depth, has none of its
tree installed; a name from [oryx] stands for itself only. `ProtectedConfirmed`:
the question was asked, but for what `pacman -S` brings along. `InOrder`:
dependencies first, with the exception that `done` does not tell a failure from
a success. `ExitHonest`: status 0 means installed. `OnlyVerified`: through kills
and a moving mirror, a package installed is the one the signed index names.

**Bounds.** Three processes and two workers are the least that make every race
of the process server: a parent, the child it waits for and a sibling that exits
meanwhile; one worker in a handler and one in another or in `finish()`. Slots
fewer than process numbers make slots be reused (`server_life`,
`server_survivor`) and the table be full; the theorems of 5 hold for every
number of each. `MaxPid` bounds only how many processes are ever forked: with
all numbers given out, fork is not attempted. One exit code beside 127 and 139
is enough because no handler looks at it. For the descriptors, two processes
with two entries each and four host descriptors make the host's table, a guest's
table and the cache run out, and a descriptor be reused, in every combination.
Three stages are the least that have one that both reads and
writes; pipes of one item make every write but the first wait; two items make
every stage loop; the shell's four closes interleave with everything. Three
workers are as few as three stages can do with.
`Stdio` is 1 rather than 3: the emulator's descriptors differ only in number.
Two bytes a page make an address aligned or not and a buffer lie on one page or
two; twelve pages hold two objects, the stack, a heap and one hole, so that
mappings collide; sixteen make LONG_MIN, page 8, a page a task may have, as it
is in the code, and leave addresses above user space to wrap. The programs are
one without an interpreter, one whose bss outgrows a shared page, one with an
interpreter, one whose interpreter is missing and one that lies where its
interpreter has to begin. Three calls are a map, a fork
or exec, and what goes wrong after it; the requests are chosen so that each
answer and each reason to stray occurs. `build_stack` is computed in full size.
For oryx-get, a circle of three with a way in from outside, a protected package
two levels below a name (e, s, q), with an unprotected dependency installed
before it, and one behind `pacman -S` make every cut of the tree; two runs
make a run meet the other's cache, two versions a mirror ahead of it.
Symmetry (over workers) is used in the runs without liveness.

**Deadlock.** The server's runs with a failing execve allow it: the emulator
really can be left with no guest that will ever trap.
`pipe_starved` is
about a deadlock. The runs of `OryxImage` and `OryxGet` end when their calls or runs
are used up, so they allow it too. Every other run checks for it.

**Fairness.** `FairSpec` states only what the host provides. Each worker is a
thread that keeps running (weak fairness of what it alone can do); a mutex that
is released again and again is obtained, and the port is a FIFO, so a queued
message is received in the end (strong fairness of `Handle`, `HostReturn` and of
the receipt of each guest's message); a host call returns; a guest that execve
declared dead traps again in the end, as one with nothing at its eip must. Other
guests owe nothing: they may compute for ever. In `OryxPipeline` the guests are
given programs and each makes its next call in the end; a host read or write
that can return does.

## 4. Where code and text disagree

1. `server_exec_fails`. Line 1267 assigns `guest_done = (cur == root)`. If the
   root has exited and another process's execve then fails before the worker
   that served the exit reads `guest_done` (1919), the flag is cleared and the
   emulator waits for ever. The comment of `finish()` (1851) has it run "from
   whichever worker thread saw the root process exit".
2. `server_survivor`. `finish()` (1857-1863) kills what it sees used and alive,
   without the mutex. A fork in another worker can put its child into a slot the
   walk has passed, or start its thread after the walk did not see one. The
   child goes on running with nobody to answer it, although the comment speaks
   of "guest syscalls that will never come".
3. `server_parent_stuck`. The failure path of execve (1261-1268) sets `alive` to
   0 and returns; thread and parked parent are left. The guest is resumed on its
   `int $0x80`, and if the new program's bytes there are the same, which the same
   static program refused for too many arguments (635) has, it makes the call
   again, for ever. 1399 has an exit "wake a parent parked in wait4", 1890-1891
   keep the parent stopped until then: it stays stopped.
4. `files_stale_dir`. dup2 (1628) and exit (337) close a host descriptor without
   `dir_forget`. In the run one directory is listed, dup2 puts another in its
   place and is given the same host number, and the cached stream under that
   number is still the first directory's. "The DIR* is cached per guest fd"
   (1037), but the key is the host descriptor.
5. `pipe_starved`. A blocked read keeps its worker, so a pipeline with more
   blocked readers than the eight workers never serves the writer, although
   2003 has "Extra workers so a guest blocked in read() cannot stall the rest".
6. `pipe_sigpipe`. Nothing ignores SIGPIPE: a stage that writes after its reader
   has exited (`yes | head`) ends the emulator and every guest. The EPIPE that
   174 translates for the guest is never seen.

Also seen, each described by a property that says exactly how far it goes:

* After a failed execve the parent may be told 127 by wait4 or, if it was
  already parked and the guest faults, 139.
* The next call of a guest that execve declared dead may be a read; while its
  worker is in the host without the mutex, the parent's wait4 frees its slot
  (1435), and the worker goes on with a `cur` that is free or another process's.
  `CallerKept` excepts exactly this.
* Three calls leave descriptors open that nobody has (`OnlyTheseLeak`): a fork
  refused after `fd_fork` (1311-1316, 1344-1349), a wait4 for a process that
  execve declared dead (1262-1268 close nothing), and an fcntl64 that the host
  takes for a duplication (1765). A leaked write end keeps a pipe's reader from
  ever seeing its end, the hang that lines 328-331 describe.
* A selector is remembered for a descriptor that is not present (1021), and the
  next request without a number reuses it (`TlsBacked`).
* A break in the last page rounds up to 0 (851), counts as lower than the old one
  and is granted once all memory from 0 to the old break is deallocated (`wrap` in
  2.5), where 847-848 promise "the new break, or the current one if the request
  cannot be met".
* `build_stack` leaves room for 14 auxiliary pairs (661) and stores 17
  (671-687): the lowest string, the first of the environment, is always damaged,
  and any that begins less than 24 bytes above the end of the reserved vector
  may be (`StackDamage`).
* The nine ways of 2.5 for a guest's view and Mach's map to part (`ViewAgrees`).
* `poke` leaves the pages it writes readable and writable, and zeroes the rest
  of pages it could not read, for a buffer in a PROT_NONE page say (`OnlyAsked`).
* oryx-get's `done` set (oryx-get:97) does not tell a failed package from an
  installed one and answers 0 for both (72-73): of two names that need the same
  package, whose installation fails, the first fails and the second is converted
  and given to pacman without it, although "needs must land first" (67-68).
  pacman has to refuse it (`InOrder`, and `ExitHonest` for what is then said).
* What `pacman -S` brings along is in no candidate tree (debian_source.py:265,
  oryx-get:36), so a protected package that a repository package depends on is
  installed without `--allow-protected`, although protected.py:3-4 refuses
  "anything that would pull one in as a dependency" (`ProtectedConfirmed`).
* InRelease is fetched once and never again or removed (debian_source.py:95):
  when the mirror moves on, the Packages file no longer matches and oryx-get
  fails until somebody empties the cache. A `TrustError` is a `SourceError`,
  which `resolve_one` (oryx-get:108-110) takes for "try the next source".

Seen beside the models and not in them: `peek_str` reports success for a string
that has no end (459); `peek_vector` cuts long vectors short without an error;
strings longer than 64 KiB take `build_stack`'s offset below its block (651);
pipe2 whose result cannot be poked keeps both descriptors (1645); getdents64
with a buffer too small for one entry answers 0, the end of the directory;
lseek (1688) always answers 0.

## 5. What is proved

`OryxServer_proofs` proves, for every number of slots, process numbers and
workers, every set of exit codes and either value of `ExecCanFail`, under
`ServerAssumption` alone:

* `TypeCorrect`: `Spec => []TypeOK`
* `Inductive`: `Spec => []IInv`, and from it `TableConsistent` (`ServerInv`),
  `OneAnswer` (`OneOwner`), `CallerSafe` (`CallerKept`), `WakeupSafe`
  (`NoLostWakeup`) and `ParkSafe` (`ParkedHasChild`).

`IInv` is the conjunction of the six, and none is inductive alone. `OneOwner`
needs `UniquePids`, or answering one message could stop the thread of another
slot. `CallerKept` needs `OneOwner`: the caller of a host call cannot be exited
by another worker because its only exception is with this one, and it cannot be
reaped because `DeadThreads` says that a dead process's thread is gone, unless
execve declared it dead. Those are kept apart throughout (`Doomed`): they may be
served, park, and lose their slot, and the invariants say for each part what is
left of it. `NoLostWakeup` needs `ParkedAlive` and the search in `ProcExited`
to be exhaustive. `ParkedHasChild` needs that only a parent frees its child's
slot, and never while parked. `ForkPending` carries all of them over the state
between the two halves of fork.

The proof is organised by effect. A first group of lemmas says what each
action does to the table (`TableWriters`, `TableChange`), to threads
(`ThreadChange`) and to images (`ImageChange`), so that an action that leaves a
part alone is dealt with once. Then comes one lemma per invariant for a step
(`LockStep`, `TableStep`, `PendingStep`, `DeadStep`, `OwnerStep`, `CallerStep`,
`WakeupStep`, `ChildStep`, `TypeStep`), each a case per action that can disturb
it, and `InitInv` and `StepInv` put them together.

### 5.1 The descriptors

`OryxFiles_proofs` proves, for every number of processes, size of the guest's
table, limit of the host, size of the cache, directories and pipes, with fork
refused or not, execve failing or not and the host's fcntl duplicating or not:
`TypeCorrect`, `ExclusiveHolds`, `StdioKeptHolds`, `InFlightKeptHolds`,
`IsolationHolds`, `OnlyTheseLeakHolds` and `OnlyTheseStrandHolds`.

The inductive invariant `FilesInv` (`TablesKept`) is `Exclusive` with the types,
the emulator's stdio open and the table of a process that does not exist empty.
`Exclusive` needs the last two: fork fills a dead process's table, and a
descriptor below `Stdio` may be shared because it is never closed. Everything
rests on the numbers that `gfd_alloc` and the host pick: `Nth(S, n)`, the member
with n smaller ones, exists, is unique and is in S (`BelowFacts`, `NthFacts`),
so what is opened was free. `GoodOpen` shows the invariant kept by a call that
puts free descriptors into a table, `GoodClose` by one that gives up descriptors
nobody else has (`OnlyHere`); each action is one of these or, like dup2, one
after the other, through a middle state that is as good. `ChildFacts` counts the
descriptors fd_fork dup()s before an entry to show that two entries of the child
never get the same. A failed execve changes no table; `Wait4` empties one and
closes nothing, so what it had stays open and in no other's way.
`IsolationHolds` follows because an action writes one table (`OthersTable`) and
another's descriptors are neither free nor closable (`OthersFiles`);
`OnlyTheseLeakHolds` because an open puts each new descriptor into a table or
the cache (`LeakGrow`) and a close frees what it takes out (`LeakShrink`);
`OnlyTheseStrandHolds` because a call that only adds to tables takes no stream's
owner away (`StrandAdd`) and close forgets what it would strand (`StrandClose`).

### 5.2 The server's life

`OryxServerLife_proofs` proves `ServerImplementsLife`: the server implements
`ProcLife`, for every number of slots, process numbers and workers; and
`ExitStatusHolds`. Both assume `~ExecCanFail`, and need to: with a failed execve
a process dies twice and the parent may be told either status (4), and the
failure can clear the `guest_done` another worker has set (4.1).

`LInv` (`LifeInductive`) is `IInv` with `LifeInv`: every guest has its program,
a status is written at death and not before, a process that a parent was told of
has no slot left, and `guest_done` is set together with `guest_status`. The
mapping reads a life through a `CHOOSE` of a slot, so lemmas first say what is
read (`LifeRead`, `LifeTold`, `LifeAbsent`) from `UniquePids`. Each action then
maps to a stutter (`LifeUnchanged`, `ReserveMaps`) or to one step: `ForkMaps`,
`EndMaps`, `EndToldMaps` (exit with the parent parked, one step of `ProcLife`
too) and `ReapMaps`; `StepMaps` puts them together.

### 5.3 The pipelines

`OryxPipeline_proofs` proves, for pipelines of any length, pipes of any
capacity and inputs of any size:

* `WorkersSuffice`: with at least as many workers as stages, `WorkerLeft`. If a
  call on the port found no worker, every other guest would hold one in a host
  call. The shell makes none that blocks, so every stage does; the first stage
  that reads waits for an empty pipe, and the stage before it, which does not
  read, for the same pipe to be less than full. The bound is sharp:
  `pipe_starved` has one worker fewer.
* `PipelineKept`, and from it `TypeCorrect` and `CompleteHolds` (`Complete`).
* `DeliveredHolds`: unless the last stage may stop early, everything has been
  read when the shell exits, however the calls are served and with however few
  workers.
* `NoBrokenPipe`: unless it may stop early, nobody is killed by SIGPIPE and the
  emulator ends only with its root (`EndsWithRoot`). `pipe_sigpipe` shows that
  the condition is needed.

What is in the pipeline is a sum over its stages and pipes. `Conserved` says
that the partial sums exist: a function `T` with, for every pipe, what has still
to be read from it, each value the one before and what one stage and one pipe
hold. A read or write changes `T` at one place (`ReadStep`, `WriteStep`); an end
of file means that the writers are gone and the pipe empty, so `T` is 0 there
(`EofStep`), which needs that a stage keeps its ends until it exits
(`EndsKept`).

### 5.4 The images

`OryxLoader_proofs` has the address-space lemmas: for each of Mach's calls and
for `poke`, that it keeps the types, which pages it maps and unmaps, which
frames it leaves alone, and what a poke leaves of the bytes of a page; for
`LoadOne`, `BuildStack` and `LoadProgram`, the pages that are mapped once they
succeed. The loader's recursion is over the number of segments, a function on
0..n that such a lemma shows to exist; `NatInduction` needs an operator, so the
induction is done on the least number for which the claim would fail.

`OryxImage_proofs` proves, for any memory of whole pages with one left above
user space, any programs with at most one interpreter, any arguments, requests,
buffers, slots and number of processes:

* `TypeCorrect`, which also says that every handler's arithmetic stays within
  the address space.
* `ViewAgreesHolds`: what a guest can conclude from its answers is what Mach has
  mapped, but for the nine things of 2.5, with the direction in which those of
  each kind err; a guest that has met both kinds is not spoken of.
* `OnlyAskedHolds`, `StatusDeliveredHolds`: what a step may do to pages that
  stay mapped, and that a status arrives.
* `StackDamageHolds`: how far the vector runs into the strings, in the code's own
  arithmetic, for any number of strings of any lengths.
* `TlsBackedHolds`: no selector leads to another descriptor than the one asked
  for last.

The invariants: `TlsInv` is `TlsBacked` of every slot, alive or not, with the
types of its fields. `ImageInv` is `TypeOK` with `EmptyInv` (who is not
alive has no memory, so a fork's child overwrites none) and `DamageInv` (what is
damaged is what building the block overwrote; from there `StackDamage` is
arithmetic, `OverwrittenFacts`). `ViewInv` strengthens `ViewAgrees` twice. The
break has to be a page below the end of the address space until a request has
wrapped, or the next brk would round it to 0. And a guest that asks for the break
it has, at LONG_MIN, asks for ever (`Stuck`): its view is never caught up with,
and the third clause of `ViewAgrees` holds only because the call is still being
made again. Each call then gives map and view the same pages and takes the same
(`BrkMapped`, `MmapMapped`, `MunmapMapped`, `ProgramMapped` for the map;
`DeltaOk`), or errs on the side it is allowed to (`GrownOk`, `ShrunkOk`,
`KeptOk`). Two of the reasons to stray were found by this proof: an interpreter
that has to begin where the executable lies, and munmap within a page. Neither
was in the instance until then; both are now.

### 5.5 oryx-get

`OryxGet_proofs` proves, for any index, repository, protected list, command
lines and number of runs and versions: `TypeCorrect`, `NeverReenteredHolds`,
`InOrderHolds`, `RefusedUntouchedHolds`, `ProtectedConfirmedHolds`,
`OnlyVerifiedHolds` and `ExitHonestHolds`. The names that can be had are assumed
finitely many, as an index file's are, and a repository package to depend on
packages of that repository.

What makes it hard is that the tree is cut: a candidate drops dependencies that
are on the path to it, and the walk of `find_protected` visits a name once, with
the path it first came by. `VisitedClosed` shows that no name is lost by that: a
dependency that is cut is on the path, hence visited already, so the set the walk
ends with is closed under the uncut dependencies, and nothing protected can be
reached from a package for which the answer is empty (`NothingProtected`). That
the walk ends, and its recursive definition therefore has a value, is
`WalkInduction`: each step sees a name more or has less work left.

`IInv` (`Inductive`) then has one part per question. `StackInv`: each activation
waits for a need of its candidate, which is the next one's, so the names below
are on the path of the one above, and no name occurs twice. `HeldInv`: the index
in hand is the cached one and verified. `OutcomeInv`: every name that was done is
installed or has failed, every need already tried is installed or failed before
this name, and a failure is in the caller's status. `ProtectedInv`: what is begun
has been asked about.

### 5.6 Only model-checked

* Liveness (the prover has no ENABLED): `RootExitEnds`, `ExceptionAnswered`,
  `PipelineEnds`; so the theorems say what a guest that execve declared dead may
  hold, and not that it ever lets go of it.
* `ExecExact` of `OryxImage`. It is not true of every program one can write
  down: a segment that cannot be read loses its bytes on a page it shares with
  the next, and an entry point need not lie in a segment. The run's programs are
  as linkers make them.
* The violations of 4: a counterexample is a counterexample.

## 6. Not modelled

Of the emulator: register contents; file contents, offsets and the position in a
directory stream; signals, other than the SIGPIPE of `OryxPipeline`; threads
(`clone` with `CLONE_VM` is refused by the code); the values in the auxiliary
vector. `OryxServer` has no memory: `wait_complete` ignores a failing poke there,
which is why it always collects, and `OryxImage` says what the parent then has.

`OryxImage` assumes that the bytes a file mapping reads are no more than its
length (do_mmap asks for that many), that the run's segments are not empty, and
that the strings fit the 64 KiB block. A file mapping whose length wraps when it
is rounded makes the emulator allocate 0 bytes and read more into them: the run
has none, and the theorems say nothing of the code there. Execute permission is
not told from read, and two slots leave out which of several parents is woken.

`OryxGet` has no `[source:pypi]` section, `--pypi`, `--search`, `--info` or
`--export`; alternatives and virtual packages are resolved before its index
begins; two runs at the same time are left to pacman's lock.

Path resolution (`resolve`), errno, flag and struct translation are functions of
their input alone, tables and field copies with no state to get wrong over time.
The converters, the package builder, the reports, the installer and the hooks
are scripts that run from top to bottom once, one at a time. `oryx-setdeps.py`
and `oryx-repo-add.py` do have two windows (a package rewritten before the
database is, and the database's link removed before it is made again), which are
listed as hazards; no code detects or repairs either, so a model would have
nothing of the program's to check beyond the order of those two lines.

## 7. Plan

1. `ExecExact` under an assumption on programs that says what a linker
   guarantees, as a theorem; its second and last clauses, that what a program
   needs is mapped and the break is above it, hold of every program.
2. `OryxRepo`: the two rewriting tools with a stop between any two steps, and a
   client, should the tools gain a way to notice or repair what they leave.
