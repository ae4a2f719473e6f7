------------------------------ MODULE OryxFiles ------------------------------
(***************************************************************************)
(* Guest descriptors in linux-personality/oryxlinux.c.                     *)
(*                                                                         *)
(* Every guest process has a table from its own descriptor numbers to host *)
(* descriptors of the one emulator process, which opens, duplicates and    *)
(* closes them on its behalf.  All of it happens under the server's mutex  *)
(* except the host read or write itself, so a call is one step and a read  *)
(* or write is two.  The directory streams getdents64 reads from are kept  *)
(* in a cache all processes share, keyed by host descriptor.               *)
(*                                                                         *)
(* A call that fails leaves everything as it was, unless an action below   *)
(* says otherwise, and is then not a step.                                 *)
(***************************************************************************)
EXTENDS Integers, FiniteSets

CONSTANTS
  Procs,        \* the guest processes
  Root,         \* the first of them
  MaxFd,        \* MAX_FD
  Stdio,        \* how many host descriptors are the emulator's own: 0, 1, 2
  MaxHost,      \* how many descriptors the host lets the emulator have
  Dirs,         \* the directories a guest may open
  Pipes,        \* the pipes that may exist at one time
  MaxDir,       \* MAX_DIRCACHE
  ForkCanFail,  \* whether Mach may refuse the thread after fd_fork
  ExecCanFail,  \* whether load_program may fail after execve's teardown
  RawDup        \* whether the host has a duplicating fcntl beside F_DUPFD

ASSUME FilesAssumption ==
  /\ Root \in Procs
  /\ MaxFd \in Nat /\ Stdio \in Nat /\ MaxHost \in Nat /\ MaxDir \in Nat
  /\ 0 < Stdio /\ Stdio <= MaxFd /\ Stdio <= MaxHost
  /\ ForkCanFail \in BOOLEAN /\ ExecCanFail \in BOOLEAN /\ RawDup \in BOOLEAN

GuestFds == 0..(MaxFd - 1)
HostFds == 0..(MaxHost - 1)
CacheSlots == 0..(MaxDir - 1)
None == -1                       \* a guest descriptor that is not open
Free == <<"free">>               \* a host descriptor that is not open
Std == <<"stdio">>
Dir(d) == <<"dir", d>>
PipeEnd(k, end) == <<"pipe", k, end>>
Files == {Std} \cup {Dir(d) : d \in Dirs}
               \cup {PipeEnd(k, e) : k \in Pipes, e \in {"read", "write"}}

\* A cached DIR: the host descriptor it was asked for, the dup() it reads, and
\* the directory that is.
NoDir == [fd |-> None, own |-> None, file |-> Free]
Cached == [fd : HostFds, own : HostFds, file : {Dir(d) : d \in Dirs}]

VARIABLES
  fd,        \* p->fd[]
  live,      \* the processes that have a slot and a table
  doomed,    \* those of them that execve has declared dead
  host,      \* what each host descriptor is open on
  dircache,  \* dircache[]
  inflight   \* the host descriptor each process's read or write has in use

vars == <<fd, live, doomed, host, dircache, inflight>>

NoFds == [g \in GuestFds |-> None]

TypeOK ==
  /\ fd \in [Procs -> [GuestFds -> HostFds \cup {None}]]
  /\ live \in SUBSET Procs
  /\ doomed \in SUBSET live
  /\ host \in [HostFds -> Files \cup {Free}]
  /\ dircache \in [CacheSlots -> Cached \cup {NoDir}]
  /\ inflight \in [Procs -> HostFds \cup {None}]

\* Root starts with the emulator's own stdio (fd_init).
Init ==
  /\ fd = [p \in Procs |-> IF p = Root
                             THEN [g \in GuestFds |-> IF g < Stdio THEN g
                                                                   ELSE None]
                             ELSE NoFds]
  /\ live = {Root}
  /\ doomed = {}
  /\ host = [h \in HostFds |-> IF h < Stdio THEN Std ELSE Free]
  /\ dircache = [c \in CacheSlots |-> NoDir]
  /\ inflight = [p \in Procs |-> None]

-----------------------------------------------------------------------------
(* The host's descriptors                                                  *)

\* The member of S that has n smaller ones.
Nth(S, n) == CHOOSE x \in S : Cardinality({y \in S : y < x}) = n

FreeHost(H) == {h \in HostFds : H[h] = Free}
FreeGuest(p) == {g \in GuestFds : fd[p][g] = None}

\* The host opens the lowest free descriptor.
Opened(H, file) == [H EXCEPT ![Nth(FreeHost(H), 0)] = file]

\* Mutant: the emulator's own stdio is closed like any other descriptor.
ClosedAny(H, S) == [h \in HostFds |-> IF h \in S THEN Free ELSE H[h]]

\* close(), which is never called on the emulator's own stdio.
Closed(H, S) == [h \in HostFds |-> IF h \in S /\ h >= Stdio THEN Free ELSE H[h]]

\* Process p is running and makes a call.  One that execve declared dead may
\* still do so.
Calls(p) == p \in live /\ inflight[p] = None

-----------------------------------------------------------------------------
(* The calls                                                               *)

\* gfd_alloc of a host descriptor just opened on the file: the lowest guest
\* number gets it.  With no number left the code closes it again.
Alloc(p, file) ==
  /\ FreeHost(host) # {}
  /\ FreeGuest(p) # {}
  /\ fd' = [fd EXCEPT ![p][Nth(FreeGuest(p), 0)] = Nth(FreeHost(host), 0)]
  /\ host' = Opened(host, file)
  /\ UNCHANGED <<live, doomed, dircache, inflight>>

\* open, openat
Open(p, d) == Calls(p) /\ Alloc(p, Dir(d))

\* dup, and fcntl F_DUPFD whose minimum is ignored
Dup(p, g) ==
  /\ Calls(p)
  /\ fd[p][g] # None
  /\ Alloc(p, host[fd[p][g]])

\* fcntl64 with any other command goes to the host unread.  If the host
\* duplicates, the guest is told a host number that is in no table.
FcntlRaw(p, g) ==
  /\ RawDup
  /\ Calls(p)
  /\ fd[p][g] # None
  /\ FreeHost(host) # {}
  /\ host' = Opened(host, host[fd[p][g]])
  /\ UNCHANGED <<fd, live, doomed, dircache, inflight>>

\* Mutant: dup2 closes the target and shares the source's host descriptor.
Dup2Shares(p, g, t) ==
  /\ Calls(p)
  /\ fd[p][g] # None
  /\ g # t
  /\ host' = Closed(host, {fd[p][t]})
  /\ fd' = [fd EXCEPT ![p][t] = fd[p][g]]
  /\ UNCHANGED <<live, doomed, dircache, inflight>>

\* dup2, dup3: what the target was open on is closed first.  If the host then
\* has no descriptor left the call fails with the target's entry as it was.
Dup2(p, g, t) ==
  /\ Calls(p)
  /\ fd[p][g] # None
  /\ g # t
  /\ LET H == Closed(host, {fd[p][t]})
     IN  IF FreeHost(H) = {}
           THEN host' = H /\ UNCHANGED fd
           ELSE /\ host' = Opened(H, host[fd[p][g]])
                /\ fd' = [fd EXCEPT ![p][t] = Nth(FreeHost(H), 0)]
  /\ UNCHANGED <<live, doomed, dircache, inflight>>

\* pipe, pipe2.  With one guest number left the read end keeps it, the write
\* end is closed and the guest is told EMFILE.
Pipe(p, k) ==
  /\ Calls(p)
  /\ \A h \in HostFds, e \in {"read", "write"} : host[h] # PipeEnd(k, e)
  /\ Cardinality(FreeHost(host)) >= 2
  /\ FreeGuest(p) # {}
  /\ LET r == Nth(FreeHost(host), 0)
         w == Nth(FreeHost(host), 1)
         g == Nth(FreeGuest(p), 0)
     IN  IF Cardinality(FreeGuest(p)) = 1
           THEN /\ fd' = [fd EXCEPT ![p][g] = r]
                /\ host' = [host EXCEPT ![r] = PipeEnd(k, "read")]
           ELSE /\ fd' = [fd EXCEPT ![p][g] = r,
                                    ![p][Nth(FreeGuest(p), 1)] = w]
                /\ host' = [host EXCEPT ![r] = PipeEnd(k, "read"),
                                        ![w] = PipeEnd(k, "write")]
  /\ UNCHANGED <<live, doomed, dircache, inflight>>

\* The cached streams that dir_forget(h) closes, and their descriptors.
Forgotten(h) == {c \in CacheSlots : dircache[c].fd = h}
DirFds(C) == {dircache[c].own : c \in C}

\* Mutant: close does not forget the directory.
CloseOnly(p, g) ==
  /\ Calls(p)
  /\ fd[p][g] # None
  /\ host' = Closed(host, {fd[p][g]})
  /\ fd' = [fd EXCEPT ![p][g] = None]
  /\ UNCHANGED <<live, doomed, dircache, inflight>>

\* close
Close(p, g) ==
  /\ Calls(p)
  /\ fd[p][g] # None
  /\ LET h == fd[p][g]
     IN  /\ dircache' = [c \in CacheSlots |-> IF c \in Forgotten(h)
                                                THEN NoDir ELSE dircache[c]]
         /\ host' = Closed(host, {h} \cup DirFds(Forgotten(h)))
  /\ fd' = [fd EXCEPT ![p][g] = None]
  /\ UNCHANGED <<live, doomed, inflight>>

\* Mutant: dir_for caches whatever it is given without asking fdopendir.
GetDentsAny(p, g) ==
  /\ Calls(p)
  /\ fd[p][g] # None
  /\ FreeHost(host) # {}
  /\ \E c \in CacheSlots :
       /\ dircache[c] = NoDir
       /\ dircache' = [dircache EXCEPT ![c] =
                         [fd |-> fd[p][g], own |-> Nth(FreeHost(host), 0),
                          file |-> host[fd[p][g]]]]
  /\ host' = Opened(host, host[fd[p][g]])
  /\ UNCHANGED <<fd, live, doomed, inflight>>

\* getdents64 on a directory no stream is cached for: dir_for opens one on a
\* dup().  With a stream in the cache it is used and nothing changes; with the
\* cache full the guest is told ENOTDIR.
GetDents(p, g) ==
  /\ Calls(p)
  /\ fd[p][g] # None
  /\ Forgotten(fd[p][g]) = {}
  /\ FreeHost(host) # {}
  /\ host[fd[p][g]] \in {Dir(d) : d \in Dirs}
  /\ \E c \in CacheSlots :
       /\ dircache[c] = NoDir
       /\ \A b \in CacheSlots : b < c => dircache[b] # NoDir
       /\ dircache' = [dircache EXCEPT ![c] =
                         [fd |-> fd[p][g], own |-> Nth(FreeHost(host), 0),
                          file |-> host[fd[p][g]]]]
  /\ host' = Opened(host, host[fd[p][g]])
  /\ UNCHANGED <<fd, live, doomed, inflight>>

\* read or write: hfd() under the mutex, then the host call without it, with
\* the host descriptor it found.
BeginIO(p, g) ==
  /\ Calls(p)
  /\ fd[p][g] # None
  /\ inflight' = [inflight EXCEPT ![p] = fd[p][g]]
  /\ UNCHANGED <<fd, live, doomed, host, dircache>>

EndIO(p) ==
  /\ inflight[p] # None
  /\ inflight' = [inflight EXCEPT ![p] = None]
  /\ UNCHANGED <<fd, live, doomed, host, dircache>>

-----------------------------------------------------------------------------
(* fork, exit and wait4                                                    *)

\* The entries of p that fd_fork dup()s: all but stdio that is still itself.
Dupped(p) == {g \in GuestFds : fd[p][g] # None /\ ~(g < Stdio /\ fd[p][g] = g)}

\* The host descriptor the child gets for the entry g, in table order; with
\* none left dup() fails and the child's entry is closed.
ChildFd(p, g) ==
  LET n == Cardinality({k \in Dupped(p) : k < g})
  IN  IF fd[p][g] = None THEN None
      ELSE IF g \notin Dupped(p) THEN g
      ELSE IF n < Cardinality(FreeHost(host)) THEN Nth(FreeHost(host), n)
      ELSE None

\* The host's descriptors once fd_fork has run.
HostForked(p) ==
  [h \in HostFds |->
     IF \E g \in Dupped(p) : ChildFd(p, g) = h
       THEN host[fd[p][CHOOSE g \in Dupped(p) : ChildFd(p, g) = h]]
       ELSE host[h]]

\* Mutant: the child gets the parent's table itself.
ForkShares(p, c) ==
  /\ Calls(p)
  /\ c \notin live
  /\ inflight[c] = None
  /\ fd' = [fd EXCEPT ![c] = fd[p]]
  /\ live' = live \cup {c}
  /\ UNCHANGED <<doomed, host, dircache, inflight>>

\* A child gets a name that nothing in the emulator goes by any more.
Fork(p, c) ==
  /\ Calls(p)
  /\ c \notin live
  /\ inflight[c] = None
  /\ fd' = [fd EXCEPT ![c] = [g \in GuestFds |-> ChildFd(p, g)]]
  /\ host' = HostForked(p)
  /\ live' = live \cup {c}
  /\ UNCHANGED <<doomed, dircache, inflight>>

\* Mach refuses the child's thread or its registers after fd_fork: the process
\* slot is given back and what fd_fork opened stays open.
ForkRefused(p) ==
  /\ ForkCanFail
  /\ Calls(p)
  /\ live # Procs
  /\ host' = HostForked(p)
  /\ UNCHANGED <<fd, live, doomed, dircache, inflight>>

\* Mutant: fd_closeall skips the guest's numbers 0, 1 and 2.
ExitByGuestFd(p) ==
  /\ Calls(p)
  /\ p # Root
  /\ host' = Closed(host, {fd[p][g] : g \in {k \in GuestFds : k >= Stdio}})
  /\ fd' = [fd EXCEPT ![p] = NoFds]
  /\ live' = live \ {p}
  /\ doomed' = doomed \ {p}
  /\ UNCHANGED <<dircache, inflight>>

\* exit, a fault: fd_closeall.  The root's exit is the emulator's.
Exit(p) ==
  /\ Calls(p)
  /\ p # Root
  /\ host' = Closed(host, {fd[p][g] : g \in GuestFds})
  /\ fd' = [fd EXCEPT ![p] = NoFds]
  /\ live' = live \ {p}
  /\ doomed' = doomed \ {p}
  /\ UNCHANGED <<dircache, inflight>>

\* load_program fails after execve's teardown: the process is declared dead and
\* nothing it has open is closed.  The root's failure is the emulator's end.
ExecBotched(p) ==
  /\ ExecCanFail
  /\ Calls(p)
  /\ p # Root
  /\ doomed' = doomed \cup {p}
  /\ UNCHANGED <<fd, live, host, dircache, inflight>>

\* Process q's wait4 finds child p declared dead and gives its slot back, the
\* table with it, even while a read or write of p is under way.  A child that
\* exited has closed everything by then and is of no more account here.
Wait4(q, p) ==
  /\ Calls(q)
  /\ q # p
  /\ p \in doomed
  /\ fd' = [fd EXCEPT ![p] = NoFds]
  /\ live' = live \ {p}
  /\ doomed' = doomed \ {p}
  /\ UNCHANGED <<host, dircache, inflight>>

\* What process p may do.
Step(p) ==
  \/ \E d \in Dirs : Open(p, d)
  \/ \E k \in Pipes : Pipe(p, k)
  \/ \E g \in GuestFds : Dup(p, g) \/ Close(p, g) \/ GetDents(p, g)
                         \/ BeginIO(p, g) \/ FcntlRaw(p, g)
  \/ \E g, t \in GuestFds : Dup2(p, g, t)
  \/ EndIO(p)
  \/ \E c \in Procs : Fork(p, c) \/ Wait4(p, c)
  \/ ForkRefused(p)
  \/ Exit(p)
  \/ ExecBotched(p)

Next == \E p \in Procs : Step(p)

Spec == Init /\ [][Next]_vars

-----------------------------------------------------------------------------
(* What must hold                                                          *)

\* Every descriptor a guest has open is open on the host, and no two entries,
\* of one process or of two, share a host descriptor that may be closed; a
\* directory stream's descriptor is its own too.  This is what lets close,
\* dup2 and exit close the host's without asking who else uses it, and what
\* makes it safe for dup2 to leave the entry of a closed target when its own
\* dup fails: with a descriptor just closed, it cannot fail.
Exclusive ==
  /\ \A p \in Procs, g \in GuestFds :
       fd[p][g] # None => host[fd[p][g]] # Free
  /\ \A p, q \in Procs, g, k \in GuestFds :
       fd[p][g] = fd[q][k] /\ fd[p][g] >= Stdio => p = q /\ g = k
  /\ \A c \in CacheSlots : dircache[c] # NoDir =>
       /\ dircache[c].own >= Stdio
       /\ host[dircache[c].own] = dircache[c].file
       /\ \A p \in Procs, g \in GuestFds : fd[p][g] # dircache[c].own
       /\ \A b \in CacheSlots : dircache[b].own = dircache[c].own => b = c

\* The host descriptors that are open and that nothing will ever close: no live
\* process and no cached stream has them.
Leaked ==
  {h \in HostFds : /\ h >= Stdio
                   /\ host[h] # Free
                   /\ \A p \in live, g \in GuestFds : fd[p][g] # h
                   /\ \A c \in CacheSlots : dircache[c].own # h}

\* A refused fork, an fcntl nobody read and a wait4 for a process that execve
\* declared dead are the only calls that leak: close, dup2, exit and a pipe that
\* half fails leave nothing open behind them, or the write end of a pipe would
\* outlive its writers and "the reader never sees EOF".
OnlyTheseLeak ==
  [][\/ Leaked' \subseteq Leaked
     \/ \E p \in Procs : \/ ForkRefused(p)
                         \/ \E g \in GuestFds : FcntlRaw(p, g)
                         \/ \E c \in Procs : Wait4(p, c)]_vars

\* The cached streams that no close will ever forget, unless their number is
\* given out again: nobody has the descriptor they were opened for.
Stranded ==
  {c \in CacheSlots : /\ dircache[c] # NoDir
                      /\ \A p \in live, g \in GuestFds : fd[p][g] # dircache[c].fd}

\* What fills the cache for good, so that getdents64 answers ENOTDIR for every
\* further directory, is dup2, exit and a wait4 for a process that execve declared
\* dead: after any other call each stream it has not stranded has an owner whose
\* close will free it.
OnlyTheseStrand ==
  [][\/ Stranded' \subseteq Stranded
     \/ \E p \in Procs : \/ Exit(p)
                         \/ \E g, t \in GuestFds : Dup2(p, g, t)
                         \/ \E c \in Procs : Wait4(p, c)]_vars

\* The emulator's own stdio, "shared by every process", survives everything.
StdioKept == \A h \in HostFds : h < Stdio => host[h] = Std

\* A read or write that is under way without the mutex still has the
\* descriptor it began with, whatever the other processes do meanwhile: on the
\* host in any case, and in the caller's table while the caller has one.
InFlightKept ==
  \A p \in Procs : inflight[p] # None =>
    /\ host[inflight[p]] # Free
    /\ p \in live => \E g \in GuestFds : fd[p][g] = inflight[p]

\* What a process has open changes only by its own calls: "a close in the child
\* must not disturb the parent".  Even one whose table is taken from it loses
\* nothing on the host.
Isolation ==
  [][\A p \in Procs : Step(p) =>
       \A q \in live \ {p}, g \in GuestFds :
         /\ q \in live' => fd'[q][g] = fd[q][g]
         /\ fd[q][g] # None => host'[fd[q][g]] = host[fd[q][g]]]_vars

\* The stream getdents64 finds in the cache for a guest's directory reads that
\* directory ("The DIR* is cached per guest fd").
DirFresh ==
  \A c \in CacheSlots, p \in live, g \in GuestFds, d \in Dirs :
    fd[p][g] # None /\ host[fd[p][g]] = Dir(d) /\ dircache[c].fd = fd[p][g]
      => dircache[c].file = Dir(d)

=============================================================================
