----------------------------- MODULE OryxServer -----------------------------
(***************************************************************************)
(* The process server of linux-personality/oryxlinux.c.                    *)
(*                                                                         *)
(* Every guest process is a Mach task with one thread.  A guest that makes *)
(* a system call, or faults, stops and its thread sends an exception       *)
(* message to the one exception port; NWORKERS server threads receive from *)
(* that port, handle the call under one mutex and answer the message,      *)
(* which is what lets the guest run again.                                 *)
(*                                                                         *)
(* A slot of the table that is not `used` is written NoProc whatever the   *)
(* code left in it: every reader tests `used` first and proc_new clears    *)
(* the slot.  `reaped` is set only together with `used = 0` and is         *)
(* therefore not a field here.  A task or a thread handle is the pid it    *)
(* was created for: proc_new never hands out a pid twice.                  *)
(***************************************************************************)
EXTENDS Integers

CONSTANTS
  MaxProc,      \* MAX_PROC, the slots of the process table
  MaxPid,       \* bound on next_pid: how many processes are ever numbered
  Workers,      \* the NWORKERS threads running serve()
  Codes,        \* the exit codes the guests use
  ExecCanFail   \* whether load_program may fail after execve's teardown

ASSUME ServerAssumption ==
  /\ MaxProc \in Nat \ {0}
  /\ MaxPid \in Nat \ {0}
  /\ Workers # {}
  /\ 0 \notin Workers
  /\ Codes \subseteq 0..255
  /\ ExecCanFail \in BOOLEAN

Slots == 0..(MaxProc - 1)
Pids == 1..MaxPid
Root == 0                        \* the slot main() gives the first guest
Nobody == 0                      \* the mutex is free
NoPid == 0
AnyChild == 0                    \* wait_for == -1
ExecStatus == 127                \* execve's status after a failed teardown
FaultStatus == 139               \* 128 + 11
Status == Codes \cup {ExecStatus, FaultStatus}

Proc == [used : BOOLEAN, alive : BOOLEAN, pid : 0..MaxPid, ppid : 0..MaxPid,
         status : Status \cup {0}, waiting : BOOLEAN, waitFor : 0..MaxPid]

NoProc == [used |-> FALSE, alive |-> FALSE, pid |-> NoPid, ppid |-> NoPid,
           status |-> 0, waiting |-> FALSE, waitFor |-> AnyChild]

NewProc(pid, ppid) == [NoProc EXCEPT !.used = TRUE, !.alive = TRUE,
                                     !.pid = pid, !.ppid = ppid]

\* What a guest has to run: its program, or what an execve that failed after
\* its teardown has left at its eip: nothing, or some of the new program.
Image == {"whole", "part", "none"}

\* What a worker is doing: blocked in mach_msg, about to take the mutex for
\* the message it holds, between proc_new and task_create, in a host call with
\* the mutex released or held, about to reply, about to read guest_done, and
\* in finish().
WorkerPC == {"receive", "handler", "fork", "hostcall", "heldcall",
             "reply", "check", "teardown"}

VARIABLES
  procs,        \* the process table
  nextPid,      \* next_pid
  thread,       \* Mach's view of each guest thread
  image,        \* what each guest has to run
  port,         \* the guests whose exception message is queued on exc_port
  wpc,          \* what each worker is doing
  msg,          \* the guest whose exception each worker holds
  lock,         \* the worker that keeps the mutex between steps, or Nobody
  scan,         \* how far each worker's finish() has gone through the table
  guestDone,    \* guest_done
  guestStatus,  \* guest_status
  finished,     \* _exit was called
  collected     \* what wait4 has told parents: child -> <<parent, status>>

vars == <<procs, nextPid, thread, image, port, wpc, msg, lock, scan,
          guestDone, guestStatus, finished, collected>>

NotCollected == <<NoPid, 0>>

TypeOK ==
  /\ procs \in [Slots -> Proc]
  /\ nextPid \in 1..(MaxPid + 1)
  /\ thread \in [Pids -> {"none", "running", "trapped", "dead"}]
  /\ image \in [Pids -> Image]
  /\ port \in SUBSET Pids
  /\ wpc \in [Workers -> WorkerPC]
  /\ msg \in [Workers -> 0..MaxPid]
  /\ lock \in Workers \cup {Nobody}
  /\ scan \in [Workers -> 0..MaxProc]
  /\ guestDone \in BOOLEAN
  /\ guestStatus \in Status \cup {-1}
  /\ finished \in BOOLEAN
  /\ collected \in [Pids -> (0..MaxPid) \X (Status \cup {0})]

-----------------------------------------------------------------------------
(* The process table                                                       *)

\* The slot proc_new takes: the first that is not used.
FirstFree(s) ==
  /\ s \in Slots
  /\ ~procs[s].used
  /\ \A r \in Slots : r < s => procs[r].used

TableFull == \A s \in Slots : procs[s].used

\* Slot c holds a child wait4(target) by the process in slot p looks at.
IsChild(c, p, target) ==
  /\ procs[c].used
  /\ procs[c].ppid = procs[p].pid
  /\ (target = AnyChild \/ procs[c].pid = target)

\* Slot q is parked in wait4 on a set of children that holds slot c's process.
WaitsFor(q, c) ==
  /\ procs[q].used
  /\ procs[q].waiting
  /\ procs[q].pid = procs[c].ppid
  /\ procs[q].waitFor \in {AnyChild, procs[c].pid}

\* A reply to the thread's exception lets it run; a dead thread stays dead.
Resumed(t) == IF t = "trapped" THEN "running" ELSE t

\* Guest p is one that execve has declared dead, without stopping it: it gets
\* its registers back as they were and goes on with whatever is at its eip.
Doomed(p) == image[p] # "whole"

Goto(w, where) == wpc' = [wpc EXCEPT ![w] = where]

Init ==
  /\ procs = [s \in Slots |-> IF s = Root THEN NewProc(1, NoPid) ELSE NoProc]
  /\ nextPid = 2
  /\ thread = [p \in Pids |-> IF p = 1 THEN "running" ELSE "none"]
  /\ image = [p \in Pids |-> "whole"]
  /\ port = {}
  /\ wpc = [w \in Workers |-> "receive"]
  /\ msg = [w \in Workers |-> NoPid]
  /\ lock = Nobody
  /\ scan = [w \in Workers |-> 0]
  /\ guestDone = FALSE
  /\ guestStatus = -1
  /\ finished = FALSE
  /\ collected = [p \in Pids |-> NotCollected]

-----------------------------------------------------------------------------
(* The guests and the exception port                                       *)

\* A guest executes `int $0x80` or faults: Mach stops the thread and queues an
\* exception message.  What it asked for is in its registers, which the
\* handler reads later, so the choice is made there.
Trap(p) ==
  /\ ~finished
  /\ thread[p] = "running"
  /\ thread' = [thread EXCEPT ![p] = "trapped"]
  /\ port' = port \cup {p}
  /\ UNCHANGED <<procs, nextPid, image, wpc, msg, lock, scan, guestDone,
                 guestStatus, finished, collected>>

\* mach_msg(MACH_RCV_MSG) gives a queued message to one worker.
Receive(w, p) ==
  /\ ~finished
  /\ wpc[w] = "receive"
  /\ p \in port
  /\ port' = port \ {p}
  /\ msg' = [msg EXCEPT ![w] = p]
  /\ Goto(w, "handler")
  /\ UNCHANGED <<procs, nextPid, thread, image, lock, scan, guestDone,
                 guestStatus, finished, collected>>

\* The worker has the mutex and its message's task is the one in slot s.
Serving(w, s) ==
  /\ ~finished
  /\ wpc[w] = "handler"
  /\ lock = Nobody
  /\ procs[s].used
  /\ procs[s].pid = msg[w]
  /\ thread[msg[w]] = "trapped"

\* The exception is an `int $0x80`: there is something at the guest's eip to
\* fetch it from.  The handler looks at these two bytes and not at `alive`, so
\* a guest declared dead is served like any other.
Syscall(w, s) == Serving(w, s) /\ image[msg[w]] # "none"

\* No slot has the task, or finish() has already killed the thread so that
\* thread_get_state fails: the handler gives up and serve() replies anyway.
Unserved(w) ==
  /\ ~finished
  /\ wpc[w] = "handler"
  /\ lock = Nobody
  /\ \/ \A s \in Slots : ~(procs[s].used /\ procs[s].pid = msg[w])
     \/ thread[msg[w]] # "trapped"
  /\ Goto(w, "reply")
  /\ UNCHANGED <<procs, nextPid, thread, image, port, msg, lock, scan,
                 guestDone, guestStatus, finished, collected>>

-----------------------------------------------------------------------------
(* Calls that leave the table alone                                        *)

\* A call that ends under the mutex and changes no process: every file and
\* memory call, an execve that succeeds or is refused before its teardown, a
\* wait4 that finds no child (ECHILD), must not block (WNOHANG) or cannot store
\* the status (EFAULT, which leaves the child to be reaped).
PlainCall(w, s) ==
  /\ Syscall(w, s)
  /\ Goto(w, "reply")
  /\ UNCHANGED <<procs, nextPid, thread, image, port, msg, lock, scan,
                 guestDone, guestStatus, finished, collected>>

\* read, write and nanosleep drop the mutex around the host call.
CallUnlocked(w, s) ==
  /\ Syscall(w, s)
  /\ Goto(w, "hostcall")
  /\ UNCHANGED <<procs, nextPid, thread, image, port, msg, lock, scan,
                 guestDone, guestStatus, finished, collected>>

\* Any other host call that takes its time (open of a FIFO, pread or readdir on
\* a slow filesystem) keeps it.
CallLocked(w, s) ==
  /\ Syscall(w, s)
  /\ lock' = w
  /\ Goto(w, "heldcall")
  /\ UNCHANGED <<procs, nextPid, thread, image, port, msg, scan, guestDone,
                 guestStatus, finished, collected>>

\* The host call returns.  An unlocked one takes the mutex again to copy its
\* result out and set the caller's registers, and releases it at once.
HostReturn(w) ==
  /\ ~finished
  /\ \/ wpc[w] = "hostcall" /\ lock = Nobody
     \/ wpc[w] = "heldcall"
  /\ lock' = Nobody
  /\ Goto(w, "reply")
  /\ UNCHANGED <<procs, nextPid, thread, image, port, msg, scan,
                 guestDone, guestStatus, finished, collected>>

-----------------------------------------------------------------------------
(* fork                                                                    *)

\* Mutant: fork does not advance next_pid.
ForkSamePid(w, s) ==
  /\ Syscall(w, s)
  /\ nextPid <= MaxPid
  /\ \E c \in Slots :
       /\ FirstFree(c)
       /\ procs' = [procs EXCEPT ![c] = NewProc(nextPid, procs[s].pid)]
  /\ lock' = w
  /\ Goto(w, "fork")
  /\ UNCHANGED <<nextPid, thread, image, port, msg, scan, guestDone,
                 guestStatus, finished, collected>>

\* proc_new takes the slot and the pid.  finish() does not take the mutex, so
\* the table is visible in this state.
ForkReserve(w, s) ==
  /\ Syscall(w, s)
  /\ nextPid <= MaxPid
  /\ \E c \in Slots :
       /\ FirstFree(c)
       /\ procs' = [procs EXCEPT ![c] = NewProc(nextPid, procs[s].pid)]
  /\ nextPid' = nextPid + 1
  /\ lock' = w
  /\ Goto(w, "fork")
  /\ UNCHANGED <<thread, image, port, msg, scan, guestDone, guestStatus,
                 finished, collected>>

\* No slot: EAGAIN.
ForkNoSlot(w, s) ==
  /\ Syscall(w, s)
  /\ TableFull
  /\ Goto(w, "reply")
  /\ UNCHANGED <<procs, nextPid, thread, image, port, msg, lock, scan,
                 guestDone, guestStatus, finished, collected>>

\* task_create copies the caller's task, which must still exist, and the new
\* thread starts with the caller's registers.
ForkCreate(w) ==
  /\ ~finished
  /\ wpc[w] = "fork"
  /\ thread[msg[w]] = "trapped"
  /\ thread' = [thread EXCEPT ![nextPid - 1] = "running"]
  /\ lock' = Nobody
  /\ Goto(w, "reply")
  /\ UNCHANGED <<procs, nextPid, image, port, msg, scan, guestDone,
                 guestStatus, finished, collected>>

\* Mach refuses the task, the thread or its registers: the slot is given back
\* and the caller gets EAGAIN; the pid is spent.
ForkRefused(w) ==
  /\ ~finished
  /\ wpc[w] = "fork"
  /\ procs' = [s \in Slots |-> IF procs[s].pid = nextPid - 1 THEN NoProc
                                                            ELSE procs[s]]
  /\ lock' = Nobody
  /\ Goto(w, "reply")
  /\ UNCHANGED <<nextPid, thread, image, port, msg, scan, guestDone,
                 guestStatus, finished, collected>>

-----------------------------------------------------------------------------
(* Death and wait4                                                         *)

\* Mutant: wait_complete does not free the child's slot.
WaitCompleteKeepsSlot(q, s, st) ==
  /\ procs' = [procs EXCEPT ![q].waiting = FALSE, ![s].alive = FALSE,
                            ![s].status = st]
  /\ thread' = [thread EXCEPT ![procs[s].pid] = "dead",
                              ![procs[q].pid] = Resumed(@)]
  /\ collected' = [collected EXCEPT ![procs[s].pid] = <<procs[q].pid, st>>]
  /\ UNCHANGED <<guestDone, guestStatus>>

\* wait_complete: the parked parent in slot q is told of the child in slot s,
\* its withheld reply is sent and the child's slot is free.
WaitComplete(q, s, st) ==
  /\ procs' = [procs EXCEPT ![q].waiting = FALSE, ![s] = NoProc]
  /\ thread' = [thread EXCEPT ![procs[s].pid] = "dead",
                              ![procs[q].pid] = Resumed(@)]
  /\ collected' = [collected EXCEPT ![procs[s].pid] = <<procs[q].pid, st>>]
  /\ UNCHANGED <<guestDone, guestStatus>>

\* Mutant: proc_exited looks for a parent parked on any child and misses one
\* parked on this child.
ProcExitedAnyOnly(s, st) ==
  \/ /\ \E q \in Slots : WaitsFor(q, s) /\ procs[q].waitFor = AnyChild
                         /\ WaitComplete(q, s, st)
  \/ /\ \A q \in Slots : ~(WaitsFor(q, s) /\ procs[q].waitFor = AnyChild)
     /\ procs' = [procs EXCEPT ![s].alive = FALSE, ![s].status = st]
     /\ thread' = [thread EXCEPT ![procs[s].pid] = "dead"]
     /\ UNCHANGED <<guestDone, guestStatus, collected>>

\* Mutant: proc_exited sets guest_done for the root and not guest_status.
ProcExitedNoStatus(s, st) ==
  /\ s = Root
  /\ procs' = [procs EXCEPT ![s].alive = FALSE, ![s].status = st]
  /\ thread' = [thread EXCEPT ![procs[s].pid] = "dead"]
  /\ guestDone' = TRUE
  /\ UNCHANGED <<guestStatus, collected>>

\* proc_exited: the thread and the task go, and either the emulator is told to
\* finish, a parked parent is told, or the process stays in its slot until it
\* is waited for.
ProcExited(s, st) ==
  \/ /\ s = Root
     /\ procs' = [procs EXCEPT ![s].alive = FALSE, ![s].status = st]
     /\ thread' = [thread EXCEPT ![procs[s].pid] = "dead"]
     /\ guestStatus' = st
     /\ guestDone' = TRUE
     /\ UNCHANGED collected
  \/ /\ s # Root
     /\ \E q \in Slots : WaitsFor(q, s) /\ WaitComplete(q, s, st)
  \/ /\ s # Root
     /\ \A q \in Slots : ~WaitsFor(q, s)
     /\ procs' = [procs EXCEPT ![s].alive = FALSE, ![s].status = st]
     /\ thread' = [thread EXCEPT ![procs[s].pid] = "dead"]
     /\ UNCHANGED <<guestDone, guestStatus, collected>>

\* Mutant: exit without the & 0xff.
ExitUnmasked(w, s) ==
  /\ Syscall(w, s)
  /\ \E st \in Codes : ProcExited(s, st + 256)
  /\ Goto(w, "reply")
  /\ UNCHANGED <<nextPid, image, port, msg, lock, scan, finished>>

\* exit, exit_group
Exit(w, s) ==
  /\ Syscall(w, s)
  /\ \E st \in Codes : ProcExited(s, st)
  /\ Goto(w, "reply")
  /\ UNCHANGED <<nextPid, image, port, msg, lock, scan, finished>>

\* Any exception that is not an `int $0x80`, whether or not the process has
\* been declared dead already.
Fault(w, s) ==
  /\ Serving(w, s)
  /\ ProcExited(s, FaultStatus)
  /\ Goto(w, "reply")
  /\ UNCHANGED <<nextPid, image, port, msg, lock, scan, finished>>

\* execve tears the address space down and load_program then fails, before or
\* after it has mapped some of the new program: the process is declared dead in
\* place.  Its thread is not terminated but resumed, its parent is not woken,
\* and guest_done is assigned, not set.
ExecBotched(w, s) ==
  /\ ExecCanFail
  /\ Syscall(w, s)
  /\ \E left \in {"part", "none"} : image' = [image EXCEPT ![msg[w]] = left]
  /\ procs' = [procs EXCEPT ![s].alive = FALSE, ![s].status = ExecStatus]
  /\ guestDone' = (s = Root)
  /\ Goto(w, "reply")
  /\ UNCHANGED <<nextPid, thread, port, msg, lock, scan, guestStatus,
                 finished, collected>>

\* Mutant: wait4 does not look whether the child is alive.
WaitReapLive(w, s) ==
  /\ Syscall(w, s)
  /\ \E c \in Slots :
       /\ IsChild(c, s, AnyChild)
       /\ procs' = [procs EXCEPT ![c] = NoProc]
       /\ collected' = [collected EXCEPT
                          ![procs[c].pid] = <<procs[s].pid, procs[c].status>>]
  /\ Goto(w, "reply")
  /\ UNCHANGED <<nextPid, thread, image, port, msg, lock, scan, guestDone,
                 guestStatus, finished>>

\* wait4 finds a child that is already dead: the first in table order.
WaitReap(w, s) ==
  /\ Syscall(w, s)
  /\ \E target \in {AnyChild} \cup Pids, c \in Slots :
       /\ IsChild(c, s, target)
       /\ ~procs[c].alive
       /\ \A b \in Slots : b < c /\ IsChild(b, s, target) => procs[b].alive
       /\ procs' = [procs EXCEPT ![c] = NoProc]
       /\ collected' = [collected EXCEPT
                          ![procs[c].pid] = <<procs[s].pid, procs[c].status>>]
  /\ Goto(w, "reply")
  /\ UNCHANGED <<nextPid, thread, image, port, msg, lock, scan,
                 guestDone, guestStatus, finished>>

\* Mutant: wait4 parks a caller that has no child, instead of ECHILD.
WaitParkChildless(w, s) ==
  /\ Syscall(w, s)
  /\ \A c \in Slots : ~IsChild(c, s, AnyChild)
  /\ procs' = [procs EXCEPT ![s].waiting = TRUE, ![s].waitFor = AnyChild]
  /\ msg' = [msg EXCEPT ![w] = NoPid]
  /\ Goto(w, "receive")
  /\ UNCHANGED <<nextPid, thread, image, port, lock, scan, guestDone,
                 guestStatus, finished, collected>>

\* Mutant: serve() replies although wait4 has parked the caller.
WaitParkReplies(w, s) ==
  /\ Syscall(w, s)
  /\ \A c \in Slots : IsChild(c, s, AnyChild) => procs[c].alive
  /\ procs' = [procs EXCEPT ![s].waiting = TRUE, ![s].waitFor = AnyChild]
  /\ Goto(w, "reply")
  /\ UNCHANGED <<nextPid, thread, image, port, msg, lock, scan, guestDone,
                 guestStatus, finished, collected>>

\* wait4 has children to wait for and none is dead: the reply is withheld and
\* the worker goes back to the port without looking at guest_done.
WaitPark(w, s) ==
  /\ Syscall(w, s)
  /\ \E target \in {AnyChild} \cup Pids :
       /\ \E c \in Slots : IsChild(c, s, target)
       /\ \A c \in Slots : IsChild(c, s, target) => procs[c].alive
       /\ procs' = [procs EXCEPT ![s].waiting = TRUE, ![s].waitFor = target]
  /\ msg' = [msg EXCEPT ![w] = NoPid]
  /\ Goto(w, "receive")
  /\ UNCHANGED <<nextPid, thread, image, port, lock, scan, guestDone,
                 guestStatus, finished, collected>>

-----------------------------------------------------------------------------
(* The reply and the end of the emulator                                   *)

\* Mutant: the reply header is left as the MIG glue leaves it, and the send
\* fails silently.
ReplyLost(w) ==
  /\ ~finished
  /\ wpc[w] = "reply"
  /\ msg' = [msg EXCEPT ![w] = NoPid]
  /\ Goto(w, "check")
  /\ UNCHANGED <<procs, nextPid, thread, image, port, lock, scan, guestDone,
                 guestStatus, finished, collected>>

\* serve() answers KERN_SUCCESS whatever the handler returned.
Reply(w) ==
  /\ ~finished
  /\ wpc[w] = "reply"
  /\ thread' = [thread EXCEPT ![msg[w]] = Resumed(@)]
  /\ msg' = [msg EXCEPT ![w] = NoPid]
  /\ Goto(w, "check")
  /\ UNCHANGED <<procs, nextPid, image, port, lock, scan, guestDone,
                 guestStatus, finished, collected>>

\* Mutant: serve() does not look at guest_done after a reply.
CheckNothing(w) ==
  /\ ~finished
  /\ wpc[w] = "check"
  /\ Goto(w, "receive")
  /\ UNCHANGED <<procs, nextPid, thread, image, port, msg, lock, scan,
                 guestDone, guestStatus, finished, collected>>

\* `if (guest_done) finish(...)`, read without the mutex.
CheckDone(w) ==
  /\ ~finished
  /\ wpc[w] = "check"
  /\ Goto(w, IF guestDone THEN "teardown" ELSE "receive")
  /\ UNCHANGED <<procs, nextPid, thread, image, port, msg, lock, scan,
                 guestDone, guestStatus, finished, collected>>

\* finish() kills what the slot it has reached holds, without the mutex.
TeardownSlot(w) ==
  /\ ~finished
  /\ wpc[w] = "teardown"
  /\ scan[w] < MaxProc
  /\ LET p == procs[scan[w]]
     IN  thread' = IF p.used /\ p.alive /\ thread[p.pid] # "none"
                     THEN [thread EXCEPT ![p.pid] = "dead"]
                     ELSE thread
  /\ scan' = [scan EXCEPT ![w] = @ + 1]
  /\ UNCHANGED <<procs, nextPid, image, port, wpc, msg, lock, guestDone,
                 guestStatus, finished, collected>>

Leave(w) ==
  /\ ~finished
  /\ wpc[w] = "teardown"
  /\ scan[w] = MaxProc
  /\ finished' = TRUE
  /\ UNCHANGED <<procs, nextPid, thread, image, port, wpc, msg, lock,
                 scan, guestDone, guestStatus, collected>>

\* The emulator is gone.
Finished == finished /\ UNCHANGED vars

\* What a worker does with the message it holds once it has the mutex.
Handle(w) ==
  \/ Unserved(w)
  \/ \E s \in Slots :
       \/ PlainCall(w, s) \/ CallUnlocked(w, s) \/ CallLocked(w, s)
       \/ ForkReserve(w, s) \/ ForkNoSlot(w, s)
       \/ Exit(w, s) \/ Fault(w, s) \/ ExecBotched(w, s)
       \/ WaitReap(w, s) \/ WaitPark(w, s)

Fork(w) == ForkCreate(w) \/ ForkRefused(w)

Finish(w) == TeardownSlot(w) \/ Leave(w)

Next ==
  \/ \E p \in Pids : Trap(p)
  \/ \E w \in Workers, p \in Pids : Receive(w, p)
  \/ \E w \in Workers : \/ Handle(w) \/ Fork(w) \/ HostReturn(w)
                        \/ Reply(w) \/ CheckDone(w) \/ Finish(w)
  \/ Finished

\* The workers are host threads and keep running; a mutex that is released over
\* and over is obtained and a queued message is received in the end (the port
\* is a FIFO); a host call returns.  A guest declared dead is taken to trap again
\* in the end, as one with nothing at its eip must, rather than to run for ever.
Fairness ==
  /\ \A w \in Workers :
       /\ SF_vars(Handle(w)) /\ SF_vars(HostReturn(w))
       /\ WF_vars(Fork(w)) /\ WF_vars(Reply(w)) /\ WF_vars(CheckDone(w))
       /\ WF_vars(Finish(w))
  /\ \A p \in Pids :
       /\ SF_vars(\E w \in Workers : Receive(w, p))
       /\ WF_vars(Doomed(p) /\ Trap(p))

Spec == Init /\ [][Next]_vars

FairSpec == Spec /\ Fairness

-----------------------------------------------------------------------------
(* What must hold                                                          *)

\* Worker w has the exception of guest p and owes it an answer.
Holds(w, p) ==
  /\ wpc[w] \in {"handler", "fork", "hostcall", "heldcall", "reply"}
  /\ msg[w] = p

\* Guest p is parked in wait4: its answer is kept until a child exits.
Parked(p) == \E s \in Slots : procs[s].used /\ procs[s].pid = p
                              /\ procs[s].waiting

\* A guest declared dead by execve whose slot has been taken from it.
Abandoned(p) ==
  Doomed(p) /\ \A s \in Slots : ~(procs[s].used /\ procs[s].pid = p)

\* The bookkeeping the other invariants rest on, one part each.

\* The mutex is kept between steps only inside fork and inside a host call
\* that does not release it, and by one worker.
LockOwned ==
  \A w \in Workers : wpc[w] \in {"fork", "heldcall"} <=> lock = w

\* A process number names one slot, and one not given out yet names none:
\* proc_by_task, wait4 and the wake-up in proc_exited all search by it.
UniquePids ==
  /\ \A s, r \in Slots : procs[s].used /\ procs[r].used
                         /\ procs[s].pid = procs[r].pid => s = r
  /\ \A s \in Slots : procs[s].used => procs[s].pid \in 1..(nextPid - 1)

\* The root process keeps its slot: nobody can wait for it.
RootKept == procs[Root].used /\ procs[Root].pid = 1 /\ procs[Root].ppid = NoPid

\* A number not given out has no thread.  Between the halves of fork the last
\* one is the caller's child and has a slot and no thread.
ForkPending ==
  /\ \A p \in Pids : p >= nextPid => thread[p] = "none"
  /\ \A w \in Workers : wpc[w] = "fork" =>
        /\ nextPid > 1
        /\ thread[nextPid - 1] = "none"
        /\ \A s \in Slots : procs[s].used /\ procs[s].pid = nextPid - 1
                              => procs[s].ppid = msg[w]

\* A process declared dead whose thread is not gone is one execve tore down:
\* in every other case death takes the thread with it.
DeadThreads ==
  \A s \in Slots : procs[s].used /\ ~procs[s].alive =>
     thread[procs[s].pid] = "dead" \/ Doomed(procs[s].pid)

\* Only the living wait, and those execve has declared dead.
ParkedAlive ==
  \A s \in Slots : procs[s].used /\ procs[s].waiting =>
     procs[s].alive \/ Doomed(procs[s].pid)

\* The table, the mutex and the threads agree.
ServerInv ==
  LockOwned /\ UniquePids /\ RootKept /\ ForkPending /\ DeadThreads
    /\ ParkedAlive

\* A guest's exception is in one place: queued on the port, with one worker,
\* or withheld by wait4.  While the guest runs it is in none of them.  So no
\* stopped guest is forgotten and no exception is answered twice.  The exception
\* is a guest that execve declared dead: its slot, and with it an answer kept in
\* it, can be taken by its own parent's wait4.
OneOwner ==
  /\ \A p \in Pids : thread[p] = "trapped" =>
        \/ p \in port
        \/ Parked(p)
        \/ \E w \in Workers : Holds(w, p)
        \/ Abandoned(p)
  /\ \A p \in port : thread[p] \in {"trapped", "dead"} /\ ~Parked(p)
  /\ \A w \in Workers, p \in Pids : Holds(w, p) =>
        /\ thread[p] \in {"trapped", "dead"}
        /\ ~Parked(p)
        /\ p \notin port
        /\ \A v \in Workers : Holds(v, p) => v = w
  /\ \A p \in Pids : Parked(p) => thread[p] \in {"trapped", "dead"}

\* While a worker is inside a host call or between the two halves of fork, its
\* caller keeps its slot, live: the `cur` pointer it goes on using, after having
\* given the mutex up, cannot come to point at a freed or reused slot.  A guest
\* that execve declared dead keeps it only while the mutex is kept as well.
CallerKept ==
  \A w \in Workers :
     wpc[w] \in {"fork", "heldcall"} \/ (wpc[w] = "hostcall" /\ ~Doomed(msg[w]))
     => \E s \in Slots : /\ procs[s].used
                         /\ procs[s].pid = msg[w]
                         /\ procs[s].alive \/ Doomed(msg[w])

\* Exits lose no wake-up: if a parent is parked in wait4 next to a matching
\* child that is dead, execve has declared it dead and its thread is not gone.
NoLostWakeup ==
  \A q, c \in Slots :
     procs[c].used /\ ~procs[c].alive /\ WaitsFor(q, c)
       => Doomed(procs[c].pid) /\ thread[procs[c].pid] # "dead"

\* "A process has exited: tidy it up and wake a parent parked in wait4": a
\* parent parked next to a matching child that is dead is woken in the end.
WaiterWoken ==
  \A q, c \in Slots :
     (procs[c].used /\ ~procs[c].alive /\ WaitsFor(q, c)) ~> (~WaitsFor(q, c) \/ finished)

\* A parked parent always has a child its wait4 can still be answered for.
ParkedHasChild ==
  \A q \in Slots : procs[q].used /\ procs[q].waiting =>
     \E c \in Slots : IsChild(c, q, procs[q].waitFor)

\* When the root process has exited the emulator ends (serve: `if (guest_done)
\* finish(guest_status)`, "from whichever worker thread saw the root process
\* exit").
RootExitEnds == (guestStatus # -1) ~> finished

\* The emulator's exit status is the root process's.
ExitStatus == finished => guestStatus = procs[Root].status

\* finish() leaves no guest behind: when the emulator is gone, so is the thread
\* of every guest.
NoSurvivor ==
  finished => \A p \in Pids : thread[p] \in {"none", "dead"}

\* A stopped guest whose exception is not withheld by wait4 is answered, killed
\* or ended with the emulator.
ExceptionAnswered ==
  \A p \in Pids : (thread[p] = "trapped" /\ ~Parked(p))
                    ~> (thread[p] # "trapped" \/ Parked(p) \/ finished)

=============================================================================
