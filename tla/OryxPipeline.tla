---------------------------- MODULE OryxPipeline ----------------------------
(***************************************************************************)
(* A pipeline `a | b | ... ` of guests under linux-personality/oryxlinux.c *)
(* and the pool of workers that serves it.                                 *)
(*                                                                         *)
(* OryxServer has the workers, the table and any program; here the guests  *)
(* are a shell and the stages it has forked, their reads and writes really *)
(* block, and the question is whether the pipeline comes to its end.  A    *)
(* worker is not told from another: what matters is how many are busy.     *)
(* The mutex is free between steps, because each step that needs it takes  *)
(* and releases it.                                                        *)
(***************************************************************************)
EXTENDS Integers, FiniteSets

CONSTANTS
  Stages,    \* how many programs the pipeline has
  NWorkers,  \* NWORKERS
  Cap,       \* how many items a pipe holds
  Items,     \* how many items the first stage writes
  EarlyExit  \* whether the last stage may stop before its input ends (head)

ASSUME PipelineAssumption ==
  /\ Stages \in Nat /\ Stages >= 2
  /\ NWorkers \in Nat \ {0}
  /\ Cap \in Nat \ {0}
  /\ Items \in Nat \ {0}
  /\ EarlyExit \in BOOLEAN

Shell == 0
Stage == 1..Stages
Guests == {Shell} \cup Stage
Pipes == 1..(Stages - 1)        \* pipe i is written by stage i
In(g) == g - 1
Out(g) == g

VARIABLES
  at,       \* how far each guest's exception is on its way
  prog,     \* the call each guest's program makes next, or is making
  readers,  \* who has the read end of each pipe open
  writers,  \* who has its write end open
  fill,     \* how many items each pipe holds
  source,   \* how many items the first stage has still to write
  sink,     \* how many items the last stage has read
  reaped,   \* the stages the shell's wait4 has told it of
  killed    \* the emulator has been killed by SIGPIPE

vars == <<at, prog, readers, writers, fill, source, sink, reaped, killed>>

\* The guests that have a worker: from mach_msg until the reply is sent.
Busy == {g \in Guests : at[g] \in {"handler", "hostcall", "reply"}}

TypeOK ==
  /\ at \in [Guests -> {"running", "port", "handler", "hostcall", "reply",
                        "parked", "gone"}]
  /\ prog \in [Guests -> {"close", "wait", "read", "write", "exit", "gone"}]
  /\ readers \in [Pipes -> SUBSET Guests]
  /\ writers \in [Pipes -> SUBSET Guests]
  /\ fill \in [Pipes -> 0..Cap]
  /\ source \in 0..Items
  /\ sink \in 0..Items
  /\ reaped \in SUBSET Stage
  /\ killed \in BOOLEAN
  /\ Cardinality(Busy) <= NWorkers

\* The shell has forked its stages and has still to close its own copies of
\* the pipes; each stage has closed the ends it does not use.
Init ==
  /\ at = [g \in Guests |-> "running"]
  /\ prog = [g \in Guests |-> CASE g = Shell -> "close"
                                [] g = 1     -> "write"
                                [] OTHER     -> "read"]
  /\ readers = [p \in Pipes |-> {Shell, p + 1}]
  /\ writers = [p \in Pipes |-> {Shell, p}]
  /\ fill = [p \in Pipes |-> 0]
  /\ source = Items
  /\ sink = 0
  /\ reaped = {}
  /\ killed = FALSE

\* The root's exit ends the emulator, as a signal does.
Ended == killed \/ prog[Shell] = "gone"

Goto(g, where) == at' = [at EXCEPT ![g] = where]

-----------------------------------------------------------------------------
(* The port and the pool                                                   *)

\* The guest makes its next call.
Trap(g) ==
  /\ ~Ended
  /\ at[g] = "running"
  /\ Goto(g, "port")
  /\ UNCHANGED <<prog, readers, writers, fill, source, sink, reaped, killed>>

\* Mutant: one server thread.
ReceiveSingle(g) ==
  /\ ~Ended
  /\ at[g] = "port"
  /\ Busy = {}
  /\ Goto(g, "handler")
  /\ UNCHANGED <<prog, readers, writers, fill, source, sink, reaped, killed>>

\* Mutant: one worker more than there are threads.
ReceiveOneMore(g) ==
  /\ ~Ended
  /\ at[g] = "port"
  /\ Cardinality(Busy) <= NWorkers
  /\ Goto(g, "handler")
  /\ UNCHANGED <<prog, readers, writers, fill, source, sink, reaped, killed>>

\* A worker that is in mach_msg takes the message.
Receive(g) ==
  /\ ~Ended
  /\ at[g] = "port"
  /\ Cardinality(Busy) < NWorkers
  /\ Goto(g, "handler")
  /\ UNCHANGED <<prog, readers, writers, fill, source, sink, reaped, killed>>

\* Its worker answers the guest and goes back to the port; an exited guest is
\* not there to be resumed.
Reply(g) ==
  /\ ~Ended
  /\ at[g] = "reply"
  /\ Goto(g, IF prog[g] = "gone" THEN "gone" ELSE "running")
  /\ UNCHANGED <<prog, readers, writers, fill, source, sink, reaped, killed>>

-----------------------------------------------------------------------------
(* read and write                                                          *)

HasEnd(g) == IF prog[g] = "read" THEN g \in readers[In(g)]
                                 ELSE g \in writers[Out(g)]

\* The handler looks the descriptor up and gives the mutex up for the host
\* call; EBADF makes the program give up.
BeginIO(g) ==
  /\ ~Ended
  /\ at[g] = "handler"
  /\ prog[g] \in {"read", "write"}
  /\ Goto(g, IF HasEnd(g) THEN "hostcall" ELSE "reply")
  /\ prog' = [prog EXCEPT ![g] = IF HasEnd(g) THEN @ ELSE "exit"]
  /\ UNCHANGED <<readers, writers, fill, source, sink, reaped, killed>>

\* The host's read returns with an item; a stage passes it on, the last one
\* counts it and may be content.
HostRead(g) ==
  /\ ~Ended
  /\ at[g] = "hostcall"
  /\ prog[g] = "read"
  /\ fill[In(g)] > 0
  /\ fill' = [fill EXCEPT ![In(g)] = @ - 1]
  /\ IF g = Stages
       THEN /\ sink' = sink + 1
            /\ \/ UNCHANGED prog
               \/ EarlyExit /\ prog' = [prog EXCEPT ![g] = "exit"]
       ELSE prog' = [prog EXCEPT ![g] = "write"] /\ UNCHANGED sink
  /\ Goto(g, "reply")
  /\ UNCHANGED <<readers, writers, source, reaped, killed>>

\* It returns with the end of file once nobody has the write end open.
HostEof(g) ==
  /\ ~Ended
  /\ at[g] = "hostcall"
  /\ prog[g] = "read"
  /\ fill[In(g)] = 0
  /\ writers[In(g)] = {}
  /\ prog' = [prog EXCEPT ![g] = "exit"]
  /\ Goto(g, "reply")
  /\ UNCHANGED <<readers, writers, fill, source, sink, reaped, killed>>

\* The host's write returns once there is room.
HostWrite(g) ==
  /\ ~Ended
  /\ at[g] = "hostcall"
  /\ prog[g] = "write"
  /\ readers[Out(g)] # {}
  /\ fill[Out(g)] < Cap
  /\ fill' = [fill EXCEPT ![Out(g)] = @ + 1]
  /\ source' = IF g = 1 THEN source - 1 ELSE source
  /\ prog' = [prog EXCEPT ![g] = IF g # 1 THEN "read"
                                 ELSE IF source = 1 THEN "exit" ELSE "write"]
  /\ Goto(g, "reply")
  /\ UNCHANGED <<readers, writers, sink, reaped, killed>>

\* A write to a pipe nobody reads raises SIGPIPE in the thread that makes it,
\* and that is the emulator, which nowhere ignores it.
BrokenPipe(g) ==
  /\ ~Ended
  /\ at[g] = "hostcall"
  /\ prog[g] = "write"
  /\ readers[Out(g)] = {}
  /\ killed' = TRUE
  /\ UNCHANGED <<at, prog, readers, writers, fill, source, sink, reaped>>

-----------------------------------------------------------------------------
(* close, exit and wait4                                                   *)

\* Mutant: one descriptor table for all guests.
CloseShared(p) ==
  /\ ~Ended
  /\ at[Shell] = "handler"
  /\ prog[Shell] = "close"
  /\ \/ /\ Shell \in readers[p]
        /\ readers' = [readers EXCEPT ![p] = {}]
        /\ UNCHANGED writers
     \/ /\ Shell \in writers[p]
        /\ writers' = [writers EXCEPT ![p] = {}]
        /\ UNCHANGED readers
  /\ Goto(Shell, "reply")
  /\ prog' = [prog EXCEPT ![Shell] =
                IF \E q \in Pipes : Shell \in readers'[q] \cup writers'[q]
                  THEN "close" ELSE "wait"]
  /\ UNCHANGED <<fill, source, sink, reaped, killed>>

\* The shell closes one of its copies, and waits when it has none left.
Close(p) ==
  /\ ~Ended
  /\ at[Shell] = "handler"
  /\ prog[Shell] = "close"
  /\ \/ /\ Shell \in readers[p]
        /\ readers' = [readers EXCEPT ![p] = @ \ {Shell}]
        /\ UNCHANGED writers
     \/ /\ Shell \in writers[p]
        /\ writers' = [writers EXCEPT ![p] = @ \ {Shell}]
        /\ UNCHANGED readers
  /\ Goto(Shell, "reply")
  /\ prog' = [prog EXCEPT ![Shell] =
                IF \E q \in Pipes : Shell \in readers'[q] \cup writers'[q]
                  THEN "close" ELSE "wait"]
  /\ UNCHANGED <<fill, source, sink, reaped, killed>>

\* The stages that have exited and that the shell has not been told of.
Zombies == {g \in Stage : prog[g] = "gone"} \ reaped

\* Mutant: wait4 blocks its worker instead of withholding the reply.
WaitBlocks ==
  /\ ~Ended
  /\ at[Shell] = "handler"
  /\ prog[Shell] = "wait"
  /\ Zombies = {}
  /\ reaped # Stage
  /\ Goto(Shell, "hostcall")
  /\ UNCHANGED <<prog, readers, writers, fill, source, sink, reaped, killed>>

\* wait4 on any child: the shell is told of one, or parked without a worker,
\* or has none left (ECHILD) and exits.
Wait ==
  /\ ~Ended
  /\ at[Shell] = "handler"
  /\ prog[Shell] = "wait"
  /\ \/ /\ Zombies # {}
        /\ \E g \in Zombies : reaped' = reaped \cup {g}
        /\ Goto(Shell, "reply")
        /\ UNCHANGED prog
     \/ /\ Zombies = {}
        /\ reaped # Stage
        /\ Goto(Shell, "parked")
        /\ UNCHANGED <<prog, reaped>>
     \/ /\ reaped = Stage
        /\ prog' = [prog EXCEPT ![Shell] = "exit"]
        /\ Goto(Shell, "reply")
        /\ UNCHANGED reaped
  /\ UNCHANGED <<readers, writers, fill, source, sink, killed>>

\* exit: fd_closeall, and the shell is told if it is parked.
Exit(g) ==
  /\ ~Ended
  /\ at[g] = "handler"
  /\ prog[g] = "exit"
  /\ prog' = [prog EXCEPT ![g] = "gone"]
  /\ readers' = [p \in Pipes |-> readers[p] \ {g}]
  /\ writers' = [p \in Pipes |-> writers[p] \ {g}]
  /\ IF g # Shell /\ at[Shell] = "parked"
       THEN /\ at' = [at EXCEPT ![g] = "reply", ![Shell] = "running"]
            /\ reaped' = reaped \cup {g}
       ELSE Goto(g, "reply") /\ UNCHANGED reaped
  /\ UNCHANGED <<fill, source, sink, killed>>

Finished == Ended /\ UNCHANGED vars

\* What becomes of the call of a guest that has a worker.
Serve(g) ==
  \/ BeginIO(g) \/ HostRead(g) \/ HostEof(g) \/ HostWrite(g) \/ BrokenPipe(g)
  \/ g = Shell /\ (Wait \/ \E p \in Pipes : Close(p))
  \/ Exit(g) \/ Reply(g)

Next ==
  \/ \E g \in Guests : Trap(g) \/ Receive(g) \/ Serve(g)
  \/ Finished

\* The programs of a pipeline compute for a while and make their next call; the
\* port is a FIFO; a worker runs on unless the host blocks it.
Fairness ==
  \A g \in Guests : WF_vars(Trap(g)) /\ SF_vars(Receive(g)) /\ WF_vars(Serve(g))

Spec == Init /\ [][Next]_vars

FairSpec == Spec /\ Fairness

-----------------------------------------------------------------------------
(* What must hold                                                          *)

\* The host call a guest's worker is in can return.
CanReturn(g) ==
  \/ at[g] # "hostcall"
  \/ prog[g] = "read" /\ (fill[In(g)] > 0 \/ writers[In(g)] = {})
  \/ prog[g] = "write" /\ (fill[Out(g)] < Cap \/ readers[Out(g)] = {})

\* While a call waits on the port, a worker is free or will be: the pool is
\* never used up by calls that wait for one another ("Extra workers so a guest
\* blocked in read() cannot stall the rest").
WorkerLeft ==
  (\E g \in Guests : at[g] = "port") /\ ~Ended =>
    Cardinality(Busy) < NWorkers \/ \E g \in Busy : CanReturn(g)

\* Nothing is lost or cut short: once nobody has the write end of the last pipe
\* open, so that the last stage will be told of the end of file, every item has
\* been read or is in that pipe ("a close in the child must not disturb the
\* parent", nor the other way round).
Complete ==
  writers[Stages - 1] = {} => sink + fill[Stages - 1] = Items

\* The emulator ends when the root process does, and a write that no one will
\* read is the writer's affair (errno_to_linux has an EPIPE for it).
EndsWithRoot == Ended => prog[Shell] = "gone"

\* A pipeline ends, whatever order its calls are served in.
PipelineEnds == <>Ended

=============================================================================
