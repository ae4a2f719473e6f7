--------------------------- MODULE OryxServerLife ---------------------------
(***************************************************************************)
(* The process server implements the abstract life of a process when no    *)
(* execve fails after its teardown: the refinement mapping, and the        *)
(* invariants it needs beyond the server's own.                            *)
(***************************************************************************)
EXTENDS OryxServer

\* The life of the process numbered p, read off a table, the threads and what
\* parents were told.  A process exists once its thread does; a slot given back
\* by wait4 leaves what was told.  One that was told of and still has a slot
\* could be told of again: it has no life the abstract process could have come
\* to.
LifeIn(table, threads, told, p) ==
  LET S == {s \in Slots : table[s].used /\ table[s].pid = p}
      isTold == told[p] # NotCollected
      absent == [at |-> "absent", by |-> NoPid, st |-> 0]
  IN  CASE S # {} /\ ~isTold /\ threads[p] # "none" ->
             LET s == CHOOSE s \in S : TRUE
             IN  [at |-> IF table[s].alive THEN "live" ELSE "zombie",
                  by |-> table[s].ppid, st |-> table[s].status]
        [] S = {} /\ isTold ->
             [at |-> "collected", by |-> told[p][1], st |-> told[p][2]]
        [] OTHER -> absent

LifeOf(p) == LifeIn(procs, thread, collected, p)

Life == INSTANCE ProcLife WITH First <- 1,
                               life <- [p \in Pids |-> LifeOf(p)]

\* The server implements the abstract process: a status is reported once, to
\* the parent, as the child gave it; nothing else ever changes a dead process.
ImplementsLife == Life!Spec

-----------------------------------------------------------------------------
(* What the implementation rests on, one part each                         *)

\* No execve has declared a guest dead.
ProgramKept == \A p \in Pids : ~Doomed(p)

\* A status is written when a process dies and not before.
StatusAtDeath == \A s \in Slots : procs[s].used /\ procs[s].alive
                                    => procs[s].status = 0

\* A process wait4 told a parent of had a thread and has no slot left.
ToldGone ==
  \A p \in Pids : collected[p] # NotCollected =>
    /\ thread[p] # "none"
    /\ \A s \in Slots : procs[s].used => procs[s].pid # p

\* guest_done is set together with guest_status, and only finish() follows it.
DoneStatus ==
  /\ guestDone => guestStatus = procs[Root].status
  /\ finished => guestDone
  /\ \A w \in Workers : wpc[w] = "teardown" => guestDone

LifeInv == ProgramKept /\ StatusAtDeath /\ ToldGone /\ DoneStatus
=============================================================================
