------------------------------ MODULE ProcLife ------------------------------
(***************************************************************************)
(* What the process server promises a guest: the life of a Unix process.   *)
(* A process is forked by a live parent, exits once with one status, and   *)
(* only its parent is told, once, and told that status.                    *)
(***************************************************************************)
EXTENDS Integers

CONSTANTS
  Pids,        \* the process numbers
  First,       \* the one that is not forked
  Status       \* the exit statuses

VARIABLE life

\* `by` is the parent, or whoever was told; `st` is the exit status.
Lives == [at : {"absent", "live", "zombie", "collected"},
          by : Pids \cup {0}, st : Status \cup {0}]

Absent == [at |-> "absent", by |-> 0, st |-> 0]
Live(p) == [at |-> "live", by |-> p, st |-> 0]
Zombie(p, s) == [at |-> "zombie", by |-> p, st |-> s]
Collected(p, s) == [at |-> "collected", by |-> p, st |-> s]

Init == life = [p \in Pids |-> IF p = First THEN Live(0) ELSE Absent]

Fork(p, c) ==
  /\ life[p].at = "live"
  /\ life[c] = Absent
  /\ life' = [life EXCEPT ![c] = Live(p)]

Exit(p, s) ==
  /\ life[p].at = "live"
  /\ life' = [life EXCEPT ![p] = Zombie(life[p].by, s)]

\* The parent asks after its child has exited ...
Collect(p, c) ==
  /\ life[p].at = "live"
  /\ life[c].at = "zombie"
  /\ life[c].by = p
  /\ life' = [life EXCEPT ![c] = Collected(p, life[c].st)]

\* ... or is waiting when it does.
ExitTo(p, c, s) ==
  /\ life[p].at = "live"
  /\ life[c].at = "live"
  /\ life[c].by = p
  /\ life' = [life EXCEPT ![c] = Collected(p, s)]

Next ==
  \E p \in Pids :
    \/ \E s \in Status : Exit(p, s)
    \/ \E c \in Pids : \/ Fork(p, c)
                       \/ Collect(p, c)
                       \/ \E s \in Status : ExitTo(p, c, s)

Spec == Init /\ [][Next]_life
=============================================================================
