------------------------ MODULE OryxServerLife_proofs ------------------------
(***************************************************************************)
(* The process server implements the life of a process, and ends with the  *)
(* root's status, for every size of the table, number of workers and set   *)
(* of exit codes, as long as no execve fails after its teardown.           *)
(*                                                                         *)
(* The life of a process is read from four things: its slot, whether it    *)
(* has a thread, and what was told of it.  The lemmas of the first part    *)
(* say what is read from a table of a given shape, whatever the table;     *)
(* they are used on the state before a step and on the one after.  The     *)
(* second part says what each step changes of those things, the third      *)
(* maps the step to the abstract one.                                      *)
(***************************************************************************)
EXTENDS OryxServerLife, OryxServer_proofs

-----------------------------------------------------------------------------
(* Reading a life                                                          *)

\* Slot s of table T is the one that holds the process numbered p.
Slot(T, s, p) == /\ T[s].used /\ T[s].pid = p
                 /\ \A r \in Slots : T[r].used /\ T[r].pid = p => r = s

\* No slot of table T holds it.
NoSlot(T, p) == \A r \in Slots : ~(T[r].used /\ T[r].pid = p)

\* A process with a slot and a thread lives or is a zombie.
LEMMA LifeRead ==
  ASSUME NEW T, NEW H, NEW C, NEW p, NEW s \in Slots, Slot(T, s, p),
         C[p] = NotCollected, H[p] # "none"
  PROVE  LifeIn(T, H, C, p) =
           [at |-> IF T[s].alive THEN "live" ELSE "zombie",
            by |-> T[s].ppid, st |-> T[s].status]
<1> DEFINE S == {r \in Slots : T[r].used /\ T[r].pid = p}
<1>1. S = {s}
  BY DEF Slot
<1>2. (CHOOSE r \in S : TRUE) = s
  BY <1>1
<1>3. S # {}
  BY <1>1
<1> HIDE DEF S
<1>4. QED
  BY <1>2, <1>3 DEF LifeIn, S

\* A process that was told of and has no slot is collected.
LEMMA LifeTold ==
  ASSUME NEW T, NEW H, NEW C, NEW p, NoSlot(T, p), C[p] # NotCollected
  PROVE  LifeIn(T, H, C, p) =
           [at |-> "collected", by |-> C[p][1], st |-> C[p][2]]
<1> DEFINE S == {r \in Slots : T[r].used /\ T[r].pid = p}
<1>1. S = {}
  BY DEF NoSlot
<1> HIDE DEF S
<1>2. QED
  BY <1>1 DEF LifeIn, S

\* A process without a thread, or without a slot, of which nobody was told
\* has no life.
LEMMA LifeAbsent ==
  ASSUME NEW T, NEW H, NEW C, NEW p, C[p] = NotCollected,
         H[p] = "none" \/ NoSlot(T, p)
  PROVE  LifeIn(T, H, C, p) = [at |-> "absent", by |-> NoPid, st |-> 0]
<1> DEFINE S == {r \in Slots : T[r].used /\ T[r].pid = p}
<1>1. H[p] = "none" \/ S = {}
  BY DEF NoSlot
<1> HIDE DEF S
<1>2. QED
  BY <1>1 DEF LifeIn, S

\* What a life is read from: two tables with the same processes, with and
\* without a thread alike, of which the same was told, show the same lives.
SameSlot(T, U, r) ==
  /\ T[r].used = U[r].used
  /\ T[r].used => /\ T[r].pid = U[r].pid /\ T[r].ppid = U[r].ppid
                  /\ T[r].alive = U[r].alive /\ T[r].status = U[r].status

LEMMA LifeSame ==
  ASSUME NEW T, NEW H, NEW C, NEW U, NEW I, NEW D, NEW p,
         C[p] = D[p], (H[p] = "none") <=> (I[p] = "none"),
         \A r \in Slots : \/ SameSlot(T, U, r)
                          \/ /\ ~(T[r].used /\ T[r].pid = p)
                             /\ ~(U[r].used /\ U[r].pid = p)
  PROVE  LifeIn(T, H, C, p) = LifeIn(U, I, D, p)
<1> DEFINE S == {r \in Slots : T[r].used /\ T[r].pid = p}
           R == {r \in Slots : U[r].used /\ U[r].pid = p}
<1>1. S = R
  BY DEF SameSlot
<1>2. \A r \in S : /\ T[r].ppid = U[r].ppid
                   /\ T[r].alive = U[r].alive /\ T[r].status = U[r].status
  BY DEF SameSlot
<1>3. S # {} => (CHOOSE r \in S : TRUE) \in S
  OBVIOUS
<1> DEFINE c == CHOOSE r \in S : TRUE
<1>4. S # {} => /\ T[c].ppid = U[c].ppid
                /\ T[c].alive = U[c].alive /\ T[c].status = U[c].status
  BY <1>2, <1>3
<1>5. c = CHOOSE r \in R : TRUE
  BY <1>1
<1>6. LifeIn(T, H, C, p) =
        CASE S # {} /\ ~(C[p] # NotCollected) /\ H[p] # "none" ->
               [at |-> IF T[c].alive THEN "live" ELSE "zombie",
                by |-> T[c].ppid, st |-> T[c].status]
          [] S = {} /\ C[p] # NotCollected ->
               [at |-> "collected", by |-> C[p][1], st |-> C[p][2]]
          [] OTHER -> [at |-> "absent", by |-> NoPid, st |-> 0]
  BY DEF LifeIn
<1>7. LifeIn(U, I, D, p) =
        CASE S # {} /\ ~(D[p] # NotCollected) /\ I[p] # "none" ->
               [at |-> IF U[c].alive THEN "live" ELSE "zombie",
                by |-> U[c].ppid, st |-> U[c].status]
          [] S = {} /\ D[p] # NotCollected ->
               [at |-> "collected", by |-> D[p][1], st |-> D[p][2]]
          [] OTHER -> [at |-> "absent", by |-> NoPid, st |-> 0]
  BY <1>1, <1>5 DEF LifeIn
<1> HIDE DEF S, R, c
<1>8. QED
  BY <1>4, <1>6, <1>7

-----------------------------------------------------------------------------
(* What a step changes of the lives                                        *)

LInv == IInv /\ LifeInv

\* The steps that may write a thread.
LEMMA ThreadWriters ==
  ASSUME [Next]_vars
  PROVE  \/ thread' = thread
         \/ \E w \in Workers, s \in Slots : Exit(w, s) \/ Fault(w, s)
         \/ \E w \in Workers : Reply(w) \/ TeardownSlot(w) \/ ForkCreate(w)
         \/ \E p \in Pids : Trap(p)
<1>1. ASSUME NEW w \in Workers, Handle(w)
      PROVE  \/ thread' = thread
             \/ \E s \in Slots : Exit(w, s) \/ Fault(w, s)
  BY <1>1 DEF Handle, Unserved, PlainCall, CallUnlocked, CallLocked,
     ForkReserve, ForkNoSlot, ExecBotched, WaitReap, WaitPark
<1>2. ASSUME NEW w \in Workers,
             \/ Fork(w) \/ Finish(w) \/ HostReturn(w) \/ CheckDone(w)
             \/ \E p \in Pids : Receive(w, p)
      PROVE  \/ thread' = thread
             \/ TeardownSlot(w) \/ ForkCreate(w)
  BY <1>2 DEF Fork, ForkRefused, Finish, Leave, HostReturn, CheckDone, Receive
<1>3. CASE UNCHANGED vars
  BY <1>3 DEF vars
<1>4. QED
  BY <1>1, <1>2, <1>3 DEF Next, Finished

\* A thread, once there, does not become none again: it is killed.
LEMMA ThreadKept ==
  ASSUME IInv, [Next]_vars, NEW p \in Pids, thread[p] # "none"
  PROVE  thread'[p] # "none"
<1>1. TypeOK /\ thread \in [Pids -> {"none", "running", "trapped", "dead"}]
  BY DEF IInv, TypeOK
<1>2. ASSUME NEW s \in Slots, NEW st, ProcExited(s, st)
      PROVE  thread'[p] # "none"
  BY <1>1, <1>2 DEF ProcExited, WaitComplete, Resumed
<1>3. ASSUME NEW w \in Workers, NEW s \in Slots, Exit(w, s) \/ Fault(w, s)
      PROVE  thread'[p] # "none"
  BY <1>2, <1>3 DEF Exit, Fault
<1>4. ASSUME NEW w \in Workers, Reply(w) PROVE thread'[p] # "none"
  BY <1>1, <1>4 DEF Reply, Resumed
<1>5. ASSUME NEW w \in Workers, TeardownSlot(w) PROVE thread'[p] # "none"
  BY <1>1, <1>5 DEF TeardownSlot
<1>6. ASSUME NEW w \in Workers, ForkCreate(w) PROVE thread'[p] # "none"
  BY <1>1, <1>6 DEF ForkCreate
<1>7. ASSUME NEW g \in Pids, Trap(g) PROVE thread'[p] # "none"
  BY <1>1, <1>7 DEF Trap
<1>8. CASE thread' = thread
  BY <1>8
<1>9. QED
  BY <1>3, <1>4, <1>5, <1>6, <1>7, <1>8, ThreadWriters

\* Only fork's second half gives a process its thread.
LEMMA ThreadNew ==
  ASSUME IInv, [Next]_vars, ~ \E w \in Workers : ForkCreate(w), NEW p \in Pids
  PROVE  (thread[p] = "none") <=> (thread'[p] = "none")
BY ThreadKept, ThreadChange

\* A process the server works for is alive and has a life to change.
LEMMA ServedLife ==
  ASSUME LInv, NEW w \in Workers, NEW s \in Slots, Serving(w, s)
  PROVE  /\ Slot(procs, s, msg[w])
         /\ msg[w] \in Pids
         /\ procs[s].alive
         /\ collected[msg[w]] = NotCollected
         /\ thread[msg[w]] = "trapped"
<1>1. /\ IInv /\ procs[s].used /\ procs[s].pid = msg[w] /\ msg[w] \in Pids
      /\ thread[msg[w]] = "trapped"
      /\ procs[s].alive \/ Doomed(msg[w])
  BY ServingFacts DEF LInv
<1>2. ~Doomed(msg[w])
  BY <1>1 DEF LInv, LifeInv, ProgramKept
<1>3. Slot(procs, s, msg[w])
  BY <1>1 DEF Slot, IInv, ServerInv, UniquePids
<1>4. collected[msg[w]] = NotCollected
  BY <1>1 DEF LInv, LifeInv, ToldGone
<1>5. QED
  BY <1>1, <1>2, <1>3, <1>4

\* proc_exited changes the life of one process: it is a zombie with the given
\* status, or has no slot and its parent was told the status.
Dies(s, c, st) ==
  /\ \A r \in Slots \ {s} : SameSlot(procs', procs, r)
  /\ procs'[s].used /\ procs'[s].pid = c /\ procs'[s].ppid = procs[s].ppid
  /\ ~procs'[s].alive /\ procs'[s].status = st
  /\ collected' = collected

DiesTold(s, q, c, st) ==
  /\ \A r \in Slots \ {s} : SameSlot(procs', procs, r)
  /\ ~procs'[s].used
  /\ q # s /\ WaitsFor(q, s)
  /\ collected' = [collected EXCEPT ![c] = <<procs[q].pid, st>>]

LEMMA ExitedLife ==
  ASSUME LInv, NEW w \in Workers, NEW s \in Slots, NEW st \in Status,
         Serving(w, s), ProcExited(s, st)
  PROVE  \/ Dies(s, msg[w], st)
         \/ \E q \in Slots : DiesTold(s, q, msg[w], st)
<1>1. /\ procs \in [Slots -> Proc] /\ procs[s].used /\ procs[s].pid = msg[w]
      /\ ~procs[s].waiting
  BY ServingFacts DEF LInv, IInv, TypeOK
<1>2. CASE /\ procs' = [procs EXCEPT ![s].alive = FALSE, ![s].status = st]
           /\ collected' = collected
  <2>1. procs'[s] = [procs[s] EXCEPT !.alive = FALSE, !.status = st]
    BY <1>1, <1>2
  <2>2. /\ procs'[s].used = procs[s].used /\ procs'[s].pid = procs[s].pid
        /\ procs'[s].ppid = procs[s].ppid
        /\ ~procs'[s].alive /\ procs'[s].status = st
    BY <1>1, <2>1 DEF Proc
  <2>3. \A r \in Slots \ {s} : procs'[r] = procs[r]
    BY <1>1, <1>2
  <2>4. QED
    BY <1>1, <1>2, <2>2, <2>3 DEF Dies, SameSlot
<1>3. ASSUME NEW q \in Slots, WaitsFor(q, s), WaitComplete(q, s, st)
      PROVE  DiesTold(s, q, msg[w], st)
  <2>1. /\ procs' = [procs EXCEPT ![q].waiting = FALSE, ![s] = NoProc]
        /\ collected' = [collected EXCEPT ![msg[w]] = <<procs[q].pid, st>>]
    BY <1>1, <1>3 DEF WaitComplete
  <2>2. q # s
    BY <1>1, <1>3 DEF WaitsFor
  <2>3. /\ ~procs'[s].used
        /\ procs'[q] = [procs[q] EXCEPT !.waiting = FALSE]
        /\ \A r \in Slots \ {s, q} : procs'[r] = procs[r]
    BY <1>1, <2>1, <2>2 DEF NoProc
  <2>4. SameSlot(procs', procs, q)
    BY <1>1, <2>3 DEF SameSlot, Proc
  <2>5. \A r \in Slots \ {s} : SameSlot(procs', procs, r)
    BY <2>3, <2>4 DEF SameSlot
  <2>6. QED
    BY <1>3, <2>1, <2>2, <2>3, <2>5 DEF DiesTold
<1>4. QED
  BY <1>2, <1>3 DEF ProcExited

\* wait4 takes the slot of a dead child and tells its caller.
LEMMA ReapedLife ==
  ASSUME LInv, NEW w \in Workers, NEW s \in Slots, WaitReap(w, s)
  PROVE  \E c \in Slots :
           /\ c # s
           /\ procs[c].used /\ ~procs[c].alive /\ procs[c].ppid = msg[w]
           /\ ~procs'[c].used
           /\ \A r \in Slots \ {c} : SameSlot(procs', procs, r)
           /\ collected' = [collected EXCEPT
                             ![procs[c].pid] = <<msg[w], procs[c].status>>]
<1>1. /\ procs \in [Slots -> Proc] /\ procs[s].pid = msg[w] /\ procs[s].alive
  BY ServedLife DEF LInv, IInv, TypeOK, WaitReap, Syscall, Serving
<1>2. PICK c \in Slots :
        /\ procs[c].used /\ ~procs[c].alive /\ procs[c].ppid = procs[s].pid
        /\ procs' = [procs EXCEPT ![c] = NoProc]
        /\ collected' = [collected EXCEPT
                          ![procs[c].pid] = <<procs[s].pid, procs[c].status>>]
  BY DEF WaitReap, IsChild
<1>3. /\ ~procs'[c].used
      /\ \A r \in Slots \ {c} : SameSlot(procs', procs, r)
  BY <1>1, <1>2 DEF NoProc, SameSlot
<1>4. QED
  BY <1>1, <1>2, <1>3

\* A process that is dead in the table has lost its thread, which is therefore
\* not none.
LEMMA ZombieThread ==
  ASSUME LInv, NEW s \in Slots, procs[s].used
  PROVE  /\ procs[s].pid \in Pids
         /\ Slot(procs, s, procs[s].pid)
         /\ collected[procs[s].pid] = NotCollected
         /\ ~procs[s].alive => thread[procs[s].pid] = "dead"
<1>1. TypeOK /\ UniquePids /\ DeadThreads
  BY DEF LInv, IInv, ServerInv
<1>2. procs[s].pid \in Pids
  BY <1>1, UsedPid
<1>3. ~Doomed(procs[s].pid)
  BY <1>2 DEF LInv, LifeInv, ProgramKept
<1>4. Slot(procs, s, procs[s].pid)
  BY <1>1 DEF Slot, UniquePids
<1>5. collected[procs[s].pid] = NotCollected
  BY <1>2 DEF LInv, LifeInv, ToldGone
<1>6. QED
  BY <1>1, <1>2, <1>3, <1>4, <1>5 DEF DeadThreads

\* The steps that may write the table, tell a parent or set guest_done.
LEMMA LifeWriters ==
  ASSUME ~ExecCanFail, [Next]_vars
  PROVE  \/ UNCHANGED <<procs, collected, guestDone, guestStatus>>
         \/ \E w \in Workers, s \in Slots :
              \/ ForkReserve(w, s) \/ WaitReap(w, s) \/ WaitPark(w, s)
              \/ Exit(w, s) \/ Fault(w, s)
         \/ \E w \in Workers : ForkRefused(w)
<1>1. ASSUME NEW w \in Workers, Handle(w)
      PROVE  \/ UNCHANGED <<procs, collected, guestDone, guestStatus>>
             \/ \E s \in Slots :
                  \/ ForkReserve(w, s) \/ WaitReap(w, s) \/ WaitPark(w, s)
                  \/ Exit(w, s) \/ Fault(w, s)
  BY <1>1 DEF Handle, Unserved, PlainCall, CallUnlocked, CallLocked,
     ForkNoSlot, ExecBotched
<1>2. ASSUME NEW w \in Workers,
             \/ Fork(w) \/ Finish(w) \/ HostReturn(w) \/ CheckDone(w)
             \/ Reply(w) \/ \E p \in Pids : Receive(w, p)
      PROVE  UNCHANGED <<procs, collected, guestDone, guestStatus>> \/ ForkRefused(w)
  BY <1>2 DEF Fork, ForkCreate, Finish, Leave, TeardownSlot, HostReturn,
     CheckDone, Reply, Receive
<1>3. ASSUME NEW p \in Pids, Trap(p) PROVE UNCHANGED <<procs, collected, guestDone, guestStatus>>
  BY <1>3 DEF Trap
<1>4. CASE UNCHANGED vars
  BY <1>4 DEF vars
<1>5. QED
  BY <1>1, <1>2, <1>3, <1>4 DEF Next, Finished

AllSame == /\ \A r \in Slots : SameSlot(procs', procs, r)
           /\ collected' = collected

NoneSame == \A p \in Pids : (thread[p] = "none") <=> (thread'[p] = "none")

DoneSame == UNCHANGED <<guestDone, guestStatus>>

\* Slot c is given to the next process number.
Reserved(c) ==
  /\ \A r \in Slots \ {c} : SameSlot(procs', procs, r)
  /\ ~procs[c].used
  /\ procs'[c].used /\ procs'[c].pid = nextPid /\ procs'[c].status = 0
  /\ nextPid \in Pids
  /\ collected' = collected

\* The slot of the last number is given back before it had a thread.
Unreserved ==
  /\ \A r \in Slots : \/ SameSlot(procs', procs, r)
                      \/ procs[r].pid = nextPid - 1 /\ ~procs'[r].used
  /\ nextPid - 1 \in Pids
  /\ thread[nextPid - 1] = "none"
  /\ procs[Root].pid # nextPid - 1
  /\ collected' = collected

\* Slot c of a dead child of the process in slot s is taken.
Reaped(s, c) ==
  /\ c # s
  /\ \A r \in Slots \ {c} : SameSlot(procs', procs, r)
  /\ procs[s].used /\ procs[s].alive /\ thread[procs[s].pid] = "trapped"
  /\ procs[c].used /\ ~procs[c].alive /\ procs[c].ppid = procs[s].pid
  /\ ~procs'[c].used
  /\ collected' = [collected EXCEPT
                    ![procs[c].pid] = <<procs[s].pid, procs[c].status>>]

\* The process in slot s exits with status st.
Ends(s, st) ==
  /\ procs[s].used /\ procs[s].alive /\ thread[procs[s].pid] = "trapped"
  /\ Dies(s, procs[s].pid, st)
  /\ IF s = Root THEN guestDone' /\ guestStatus' = st ELSE DoneSame

EndsTold(s, q, st) ==
  /\ s # Root
  /\ procs[s].used /\ procs[s].alive /\ thread[procs[s].pid] = "trapped"
  /\ DiesTold(s, q, procs[s].pid, st)
  /\ DoneSame

\* What each step makes of the table and of what parents were told.
LEMMA LifeChange ==
  ASSUME ~ExecCanFail, LInv, [Next]_vars
  PROVE  \/ AllSame /\ DoneSame
         \/ /\ NoneSame
            /\ DoneSame
            /\ \/ \E c \in Slots : Reserved(c)
               \/ Unreserved
               \/ \E s, c \in Slots : Reaped(s, c)
         \/ /\ NoneSame
            /\ \E s \in Slots, st \in Status :
                 Ends(s, st) \/ \E q \in Slots : EndsTold(s, q, st)
<1>1. IInv /\ TypeOK /\ procs \in [Slots -> Proc]
  BY DEF LInv, IInv, TypeOK
<1>2. \/ AllSame
      \/ NoneSame
  <2>1. ASSUME NEW w \in Workers, ForkCreate(w) PROVE AllSame
    BY <2>1 DEF ForkCreate, AllSame, SameSlot
  <2>2. QED
    BY <1>1, <2>1, ThreadNew DEF NoneSame
<1>3. CASE UNCHANGED <<procs, collected, guestDone, guestStatus>>
  BY <1>3 DEF AllSame, SameSlot, DoneSame
<1>4. ASSUME NEW w \in Workers, NEW s \in Slots, ForkReserve(w, s)
      PROVE  DoneSame /\ \E c \in Slots : Reserved(c)
  <2>1. PICK c \in Slots : /\ ~procs[c].used
                           /\ Untouched({c})
                           /\ procs'[c] = NewProc(nextPid, msg[w])
                           /\ procs'[c].used
                           /\ procs'[c].pid = nextPid
                           /\ nextPid \in Pids
    BY <1>1, <1>4, ReserveEffect
  <2>2. procs'[c].status = 0
    BY <2>1 DEF NewProc, NoProc
  <2>3. Reserved(c)
    BY <1>4, <2>1, <2>2 DEF Reserved, Untouched, SameSlot, ForkReserve
  <2>4. QED
    BY <1>4, <2>3 DEF ForkReserve, DoneSame
<1>5. ASSUME NEW w \in Workers, ForkRefused(w) PROVE DoneSame /\ Unreserved
  <2>1. \A r \in Slots : IF procs[r].pid = nextPid - 1
                           THEN procs'[r] = NoProc
                           ELSE procs'[r] = procs[r]
    BY <1>1, <1>5, RefusedEffect
  <2>2. /\ nextPid - 1 \in Pids
        /\ thread[nextPid - 1] = "none"
        /\ procs[Root].pid # nextPid - 1
    BY <1>1, <1>5, PendingChild DEF ForkRefused
  <2>3. QED
    BY <1>5, <2>1, <2>2 DEF Unreserved, SameSlot, NoProc, ForkRefused, DoneSame
<1>6. ASSUME NEW w \in Workers, NEW s \in Slots, WaitReap(w, s)
      PROVE  DoneSame /\ \E c \in Slots : Reaped(s, c)
  <2>1. /\ procs[s].used /\ procs[s].pid = msg[w] /\ procs[s].alive
        /\ thread[msg[w]] = "trapped"
    BY <1>6, ServedLife DEF Slot, WaitReap, Syscall
  <2>2. PICK c \in Slots :
          /\ c # s
          /\ procs[c].used /\ ~procs[c].alive /\ procs[c].ppid = msg[w]
          /\ ~procs'[c].used
          /\ \A r \in Slots \ {c} : SameSlot(procs', procs, r)
          /\ collected' = [collected EXCEPT
                            ![procs[c].pid] = <<msg[w], procs[c].status>>]
    BY <1>6, ReapedLife, SMTT(20)
  <2>3. Reaped(s, c)
    BY <2>1, <2>2 DEF Reaped
  <2>4. QED
    BY <1>6, <2>3 DEF WaitReap, DoneSame
<1>7. ASSUME NEW w \in Workers, NEW s \in Slots, WaitPark(w, s)
      PROVE  AllSame /\ DoneSame
  <2>1. PICK target \in {AnyChild} \cup Pids :
          procs' = [procs EXCEPT ![s].waiting = TRUE, ![s].waitFor = target]
    BY <1>7 DEF WaitPark
  <2>2. /\ procs'[s] = [procs[s] EXCEPT !.waiting = TRUE, !.waitFor = target]
        /\ \A r \in Slots \ {s} : procs'[r] = procs[r]
    BY <1>1, <2>1
  <2>3. SameSlot(procs', procs, s)
    <3>1. procs[s] \in Proc
      BY <1>1
    <3>2. QED
      BY <2>2, <3>1 DEF SameSlot, Proc
  <2>4. \A r \in Slots : SameSlot(procs', procs, r)
    BY <2>2, <2>3 DEF SameSlot
  <2>5. QED
    BY <1>7, <2>4 DEF AllSame, DoneSame, WaitPark
<1>8. ASSUME NEW w \in Workers, NEW s \in Slots, NEW st \in Status,
             Serving(w, s), ProcExited(s, st)
      PROVE  Ends(s, st) \/ \E q \in Slots : EndsTold(s, q, st)
  <2>1. /\ procs[s].used /\ procs[s].pid = msg[w] /\ procs[s].alive
        /\ thread[procs[s].pid] = "trapped"
    BY <1>8, ServedLife DEF Slot
  <2>2. CASE Dies(s, msg[w], st)
    <3>1. IF s = Root THEN guestDone' /\ guestStatus' = st ELSE DoneSame
      BY <1>8 DEF ProcExited, WaitComplete, DoneSame
    <3>2. QED
      BY <2>1, <2>2, <3>1 DEF Ends
  <2>3. ASSUME NEW q \in Slots, DiesTold(s, q, msg[w], st)
        PROVE  EndsTold(s, q, st)
    <3>1. s # Root
      BY <1>1, <2>3, RootUnwaited DEF DiesTold
    <3>2. DoneSame
      BY <1>8, <3>1 DEF ProcExited, WaitComplete, DoneSame
    <3>3. QED
      BY <2>1, <2>3, <3>1, <3>2 DEF EndsTold
  <2>4. QED
    BY <1>8, <2>2, <2>3, ExitedLife
<1>9. ASSUME NEW w \in Workers, NEW s \in Slots, Exit(w, s) \/ Fault(w, s)
      PROVE  \E st \in Status :
               Ends(s, st) \/ \E q \in Slots : EndsTold(s, q, st)
  <2>1. Serving(w, s) /\ \E st \in Status : ProcExited(s, st)
    BY <1>9 DEF Exit, Fault, Syscall, Status
  <2>2. QED
    BY <1>8, <2>1
<1>10. \A s \in Slots, st \in Status :
         Ends(s, st) \/ (\E q \in Slots : EndsTold(s, q, st)) => ~AllSame
  BY DEF Ends, EndsTold, Dies, DiesTold, AllSame, SameSlot
<1>11. /\ \A c \in Slots : Reserved(c) => ~AllSame
       /\ \A s, c \in Slots : Reaped(s, c) => ~AllSame
  BY DEF Reserved, Reaped, AllSame, SameSlot
<1>12. QED
  BY <1>2, <1>3, <1>4, <1>5, <1>6, <1>7, <1>9, <1>10, <1>11, LifeWriters

-----------------------------------------------------------------------------
(* The invariant                                                           *)

\* Without a failing execve no step takes a guest's program away.
LEMMA ProgramStep ==
  ASSUME ~ExecCanFail, LInv, [Next]_vars
  PROVE  ProgramKept'
<1>1. image' = image
  <2>1. ASSUME NEW w \in Workers, Handle(w) PROVE image' = image
    BY <2>1 DEF Handle, Unserved, PlainCall, CallUnlocked, CallLocked,
       ForkReserve, ForkNoSlot, Exit, Fault, ExecBotched, WaitReap, WaitPark
  <2>2. ASSUME NEW w \in Workers,
               \/ Fork(w) \/ Finish(w) \/ HostReturn(w) \/ CheckDone(w)
               \/ Reply(w) \/ \E p \in Pids : Receive(w, p)
        PROVE  image' = image
    BY <2>2 DEF Fork, ForkCreate, ForkRefused, Finish, Leave, TeardownSlot,
       HostReturn, CheckDone, Reply, Receive
  <2>3. ASSUME NEW p \in Pids, Trap(p) PROVE image' = image
    BY <2>3 DEF Trap
  <2>4. CASE UNCHANGED vars
    BY <2>4 DEF vars
  <2>5. QED
    BY <2>1, <2>2, <2>3, <2>4 DEF Next, Finished
<1>2. QED
  BY <1>1 DEF LInv, LifeInv, ProgramKept, Doomed

\* A slot is given a live process with status 0, and a status only by a death.
LEMMA StatusStep ==
  ASSUME ~ExecCanFail, LInv, [Next]_vars
  PROVE  StatusAtDeath'
<1>1. StatusAtDeath
  BY DEF LInv, LifeInv
<1>2. QED
  BY <1>1, LifeChange DEF StatusAtDeath, AllSame, SameSlot, Reserved,
     Unreserved, Reaped, Ends, EndsTold, Dies, DiesTold

\* A parent is told of a process as its slot is taken, and the number is not
\* used again.
LEMMA ToldStep ==
  ASSUME ~ExecCanFail, LInv, [Next]_vars
  PROVE  ToldGone'
<1> SUFFICES ASSUME NEW p \in Pids, collected'[p] # NotCollected
             PROVE  /\ thread'[p] # "none"
                    /\ \A r \in Slots : ~(procs'[r].used /\ procs'[r].pid = p)
  BY DEF ToldGone
<1>1. /\ IInv /\ TypeOK /\ UniquePids
      /\ collected \in [Pids -> (0..MaxPid) \X (Status \cup {0})]
  BY DEF LInv, IInv, ServerInv, TypeOK
<1>2. CASE collected[p] # NotCollected
  <2>1. /\ thread[p] # "none"
        /\ \A r \in Slots : ~(procs[r].used /\ procs[r].pid = p)
    BY <1>2 DEF LInv, LifeInv, ToldGone
  <2>2. thread'[p] # "none"
    BY <1>1, <2>1, ThreadKept
  <2>3. p # nextPid
    <3>1. \A g \in Pids : g >= nextPid => thread[g] = "none"
      BY <1>1 DEF IInv, ServerInv, ForkPending
    <3>2. nextPid \in Int
      BY <1>1, TableFacts
    <3>3. QED
      BY <2>1, <3>1, <3>2
  <2>4. \A r \in Slots : ~(procs'[r].used /\ procs'[r].pid = p)
    BY <2>1, <2>3, LifeChange DEF AllSame, SameSlot, Reserved, Unreserved,
       Reaped, Ends, EndsTold, Dies, DiesTold
  <2>5. QED
    BY <2>2, <2>4
\* Slot c of process p is freed by this step and its parent told.
<1>3. ASSUME NEW c \in Slots, procs[c].used, thread[procs[c].pid] # "none",
             \A r \in Slots \ {c} : SameSlot(procs', procs, r),
             ~procs'[c].used, NEW m,
             collected' = [collected EXCEPT ![procs[c].pid] = m],
             collected[p] = NotCollected
      PROVE  /\ thread'[p] # "none"
             /\ \A r \in Slots : ~(procs'[r].used /\ procs'[r].pid = p)
  <2>1. p = procs[c].pid
    BY <1>1, <1>3
  <2>2. thread'[p] # "none"
    BY <1>1, <1>3, <2>1, ThreadKept
  <2>3. \A r \in Slots : ~(procs'[r].used /\ procs'[r].pid = p)
    BY <1>1, <1>3, <2>1 DEF SameSlot, UniquePids
  <2>4. QED
    BY <2>2, <2>3
<1>4. CASE collected[p] = NotCollected
  <2>1. collected' # collected
    BY <1>4
  <2>2. CASE \E s, c \in Slots : Reaped(s, c)
    <3>1. PICK s \in Slots, c \in Slots : Reaped(s, c)
      BY <2>2
    <3>2. thread[procs[c].pid] # "none"
      BY <3>1, ZombieThread DEF Reaped
    <3>3. QED
      BY <1>3, <1>4, <3>1, <3>2 DEF Reaped
  <2>3. CASE \E s \in Slots, st \in Status, q \in Slots : EndsTold(s, q, st)
    BY <1>3, <1>4, <2>3 DEF EndsTold, DiesTold
  <2>4. QED
    BY <2>1, <2>2, <2>3, LifeChange
    DEF AllSame, Reserved, Unreserved, Ends, Dies
<1>5. QED
  BY <1>2, <1>4

\* guest_done is set with the root's status, and the root does not come back.
LEMMA DoneStep ==
  ASSUME ~ExecCanFail, LInv, [Next]_vars
  PROVE  DoneStatus'
<1>1. /\ IInv /\ TypeOK /\ DoneStatus /\ procs[Root].used
      /\ procs[Root].ppid = NoPid /\ Root \in Slots
  BY ConstFacts DEF LInv, LifeInv, IInv, ServerInv, RootKept
<1>2. \/ guestDone' /\ guestStatus' = procs'[Root].status
      \/ DoneSame /\ procs'[Root].status = procs[Root].status
  <2>1. \A s \in Slots : procs[s].used => procs[s].pid \in Pids
    BY <1>1, UsedPid DEF IInv, ServerInv
  <2>2. \A s, c \in Slots : Reaped(s, c) => c # Root
    BY <1>1, <2>1 DEF Reaped, Pids, NoPid
  <2>3. \A s \in Slots, st \in Status :
          Ends(s, st) => \/ /\ guestDone'
                            /\ guestStatus' = procs'[Root].status
                         \/ DoneSame /\ procs'[Root].status = procs[Root].status
    BY <1>1 DEF Ends, Dies, SameSlot
  <2>4. \A s \in Slots, st \in Status, q \in Slots :
          EndsTold(s, q, st) =>
             DoneSame /\ procs'[Root].status = procs[Root].status
    BY <1>1 DEF EndsTold, DiesTold, SameSlot
  <2>5. AllSame => procs'[Root].status = procs[Root].status
    BY <1>1 DEF AllSame, SameSlot
  <2>6. (\E c \in Slots : Reserved(c)) \/ Unreserved
          => procs'[Root].status = procs[Root].status
    BY <1>1 DEF Reserved, Unreserved, SameSlot
  <2>7. (\E s, c \in Slots : Reaped(s, c))
          => procs'[Root].status = procs[Root].status
    BY <1>1, <2>2 DEF Reaped, SameSlot
  <2>8. QED
    BY <2>3, <2>4, <2>5, <2>6, <2>7, LifeChange
<1>3. guestDone => guestDone'
  BY <1>2 DEF DoneSame
<1>4. wpc \in [Workers -> WorkerPC]
  BY <1>1, TypeFacts
<1>5. /\ finished' => finished \/ guestDone
      /\ \A w \in Workers : wpc'[w] = "teardown"
                              => wpc[w] = "teardown" \/ guestDone
  <2>1. ASSUME NEW w \in Workers, Handle(w)
        PROVE  /\ finished' = finished
               /\ \E pc : pc # "teardown" /\ wpc' = [wpc EXCEPT ![w] = pc]
    BY <2>1 DEF Handle, Unserved, PlainCall, CallUnlocked, CallLocked, Goto,
       ForkReserve, ForkNoSlot, Exit, Fault, ExecBotched, WaitReap, WaitPark
  <2>2. ASSUME NEW w \in Workers,
               \/ Fork(w) \/ HostReturn(w) \/ Reply(w)
               \/ \E p \in Pids : Receive(w, p)
        PROVE  /\ finished' = finished
               /\ \E pc : pc # "teardown" /\ wpc' = [wpc EXCEPT ![w] = pc]
    BY <2>2 DEF Fork, ForkCreate, ForkRefused, HostReturn, Reply, Receive, Goto
  <2>3. ASSUME NEW w \in Workers, NEW pc, pc # "teardown",
               wpc' = [wpc EXCEPT ![w] = pc]
        PROVE  \A v \in Workers : wpc'[v] = "teardown" => wpc[v] = "teardown"
    BY <1>4, <2>3
  <2>4. ASSUME NEW w \in Workers, CheckDone(w)
        PROVE  /\ finished' = finished
               /\ \A v \in Workers : wpc'[v] = "teardown"
                                       => wpc[v] = "teardown" \/ guestDone
    BY <1>4, <2>4 DEF CheckDone, Goto
  <2>5. ASSUME NEW w \in Workers, TeardownSlot(w) \/ Leave(w)
        PROVE  wpc' = wpc /\ (finished' => finished \/ guestDone)
    BY <1>1, <2>5 DEF TeardownSlot, Leave, DoneStatus
  <2>6. ASSUME NEW p \in Pids, Trap(p) PROVE UNCHANGED <<wpc, finished>>
    BY <2>6 DEF Trap
  <2>7. CASE UNCHANGED vars
    BY <2>7 DEF vars
  <2>8. QED
    BY <2>1, <2>2, <2>3, <2>4, <2>5, <2>6, <2>7 DEF Next, Finish, Finished
<1>6. QED
  BY <1>1, <1>2, <1>3, <1>5 DEF DoneStatus, DoneSame

\* main() establishes it.
LEMMA InitLife == Init => LInv
<1> SUFFICES ASSUME Init PROVE LInv
  OBVIOUS
<1>1. \A s \in Slots : procs[s].status = 0
  BY DEF Init, NewProc, NoProc
<1>2. ProgramKept /\ StatusAtDeath /\ ToldGone /\ DoneStatus
  BY <1>1 DEF Init, ProgramKept, Doomed, StatusAtDeath, ToldGone, DoneStatus
<1>3. QED
  BY <1>2, InitInv DEF LInv, LifeInv

LEMMA StepLife == ~ExecCanFail /\ LInv /\ [Next]_vars => LInv'
BY StepInv, ProgramStep, StatusStep, ToldStep, DoneStep DEF LInv, LifeInv

\* What the life of a process rests on holds in every reachable state.
THEOREM LifeInductive == ASSUME ~ExecCanFail PROVE Spec => []LInv
<1>1. LInv /\ [Next]_vars => LInv'
  BY StepLife
<1>2. QED
  BY <1>1, InitLife, PTL DEF Spec

\* The emulator ends with the status the root process exited with.
THEOREM ExitStatusHolds == ASSUME ~ExecCanFail PROVE Spec => []ExitStatus
<1>1. LInv => ExitStatus
  BY DEF LInv, LifeInv, DoneStatus, ExitStatus
<1>2. QED
  BY <1>1, LifeInductive, PTL

-----------------------------------------------------------------------------
(* The refinement                                                          *)

LifeMap == [p \in Pids |-> LifeOf(p)]

\* What LifeSame says of a step.
LEMMA LifeUnchanged ==
  ASSUME NEW p \in Pids, collected'[p] = collected[p],
         (thread[p] = "none") <=> (thread'[p] = "none"),
         \A r \in Slots : \/ SameSlot(procs', procs, r)
                          \/ /\ ~(procs'[r].used /\ procs'[r].pid = p)
                             /\ ~(procs[r].used /\ procs[r].pid = p)
  PROVE  LifeOf(p)' = LifeOf(p)
BY LifeSame DEF LifeOf

\* A step that changes the life of one process changes the map there.
LEMMA OneLife ==
  ASSUME NEW c \in Pids, \A p \in Pids \ {c} : LifeOf(p)' = LifeOf(p)
  PROVE  LifeMap' = [LifeMap EXCEPT ![c] = LifeOf(c)']
BY DEF LifeMap

LEMMA NoLife ==
  ASSUME \A p \in Pids : LifeOf(p)' = LifeOf(p)
  PROVE  LifeMap' = LifeMap
BY DEF LifeMap

\* A process with a slot and a thread, as the map shows it.
LEMMA MapRead ==
  ASSUME LInv, NEW s \in Slots, procs[s].used, thread[procs[s].pid] # "none"
  PROVE  /\ procs[s].pid \in Pids
         /\ LifeMap[procs[s].pid] =
              [at |-> IF procs[s].alive THEN "live" ELSE "zombie",
               by |-> procs[s].ppid, st |-> procs[s].status]
BY ZombieThread, LifeRead DEF LifeMap, LifeOf

\* fork's second half: the child starts to live, its caller is its parent.
LEMMA ForkMaps ==
  ASSUME LInv, NEW w \in Workers, ForkCreate(w)
  PROVE  LifeMap' = LifeMap \/ Life!Next
<1>1. IInv /\ UniquePids /\ thread \in [Pids -> {"none", "running", "trapped", "dead"}]
  BY DEF LInv, IInv, ServerInv, TypeOK
<1>2. PICK c \in Pids, m \in Pids :
        /\ thread[c] = "none" /\ m # c /\ m = msg[w]
        /\ thread[m] = "trapped"
        /\ procs' = procs /\ collected' = collected
        /\ thread' = [thread EXCEPT ![c] = "running"]
        /\ \A s \in Slots : procs[s].used /\ procs[s].pid = c
                              => procs[s].ppid = m
  <2>1. /\ nextPid - 1 \in Pids /\ msg[w] \in Pids
        /\ thread[nextPid - 1] = "none" /\ msg[w] # nextPid - 1
    BY <1>1, PendingChild DEF ForkCreate
  <2>2. \A s \in Slots : procs[s].used /\ procs[s].pid = nextPid - 1
                            => procs[s].ppid = msg[w]
    BY <1>1 DEF ForkCreate, IInv, ServerInv, ForkPending
  <2>3. QED
    BY <2>1, <2>2 DEF ForkCreate
<1>3. PICK s \in Slots : procs[s].used /\ procs[s].alive /\ procs[s].pid = m
  BY <1>1, <1>2 DEF LInv, LifeInv, ProgramKept, IInv, CallerKept, ForkCreate
<1>4. LifeMap[m].at = "live"
  <2>1. LifeMap[m] = [at |-> IF procs[s].alive THEN "live" ELSE "zombie",
                      by |-> procs[s].ppid, st |-> procs[s].status]
    BY <1>2, <1>3, MapRead
  <2>2. QED
    BY <1>3, <2>1
<1>5. collected[c] = NotCollected
  BY <1>2 DEF LInv, LifeInv, ToldGone
<1>6. LifeMap[c] = [at |-> "absent", by |-> NoPid, st |-> 0]
  BY <1>2, <1>5, LifeAbsent DEF LifeMap, LifeOf
<1>7. \A p \in Pids \ {c} : LifeOf(p)' = LifeOf(p)
  <2>1. \A p \in Pids \ {c} : /\ collected'[p] = collected[p]
                              /\ (thread[p] = "none") <=> (thread'[p] = "none")
    BY <1>1, <1>2
  <2>2. \A r \in Slots : SameSlot(procs', procs, r)
    BY <1>2 DEF SameSlot
  <2>3. QED
    BY <2>1, <2>2, LifeUnchanged
<1>8. CASE \E r \in Slots : procs[r].used /\ procs[r].pid = c
  <2>1. PICK r \in Slots : procs[r].used /\ procs[r].pid = c
    BY <1>8
  <2>2. procs[r].alive /\ procs[r].status = 0 /\ procs[r].ppid = m
    BY <1>2, <2>1, ZombieThread DEF LInv, LifeInv, StatusAtDeath
  <2>3. Slot(procs', r, c) /\ collected'[c] = NotCollected /\ thread'[c] # "none"
    BY <1>1, <1>2, <1>5, <2>1 DEF Slot, UniquePids
  <2>4. LifeOf(c)' = [at |-> IF procs'[r].alive THEN "live" ELSE "zombie",
                      by |-> procs'[r].ppid, st |-> procs'[r].status]
    BY <2>3, LifeRead DEF LifeOf
  <2>5. LifeOf(c)' = [at |-> "live", by |-> m, st |-> 0]
    BY <1>2, <2>2, <2>4
  <2>6. LifeMap' = [LifeMap EXCEPT ![c] = [at |-> "live", by |-> m, st |-> 0]]
    BY <1>2, <1>7, <2>5, OneLife
  <2>7. Life!Fork(m, c)
    BY <1>4, <1>6, <2>6 DEF Life!Fork, Life!Absent, Life!Live, LifeMap, NoPid
  <2>8. QED
    BY <1>2, <2>7 DEF Life!Next
<1>9. CASE ~ \E r \in Slots : procs[r].used /\ procs[r].pid = c
  <2>1. NoSlot(procs', c) /\ collected'[c] = NotCollected
    BY <1>2, <1>5, <1>9 DEF NoSlot
  <2>2. LifeOf(c)' = [at |-> "absent", by |-> NoPid, st |-> 0]
    BY <2>1, LifeAbsent DEF LifeOf
  <2>3. LifeOf(c)' = LifeOf(c)
    BY <1>2, <1>6, <2>2 DEF LifeMap
  <2>4. QED
    BY <1>7, <2>3, NoLife
<1>10. QED
  BY <1>8, <1>9

\* wait4 collects a zombie.
LEMMA ReapMaps ==
  ASSUME LInv, NoneSame, NEW s \in Slots, NEW c \in Slots, Reaped(s, c)
  PROVE  Life!Next
<1>1. UniquePids /\ collected \in [Pids -> (0..MaxPid) \X (Status \cup {0})]
  BY DEF LInv, IInv, ServerInv, TypeOK
<1>2. /\ procs[s].used /\ procs[s].alive /\ thread[procs[s].pid] = "trapped"
      /\ procs[c].used /\ ~procs[c].alive /\ procs[c].ppid = procs[s].pid
      /\ ~procs'[c].used
      /\ \A r \in Slots \ {c} : SameSlot(procs', procs, r)
  BY DEF Reaped
<1>3. PICK p, m, st : /\ p \in Pids /\ m \in Pids
                      /\ p = procs[c].pid /\ m = procs[s].pid
                      /\ st = procs[c].status /\ thread[p] = "dead"
  BY <1>2, ZombieThread
<1>4. LifeMap[m].at = "live"
  <2>1. LifeMap[m] = [at |-> IF procs[s].alive THEN "live" ELSE "zombie",
                      by |-> procs[s].ppid, st |-> procs[s].status]
    BY <1>2, <1>3, MapRead
  <2>2. QED
    BY <1>2, <2>1
<1>5. LifeMap[p] = [at |-> "zombie", by |-> m, st |-> st]
  <2>1. LifeMap[p] = [at |-> IF procs[c].alive THEN "live" ELSE "zombie",
                      by |-> procs[c].ppid, st |-> procs[c].status]
    BY <1>2, <1>3, MapRead
  <2>2. QED
    BY <1>2, <1>3, <2>1
<1>6. collected' = [collected EXCEPT ![p] = <<m, st>>]
  BY <1>3 DEF Reaped
<1>7. \A g \in Pids \ {p} : LifeOf(g)' = LifeOf(g)
  BY <1>1, <1>2, <1>3, <1>6, LifeUnchanged DEF NoneSame
<1>8. LifeOf(p)' = [at |-> "collected", by |-> m, st |-> st]
  <2>1. NoSlot(procs', p)
    BY <1>1, <1>2, <1>3 DEF NoSlot, SameSlot, UniquePids
  <2>2. collected'[p] = <<m, st>>
    BY <1>1, <1>3, <1>6
  <2>3. <<m, st>> # NotCollected
    BY <1>3 DEF NotCollected, NoPid, Pids
  <2>4. LifeOf(p)' = [at |-> "collected", by |-> collected'[p][1],
                      st |-> collected'[p][2]]
    BY <2>1, <2>2, <2>3, LifeTold DEF LifeOf
  <2>5. QED
    BY <2>2, <2>4
<1>9. LifeMap' = [LifeMap EXCEPT ![p] = [at |-> "collected", by |-> m, st |-> st]]
  BY <1>3, <1>7, <1>8, OneLife
<1>10. Life!Collect(m, p)
  <2>1. /\ LifeMap[p].at = "zombie" /\ LifeMap[p].by = m
        /\ LifeMap[p].st = st
    BY <1>5
  <2>2. LifeMap' = [LifeMap EXCEPT ![p] = [at |-> "collected", by |-> m,
                                           st |-> LifeMap[p].st]]
    BY <1>9, <2>1
  <2>3. QED
    BY <1>4, <2>1, <2>2 DEF Life!Collect, Life!Collected, LifeMap
<1>11. QED
  BY <1>3, <1>10 DEF Life!Next

\* A process that ends with nobody waiting is a zombie.
LEMMA EndMaps ==
  ASSUME LInv, NoneSame, NEW s \in Slots, NEW st \in Status, Ends(s, st)
  PROVE  Life!Next
<1>1. UniquePids
  BY DEF LInv, IInv, ServerInv
<1>2. /\ procs[s].used /\ procs[s].alive /\ thread[procs[s].pid] = "trapped"
      /\ \A r \in Slots \ {s} : SameSlot(procs', procs, r)
      /\ procs'[s].used /\ procs'[s].pid = procs[s].pid
      /\ procs'[s].ppid = procs[s].ppid
      /\ ~procs'[s].alive /\ procs'[s].status = st
      /\ collected' = collected
  BY DEF Ends, Dies
<1>3. PICK p, m : /\ p \in Pids /\ p = procs[s].pid /\ m = procs[s].ppid
                  /\ collected[p] = NotCollected
  BY <1>2, ZombieThread
<1>4. LifeMap[p].at = "live" /\ LifeMap[p].by = m
  <2>1. LifeMap[p] = [at |-> IF procs[s].alive THEN "live" ELSE "zombie",
                      by |-> procs[s].ppid, st |-> procs[s].status]
    BY <1>2, <1>3, MapRead
  <2>2. QED
    BY <1>2, <1>3, <2>1
<1>5. \A g \in Pids \ {p} : LifeOf(g)' = LifeOf(g)
  BY <1>1, <1>2, <1>3, LifeUnchanged DEF NoneSame
<1>6. LifeOf(p)' = [at |-> "zombie", by |-> m, st |-> st]
  <2>1. Slot(procs', s, p)
    BY <1>1, <1>2, <1>3 DEF Slot, SameSlot, UniquePids
  <2>2. thread'[p] # "none" /\ collected'[p] = NotCollected
    BY <1>2, <1>3 DEF NoneSame
  <2>3. LifeOf(p)' = [at |-> IF procs'[s].alive THEN "live" ELSE "zombie",
                      by |-> procs'[s].ppid, st |-> procs'[s].status]
    BY <2>1, <2>2, LifeRead DEF LifeOf
  <2>4. QED
    BY <1>2, <1>3, <2>3
<1>7. LifeMap' = [LifeMap EXCEPT ![p] = [at |-> "zombie", by |-> m, st |-> st]]
  BY <1>3, <1>5, <1>6, OneLife
<1>8. Life!Exit(p, st)
  BY <1>4, <1>7 DEF Life!Exit, Life!Zombie, LifeMap
<1>9. QED
  BY <1>3, <1>8 DEF Life!Next

\* One that ends with its parent waiting is collected at once.
LEMMA EndToldMaps ==
  ASSUME LInv, NoneSame, NEW s \in Slots, NEW q \in Slots, NEW st \in Status,
         EndsTold(s, q, st)
  PROVE  Life!Next
<1>1. /\ UniquePids /\ ParkedAlive /\ OneOwner
      /\ collected \in [Pids -> (0..MaxPid) \X (Status \cup {0})]
  BY DEF LInv, IInv, ServerInv, TypeOK
<1>2. /\ procs[s].used /\ procs[s].alive /\ thread[procs[s].pid] = "trapped"
      /\ \A r \in Slots \ {s} : SameSlot(procs', procs, r)
      /\ ~procs'[s].used
      /\ procs[q].used /\ procs[q].waiting /\ procs[q].pid = procs[s].ppid
  BY DEF EndsTold, DiesTold, WaitsFor
<1>3. PICK p \in Pids, m \in Pids :
        p = procs[s].pid /\ m = procs[q].pid
  BY <1>2, ZombieThread
<1>4. LifeMap[p].at = "live" /\ LifeMap[p].by = m
  <2>1. LifeMap[p] = [at |-> IF procs[s].alive THEN "live" ELSE "zombie",
                      by |-> procs[s].ppid, st |-> procs[s].status]
    BY <1>2, <1>3, MapRead
  <2>2. QED
    BY <1>2, <1>3, <2>1
<1>5. LifeMap[m].at = "live"
  <2>1. procs[q].alive
    BY <1>1, <1>2, <1>3 DEF ParkedAlive, LInv, LifeInv, ProgramKept
  <2>2. Parked(m)
    BY <1>2, <1>3 DEF Parked
  <2>3. thread[m] # "none"
    BY <1>1, <1>3, <2>2 DEF OneOwner
  <2>4. LifeMap[m] = [at |-> IF procs[q].alive THEN "live" ELSE "zombie",
                      by |-> procs[q].ppid, st |-> procs[q].status]
    BY <1>2, <1>3, <2>3, MapRead
  <2>5. QED
    BY <2>1, <2>4
<1>6. collected' = [collected EXCEPT ![p] = <<m, st>>]
  BY <1>3 DEF EndsTold, DiesTold
<1>7. \A g \in Pids \ {p} : LifeOf(g)' = LifeOf(g)
  BY <1>1, <1>2, <1>3, <1>6, LifeUnchanged DEF NoneSame
<1>8. LifeOf(p)' = [at |-> "collected", by |-> m, st |-> st]
  <2>1. NoSlot(procs', p)
    BY <1>1, <1>2, <1>3 DEF NoSlot, SameSlot, UniquePids
  <2>2. collected'[p] = <<m, st>>
    BY <1>1, <1>6
  <2>3. <<m, st>> # NotCollected
    BY <1>3 DEF NotCollected, NoPid, Pids
  <2>4. LifeOf(p)' = [at |-> "collected", by |-> collected'[p][1],
                      st |-> collected'[p][2]]
    BY <2>1, <2>2, <2>3, LifeTold DEF LifeOf
  <2>5. QED
    BY <2>2, <2>4
<1>9. LifeMap' = [LifeMap EXCEPT ![p] = [at |-> "collected", by |-> m, st |-> st]]
  BY <1>3, <1>7, <1>8, OneLife
<1>10. Life!ExitTo(m, p, st)
  BY <1>4, <1>5, <1>9 DEF Life!ExitTo, Life!Collected, LifeMap
<1>11. QED
  BY <1>3, <1>10 DEF Life!Next

\* A slot that fork takes or gives back has no thread, so nothing lives there.
LEMMA ReserveMaps ==
  ASSUME LInv, NoneSame, (\E c \in Slots : Reserved(c)) \/ Unreserved
  PROVE  LifeMap' = LifeMap
\* The process numbered n comes and goes without a thread.
<1>1. ASSUME NEW n \in Pids, thread[n] = "none", collected' = collected,
             \A r \in Slots : \/ SameSlot(procs', procs, r)
                              \/ /\ procs[r].used => procs[r].pid = n
                                 /\ procs'[r].used => procs'[r].pid = n
      PROVE  LifeMap' = LifeMap
  <2>1. \A g \in Pids \ {n} : LifeOf(g)' = LifeOf(g)
    BY <1>1, LifeUnchanged DEF NoneSame
  <2>2. collected[n] = NotCollected
    BY <1>1 DEF LInv, LifeInv, ToldGone
  <2>3. LifeOf(n) = [at |-> "absent", by |-> NoPid, st |-> 0]
    BY <1>1, <2>2, LifeAbsent DEF LifeOf
  <2>4. LifeOf(n)' = [at |-> "absent", by |-> NoPid, st |-> 0]
    BY <1>1, <2>2, LifeAbsent DEF LifeOf, NoneSame
  <2>5. QED
    BY <2>1, <2>3, <2>4, NoLife
<1>2. ASSUME NEW c \in Slots, Reserved(c) PROVE LifeMap' = LifeMap
  <2>1. PICK n \in Pids : n = nextPid
    BY <1>2 DEF Reserved
  <2>2. thread[n] = "none"
    BY <2>1 DEF LInv, IInv, ServerInv, ForkPending, Pids
  <2>3. QED
    BY <1>1, <1>2, <2>1, <2>2 DEF Reserved
<1>3. CASE Unreserved
  <2>1. PICK n \in Pids : n = nextPid - 1
    BY <1>3 DEF Unreserved
  <2>2. QED
    BY <1>1, <1>3, <2>1 DEF Unreserved
<1>4. QED
  BY <1>2, <1>3

\* Every step of the server is a step of the abstract process, or none.
LEMMA StepMaps ==
  ASSUME ~ExecCanFail, LInv, [Next]_vars
  PROVE  LifeMap' = LifeMap \/ Life!Next
<1>1. ASSUME NEW w \in Workers, ForkCreate(w)
      PROVE  LifeMap' = LifeMap \/ Life!Next
  BY <1>1, ForkMaps
<1>2. CASE AllSame /\ ~ \E w \in Workers : ForkCreate(w)
  <2>1. NoneSame
    BY <1>2, ThreadNew DEF NoneSame, LInv
  <2>2. \A p \in Pids : LifeOf(p)' = LifeOf(p)
    BY <1>2, <2>1, LifeUnchanged DEF AllSame, NoneSame
  <2>3. QED
    BY <2>2, NoLife
<1>3. QED
  BY <1>1, <1>2, LifeChange, ReapMaps, EndMaps, EndToldMaps, ReserveMaps

\* The first guest is the one process that is not forked.
LEMMA InitMaps == Init => Life!Init
<1> SUFFICES ASSUME Init PROVE Life!Init
  OBVIOUS
<1>1. LInv
  BY InitLife
<1>2. /\ procs[Root].used /\ procs[Root].alive /\ procs[Root].status = 0
      /\ procs[Root].pid = 1 /\ procs[Root].ppid = NoPid
      /\ \A s \in Slots \ {Root} : ~procs[s].used
      /\ Root \in Slots
  BY ConstFacts, NewProcType, ServerAssumption DEF Init, NewProc, NoProc, NoPid
<1>3. 1 \in Pids /\ thread[1] = "running"
  BY ConstFacts DEF Init
<1>4. LifeMap[1] = [at |-> "live", by |-> 0, st |-> 0]
  <2>1. LifeMap[1] = [at |-> IF procs[Root].alive THEN "live" ELSE "zombie",
                      by |-> procs[Root].ppid, st |-> procs[Root].status]
    BY <1>1, <1>2, <1>3, MapRead
  <2>2. QED
    BY <1>2, <2>1 DEF NoPid
<1>5. \A p \in Pids \ {1} :
        LifeMap[p] = [at |-> "absent", by |-> 0, st |-> 0]
  <2>1. \A p \in Pids \ {1} : thread[p] = "none" /\ collected[p] = NotCollected
    BY DEF Init
  <2>2. QED
    BY <2>1, LifeAbsent DEF LifeMap, LifeOf, NoPid
<1>6. QED
  BY <1>4, <1>5 DEF Life!Init, Life!Live, Life!Absent, LifeMap

\* The process server implements the life of a process: it is forked by a live
\* parent, exits once, and its status is told once, to its parent, unchanged.
THEOREM ServerImplementsLife == ASSUME ~ExecCanFail PROVE Spec => ImplementsLife
<1>1. LInv /\ [Next]_vars => [Life!Next]_LifeMap
  BY StepMaps
<1>2. LInv /\ [Next]_vars => LInv'
  BY StepLife
<1>3. [Life!Next]_LifeMap <=> [Life!Next]_[p \in Pids |-> LifeOf(p)]
  BY DEF LifeMap
<1>4. QED
  BY <1>1, <1>2, <1>3, InitLife, InitMaps, PTL
  DEF Spec, ImplementsLife, Life!Spec
=============================================================================
