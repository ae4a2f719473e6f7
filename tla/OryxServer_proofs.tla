-------------------------- MODULE OryxServer_proofs --------------------------
(***************************************************************************)
(* The invariants of OryxServer hold for every table size, number of       *)
(* workers and set of exit codes.                                          *)
(*                                                                         *)
(* IInv is the conjunction of the type invariant and of the invariants the *)
(* runs check; its parts need each other.  A parked parent keeps a child   *)
(* (ParkedHasChild) because only the parent itself could reap it, which    *)
(* takes unique pids (ServerInv) and an exception with one owner           *)
(* (OneOwner); a caller's slot survives (CallerKept) because only dead     *)
(* processes and fork's half-made child lose theirs, and a caller that is  *)
(* dead but goes on (execve declared it so) is safe while the mutex is     *)
(* kept; a wake-up is lost (NoLostWakeup) only if a thread dies while      *)
(* somebody waits, and finish() kills only processes that are not dead     *)
(* yet.  So the proof describes once what each writer does to the table    *)
(* (the ...Effect lemmas), sorts the steps by it (TableChange) and then    *)
(* has one lemma per part.                                                 *)
(***************************************************************************)
EXTENDS OryxServer, TLAPS

\* What the assumption on the constants gives for the module's own constants.
LEMMA ConstFacts ==
  /\ Root \in Slots
  /\ 1 \in Pids
  /\ NoPid \in 0..MaxPid
  /\ AnyChild \in 0..MaxPid
  /\ NotCollected \in (0..MaxPid) \X (Status \cup {0})
  /\ NoProc \in Proc
  /\ Status \subseteq Nat
BY ServerAssumption DEF Root, Slots, Pids, NoPid, AnyChild, NotCollected,
   NoProc, Proc, Status, ExecStatus, FaultStatus

\* proc_new's record is a used, live process that is not waiting.
LEMMA NewProcType ==
  ASSUME NEW p \in 0..MaxPid, NEW q \in 0..MaxPid
  PROVE  /\ NewProc(p, q) \in Proc
         /\ NewProc(p, q).used /\ NewProc(p, q).alive
         /\ ~NewProc(p, q).waiting
         /\ NewProc(p, q).pid = p /\ NewProc(p, q).ppid = q
BY ConstFacts DEF NewProc, NoProc, Proc

\* The first guest, in the root slot, is a well-typed process and nothing else
\* is used.
LEMMA InitType == Init => TypeOK
<1> SUFFICES ASSUME Init PROVE TypeOK
  OBVIOUS
<1>1. procs \in [Slots -> Proc]
  BY ConstFacts, NewProcType DEF Init, Pids, NoPid
<1>2. nextPid \in 1..(MaxPid + 1)
  BY ServerAssumption DEF Init
<1>3. /\ thread \in [Pids -> {"none", "running", "trapped", "dead"}]
      /\ image \in [Pids -> Image]
      /\ port \in SUBSET Pids
  BY DEF Init, Image
<1>4. /\ wpc \in [Workers -> WorkerPC]
      /\ msg \in [Workers -> 0..MaxPid]
      /\ lock \in Workers \cup {Nobody}
  BY ConstFacts DEF Init, WorkerPC
<1>5. scan \in [Workers -> 0..MaxProc]
  BY ServerAssumption DEF Init
<1>6. /\ guestDone \in BOOLEAN
      /\ guestStatus \in Status \cup {-1}
      /\ finished \in BOOLEAN
  BY DEF Init
<1>7. collected \in [Pids -> (0..MaxPid) \X (Status \cup {0})]
  BY ConstFacts DEF Init
<1>8. QED
  BY <1>1, <1>2, <1>3, <1>4, <1>5, <1>6, <1>7 DEF TypeOK

\* Changing one field of a table entry keeps the table typed.
LEMMA FieldType ==
  ASSUME NEW p \in Proc, NEW st \in Status \cup {0}, NEW b \in BOOLEAN,
         NEW t \in 0..MaxPid
  PROVE  /\ [p EXCEPT !.alive = b, !.status = st] \in Proc
         /\ [p EXCEPT !.waiting = b] \in Proc
         /\ [p EXCEPT !.waiting = b, !.waitFor = t] \in Proc
BY DEF Proc

\* proc_exited keeps the types of everything it writes.
LEMMA ExitedType ==
  ASSUME TypeOK, NEW s \in Slots, NEW st \in Status, ProcExited(s, st)
  PROVE  /\ procs' \in [Slots -> Proc]
         /\ thread' \in [Pids -> {"none", "running", "trapped", "dead"}]
         /\ guestDone' \in BOOLEAN
         /\ guestStatus' \in Status \cup {-1}
         /\ collected' \in [Pids -> (0..MaxPid) \X (Status \cup {0})]
<1> USE ConstFacts DEF TypeOK
<1>1. [procs[s] EXCEPT !.alive = FALSE, !.status = st] \in Proc
  BY FieldType
<1>2. CASE /\ procs' = [procs EXCEPT ![s].alive = FALSE, ![s].status = st]
           /\ thread' = [thread EXCEPT ![procs[s].pid] = "dead"]
           /\ collected' = collected
           /\ \/ guestDone' = guestDone /\ guestStatus' = guestStatus
              \/ guestDone' = TRUE /\ guestStatus' = st
  BY <1>1, <1>2
<1>3. CASE \E q \in Slots : WaitsFor(q, s) /\ WaitComplete(q, s, st)
  <2>1. PICK q \in Slots : WaitComplete(q, s, st)
    BY <1>3
  <2>2. [procs[q] EXCEPT !.waiting = FALSE] \in Proc
    BY FieldType
  <2>3. procs' \in [Slots -> Proc]
    BY <2>1, <2>2 DEF WaitComplete
  <2>4. thread' \in [Pids -> {"none", "running", "trapped", "dead"}]
    BY <2>1 DEF WaitComplete, Resumed
  <2>5. procs[q].pid \in 0..MaxPid
    BY DEF Proc
  <2>6. collected' \in [Pids -> (0..MaxPid) \X (Status \cup {0})]
    BY <2>1, <2>5 DEF WaitComplete
  <2>7. QED
    BY <2>1, <2>3, <2>4, <2>6 DEF WaitComplete
<1>4. \/ \E q \in Slots : WaitsFor(q, s) /\ WaitComplete(q, s, st)
      \/ /\ procs' = [procs EXCEPT ![s].alive = FALSE, ![s].status = st]
         /\ thread' = [thread EXCEPT ![procs[s].pid] = "dead"]
         /\ collected' = collected
         /\ \/ guestDone' = guestDone /\ guestStatus' = guestStatus
            \/ guestDone' = TRUE /\ guestStatus' = st
  BY DEF ProcExited
<1>5. QED
  BY <1>2, <1>3, <1>4

\* No operation of the server leaves the types.
LEMMA TypeStep == TypeOK /\ [Next]_vars => TypeOK'
<1> SUFFICES ASSUME TypeOK, [Next]_vars PROVE TypeOK'
  OBVIOUS
<1> USE ConstFacts DEF TypeOK, WorkerPC, Goto
<1>1. ASSUME NEW p \in Pids, Trap(p) PROVE TypeOK'
  BY <1>1 DEF Trap
<1>2. ASSUME NEW w \in Workers, NEW p \in Pids, Receive(w, p) PROVE TypeOK'
  BY <1>2, SMTT(20) DEF Receive, Pids
<1>3. ASSUME NEW w \in Workers, Unserved(w) PROVE TypeOK'
  BY <1>3 DEF Unserved
<1>4. ASSUME NEW w \in Workers, NEW s \in Slots, PlainCall(w, s) PROVE TypeOK'
  BY <1>4 DEF PlainCall
<1>5. ASSUME NEW w \in Workers, NEW s \in Slots, CallUnlocked(w, s)
      PROVE  TypeOK'
  BY <1>5 DEF CallUnlocked
<1>6. ASSUME NEW w \in Workers, NEW s \in Slots, CallLocked(w, s) PROVE TypeOK'
  BY <1>6 DEF CallLocked
<1>7. ASSUME NEW w \in Workers, NEW s \in Slots, ForkReserve(w, s)
      PROVE  TypeOK'
  <2>1. procs[s].pid \in 0..MaxPid /\ nextPid \in 0..MaxPid
    BY <1>7, ServerAssumption DEF ForkReserve, Proc
  <2>2. NewProc(nextPid, procs[s].pid) \in Proc
    BY <2>1, NewProcType
  <2>3. procs' \in [Slots -> Proc]
    BY <1>7, <2>2 DEF ForkReserve
  <2>4. nextPid' \in 1..(MaxPid + 1)
    BY <1>7, <2>1, ServerAssumption DEF ForkReserve
  <2>5. QED
    BY <1>7, <2>3, <2>4 DEF ForkReserve
<1>8. ASSUME NEW w \in Workers, NEW s \in Slots, ForkNoSlot(w, s) PROVE TypeOK'
  BY <1>8 DEF ForkNoSlot
<1>9. ASSUME NEW w \in Workers, NEW s \in Slots, Exit(w, s) PROVE TypeOK'
  <2>1. PICK st \in Codes : ProcExited(s, st)
    BY <1>9 DEF Exit
  <2>2. st \in Status
    BY DEF Status
  <2>3. QED
    BY <1>9, <2>1, <2>2, ExitedType DEF Exit
<1>10. ASSUME NEW w \in Workers, NEW s \in Slots, Fault(w, s) PROVE TypeOK'
  <2>1. ProcExited(s, FaultStatus) /\ FaultStatus \in Status
    BY <1>10 DEF Fault, Status
  <2>2. QED
    BY <1>10, <2>1, ExitedType DEF Fault
<1>11. ASSUME NEW w \in Workers, NEW s \in Slots, ExecBotched(w, s)
       PROVE  TypeOK'
  <2>1. image' \in [Pids -> Image]
    BY <1>11 DEF ExecBotched, Image
  <2>2. [procs[s] EXCEPT !.alive = FALSE, !.status = ExecStatus] \in Proc
    BY FieldType DEF Status
  <2>3. procs' \in [Slots -> Proc] /\ guestDone' \in BOOLEAN
    BY <1>11, <2>2 DEF ExecBotched
  <2>4. QED
    BY <1>11, <2>1, <2>3 DEF ExecBotched
<1>12. ASSUME NEW w \in Workers, NEW s \in Slots, WaitReap(w, s) PROVE TypeOK'
  <2>1. PICK c \in Slots :
          /\ procs' = [procs EXCEPT ![c] = NoProc]
          /\ collected' = [collected EXCEPT
                          ![procs[c].pid] = <<procs[s].pid, procs[c].status>>]
    BY <1>12 DEF WaitReap
  <2>2. procs[s].pid \in 0..MaxPid /\ procs[c].status \in Status \cup {0}
    BY DEF Proc
  <2>3. procs' \in [Slots -> Proc]
    BY <2>1
  <2>4. collected' \in [Pids -> (0..MaxPid) \X (Status \cup {0})]
    BY <2>1, <2>2
  <2>5. QED
    BY <1>12, <2>3, <2>4 DEF WaitReap
<1>13. ASSUME NEW w \in Workers, NEW s \in Slots, WaitPark(w, s) PROVE TypeOK'
  <2>1. PICK target \in {AnyChild} \cup Pids :
          procs' = [procs EXCEPT ![s].waiting = TRUE, ![s].waitFor = target]
    BY <1>13 DEF WaitPark
  <2>2. target \in 0..MaxPid
    BY DEF Pids
  <2>3. [procs[s] EXCEPT !.waiting = TRUE, !.waitFor = target] \in Proc
    BY <2>2, FieldType
  <2>4. procs' \in [Slots -> Proc]
    BY <2>1, <2>3
  <2>5. QED
    BY <1>13, <2>4 DEF WaitPark
<1>14. ASSUME NEW w \in Workers, ForkCreate(w) PROVE TypeOK'
  BY <1>14 DEF ForkCreate
<1>15. ASSUME NEW w \in Workers, ForkRefused(w) PROVE TypeOK'
  BY <1>15 DEF ForkRefused
<1>16. ASSUME NEW w \in Workers, HostReturn(w) PROVE TypeOK'
  BY <1>16 DEF HostReturn
<1>17. ASSUME NEW w \in Workers, Reply(w) PROVE TypeOK'
  BY <1>17 DEF Reply, Resumed
<1>18. ASSUME NEW w \in Workers, CheckDone(w) PROVE TypeOK'
  BY <1>18 DEF CheckDone
<1>19. ASSUME NEW w \in Workers, TeardownSlot(w) PROVE TypeOK'
  <2>1. scan' \in [Workers -> 0..MaxProc]
    BY <1>19, ServerAssumption DEF TeardownSlot
  <2>2. thread' \in [Pids -> {"none", "running", "trapped", "dead"}]
    BY <1>19 DEF TeardownSlot
  <2>3. QED
    BY <1>19, <2>1, <2>2 DEF TeardownSlot
<1>20. ASSUME NEW w \in Workers, Leave(w) PROVE TypeOK'
  BY <1>20 DEF Leave
<1>21. CASE UNCHANGED vars
  BY <1>21 DEF vars
<1>22. QED
  BY <1>1, <1>2, <1>3, <1>4, <1>5, <1>6, <1>7, <1>8, <1>9, <1>10, <1>11,
     <1>12, <1>13, <1>14, <1>15, <1>16, <1>17, <1>18, <1>19, <1>20, <1>21
  DEF Next, Handle, Fork, Finish, Finished

-----------------------------------------------------------------------------
(* The inductive invariant, and what its parts say of a worker at work     *)

\* A host call made without the mutex is some guest's.
HostCaller == \A w \in Workers : wpc[w] = "hostcall" => msg[w] \in Pids

\* The parts but the last are invariants some run checks; none is inductive
\* alone.
IInv ==
  /\ TypeOK
  /\ ServerInv
  /\ OneOwner
  /\ CallerKept
  /\ NoLostWakeup
  /\ ParkedHasChild
  /\ HostCaller

\* The parts of the type invariant that speak of the workers.
LEMMA TypeFacts ==
  ASSUME TypeOK
  PROVE  /\ wpc \in [Workers -> WorkerPC]
         /\ lock \in Workers \cup {Nobody}
         /\ Nobody \notin Workers
         /\ msg \in [Workers -> 0..MaxPid]
BY ServerAssumption DEF TypeOK, Nobody

\* The parts of the type invariant that speak of the table, pointwise.
LEMMA TableFacts ==
  ASSUME TypeOK
  PROVE  /\ \A s \in Slots : /\ procs[s].pid \in 0..MaxPid
                             /\ procs[s].ppid \in 0..MaxPid
                             /\ procs[s].used \in BOOLEAN
                             /\ procs[s].alive \in BOOLEAN
                             /\ procs[s].waiting \in BOOLEAN
                             /\ procs[s].waitFor \in 0..MaxPid
         /\ DOMAIN procs = Slots
         /\ nextPid \in 1..(MaxPid + 1)
         /\ MaxPid \in Nat
         /\ ~NoProc.used
BY ServerAssumption DEF TypeOK, Proc, NoProc

\* A used slot's process number has a thread entry.
LEMMA UsedPid ==
  ASSUME TypeOK, UniquePids, NEW s \in Slots, procs[s].used
  PROVE  procs[s].pid \in Pids /\ procs[s].pid < nextPid
BY TableFacts DEF UniquePids, Pids

\* A worker that serves slot s holds the slot's only pending exception.
LEMMA ServingFacts ==
  ASSUME IInv, NEW w \in Workers, NEW s \in Slots, Serving(w, s)
  PROVE  /\ procs[s].used
         /\ procs[s].pid = msg[w]
         /\ msg[w] \in Pids
         /\ wpc[w] = "handler"
         /\ lock = Nobody
         /\ thread[msg[w]] = "trapped"
         /\ Holds(w, msg[w])
         /\ ~Parked(msg[w])
         /\ ~procs[s].waiting
         /\ msg[w] \notin port
         /\ \A v \in Workers : Holds(v, msg[w]) => v = w
         /\ procs[s].alive \/ Doomed(msg[w])
<1>1. /\ procs[s].used
      /\ procs[s].pid = msg[w]
      /\ wpc[w] = "handler"
      /\ lock = Nobody
      /\ thread[msg[w]] = "trapped"
  BY DEF Serving
<1>2. msg[w] \in Pids
  BY <1>1, UsedPid DEF IInv, ServerInv
<1>3. Holds(w, msg[w])
  BY <1>1 DEF Holds
<1>4. /\ ~Parked(msg[w])
      /\ msg[w] \notin port
      /\ \A v \in Workers : Holds(v, msg[w]) => v = w
  BY <1>2, <1>3 DEF IInv, OneOwner
<1>5. ~procs[s].waiting
  BY <1>1, <1>4 DEF Parked
<1>6. procs[s].alive \/ Doomed(msg[w])
  BY <1>1 DEF IInv, ServerInv, DeadThreads
<1>7. QED
  BY <1>1, <1>2, <1>3, <1>4, <1>5, <1>6

\* With the mutex free nobody is inside fork or a host call that keeps it.
LEMMA FreeLock ==
  ASSUME IInv, lock = Nobody, NEW v \in Workers
  PROVE  wpc[v] \notin {"fork", "heldcall"}
BY TypeFacts DEF IInv, ServerInv, LockOwned

-----------------------------------------------------------------------------
(* What the steps that write the table do to it                            *)

Untouched(T) == \A r \in Slots \ T : procs'[r] = procs[r]

SameId(r) == /\ procs'[r].used = procs[r].used
             /\ procs'[r].pid = procs[r].pid
             /\ procs'[r].ppid = procs[r].ppid

\* The process in slot s is dead and stays in the table.
DiesInPlace(s) ==
  /\ Untouched({s})
  /\ SameId(s)
  /\ procs'[s].waiting = procs[s].waiting
  /\ ~procs'[s].alive

\* The process in slot s is dead and gone; the one in slot q was told.
DiesToParent(q, s) ==
  /\ q # s
  /\ WaitsFor(q, s)
  /\ Untouched({q, s})
  /\ procs'[s] = NoProc
  /\ SameId(q)
  /\ procs'[q].alive = procs[q].alive
  /\ ~procs'[q].waiting

\* The slot is free.
Freed(c) == Untouched({c}) /\ procs'[c] = NoProc

\* proc_exited ends the process in place, or frees its slot and tells the
\* parent that is parked.
LEMMA ExitedEffect ==
  ASSUME IInv, NEW w \in Workers, NEW s \in Slots, Serving(w, s),
         NEW st \in Status, ProcExited(s, st)
  PROVE  \/ /\ DiesInPlace(s)
            /\ s = Root \/ \A q \in Slots : ~WaitsFor(q, s)
            /\ thread' = [thread EXCEPT ![msg[w]] = "dead"]
         \/ \E q \in Slots :
              /\ s # Root
              /\ DiesToParent(q, s)
              /\ thread' = [thread EXCEPT ![msg[w]] = "dead",
                                          ![procs[q].pid] = Resumed(@)]
<1> USE DEF Untouched, SameId
<1>1. TypeOK /\ procs[s].pid = msg[w] /\ ~procs[s].waiting
  BY ServingFacts DEF IInv
<1>2. procs \in [Slots -> Proc]
  BY <1>1 DEF TypeOK
<1>3. CASE /\ procs' = [procs EXCEPT ![s].alive = FALSE, ![s].status = st]
           /\ thread' = [thread EXCEPT ![procs[s].pid] = "dead"]
           /\ s = Root \/ \A q \in Slots : ~WaitsFor(q, s)
  <2>1. procs'[s] = [procs[s] EXCEPT !.alive = FALSE, !.status = st]
    BY <1>2, <1>3
  <2>2. Untouched({s})
    BY <1>2, <1>3
  <2>3. DiesInPlace(s)
    BY <1>2, <2>1, <2>2 DEF DiesInPlace, Proc
  <2>4. QED
    BY <1>1, <1>3, <2>3
<1>4. ASSUME s # Root, NEW q \in Slots, WaitsFor(q, s), WaitComplete(q, s, st)
      PROVE  \E p \in Slots :
              /\ s # Root
              /\ DiesToParent(p, s)
              /\ thread' = [thread EXCEPT ![msg[w]] = "dead",
                                          ![procs[p].pid] = Resumed(@)]
  <2>1. procs' = [procs EXCEPT ![q].waiting = FALSE, ![s] = NoProc]
    BY <1>4 DEF WaitComplete
  <2>2. q # s
    BY <1>1, <1>4 DEF WaitsFor
  <2>3. procs'[s] = NoProc /\ Untouched({q, s})
    BY <1>2, <2>1
  <2>4. procs'[q] = [procs[q] EXCEPT !.waiting = FALSE]
    BY <1>2, <2>1, <2>2
  <2>5. DiesToParent(q, s)
    BY <1>2, <1>4, <2>2, <2>3, <2>4 DEF DiesToParent, Proc
  <2>6. QED
    BY <1>1, <1>4, <2>5 DEF WaitComplete
<1>5. QED
  BY <1>3, <1>4 DEF ProcExited

\* A failed execve ends the process in place.
LEMMA BotchedEffect ==
  ASSUME IInv, NEW w \in Workers, NEW s \in Slots, ExecBotched(w, s)
  PROVE  DiesInPlace(s)
<1>1. /\ procs \in [Slots -> Proc]
      /\ procs' = [procs EXCEPT ![s].alive = FALSE, ![s].status = ExecStatus]
  BY DEF IInv, TypeOK, ExecBotched
<1>2. procs'[s] = [procs[s] EXCEPT !.alive = FALSE, !.status = ExecStatus]
  BY <1>1
<1>3. QED
  BY <1>1, <1>2 DEF DiesInPlace, Untouched, SameId, Proc

\* wait4 parks its caller only on children that are all alive.
LEMMA ParkEffect ==
  ASSUME IInv, NEW w \in Workers, NEW s \in Slots, WaitPark(w, s)
  PROVE  \E target \in 0..MaxPid :
           /\ \E c \in Slots : IsChild(c, s, target)
           /\ \A c \in Slots : IsChild(c, s, target) => procs[c].alive
           /\ Untouched({s})
           /\ SameId(s)
           /\ procs'[s].alive = procs[s].alive
           /\ procs'[s].waiting
           /\ procs'[s].waitFor = target
<1>1. PICK target \in {AnyChild} \cup Pids :
        /\ \E c \in Slots : IsChild(c, s, target)
        /\ \A c \in Slots : IsChild(c, s, target) => procs[c].alive
        /\ procs' = [procs EXCEPT ![s].waiting = TRUE, ![s].waitFor = target]
  BY DEF WaitPark
<1>2. target \in 0..MaxPid
  BY ServerAssumption DEF Pids, AnyChild
<1>3. procs \in [Slots -> Proc]
  BY DEF IInv, TypeOK
<1>4. procs'[s] = [procs[s] EXCEPT !.waiting = TRUE, !.waitFor = target]
  BY <1>1, <1>3
<1>5. /\ Untouched({s})
      /\ SameId(s)
      /\ procs'[s].alive = procs[s].alive
      /\ procs'[s].waiting
      /\ procs'[s].waitFor = target
  BY <1>1, <1>3, <1>4 DEF Untouched, SameId, Proc
<1>6. QED
  BY <1>1, <1>2, <1>5

\* wait4 frees the slot of one dead child of the caller.
LEMMA ReapEffect ==
  ASSUME IInv, NEW w \in Workers, NEW s \in Slots, WaitReap(w, s)
  PROVE  \E c \in Slots : /\ procs[c].used
                          /\ ~procs[c].alive
                          /\ procs[c].ppid = procs[s].pid
                          /\ Freed(c)
<1>1. PICK c \in Slots : /\ procs[c].used
                         /\ ~procs[c].alive
                         /\ procs[c].ppid = procs[s].pid
                         /\ procs' = [procs EXCEPT ![c] = NoProc]
  BY DEF WaitReap, IsChild
<1>2. Freed(c)
  BY <1>1 DEF IInv, TypeOK, Freed, Untouched
<1>3. QED
  BY <1>1, <1>2

\* fork fills one free slot with the next number.
LEMMA ReserveEffect ==
  ASSUME IInv, NEW w \in Workers, NEW s \in Slots, ForkReserve(w, s)
  PROVE  \E c \in Slots : /\ ~procs[c].used
                          /\ Untouched({c})
                          /\ procs'[c] = NewProc(nextPid, msg[w])
                          /\ procs'[c].used /\ procs'[c].alive
                          /\ ~procs'[c].waiting
                          /\ procs'[c].pid = nextPid
                          /\ procs'[c].ppid = msg[w]
                          /\ nextPid \in Pids
<1>1. PICK c \in Slots :
        /\ ~procs[c].used
        /\ procs' = [procs EXCEPT ![c] = NewProc(nextPid, procs[s].pid)]
  BY DEF ForkReserve, FirstFree
<1>2. procs[s].pid = msg[w] /\ nextPid \in Pids /\ msg[w] \in 0..MaxPid
  BY TableFacts, TypeFacts, ServerAssumption
  DEF ForkReserve, Syscall, Serving, IInv, Pids
<1>3. procs'[c] = NewProc(nextPid, msg[w])
  BY <1>1, <1>2 DEF IInv, TypeOK
<1>4. Untouched({c})
  BY <1>1 DEF IInv, TypeOK, Untouched
<1>5. nextPid \in 0..MaxPid
  BY <1>2, ServerAssumption DEF Pids
<1>6. /\ procs'[c].used /\ procs'[c].alive
      /\ ~procs'[c].waiting
      /\ procs'[c].pid = nextPid
      /\ procs'[c].ppid = msg[w]
  BY <1>2, <1>3, <1>5, NewProcType
<1>7. QED
  BY <1>1, <1>2, <1>3, <1>4, <1>6

\* A refused fork frees the slot that has the last number.
LEMMA RefusedEffect ==
  ASSUME IInv, NEW w \in Workers, ForkRefused(w)
  PROVE  \A s \in Slots : IF procs[s].pid = nextPid - 1
                            THEN procs'[s] = NoProc
                            ELSE procs'[s] = procs[s]
BY DEF ForkRefused

\* Only fork and a host call that keeps it hold the mutex after a step.
LEMMA LockStep == TypeOK /\ LockOwned /\ [Next]_vars => LockOwned'
<1> SUFFICES ASSUME TypeOK /\ LockOwned, [Next]_vars PROVE LockOwned'
  OBVIOUS
<1> USE TypeFacts DEF LockOwned, Goto
<1>1. ASSUME NEW p \in Pids, Trap(p) PROVE LockOwned'
  BY <1>1 DEF Trap
<1>2. ASSUME NEW w \in Workers, NEW p \in Pids, Receive(w, p)
      PROVE  LockOwned'
  BY <1>2 DEF Receive
<1>3. ASSUME NEW w \in Workers, Unserved(w) PROVE LockOwned'
  BY <1>3 DEF Unserved
<1>4. ASSUME NEW w \in Workers, NEW s \in Slots, PlainCall(w, s)
      PROVE  LockOwned'
  BY <1>4 DEF PlainCall, Syscall, Serving
<1>5. ASSUME NEW w \in Workers, NEW s \in Slots, CallUnlocked(w, s)
      PROVE  LockOwned'
  BY <1>5 DEF CallUnlocked, Syscall, Serving
<1>6. ASSUME NEW w \in Workers, NEW s \in Slots, CallLocked(w, s)
      PROVE  LockOwned'
  BY <1>6 DEF CallLocked, Syscall, Serving
<1>7. ASSUME NEW w \in Workers, NEW s \in Slots, ForkReserve(w, s)
      PROVE  LockOwned'
  BY <1>7 DEF ForkReserve, Syscall, Serving
<1>8. ASSUME NEW w \in Workers, NEW s \in Slots, ForkNoSlot(w, s)
      PROVE  LockOwned'
  BY <1>8 DEF ForkNoSlot, Syscall, Serving
<1>9. ASSUME NEW w \in Workers, NEW s \in Slots, Exit(w, s)
      PROVE  LockOwned'
  BY <1>9 DEF Exit, Syscall, Serving
<1>10. ASSUME NEW w \in Workers, NEW s \in Slots, Fault(w, s)
       PROVE  LockOwned'
  BY <1>10 DEF Fault, Syscall, Serving
<1>11. ASSUME NEW w \in Workers, NEW s \in Slots, ExecBotched(w, s)
       PROVE  LockOwned'
  BY <1>11 DEF ExecBotched, Syscall, Serving
<1>12. ASSUME NEW w \in Workers, NEW s \in Slots, WaitReap(w, s)
       PROVE  LockOwned'
  BY <1>12 DEF WaitReap, Syscall, Serving
<1>13. ASSUME NEW w \in Workers, NEW s \in Slots, WaitPark(w, s)
       PROVE  LockOwned'
  BY <1>13 DEF WaitPark, Syscall, Serving
<1>14. ASSUME NEW w \in Workers, ForkCreate(w) PROVE LockOwned'
  BY <1>14 DEF ForkCreate
<1>15. ASSUME NEW w \in Workers, ForkRefused(w) PROVE LockOwned'
  BY <1>15 DEF ForkRefused
<1>16. ASSUME NEW w \in Workers, HostReturn(w) PROVE LockOwned'
  BY <1>16 DEF HostReturn
<1>17. ASSUME NEW w \in Workers, Reply(w) PROVE LockOwned'
  BY <1>17 DEF Reply
<1>18. ASSUME NEW w \in Workers, CheckDone(w) PROVE LockOwned'
  BY <1>18 DEF CheckDone
<1>19. ASSUME NEW w \in Workers, TeardownSlot(w) PROVE LockOwned'
  BY <1>19 DEF TeardownSlot
<1>20. ASSUME NEW w \in Workers, Leave(w) PROVE LockOwned'
  BY <1>20 DEF Leave
<1>21. CASE UNCHANGED vars
  BY <1>21 DEF vars
<1>22. QED
  BY <1>1, <1>2, <1>3, <1>4, <1>5, <1>6, <1>7, <1>8, <1>9, <1>10, <1>11,
     <1>12, <1>13, <1>14, <1>15, <1>16, <1>17, <1>18, <1>19, <1>20, <1>21
  DEF Next, Handle, Fork, Finish, Finished

-----------------------------------------------------------------------------
(* One lemma per part: a step keeps it                                     *)

\* The steps that may write the table.
LEMMA TableWriters ==
  ASSUME [Next]_vars
  PROVE  \/ UNCHANGED <<procs, nextPid>>
         \/ \E w \in Workers, s \in Slots :
              \/ ForkReserve(w, s) \/ WaitReap(w, s) \/ WaitPark(w, s)
              \/ Exit(w, s) \/ Fault(w, s) \/ ExecBotched(w, s)
         \/ \E w \in Workers : ForkRefused(w)
BY DEF Next, Handle, Fork, Finish, Finished, vars, Trap, Receive, Unserved,
   PlainCall, CallUnlocked, CallLocked, ForkNoSlot, ForkCreate, HostReturn,
   Reply, CheckDone, TeardownSlot, Leave

\* Every step leaves the table alone or is one of seven changes to it.
LEMMA TableChange ==
  ASSUME IInv, [Next]_vars
  PROVE  \/ UNCHANGED <<procs, nextPid>>
         \/ \E w \in Workers, s \in Slots : ForkReserve(w, s)
         \/ \E w \in Workers : ForkRefused(w)
         \/ \E w \in Workers, s \in Slots : WaitReap(w, s)
         \/ \E w \in Workers, s \in Slots : WaitPark(w, s)
         \/ \E w \in Workers, s \in Slots :
              /\ Serving(w, s)
              /\ DiesInPlace(s)
              /\ nextPid' = nextPid
         \/ \E w \in Workers, s \in Slots, q \in Slots :
              /\ Serving(w, s)
              /\ s # Root
              /\ DiesToParent(q, s)
              /\ nextPid' = nextPid
<1> DEFINE Dies ==
             \/ \E w \in Workers, s \in Slots :
                  /\ Serving(w, s)
                  /\ DiesInPlace(s)
                  /\ nextPid' = nextPid
             \/ \E w \in Workers, s \in Slots, q \in Slots :
                  /\ Serving(w, s)
                  /\ s # Root
                  /\ DiesToParent(q, s)
                  /\ nextPid' = nextPid
<1>1. ASSUME NEW w \in Workers, NEW s \in Slots, Exit(w, s) PROVE Dies
  <2>1. /\ Serving(w, s)
        /\ \E st \in Status : ProcExited(s, st)
        /\ nextPid' = nextPid
    BY <1>1 DEF Exit, Syscall, Status
  <2>2. QED
    BY <2>1, ExitedEffect
<1>2. ASSUME NEW w \in Workers, NEW s \in Slots, Fault(w, s) PROVE Dies
  <2>1. /\ Serving(w, s)
        /\ \E st \in Status : ProcExited(s, st)
        /\ nextPid' = nextPid
    BY <1>2 DEF Fault, Status
  <2>2. QED
    BY <2>1, ExitedEffect
<1>3. ASSUME NEW w \in Workers, NEW s \in Slots, ExecBotched(w, s) PROVE Dies
  <2>1. Serving(w, s) /\ nextPid' = nextPid
    BY <1>3 DEF ExecBotched, Syscall
  <2>2. QED
    BY <1>3, <2>1, BotchedEffect
<1> HIDE DEF Dies
<1>4. QED
  BY <1>1, <1>2, <1>3, TableWriters DEF Dies

\* While a worker is between the halves of fork its caller is not the child.
LEMMA PendingChild ==
  ASSUME IInv, NEW w \in Workers, wpc[w] = "fork"
  PROVE  /\ nextPid - 1 \in Pids
         /\ thread[nextPid - 1] = "none"
         /\ msg[w] \in Pids
         /\ msg[w] # nextPid - 1
         /\ procs[Root].pid # nextPid - 1
         /\ Holds(w, msg[w])
         /\ ~Parked(msg[w])
         /\ ~Parked(nextPid - 1)
         /\ nextPid - 1 \notin port
<1>1. /\ nextPid > 1
      /\ thread[nextPid - 1] = "none"
      /\ \A s \in Slots : procs[s].used /\ procs[s].pid = nextPid - 1
                            => procs[s].ppid = msg[w]
  BY DEF IInv, ServerInv, ForkPending
<1>2. nextPid - 1 \in Pids
  BY <1>1, TableFacts DEF IInv, Pids
<1>3. msg[w] \in Pids
  <2>1. PICK s \in Slots : procs[s].used /\ procs[s].pid = msg[w]
    BY DEF IInv, CallerKept
  <2>2. QED
    BY <2>1, UsedPid DEF IInv, ServerInv
<1>4. Holds(w, msg[w])
  BY DEF Holds
<1>5. thread[msg[w]] \in {"trapped", "dead"} /\ ~Parked(msg[w])
  BY <1>3, <1>4 DEF IInv, OneOwner
<1>6. msg[w] # nextPid - 1
  BY <1>1, <1>5
<1>7. procs[Root].pid # nextPid - 1
  <2>1. procs[Root].used /\ procs[Root].ppid = NoPid /\ Root \in Slots
    BY ConstFacts DEF IInv, ServerInv, RootKept
  <2>2. NoPid \notin Pids
    BY DEF NoPid, Pids
  <2>3. QED
    BY <1>1, <1>3, <2>1, <2>2
<1>8. ~Parked(nextPid - 1) /\ nextPid - 1 \notin port
  BY <1>1, <1>2 DEF IInv, OneOwner
<1>9. QED
  BY <1>1, <1>2, <1>3, <1>4, <1>5, <1>6, <1>7, <1>8

\* Pids stay unique and the root keeps its slot.
LEMMA TableStep ==
  ASSUME IInv, [Next]_vars
  PROVE  UniquePids' /\ RootKept'
<1> USE ConstFacts
<1>1. /\ UniquePids /\ RootKept /\ TypeOK
      /\ nextPid \in 1..(MaxPid + 1)
      /\ \A s \in Slots : procs[s].pid \in 0..MaxPid
      /\ ~NoProc.used
  BY TableFacts DEF IInv, ServerInv
<1>2. CASE UNCHANGED <<procs, nextPid>>
  BY <1>1, <1>2 DEF UniquePids, RootKept
<1>3. ASSUME NEW w \in Workers, NEW s \in Slots, ForkReserve(w, s)
      PROVE  UniquePids' /\ RootKept'
  <2>1. PICK c \in Slots : /\ ~procs[c].used
                           /\ Untouched({c})
                           /\ procs'[c].used
                           /\ procs'[c].pid = nextPid
    BY <1>3, ReserveEffect
  <2>2. nextPid' = nextPid + 1
    BY <1>3 DEF ForkReserve
  <2>3. UniquePids'
    BY <1>1, <2>1, <2>2 DEF UniquePids, Untouched
  <2>4. RootKept'
    BY <1>1, <2>1 DEF RootKept, Untouched
  <2>5. QED
    BY <2>3, <2>4
<1>4. ASSUME NEW w \in Workers, ForkRefused(w)
      PROVE  UniquePids' /\ RootKept'
  <2>1. \A s \in Slots : IF procs[s].pid = nextPid - 1
                            THEN procs'[s] = NoProc
                            ELSE procs'[s] = procs[s]
    BY <1>4, RefusedEffect
  <2>2. nextPid' = nextPid /\ procs[Root].pid # nextPid - 1
    BY <1>4, PendingChild DEF ForkRefused
  <2>3. QED
    BY <1>1, <2>1, <2>2 DEF UniquePids, RootKept
<1>5. ASSUME NEW w \in Workers, NEW s \in Slots, WaitReap(w, s)
      PROVE  UniquePids' /\ RootKept'
  <2>1. PICK c \in Slots : /\ procs[c].ppid = procs[s].pid
                           /\ Freed(c)
    BY <1>5, ReapEffect
  <2>2. Serving(w, s) /\ nextPid' = nextPid
    BY <1>5 DEF WaitReap, Syscall
  <2>3. procs[s].pid # NoPid
    BY <2>2, ServingFacts DEF Pids, NoPid
  <2>4. QED
    BY <1>1, <2>1, <2>2, <2>3 DEF UniquePids, RootKept, Freed, Untouched
<1>6. ASSUME NEW w \in Workers, NEW s \in Slots, WaitPark(w, s)
      PROVE  UniquePids' /\ RootKept'
  <2>1. Untouched({s}) /\ SameId(s)
    BY <1>6, ParkEffect
  <2>2. nextPid' = nextPid
    BY <1>6 DEF WaitPark
  <2>3. QED
    BY <1>1, <2>1, <2>2 DEF UniquePids, RootKept, Untouched, SameId
<1>7. ASSUME NEW w \in Workers, NEW s \in Slots, DiesInPlace(s),
             nextPid' = nextPid
      PROVE  UniquePids' /\ RootKept'
  BY <1>1, <1>7 DEF UniquePids, RootKept, DiesInPlace, Untouched, SameId
<1>8. ASSUME NEW s \in Slots, NEW q \in Slots, s # Root, DiesToParent(q, s),
             nextPid' = nextPid
      PROVE  UniquePids' /\ RootKept'
  BY <1>1, <1>8 DEF UniquePids, RootKept, DiesToParent, Untouched, SameId
<1>9. QED
  BY TableChange, <1>2, <1>3, <1>4, <1>5, <1>6, <1>7, <1>8

\* A dead thread stays dead, and a number gets a thread in fork only.
LEMMA ThreadChange ==
  ASSUME IInv, [Next]_vars, NEW p \in Pids
  PROVE  /\ thread[p] = "dead" => thread'[p] = "dead"
         /\ thread[p] = "none" =>
              \/ thread'[p] = "none"
              \/ p = nextPid - 1 /\ \E w \in Workers : ForkCreate(w)
<1> DEFINE Kept == /\ thread[p] = "dead" => thread'[p] = "dead"
                   /\ thread[p] = "none" => thread'[p] = "none"
<1>1. thread \in [Pids -> {"none", "running", "trapped", "dead"}]
  BY DEF IInv, TypeOK
<1>2. CASE thread' = thread
  BY <1>2
<1>3. ASSUME NEW g \in Pids, Trap(g) PROVE Kept
  BY <1>1, <1>3 DEF Trap
<1>4. ASSUME NEW w \in Workers, NEW s \in Slots, NEW st \in Status,
             Serving(w, s), ProcExited(s, st)
      PROVE  Kept
  <2>1. thread[msg[w]] = "trapped"
    BY <1>4 DEF Serving
  <2>2. CASE thread' = [thread EXCEPT ![msg[w]] = "dead"]
    BY <1>1, <2>1, <2>2
  <2>3. CASE \E q \in Slots :
               thread' = [thread EXCEPT ![msg[w]] = "dead",
                                        ![procs[q].pid] = Resumed(@)]
    BY <1>1, <2>1, <2>3 DEF Resumed
  <2>4. QED
    BY <1>4, <2>2, <2>3, ExitedEffect
<1>5. ASSUME NEW w \in Workers, NEW s \in Slots, Exit(w, s) \/ Fault(w, s)
      PROVE  Kept
  <2>1. Serving(w, s) /\ \E st \in Status : ProcExited(s, st)
    BY <1>5 DEF Exit, Fault, Syscall, Status
  <2>2. QED
    BY <1>4, <2>1
<1>6. ASSUME NEW w \in Workers, ForkCreate(w)
      PROVE  /\ thread[p] = "dead" => thread'[p] = "dead"
             /\ thread[p] = "none" => thread'[p] = "none" \/ p = nextPid - 1
  <2>1. thread[nextPid - 1] = "none"
    BY <1>6, PendingChild DEF ForkCreate
  <2>2. QED
    BY <1>1, <1>6, <2>1 DEF ForkCreate
<1>7. ASSUME NEW w \in Workers, Reply(w) PROVE Kept
  BY <1>1, <1>7 DEF Reply, Resumed
<1>8. ASSUME NEW w \in Workers, TeardownSlot(w) PROVE Kept
  BY <1>1, <1>8 DEF TeardownSlot
<1>9. ASSUME NEW w \in Workers, NEW s \in Slots,
             \/ PlainCall(w, s) \/ CallUnlocked(w, s) \/ CallLocked(w, s)
             \/ ForkReserve(w, s) \/ ForkNoSlot(w, s) \/ ExecBotched(w, s)
             \/ WaitReap(w, s) \/ WaitPark(w, s)
      PROVE  thread' = thread
  BY <1>9 DEF PlainCall, CallUnlocked, CallLocked, ForkReserve, ForkNoSlot,
     ExecBotched, WaitReap, WaitPark
<1>10. ASSUME NEW w \in Workers, NEW g \in Pids,
              \/ Receive(w, g) \/ Unserved(w) \/ ForkRefused(w)
              \/ HostReturn(w) \/ CheckDone(w) \/ Leave(w)
       PROVE  thread' = thread
  BY <1>10 DEF Receive, Unserved, ForkRefused, HostReturn, CheckDone, Leave
<1>11. CASE UNCHANGED vars
  BY <1>11 DEF vars
<1>12. QED
  BY <1>2, <1>3, <1>5, <1>6, <1>7, <1>8, <1>9, <1>10, <1>11
  DEF Next, Handle, Fork, Finish, Finished

\* A guest that execve has declared dead is never declared alive again.
LEMMA ImageChange ==
  ASSUME IInv, [Next]_vars, NEW p \in Pids, Doomed(p)
  PROVE  Doomed(p)'
<1>1. CASE image' = image
  BY <1>1 DEF Doomed
<1>2. ASSUME NEW w \in Workers, NEW s \in Slots, ExecBotched(w, s)
      PROVE  Doomed(p)'
  <2>1. image \in [Pids -> Image]
    BY DEF IInv, TypeOK
  <2>2. PICK left \in {"part", "none"} : image' = [image EXCEPT ![msg[w]] = left]
    BY <1>2 DEF ExecBotched
  <2>3. QED
    BY <2>1, <2>2 DEF Doomed
<1>3. ASSUME NEW w \in Workers, NEW s \in Slots,
             \/ PlainCall(w, s) \/ CallUnlocked(w, s) \/ CallLocked(w, s)
             \/ ForkReserve(w, s) \/ ForkNoSlot(w, s) \/ Exit(w, s)
             \/ Fault(w, s) \/ WaitReap(w, s) \/ WaitPark(w, s)
      PROVE  image' = image
  BY <1>3 DEF PlainCall, CallUnlocked, CallLocked, ForkReserve, ForkNoSlot,
     Exit, Fault, WaitReap, WaitPark
<1>4. ASSUME NEW w \in Workers, NEW g \in Pids,
             \/ Trap(g) \/ Receive(w, g) \/ Unserved(w) \/ ForkCreate(w)
             \/ ForkRefused(w) \/ HostReturn(w) \/ Reply(w) \/ CheckDone(w)
             \/ TeardownSlot(w) \/ Leave(w)
      PROVE  image' = image
  BY <1>4 DEF Trap, Receive, Unserved, ForkCreate, ForkRefused, HostReturn,
     Reply, CheckDone, TeardownSlot, Leave
<1>5. CASE UNCHANGED vars
  BY <1>5 DEF vars, Doomed
<1>6. QED
  BY <1>1, <1>2, <1>3, <1>4, <1>5, ServerAssumption
  DEF Next, Handle, Fork, Finish, Finished

\* The last number given out has no thread until fork creates it.
LEMMA PendingStep ==
  ASSUME IInv, [Next]_vars
  PROVE  ForkPending'
<1>1. \A p \in Pids : p >= nextPid' => thread'[p] = "none"
  <2>1. /\ \A p \in Pids : p >= nextPid => thread[p] = "none"
        /\ nextPid \in 1..(MaxPid + 1)
    BY TableFacts DEF IInv, ServerInv, ForkPending
  <2>2. nextPid' = nextPid \/ nextPid' = nextPid + 1
    BY TableChange DEF ForkReserve, ForkRefused, WaitReap, WaitPark
  <2>3. QED
    BY <2>1, <2>2, ThreadChange DEF Pids
<1>2. ASSUME NEW v \in Workers, wpc'[v] = "fork"
      PROVE  /\ nextPid' > 1
             /\ thread'[nextPid' - 1] = "none"
             /\ \A s \in Slots : procs'[s].used /\ procs'[s].pid = nextPid' - 1
                                   => procs'[s].ppid = msg'[v]
  <2>1. CASE \E s \in Slots : ForkReserve(v, s)
    <3>1. PICK s \in Slots : ForkReserve(v, s)
      BY <2>1
    <3>2. PICK c \in Slots : /\ Untouched({c})
                             /\ procs'[c].ppid = msg[v]
                             /\ nextPid \in Pids
      BY <3>1, ReserveEffect
    <3>3. nextPid' = nextPid + 1 /\ thread' = thread /\ msg' = msg
      BY <3>1 DEF ForkReserve
    <3>4. \A r \in Slots : procs[r].used => procs[r].pid < nextPid
      BY UsedPid DEF IInv, ServerInv
    <3>5. \A r \in Slots : procs'[r].used /\ procs'[r].pid = nextPid => r = c
      BY <3>2, <3>4 DEF Untouched, Pids
    <3>6. /\ thread[nextPid] = "none"
          /\ nextPid + 1 > 1 /\ nextPid + 1 - 1 = nextPid
      BY <3>2, TableFacts DEF IInv, ServerInv, ForkPending, Pids
    <3>7. nextPid' - 1 = nextPid
      BY <3>2, <3>3 DEF Pids
    <3>8. QED
      BY <3>2, <3>3, <3>5, <3>6, <3>7
  <2>2. CASE wpc[v] = "fork" /\ msg'[v] = msg[v]
    <3>1. lock = v /\ lock # Nobody
      BY <2>2, TypeFacts DEF IInv, ServerInv, LockOwned
    <3>2. /\ \A w \in Workers, s \in Slots : ~Serving(w, s)
          /\ \A w \in Workers, s \in Slots :
               ~ForkReserve(w, s) /\ ~WaitReap(w, s) /\ ~WaitPark(w, s)
      BY <3>1 DEF Serving, Syscall, ForkReserve, WaitReap, WaitPark
    <3>3. \A w \in Workers : wpc[w] = "fork" => w = v
      BY <3>1 DEF IInv, ServerInv, LockOwned
    <3>4. ~ForkCreate(v) /\ ~ForkRefused(v)
      BY <1>2, TypeFacts DEF ForkCreate, ForkRefused, Goto, IInv
    <3>5. \A w \in Workers : ~ForkCreate(w) /\ ~ForkRefused(w)
      BY <3>3, <3>4 DEF ForkCreate, ForkRefused
    <3>6. UNCHANGED <<procs, nextPid>>
      BY <3>2, <3>5, TableChange
    <3>7. thread'[nextPid - 1] = "none"
      BY <2>2, <3>5, PendingChild, ThreadChange
    <3>8. QED
      BY <2>2, <3>6, <3>7 DEF IInv, ServerInv, ForkPending
  <2>3. \/ \E s \in Slots : ForkReserve(v, s)
        \/ wpc[v] = "fork" /\ msg'[v] = msg[v]
    <3>1. /\ wpc \in [Workers -> WorkerPC]
          /\ msg \in [Workers -> 0..MaxPid]
      BY TypeFacts DEF IInv
    <3>2. CASE UNCHANGED <<wpc, msg>>
      BY <1>2, <3>2
    <3>3. ASSUME NEW w \in Workers, NEW s \in Slots,
                 \/ PlainCall(w, s) \/ CallUnlocked(w, s) \/ CallLocked(w, s)
                 \/ ForkNoSlot(w, s) \/ Exit(w, s) \/ Fault(w, s)
                 \/ ExecBotched(w, s) \/ WaitReap(w, s) \/ WaitPark(w, s)
          PROVE  wpc[v] = "fork" /\ msg'[v] = msg[v]
      BY <1>2, <3>1, <3>3 DEF Goto, PlainCall, CallUnlocked, CallLocked,
         ForkNoSlot, Exit, Fault, ExecBotched, WaitReap, WaitPark
    <3>4. ASSUME NEW w \in Workers, NEW g \in Pids,
                 \/ Receive(w, g) \/ Unserved(w) \/ ForkRefused(w)
                 \/ ForkCreate(w) \/ HostReturn(w) \/ Reply(w) \/ CheckDone(w)
          PROVE  wpc[v] = "fork" /\ msg'[v] = msg[v]
      BY <1>2, <3>1, <3>4 DEF Goto, Receive, Unserved, ForkRefused, ForkCreate,
         HostReturn, Reply, CheckDone
    <3>5. ASSUME NEW w \in Workers, NEW p \in Pids,
                 Trap(p) \/ TeardownSlot(w) \/ Leave(w)
          PROVE  wpc[v] = "fork" /\ msg'[v] = msg[v]
      BY <1>2, <3>2, <3>5 DEF Trap, TeardownSlot, Leave
    <3>6. CASE UNCHANGED vars
      BY <1>2, <3>6 DEF vars
    <3>7. ASSUME NEW w \in Workers, NEW s \in Slots, ForkReserve(w, s)
          PROVE  ForkReserve(v, s) \/ (wpc[v] = "fork" /\ msg'[v] = msg[v])
      <4>1. CASE w = v
        BY <3>7, <4>1
      <4>2. CASE w # v
        BY <1>2, <3>1, <3>7, <4>2 DEF ForkReserve, Goto
      <4>3. QED
        BY <4>1, <4>2
    <3>8. QED
      BY <3>3, <3>4, <3>5, <3>6, <3>7, ConstFacts
      DEF Next, Handle, Fork, Finish, Finished
  <2>4. QED
    BY <2>1, <2>2, <2>3
<1>3. QED
  BY <1>1, <1>2 DEF ForkPending

\* Death takes the thread unless execve declared it, and only the living and
\* those execve has declared dead wait.
LEMMA DeadStep ==
  ASSUME IInv, [Next]_vars
  PROVE  DeadThreads' /\ ParkedAlive'
<1> DEFINE Gone(p) == image'[p] # "whole"
<1>1. /\ DeadThreads /\ ParkedAlive /\ UniquePids /\ TypeOK
      /\ ~NoProc.used
  BY TableFacts DEF IInv, ServerInv
<1>2. \A s \in Slots : procs[s].used /\ ~procs[s].alive =>
        thread'[procs[s].pid] = "dead" \/ Gone(procs[s].pid)
  <2>1. SUFFICES ASSUME NEW s \in Slots, procs[s].used, ~procs[s].alive
                 PROVE  thread'[procs[s].pid] = "dead" \/ Gone(procs[s].pid)
    OBVIOUS
  <2>2. procs[s].pid \in Pids
    BY <1>1, <2>1, UsedPid
  <2>3. thread[procs[s].pid] = "dead" \/ Doomed(procs[s].pid)
    BY <1>1, <2>1 DEF DeadThreads
  <2>4. Doomed(procs[s].pid) => Gone(procs[s].pid)
    BY <2>2, ImageChange DEF Doomed
  <2>5. QED
    BY <2>2, <2>3, <2>4, ThreadChange
<1>3. \A s \in Slots : procs[s].used /\ procs[s].waiting =>
         procs[s].alive \/ Gone(procs[s].pid)
  <2>1. SUFFICES ASSUME NEW s \in Slots, procs[s].used, procs[s].waiting,
                        ~procs[s].alive
                 PROVE  Gone(procs[s].pid)
    OBVIOUS
  <2>2. procs[s].pid \in Pids /\ Doomed(procs[s].pid)
    BY <1>1, <2>1, UsedPid DEF ParkedAlive
  <2>3. QED
    BY <2>2, ImageChange DEF Doomed
<1> DEFINE Both ==
         /\ \A s \in Slots : procs'[s].used /\ ~procs'[s].alive =>
              thread'[procs'[s].pid] = "dead" \/ Gone(procs'[s].pid)
         /\ \A s \in Slots : procs'[s].used /\ procs'[s].waiting =>
              procs'[s].alive \/ Gone(procs'[s].pid)
<1>4. SUFFICES Both
  BY DEF DeadThreads, ParkedAlive, Doomed
<1> HIDE DEF Gone
<1>5. CASE UNCHANGED procs
  BY <1>1, <1>2, <1>3, <1>5
<1>6. ASSUME NEW w \in Workers, NEW s \in Slots, ForkReserve(w, s)
      PROVE  Both
  <2>1. PICK c \in Slots : Untouched({c}) /\ procs'[c].alive
    BY <1>6, ReserveEffect
  <2>2. QED
    BY <1>1, <1>2, <1>3, <2>1 DEF Untouched
<1>7. ASSUME NEW w \in Workers, ForkRefused(w)
      PROVE  Both
  <2>1. \A s \in Slots : procs'[s].used => procs'[s] = procs[s]
    BY <1>1, <1>7, RefusedEffect
  <2>2. QED
    BY <1>1, <1>2, <1>3, <2>1
<1>8. ASSUME NEW w \in Workers, NEW s \in Slots, WaitReap(w, s)
      PROVE  Both
  <2>1. \A r \in Slots : procs'[r].used => procs'[r] = procs[r]
    BY <1>1, <1>8, ReapEffect DEF Freed, Untouched
  <2>2. QED
    BY <1>1, <1>2, <1>3, <2>1
<1>9. ASSUME NEW w \in Workers, NEW s \in Slots, WaitPark(w, s)
      PROVE  Both
  <2>1. /\ Untouched({s})
        /\ SameId(s)
        /\ procs'[s].alive = procs[s].alive
    BY <1>9, ParkEffect
  <2>2. procs[s].alive \/ Gone(procs[s].pid)
    <3>1. /\ procs[s].pid = msg[w] /\ msg[w] \in Pids
          /\ procs[s].alive \/ Doomed(msg[w])
      BY <1>9, ServingFacts DEF WaitPark, Syscall
    <3>2. QED
      BY <3>1, ImageChange DEF Gone, Doomed
  <2>3. QED
    BY <1>1, <1>2, <1>3, <2>1, <2>2 DEF Untouched, SameId
<1>10. ASSUME NEW w \in Workers, NEW s \in Slots, Serving(w, s),
             DiesInPlace(s),
             thread'[msg[w]] = "dead" \/ Gone(msg[w])
      PROVE  Both
  <2>1. procs[s].pid = msg[w] /\ ~procs[s].waiting
    BY <1>10, ServingFacts
  <2>2. QED
    BY <1>1, <1>2, <1>3, <1>10, <2>1
    DEF DiesInPlace, Untouched, SameId
<1>11. ASSUME NEW s \in Slots, NEW q \in Slots, DiesToParent(q, s)
      PROVE  Both
  BY <1>1, <1>2, <1>3, <1>11
  DEF DiesToParent, Untouched, SameId
<1>12. ASSUME NEW w \in Workers, NEW s \in Slots, NEW st \in Status,
              Serving(w, s), ProcExited(s, st)
       PROVE  Both
  <2>1. /\ msg[w] \in Pids
        /\ thread \in [Pids -> {"none", "running", "trapped", "dead"}]
    BY <1>1, <1>12, ServingFacts DEF TypeOK
  <2>2. CASE DiesInPlace(s) /\ thread' = [thread EXCEPT ![msg[w]] = "dead"]
    BY <1>10, <1>12, <2>1, <2>2
  <2>3. QED
    BY <1>11, <1>12, <2>2, ExitedEffect
<1>13. ASSUME NEW w \in Workers, NEW s \in Slots, Exit(w, s) \/ Fault(w, s)
       PROVE  Both
  <2>1. Serving(w, s) /\ \E st \in Status : ProcExited(s, st)
    BY <1>13 DEF Exit, Fault, Syscall, Status
  <2>2. QED
    BY <1>12, <2>1
<1>14. ASSUME NEW w \in Workers, NEW s \in Slots, ExecBotched(w, s)
       PROVE  Both
  <2>1. Serving(w, s) /\ DiesInPlace(s)
    BY <1>14, BotchedEffect DEF ExecBotched, Syscall
  <2>2. Gone(msg[w])
    BY <1>1, <1>14, <2>1, ServingFacts DEF ExecBotched, TypeOK, Gone
  <2>3. QED
    BY <1>10, <2>1, <2>2
<1>15. QED
  BY <1>5, <1>6, <1>7, <1>8, <1>9, <1>13, <1>14, TableWriters

\* A guest that execve declared dead and that has lost its slot gets no other:
\* proc_new gives slots to numbers that had no thread yet.
LEMMA AbandonedStep ==
  ASSUME IInv, [Next]_vars, NEW p \in Pids, thread[p] # "none", Abandoned(p)
  PROVE  Abandoned(p)'
<1>1. /\ Doomed(p)'
      /\ \A s \in Slots : ~(procs[s].used /\ procs[s].pid = p)
  BY ImageChange DEF Abandoned
<1>2. p # nextPid /\ ~NoProc.used
  BY TableFacts DEF IInv, ServerInv, ForkPending
<1>3. SUFFICES \A s \in Slots : procs'[s].used => procs'[s].pid # p
  BY <1>1 DEF Abandoned
<1>4. ASSUME NEW w \in Workers, NEW s \in Slots, ForkReserve(w, s)
      PROVE  \A r \in Slots : procs'[r].used => procs'[r].pid # p
  BY <1>1, <1>2, <1>4, ReserveEffect DEF Untouched
<1>5. ASSUME NEW w \in Workers, ForkRefused(w)
      PROVE  \A r \in Slots : procs'[r].used => procs'[r].pid # p
  BY <1>1, <1>2, <1>5, RefusedEffect
<1>6. ASSUME NEW w \in Workers, NEW s \in Slots, WaitReap(w, s)
      PROVE  \A r \in Slots : procs'[r].used => procs'[r].pid # p
  BY <1>1, <1>2, <1>6, ReapEffect DEF Freed, Untouched
<1>7. ASSUME NEW w \in Workers, NEW s \in Slots, WaitPark(w, s)
      PROVE  \A r \in Slots : procs'[r].used => procs'[r].pid # p
  BY <1>1, <1>7, ParkEffect DEF Untouched, SameId
<1>8. ASSUME NEW s \in Slots, DiesInPlace(s)
      PROVE  \A r \in Slots : procs'[r].used => procs'[r].pid # p
  BY <1>1, <1>8 DEF DiesInPlace, Untouched, SameId
<1>9. ASSUME NEW q \in Slots, NEW s \in Slots, DiesToParent(q, s)
      PROVE  \A r \in Slots : procs'[r].used => procs'[r].pid # p
  BY <1>1, <1>2, <1>9 DEF DiesToParent, Untouched, SameId
<1>10. QED
  BY <1>1, <1>4, <1>5, <1>6, <1>7, <1>8, <1>9, TableChange

\* A guest's exception stays where it is: no worker takes or drops one, nobody
\* parks or is told, and a thread changes only by being killed.
LEMMA QuietOwner ==
  ASSUME IInv, [Next]_vars, port' = port,
         \A v \in Workers, p \in Pids : Holds(v, p)' <=> Holds(v, p),
         \A p \in Pids : Parked(p)' <=> Parked(p),
         \A p \in Pids : \/ thread'[p] = thread[p]
                         \/ thread'[p] = "dead"
  PROVE  OneOwner'
<1>1. OneOwner /\ port \subseteq Pids
  BY DEF IInv, TypeOK
<1>2. \A p \in Pids : thread[p] = "trapped" /\ Abandoned(p) => Abandoned(p)'
  BY AbandonedStep
<1>3. QED
  BY <1>1, <1>2 DEF OneOwner

\* Who is parked is read off the table alone.
LEMMA ParkedSame ==
  ASSUME NEW p, procs' = procs
  PROVE  Parked(p)' <=> Parked(p)
BY DEF Parked

\* What keeps Holds: the worker that acts stays with its message.
LEMMA HoldsSame ==
  ASSUME TypeOK, NEW w \in Workers, NEW to \in WorkerPC, Goto(w, to),
         msg' = msg,
         wpc[w] \in {"handler", "fork", "hostcall", "heldcall", "reply"},
         to \in {"handler", "fork", "hostcall", "heldcall", "reply"},
         NEW v \in Workers, NEW p
  PROVE  Holds(v, p)' <=> Holds(v, p)
BY TypeFacts DEF Holds, Goto

\* No step duplicates or drops an exception.
LEMMA OwnerStep ==
  ASSUME IInv, [Next]_vars
  PROVE  OneOwner'
<1> DEFINE Live == {"handler", "fork", "hostcall", "heldcall", "reply"}
<1>1. /\ TypeOK /\ OneOwner
      /\ thread \in [Pids -> {"none", "running", "trapped", "dead"}]
      /\ port \subseteq Pids
      /\ wpc \in [Workers -> WorkerPC]
      /\ msg \in [Workers -> 0..MaxPid]
      /\ \A p \in Pids : thread[p] = "trapped" /\ Abandoned(p) => Abandoned(p)'
  BY AbandonedStep DEF IInv, TypeOK
<1>2. ASSUME NEW g \in Pids, Trap(g) PROVE OneOwner'
  <2>1. /\ thread[g] = "running"
        /\ port' = port \cup {g}
        /\ \A p \in Pids : thread'[p] = IF p = g THEN "trapped" ELSE thread[p]
    BY <1>1, <1>2 DEF Trap
  <2>2. /\ \A v \in Workers, p \in Pids : Holds(v, p)' <=> Holds(v, p)
        /\ \A p \in Pids : Parked(p)' <=> Parked(p)
    BY <1>2 DEF Trap, Holds, Parked
  <2>3. QED
    BY <1>1, <2>1, <2>2 DEF OneOwner
<1>3. ASSUME NEW w \in Workers, NEW g \in Pids, Receive(w, g) PROVE OneOwner'
  <2>1. /\ g \in port
        /\ port' = port \ {g}
        /\ \A p \in Pids : thread'[p] = thread[p]
    BY <1>3 DEF Receive
  <2>2. \A p \in Pids : Parked(p)' <=> Parked(p)
    BY <1>3 DEF Receive, Parked
  <2>3. \A v \in Workers, p \in Pids :
          Holds(v, p)' <=> IF v = w THEN p = g ELSE Holds(v, p)
    BY <1>1, <1>3 DEF Receive, Goto, Holds
  <2>4. \A p \in Pids : ~Holds(w, p)
    BY <1>3 DEF Receive, Holds
  <2>5. QED
    BY <1>1, <2>1, <2>2, <2>3, <2>4 DEF OneOwner
<1>4. ASSUME NEW w \in Workers, NEW s \in Slots,
             \/ Unserved(w) \/ PlainCall(w, s) \/ CallUnlocked(w, s)
             \/ CallLocked(w, s) \/ ForkNoSlot(w, s) \/ HostReturn(w)
             \/ ExecBotched(w, s)
      PROVE  /\ wpc[w] \in Live
             /\ \E to \in WorkerPC : Goto(w, to) /\ to \in Live
             /\ msg' = msg /\ port' = port /\ thread' = thread
  BY <1>4 DEF Unserved, PlainCall, CallUnlocked, CallLocked, ForkNoSlot,
     HostReturn, ExecBotched, Syscall, Serving, WorkerPC
<1>5. ASSUME NEW w \in Workers, NEW s \in Slots,
             \/ Unserved(w) \/ PlainCall(w, s) \/ CallUnlocked(w, s)
             \/ CallLocked(w, s) \/ ForkNoSlot(w, s) \/ HostReturn(w)
      PROVE  OneOwner'
  <2>1. procs' = procs
    BY <1>5 DEF Unserved, PlainCall, CallUnlocked, CallLocked, ForkNoSlot,
       HostReturn
  <2>2. \A v \in Workers, p \in Pids : Holds(v, p)' <=> Holds(v, p)
    BY <1>1, <1>4, <1>5, HoldsSame
  <2>3. QED
  BY <1>4, <1>5, <2>1, <2>2, ParkedSame, QuietOwner
<1>6. ASSUME NEW w \in Workers, NEW s \in Slots, Serving(w, s),
             DiesInPlace(s), port' = port, msg' = msg, Goto(w, "reply"),
             \A p \in Pids : thread'[p] = thread[p] \/ thread'[p] = "dead"
      PROVE  OneOwner'
  <2>1. ~procs[s].waiting /\ wpc[w] = "handler"
    BY <1>6, ServingFacts
  <2>2. \A p \in Pids : Parked(p)' <=> Parked(p)
    BY <1>6, <2>1 DEF Parked, DiesInPlace, Untouched, SameId
  <2>3. \A v \in Workers, p \in Pids : Holds(v, p)' <=> Holds(v, p)
    BY <1>1, <1>6, <2>1, HoldsSame DEF WorkerPC
  <2>4. QED
    BY <1>6, <2>2, <2>3, QuietOwner
<1>7. ASSUME NEW w \in Workers, NEW s \in Slots, NEW q \in Slots,
             Serving(w, s), DiesToParent(q, s), port' = port, msg' = msg,
             Goto(w, "reply"),
             thread' = [thread EXCEPT ![msg[w]] = "dead",
                                      ![procs[q].pid] = Resumed(@)]
      PROVE  OneOwner'
  <2>1. /\ ~procs[s].waiting /\ wpc[w] = "handler" /\ msg[w] \in Pids
        /\ procs[s].used /\ procs[s].pid = msg[w]
        /\ Holds(w, msg[w])
    BY <1>7, ServingFacts
  <2>2. procs[q].used /\ procs[q].waiting /\ q # s
    BY <1>7 DEF DiesToParent, WaitsFor
  <2>3. procs[q].pid \in Pids /\ Parked(procs[q].pid)
    BY <1>1, <2>2, UsedPid DEF Parked, IInv, ServerInv
  <2>4. \A r \in Slots : procs[r].used /\ procs[r].pid = procs[q].pid => r = q
    BY <2>2 DEF IInv, ServerInv, UniquePids
  <2>5. ~NoProc.used
    BY <1>1, TableFacts
  <2>6. \A p \in Pids : Parked(p)' <=> Parked(p) /\ p # procs[q].pid
    BY <1>7, <2>1, <2>2, <2>4, <2>5
    DEF Parked, DiesToParent, Untouched, SameId
  <2>7. \A v \in Workers, p \in Pids : Holds(v, p)' <=> Holds(v, p)
    BY <1>1, <1>7, <2>1, HoldsSame DEF WorkerPC
  <2>8. \A p \in Pids :
          thread'[p] = IF p = procs[q].pid
                         THEN IF p = msg[w] THEN "dead" ELSE Resumed(thread[p])
                         ELSE IF p = msg[w] THEN "dead" ELSE thread[p]
    BY <1>1, <1>7, <2>1, <2>3 DEF Resumed
  <2>9. /\ \A p \in Pids : p # procs[q].pid => thread'[p] \in {thread[p], "dead"}
        /\ thread'[procs[q].pid] # "trapped"
    BY <1>1, <2>3, <2>8 DEF Resumed
  <2>10. /\ procs[q].pid \notin port
         /\ \A v \in Workers : ~Holds(v, procs[q].pid)
    BY <1>1, <2>3 DEF OneOwner
  <2>11. QED
    BY <1>1, <1>7, <2>6, <2>7, <2>9, <2>10 DEF OneOwner
<1>8. ASSUME NEW w \in Workers, NEW s \in Slots, NEW st \in Status,
             Serving(w, s), ProcExited(s, st), port' = port, msg' = msg,
             Goto(w, "reply")
      PROVE  OneOwner'
  <2>1. CASE DiesInPlace(s) /\ thread' = [thread EXCEPT ![msg[w]] = "dead"]
    BY <1>1, <1>6, <1>8, <2>1
  <2>2. QED
    BY <1>7, <1>8, <2>1, ExitedEffect
<1>9. ASSUME NEW w \in Workers, NEW s \in Slots, Exit(w, s) \/ Fault(w, s)
      PROVE  OneOwner'
  <2>1. /\ Serving(w, s) /\ \E st \in Status : ProcExited(s, st)
        /\ port' = port /\ msg' = msg /\ Goto(w, "reply")
    BY <1>9 DEF Exit, Fault, Syscall, Status
  <2>2. QED
    BY <1>8, <2>1
<1>10. ASSUME NEW w \in Workers, NEW s \in Slots, ExecBotched(w, s)
       PROVE  OneOwner'
  <2>1. /\ Serving(w, s) /\ DiesInPlace(s) /\ thread' = thread
        /\ port' = port /\ msg' = msg /\ Goto(w, "reply")
    BY <1>10, BotchedEffect DEF ExecBotched, Syscall
  <2>2. QED
    BY <1>6, <2>1
<1>11. ASSUME NEW w \in Workers, NEW s \in Slots, ForkReserve(w, s)
       PROVE  OneOwner'
  <2>1. PICK c \in Slots : /\ ~procs[c].used
                           /\ Untouched({c})
                           /\ ~procs'[c].waiting
    BY <1>11, ReserveEffect
  <2>2. \A p \in Pids : Parked(p)' <=> Parked(p)
    BY <2>1 DEF Parked, Untouched
  <2>3. /\ wpc[w] = "handler" /\ Goto(w, "fork")
        /\ msg' = msg /\ port' = port /\ thread' = thread
    BY <1>11 DEF ForkReserve, Syscall, Serving
  <2>4. \A v \in Workers, p \in Pids : Holds(v, p)' <=> Holds(v, p)
    BY <1>1, <2>3, HoldsSame DEF WorkerPC
  <2>5. QED
    BY <2>2, <2>3, <2>4, QuietOwner
<1>12. ASSUME NEW w \in Workers, ForkRefused(w) PROVE OneOwner'
  <2>1. \A s \in Slots : IF procs[s].pid = nextPid - 1
                            THEN procs'[s] = NoProc
                            ELSE procs'[s] = procs[s]
    BY <1>12, RefusedEffect
  <2>2. ~Parked(nextPid - 1) /\ ~NoProc.used
    BY <1>1, <1>12, PendingChild, TableFacts DEF ForkRefused
  <2>3. \A p \in Pids : Parked(p)' <=> Parked(p)
    BY <2>1, <2>2 DEF Parked
  <2>4. /\ wpc[w] = "fork" /\ Goto(w, "reply")
        /\ msg' = msg /\ port' = port /\ thread' = thread
    BY <1>12 DEF ForkRefused
  <2>5. \A v \in Workers, p \in Pids : Holds(v, p)' <=> Holds(v, p)
    BY <1>1, <2>4, HoldsSame DEF WorkerPC
  <2>6. QED
    BY <2>3, <2>4, <2>5, QuietOwner
<1>13. ASSUME NEW w \in Workers, ForkCreate(w) PROVE OneOwner'
  <2>1. /\ thread[nextPid - 1] = "none" /\ nextPid - 1 \in Pids
        /\ ~Parked(nextPid - 1) /\ nextPid - 1 \notin port
    BY <1>13, PendingChild DEF ForkCreate
  <2>2. \A v \in Workers : ~Holds(v, nextPid - 1)
    BY <1>1, <2>1 DEF OneOwner
  <2>3. /\ wpc[w] = "fork" /\ Goto(w, "reply")
        /\ msg' = msg /\ port' = port /\ procs' = procs
        /\ \A p \in Pids : thread'[p] = IF p = nextPid - 1 THEN "running"
                                                           ELSE thread[p]
    BY <1>1, <1>13 DEF ForkCreate
  <2>4. \A v \in Workers, p \in Pids : Holds(v, p)' <=> Holds(v, p)
    BY <1>1, <2>3, HoldsSame DEF WorkerPC
  <2>5. \A p \in Pids : Parked(p)' <=> Parked(p)
    BY <2>3, ParkedSame
  <2>6. QED
    BY <1>1, <2>1, <2>2, <2>3, <2>4, <2>5 DEF OneOwner
<1>14. ASSUME NEW w \in Workers, NEW s \in Slots, WaitReap(w, s)
       PROVE  OneOwner'
  <2>1. PICK c \in Slots : procs[c].used /\ ~procs[c].alive /\ Freed(c)
    BY <1>14, ReapEffect
  <2>2. /\ procs[c].pid \in Pids /\ ~NoProc.used
        /\ procs[c].waiting => Doomed(procs[c].pid)
        /\ \A r \in Slots : procs[r].used /\ procs[r].pid = procs[c].pid => r = c
    BY <1>1, <2>1, TableFacts, UsedPid
    DEF IInv, ServerInv, ParkedAlive, UniquePids
  <2>3. \A p \in Pids : /\ Parked(p)' => Parked(p)
                        /\ p # procs[c].pid => (Parked(p)' <=> Parked(p))
    BY <2>1, <2>2 DEF Parked, Freed, Untouched
  <2>4. /\ wpc[w] = "handler" /\ Goto(w, "reply")
        /\ msg' = msg /\ port' = port /\ thread' = thread
    BY <1>14 DEF WaitReap, Syscall, Serving
  <2>5. \A v \in Workers, p \in Pids : Holds(v, p)' <=> Holds(v, p)
    BY <1>1, <2>4, HoldsSame DEF WorkerPC
  <2>6. ASSUME NEW p \in Pids, p = procs[c].pid, Parked(p)
        PROVE  Abandoned(p)'
    <3>1. Doomed(p)'
      BY <2>2, <2>6, ImageChange DEF Parked
    <3>2. \A r \in Slots : ~(procs'[r].used /\ procs'[r].pid = p)
      BY <2>1, <2>2, <2>6 DEF Freed, Untouched
    <3>3. QED
      BY <3>1, <3>2 DEF Abandoned
  <2>7. QED
    BY <1>1, <2>2, <2>3, <2>4, <2>5, <2>6 DEF OneOwner
<1>15. ASSUME NEW w \in Workers, NEW s \in Slots, WaitPark(w, s)
       PROVE  OneOwner'
  <2>1. /\ Untouched({s}) /\ SameId(s) /\ procs'[s].waiting
    BY <1>15, ParkEffect
  <2>2. /\ procs[s].used /\ procs[s].pid = msg[w] /\ msg[w] \in Pids
        /\ ~procs[s].waiting /\ msg[w] \notin port /\ Holds(w, msg[w])
        /\ \A v \in Workers : Holds(v, msg[w]) => v = w
        /\ thread[msg[w]] = "trapped"
    BY <1>15, ServingFacts DEF WaitPark, Syscall
  <2>3. \A p \in Pids : Parked(p)' <=> Parked(p) \/ p = msg[w]
    BY <2>1, <2>2 DEF Parked, Untouched, SameId
  <2>4. /\ Goto(w, "receive") /\ msg' = [msg EXCEPT ![w] = NoPid]
        /\ port' = port /\ thread' = thread
    BY <1>15 DEF WaitPark
  <2>5. \A v \in Workers, p \in Pids : Holds(v, p)' <=> Holds(v, p) /\ v # w
    BY <1>1, <2>4 DEF Holds, Goto
  <2>6. \A p \in Pids : Holds(w, p) => p = msg[w]
    BY DEF Holds
  <2>7. QED
    BY <1>1, <2>2, <2>3, <2>4, <2>5, <2>6 DEF OneOwner
<1>16. ASSUME NEW w \in Workers, Reply(w) PROVE OneOwner'
  <2>1. /\ Goto(w, "check") /\ msg' = [msg EXCEPT ![w] = NoPid]
        /\ port' = port /\ procs' = procs /\ wpc[w] = "reply"
        /\ \A p \in Pids : thread'[p] = IF p = msg[w] THEN Resumed(thread[p])
                                                      ELSE thread[p]
    BY <1>1, <1>16 DEF Reply
  <2>2. \A v \in Workers, p \in Pids : Holds(v, p)' <=> Holds(v, p) /\ v # w
    BY <1>1, <2>1 DEF Holds, Goto
  <2>3. \A p \in Pids : Parked(p)' <=> Parked(p)
    BY <2>1, ParkedSame
  <2>4. \A p \in Pids : Holds(w, p) <=> p = msg[w]
    BY <2>1 DEF Holds
  <2>5. \A p \in Pids : /\ p # msg[w] => thread'[p] = thread[p]
                        /\ p = msg[w] => thread'[p] # "trapped"
    BY <1>1, <2>1 DEF Resumed
  <2>6. QED
    BY <1>1, <2>1, <2>2, <2>3, <2>4, <2>5 DEF OneOwner
<1>17. ASSUME NEW w \in Workers, CheckDone(w) PROVE OneOwner'
  <2>1. /\ msg' = msg /\ port' = port /\ procs' = procs /\ thread' = thread
        /\ wpc[w] = "check" /\ wpc'[w] \in {"teardown", "receive"}
        /\ \A v \in Workers : v # w => wpc'[v] = wpc[v]
    BY <1>1, <1>17 DEF CheckDone, Goto
  <2>2. \A v \in Workers, p \in Pids : Holds(v, p)' <=> Holds(v, p)
    BY <2>1 DEF Holds
  <2>3. QED
    BY <2>1, <2>2, ParkedSame, QuietOwner
<1>18. ASSUME NEW w \in Workers, TeardownSlot(w) \/ Leave(w) PROVE OneOwner'
  <2>1. msg' = msg /\ port' = port /\ procs' = procs /\ wpc' = wpc
    BY <1>18 DEF TeardownSlot, Leave
  <2>2. \A p \in Pids : thread'[p] = thread[p] \/ thread'[p] = "dead"
    BY <1>1, <1>18 DEF TeardownSlot, Leave
  <2>3. \A v \in Workers, p \in Pids : Holds(v, p)' <=> Holds(v, p)
    BY <2>1 DEF Holds
  <2>4. QED
    BY <2>1, <2>2, <2>3, ParkedSame, QuietOwner
<1>19. CASE UNCHANGED vars
  BY <1>1, <1>19 DEF vars, OneOwner, Holds, Parked
<1>20. QED
  BY <1>2, <1>3, <1>5, <1>9, <1>10, <1>11, <1>12, <1>13, <1>14, <1>15, <1>16,
     <1>17, <1>18, <1>19, ConstFacts
  DEF Next, Handle, Fork, Finish, Finished

\* A worker in the middle of a call stays there with its caller, or has just
\* begun one for a live process.
LEMMA CallerChange ==
  ASSUME IInv, [Next]_vars, NEW v \in Workers,
         wpc'[v] \in {"fork", "hostcall", "heldcall"}
  PROVE  \/ wpc[v] \in {"fork", "hostcall", "heldcall"} /\ msg'[v] = msg[v]
         \/ \E s \in Slots :
              /\ Syscall(v, s)
              /\ CallUnlocked(v, s) \/ CallLocked(v, s) \/ ForkReserve(v, s)
              /\ msg'[v] = msg[v]
<1> DEFINE Busy == {"fork", "hostcall", "heldcall"}
           Keeps == wpc[v] \in Busy /\ msg'[v] = msg[v]
           Begins == \E s \in Slots :
              /\ Syscall(v, s)
              /\ CallUnlocked(v, s) \/ CallLocked(v, s) \/ ForkReserve(v, s)
              /\ msg'[v] = msg[v]
<1>1. /\ wpc \in [Workers -> WorkerPC]
      /\ msg \in [Workers -> 0..MaxPid]
  BY TypeFacts DEF IInv
<1>2. ASSUME NEW w \in Workers, NEW s \in Slots,
             CallUnlocked(w, s) \/ CallLocked(w, s) \/ ForkReserve(w, s)
      PROVE  Keeps \/ Begins
  <2>1. /\ Syscall(w, s) /\ msg' = msg
        /\ \A u \in Workers : u # w => wpc'[u] = wpc[u]
    BY <1>1, <1>2 DEF CallUnlocked, CallLocked, ForkReserve, Goto
  <2>2. CASE w = v
    BY <1>2, <2>1, <2>2
  <2>3. CASE w # v
    BY <2>1, <2>3
  <2>4. QED
    BY <2>2, <2>3
<1>3. ASSUME NEW w \in Workers, NEW s \in Slots,
             \/ PlainCall(w, s) \/ ForkNoSlot(w, s) \/ Exit(w, s)
             \/ Fault(w, s) \/ ExecBotched(w, s) \/ WaitReap(w, s)
             \/ WaitPark(w, s)
      PROVE  Keeps
  BY <1>1, <1>3 DEF PlainCall, ForkNoSlot, Exit, Fault, ExecBotched, WaitReap,
     WaitPark, Goto
<1>4. ASSUME NEW w \in Workers, NEW g \in Pids,
             \/ Receive(w, g) \/ Unserved(w) \/ ForkCreate(w) \/ ForkRefused(w)
             \/ HostReturn(w) \/ Reply(w) \/ CheckDone(w)
      PROVE  Keeps
  BY <1>1, <1>4 DEF Receive, Unserved, ForkCreate, ForkRefused, HostReturn,
     Reply, CheckDone, Goto
<1>5. ASSUME NEW w \in Workers, NEW g \in Pids,
             Trap(g) \/ TeardownSlot(w) \/ Leave(w)
      PROVE  Keeps
  BY <1>5 DEF Trap, TeardownSlot, Leave
<1>6. CASE UNCHANGED vars
  BY <1>6 DEF vars
<1>7. QED
  BY <1>2, <1>3, <1>4, <1>5, <1>6, ConstFacts
  DEF Next, Handle, Fork, Finish, Finished

\* A call does not change its kind: what gave the mutex up has still given it up.
LEMMA HostStays ==
  ASSUME IInv, [Next]_vars, NEW v \in Workers, wpc[v] = "hostcall",
         wpc'[v] \in {"fork", "hostcall", "heldcall"}
  PROVE  wpc'[v] = "hostcall"
<1>1. wpc \in [Workers -> WorkerPC]
  BY TypeFacts DEF IInv
<1>2. ASSUME NEW w \in Workers, NEW s \in Slots,
             \/ PlainCall(w, s) \/ CallUnlocked(w, s) \/ CallLocked(w, s)
             \/ ForkReserve(w, s) \/ ForkNoSlot(w, s) \/ Exit(w, s)
             \/ Fault(w, s) \/ ExecBotched(w, s) \/ WaitReap(w, s)
             \/ WaitPark(w, s)
      PROVE  wpc'[v] = "hostcall"
  <2>1. wpc[w] = "handler" /\ \A u \in Workers : u # w => wpc'[u] = wpc[u]
    BY <1>1, <1>2 DEF PlainCall, CallUnlocked, CallLocked, ForkReserve,
       ForkNoSlot, Exit, Fault, ExecBotched, WaitReap, WaitPark, Goto, Syscall,
       Serving
  <2>2. QED
    BY <2>1
<1>3. ASSUME NEW w \in Workers, NEW g \in Pids,
             \/ Receive(w, g) \/ Unserved(w) \/ ForkCreate(w) \/ ForkRefused(w)
             \/ HostReturn(w) \/ Reply(w) \/ CheckDone(w)
      PROVE  wpc'[v] = "hostcall"
  BY <1>1, <1>3 DEF Receive, Unserved, ForkCreate, ForkRefused, HostReturn,
     Reply, CheckDone, Goto
<1>4. ASSUME NEW w \in Workers, NEW g \in Pids,
             Trap(g) \/ TeardownSlot(w) \/ Leave(w)
      PROVE  wpc'[v] = "hostcall"
  BY <1>4 DEF Trap, TeardownSlot, Leave
<1>5. CASE UNCHANGED vars
  BY <1>5 DEF vars
<1>6. QED
  BY <1>2, <1>3, <1>4, <1>5, ConstFacts DEF Next, Handle, Fork, Finish, Finished

\* An unlocked host call is begun for a guest, and stays its guest's.
LEMMA HostCallerStep ==
  ASSUME IInv, [Next]_vars
  PROVE  HostCaller'
<1> SUFFICES ASSUME NEW v \in Workers, wpc'[v] = "hostcall"
             PROVE  msg'[v] \in Pids
  BY DEF HostCaller
<1>1. CASE \E s \in Slots : Syscall(v, s) /\ msg'[v] = msg[v]
  BY <1>1, ServingFacts DEF Syscall
<1>2. CASE wpc[v] = "hostcall" /\ msg'[v] = msg[v]
  BY <1>2 DEF IInv, HostCaller
<1>3. CASE wpc[v] \in {"fork", "heldcall"} /\ msg'[v] = msg[v]
  <2>1. PICK s \in Slots : procs[s].used /\ procs[s].pid = msg[v]
    BY <1>3 DEF IInv, CallerKept
  <2>2. QED
    BY <1>3, <2>1, UsedPid DEF IInv, ServerInv
<1>4. QED
  BY <1>1, <1>2, <1>3, CallerChange

\* Under the mutex the table changes by the hand of the worker that keeps it.
LEMMA KeptLock ==
  ASSUME IInv, [Next]_vars, NEW v \in Workers,
         wpc[v] \in {"fork", "heldcall"},
         wpc'[v] \in {"fork", "hostcall", "heldcall"}
  PROVE  procs' = procs
<1>1. lock = v /\ lock # Nobody
  BY TypeFacts DEF IInv, ServerInv, LockOwned
<1>2. \A w \in Workers, s \in Slots :
        /\ ~Serving(w, s)
        /\ ~ForkReserve(w, s) /\ ~WaitReap(w, s) /\ ~WaitPark(w, s)
  BY <1>1 DEF Serving, Syscall, ForkReserve, WaitReap, WaitPark
<1>3. \A w \in Workers : ~ForkRefused(w)
  BY <1>1, TypeFacts DEF IInv, ServerInv, LockOwned, ForkRefused, Goto
<1>4. QED
  BY <1>2, <1>3, TableChange

\* No step frees the slot of a process some worker is serving, save one that
\* execve has declared dead and whose call gave the mutex up.
LEMMA CallerStep ==
  ASSUME IInv, [Next]_vars
  PROVE  CallerKept'
<1> SUFFICES ASSUME NEW v \in Workers,
                    \/ wpc'[v] \in {"fork", "heldcall"}
                    \/ wpc'[v] = "hostcall" /\ ~Doomed(msg[v])'
             PROVE  \E s \in Slots :
                      /\ procs'[s].used
                      /\ procs'[s].pid = msg'[v]
                      /\ procs'[s].alive \/ Doomed(msg[v])'
  BY DEF CallerKept
<1>1. CASE \E s \in Slots :
             /\ Syscall(v, s)
             /\ CallUnlocked(v, s) \/ CallLocked(v, s) \/ ForkReserve(v, s)
             /\ msg'[v] = msg[v]
  <2>1. PICK s \in Slots :
             /\ Syscall(v, s)
             /\ CallUnlocked(v, s) \/ CallLocked(v, s) \/ ForkReserve(v, s)
             /\ msg'[v] = msg[v]
    BY <1>1
  <2>2. /\ procs[s].used /\ procs[s].pid = msg[v] /\ msg[v] \in Pids
        /\ procs[s].alive \/ Doomed(msg[v])
    BY <2>1, ServingFacts DEF Syscall
  <2>3. procs'[s] = procs[s]
    <3>1. CASE ForkReserve(v, s)
      BY <2>2, <3>1, ReserveEffect DEF Untouched
    <3>2. CASE CallUnlocked(v, s) \/ CallLocked(v, s)
      BY <3>2 DEF CallUnlocked, CallLocked
    <3>3. QED
      BY <2>1, <3>1, <3>2
  <2>4. Doomed(msg[v]) => Doomed(msg[v])'
    BY <2>1, <2>2, ImageChange DEF Doomed
  <2>5. QED
    BY <2>1, <2>2, <2>3, <2>4
<1>2. CASE wpc[v] \in {"fork", "heldcall"} /\ msg'[v] = msg[v]
  <2>1. PICK r \in Slots : /\ procs[r].used /\ procs[r].pid = msg[v]
                           /\ procs[r].alive \/ Doomed(msg[v])
    BY <1>2 DEF IInv, CallerKept
  <2>2. procs' = procs
    BY <1>2, KeptLock
  <2>3. msg[v] \in Pids
    BY <2>1, UsedPid DEF IInv, ServerInv
  <2>4. Doomed(msg[v]) => Doomed(msg[v])'
    BY <1>2, <2>3, ImageChange DEF Doomed
  <2>5. QED
    BY <1>2, <2>1, <2>2, <2>4
<1>3. CASE wpc[v] = "hostcall" /\ msg'[v] = msg[v]
  <2>1. /\ msg[v] \in Pids /\ ~Doomed(msg[v])
        /\ Holds(v, msg[v]) /\ wpc[v] # "handler"
    <3>1. msg[v] \in Pids
      BY <1>3 DEF IInv, HostCaller
    <3>2. wpc'[v] = "hostcall"
      BY <1>3, HostStays
    <3>3. ~Doomed(msg[v])
      BY <1>3, <3>1, <3>2, ImageChange DEF Doomed
    <3>4. QED
      BY <1>3, <3>1, <3>3 DEF Holds
  <2>2. PICK r \in Slots : /\ procs[r].used /\ procs[r].alive
                           /\ procs[r].pid = msg[v]
    BY <1>3, <2>1 DEF IInv, CallerKept
  <2>3. SUFFICES procs'[r].used /\ procs'[r].alive /\ procs'[r].pid = msg[v]
    BY <1>3
  <2>4. \A w \in Workers, s \in Slots : Serving(w, s) => s # r
    BY <2>1, <2>2, ServingFacts
  <2>5. CASE UNCHANGED <<procs, nextPid>>
    BY <2>2, <2>5
  <2>6. ASSUME NEW w \in Workers, NEW s \in Slots, ForkReserve(w, s)
        PROVE  procs'[r] = procs[r]
    BY <2>2, <2>6, ReserveEffect DEF Untouched
  <2>7. ASSUME NEW w \in Workers, ForkRefused(w) PROVE procs'[r] = procs[r]
    <3>1. thread[nextPid - 1] = "none"
      BY <2>7, PendingChild DEF ForkRefused
    <3>2. thread[msg[v]] # "none"
      BY <2>1 DEF IInv, OneOwner
    <3>3. QED
      BY <2>2, <2>7, <3>1, <3>2, RefusedEffect
  <2>8. ASSUME NEW w \in Workers, NEW s \in Slots, WaitReap(w, s)
        PROVE  procs'[r] = procs[r]
    BY <2>2, <2>8, ReapEffect DEF Freed, Untouched
  <2>9. ASSUME NEW w \in Workers, NEW s \in Slots, WaitPark(w, s)
        PROVE  procs'[r] = procs[r]
    <3>1. s # r
      BY <2>4, <2>9 DEF WaitPark, Syscall
    <3>2. Untouched({s})
      BY <2>9, ParkEffect
    <3>3. QED
      BY <3>1, <3>2 DEF Untouched
  <2>10. ASSUME NEW w \in Workers, NEW s \in Slots, Serving(w, s),
                DiesInPlace(s)
         PROVE  procs'[r] = procs[r]
    BY <2>4, <2>10 DEF DiesInPlace, Untouched
  <2>11. ASSUME NEW w \in Workers, NEW s \in Slots, NEW q \in Slots,
                Serving(w, s), DiesToParent(q, s)
         PROVE  procs'[r].used /\ procs'[r].alive /\ procs'[r].pid = msg[v]
    BY <2>2, <2>4, <2>11 DEF DiesToParent, Untouched, SameId
  <2>12. QED
    BY <2>2, <2>5, <2>6, <2>7, <2>8, <2>9, <2>10, <2>11, TableChange
<1>4. QED
  BY <1>1, <1>2, <1>3, CallerChange

\* No process waits for the root: its parent's number is nobody's.
LEMMA RootUnwaited ==
  ASSUME IInv, NEW q \in Slots
  PROVE  ~WaitsFor(q, Root)
<1>1. procs[Root].ppid = NoPid
  BY DEF IInv, ServerInv, RootKept
<1>2. procs[q].used => procs[q].pid \in Pids
  BY UsedPid DEF IInv, ServerInv
<1>3. QED
  BY <1>1, <1>2 DEF WaitsFor, NoPid, Pids

\* A process that is dead and still waited for has a thread.
StillRunning ==
  \A q, c \in Slots :
     procs[c].used /\ ~procs[c].alive /\ WaitsFor(q, c)
       => thread[procs[c].pid] # "dead"

\* A thread is killed when its process is declared dead with nobody waiting,
\* or by finish(), which passes over processes that are dead already.
LEMMA RunningStep ==
  ASSUME IInv, [Next]_vars
  PROVE  StillRunning'
<1>1. /\ TypeOK /\ StillRunning /\ UniquePids /\ OneOwner
      /\ thread \in [Pids -> {"none", "running", "trapped", "dead"}]
      /\ ~NoProc.used
  BY TableFacts DEF IInv, ServerInv, TypeOK, NoLostWakeup, StillRunning
<1> DEFINE Owed(q, c) == procs[c].used /\ ~procs[c].alive /\ WaitsFor(q, c)
<1>2. \A q, c \in Slots : Owed(q, c) => procs[c].pid \in Pids
                                        /\ thread[procs[c].pid] # "dead"
  BY <1>1, UsedPid DEF StillRunning
<1>3. ASSUME NEW q \in Slots, NEW c \in Slots, procs[c].used,
             ~procs[c].alive, WaitsFor(q, c), procs'[c].pid = procs[c].pid,
             \/ thread' = thread
             \/ \E p \in Pids : Trap(p)
             \/ \E w \in Workers : \/ Reply(w) \/ TeardownSlot(w)
                                   \/ ForkCreate(w)
      PROVE  thread'[procs'[c].pid] # "dead"
  <2>1. procs[c].pid \in Pids /\ thread[procs[c].pid] # "dead"
    BY <1>2, <1>3
  <2>2. CASE thread' = thread
    BY <1>3, <2>1, <2>2
  <2>3. CASE \E p \in Pids : Trap(p)
    BY <1>1, <1>3, <2>1, <2>3 DEF Trap
  <2>4. CASE \E w \in Workers : Reply(w)
    BY <1>1, <1>3, <2>1, <2>4 DEF Reply, Resumed
  <2>5. CASE \E w \in Workers : ForkCreate(w)
    BY <1>1, <1>3, <2>1, <2>5 DEF ForkCreate
  <2>6. ASSUME NEW w \in Workers, TeardownSlot(w)
        PROVE  thread'[procs[c].pid] # "dead"
    <3>1. scan[w] \in Slots
      BY <1>1, <2>6, ServerAssumption DEF TeardownSlot, TypeOK, Slots
    <3>2. CASE thread' = thread
      BY <2>1, <3>2
    <3>3. CASE /\ procs[scan[w]].used /\ procs[scan[w]].alive
               /\ thread' = [thread EXCEPT ![procs[scan[w]].pid] = "dead"]
      <4>1. procs[scan[w]].pid # procs[c].pid
        BY <1>1, <1>3, <3>1, <3>3 DEF UniquePids
      <4>2. QED
        BY <1>1, <2>1, <3>3, <4>1
    <3>4. QED
      BY <2>6, <3>2, <3>3 DEF TeardownSlot
  <2>7. QED
    BY <1>3, <2>2, <2>3, <2>4, <2>5, <2>6
<1>4. CASE /\ UNCHANGED <<procs, nextPid>>
           /\ \/ thread' = thread
              \/ \E p \in Pids : Trap(p)
              \/ \E w \in Workers : \/ Reply(w) \/ TeardownSlot(w)
                                    \/ ForkCreate(w)
  BY <1>3, <1>4 DEF StillRunning, WaitsFor
<1>5. ASSUME NEW w \in Workers, NEW s \in Slots, ForkReserve(w, s)
      PROVE  StillRunning'
  <2>1. PICK c \in Slots : /\ Untouched({c}) /\ procs'[c].alive
                           /\ ~procs'[c].waiting
    BY <1>5, ReserveEffect
  <2>2. thread' = thread
    BY <1>5 DEF ForkReserve
  <2>3. QED
    BY <1>1, <2>1, <2>2 DEF StillRunning, WaitsFor, Untouched
<1>6. ASSUME \A r \in Slots : procs'[r] = procs[r] \/ procs'[r] = NoProc,
             thread' = thread
      PROVE  StillRunning'
  BY <1>1, <1>6 DEF StillRunning, WaitsFor
<1>7. ASSUME NEW w \in Workers, ForkRefused(w) PROVE StillRunning'
  <2>1. /\ \A r \in Slots : procs'[r] = procs[r] \/ procs'[r] = NoProc
        /\ thread' = thread
    BY <1>7, RefusedEffect DEF ForkRefused
  <2>2. QED
    BY <1>6, <2>1
<1>8. ASSUME NEW w \in Workers, NEW s \in Slots, WaitReap(w, s)
      PROVE  StillRunning'
  <2>1. /\ \A r \in Slots : procs'[r] = procs[r] \/ procs'[r] = NoProc
        /\ thread' = thread
    BY <1>8, ReapEffect DEF WaitReap, Freed, Untouched
  <2>2. QED
    BY <1>6, <2>1
<1>9. ASSUME NEW w \in Workers, NEW s \in Slots, WaitPark(w, s)
      PROVE  StillRunning'
  <2>1. PICK target \in 0..MaxPid :
           /\ \A c \in Slots : IsChild(c, s, target) => procs[c].alive
           /\ Untouched({s})
           /\ SameId(s)
           /\ procs'[s].alive = procs[s].alive
           /\ procs'[s].waitFor = target
    BY <1>9, ParkEffect
  <2>2. thread' = thread
    BY <1>9 DEF WaitPark
  <2>3. \A q, c \in Slots : q # s /\ WaitsFor(q, c)' => WaitsFor(q, c)
    BY <2>1 DEF WaitsFor, Untouched, SameId
  <2>4. \A c \in Slots : /\ procs'[c].used = procs[c].used
                         /\ procs'[c].pid = procs[c].pid
                         /\ procs'[c].ppid = procs[c].ppid
                         /\ procs'[c].alive = procs[c].alive
    BY <2>1 DEF Untouched, SameId
  <2>5. \A c \in Slots : procs[c].used /\ WaitsFor(s, c)' => procs[c].alive
    BY <2>1, <2>4 DEF WaitsFor, IsChild
  <2>6. QED
    BY <1>1, <2>2, <2>3, <2>4, <2>5 DEF StillRunning
<1>10. ASSUME NEW w \in Workers, NEW s \in Slots, ExecBotched(w, s)
       PROVE  StillRunning'
  <2>1. /\ DiesInPlace(s) /\ thread' = thread /\ procs[s].pid = msg[w]
        /\ thread[msg[w]] = "trapped" /\ ~procs[s].waiting
    BY <1>10, BotchedEffect, ServingFacts DEF ExecBotched, Syscall
  <2>2. \A q, c \in Slots : WaitsFor(q, c)' => WaitsFor(q, c)
    BY <2>1 DEF WaitsFor, DiesInPlace, Untouched, SameId
  <2>3. \A c \in Slots : /\ procs'[c].used = procs[c].used
                         /\ procs'[c].pid = procs[c].pid
                         /\ c # s => procs'[c].alive = procs[c].alive
    BY <2>1 DEF DiesInPlace, Untouched, SameId
  <2>4. ASSUME NEW q \in Slots, NEW c \in Slots, procs'[c].used,
               ~procs'[c].alive, WaitsFor(q, c)'
        PROVE  thread'[procs'[c].pid] # "dead"
    <3>1. CASE c = s
      BY <2>1, <2>3, <3>1
    <3>2. CASE c # s
      BY <1>1, <2>1, <2>2, <2>3, <2>4, <3>2 DEF StillRunning
    <3>3. QED
      BY <3>1, <3>2
  <2>5. QED
    BY <2>4 DEF StillRunning
<1>11. ASSUME NEW w \in Workers, NEW s \in Slots, NEW st \in Status,
              Serving(w, s), ProcExited(s, st)
       PROVE  StillRunning'
  <2>1. /\ procs[s].used /\ procs[s].pid = msg[w] /\ msg[w] \in Pids
        /\ ~procs[s].waiting
    BY <1>11, ServingFacts
  <2>2. CASE /\ DiesInPlace(s)
             /\ \A q \in Slots : ~WaitsFor(q, s)
             /\ thread' = [thread EXCEPT ![msg[w]] = "dead"]
    <3>1. \A q, c \in Slots : WaitsFor(q, c)' => WaitsFor(q, c)
      BY <2>1, <2>2 DEF WaitsFor, DiesInPlace, Untouched, SameId
    <3>2. \A c \in Slots : c # s => procs'[c] = procs[c]
      BY <2>2 DEF DiesInPlace, Untouched
    <3>3. \A c \in Slots : c # s /\ procs[c].used => procs[c].pid # msg[w]
      BY <1>1, <2>1 DEF UniquePids
    <3>4. QED
      BY <1>1, <1>2, <2>2, <3>1, <3>2, <3>3 DEF StillRunning
  <2>3. ASSUME NEW q \in Slots, DiesToParent(q, s),
               thread' = [thread EXCEPT ![msg[w]] = "dead",
                                        ![procs[q].pid] = Resumed(@)]
        PROVE  StillRunning'
    <3>1. /\ \A p, c \in Slots :
               p # q /\ c # s /\ WaitsFor(p, c)' => WaitsFor(p, c)
          /\ \A c \in Slots : ~WaitsFor(q, c)'
          /\ ~procs'[s].used
      BY <1>1, <2>3 DEF WaitsFor, DiesToParent, Untouched, SameId
    <3>2. \A c \in Slots : c # s =>
             /\ procs'[c].used = procs[c].used
             /\ procs'[c].pid = procs[c].pid
             /\ procs'[c].alive = procs[c].alive
      BY <2>3 DEF DiesToParent, Untouched, SameId
    <3>3. \A c \in Slots : c # s /\ procs[c].used => procs[c].pid # msg[w]
      BY <1>1, <2>1 DEF UniquePids
    <3>4. \A p \in Pids :
            p # msg[w] /\ thread[p] # "dead" => thread'[p] # "dead"
      BY <1>1, <2>1, <2>3 DEF Resumed
    <3>5. QED
      BY <1>1, <1>2, <3>1, <3>2, <3>3, <3>4 DEF StillRunning
  <2>4. QED
    BY <1>11, <2>2, <2>3, ExitedEffect, RootUnwaited
<1>12. ASSUME NEW w \in Workers, NEW s \in Slots, Exit(w, s) \/ Fault(w, s)
       PROVE  StillRunning'
  <2>1. Serving(w, s) /\ \E st \in Status : ProcExited(s, st)
    BY <1>12 DEF Exit, Fault, Syscall, Status
  <2>2. QED
    BY <1>11, <2>1
<1>13. ASSUME NEW w \in Workers, NEW s \in Slots,
              \/ PlainCall(w, s) \/ CallUnlocked(w, s) \/ CallLocked(w, s)
              \/ ForkNoSlot(w, s)
       PROVE  StillRunning'
  BY <1>4, <1>13 DEF PlainCall, CallUnlocked, CallLocked, ForkNoSlot
<1>14. ASSUME NEW w \in Workers, NEW p \in Pids,
              \/ Receive(w, p) \/ Unserved(w) \/ HostReturn(w) \/ CheckDone(w)
              \/ Leave(w)
       PROVE  StillRunning'
  BY <1>4, <1>14 DEF Receive, Unserved, HostReturn, CheckDone, Leave
<1>15. ASSUME NEW w \in Workers, NEW p \in Pids,
              Trap(p) \/ Reply(w) \/ TeardownSlot(w) \/ ForkCreate(w)
       PROVE  StillRunning'
  <2>1. UNCHANGED <<procs, nextPid>>
    BY <1>15 DEF Trap, Reply, TeardownSlot, ForkCreate
  <2>2. QED
    BY <1>4, <1>15, <2>1
<1>16. CASE UNCHANGED vars
  BY <1>4, <1>16 DEF vars
<1>17. QED
  BY <1>5, <1>7, <1>8, <1>9, <1>10, <1>12, <1>13, <1>14, <1>15, <1>16,
     ConstFacts, ServerAssumption
  DEF Next, Handle, Fork, Finish, Finished

\* What it still has a thread for: execve declared it dead.
LEMMA WakeupStep ==
  ASSUME IInv, [Next]_vars
  PROVE  NoLostWakeup'
<1>1. StillRunning' /\ DeadThreads'
  BY RunningStep, DeadStep
<1>2. QED
  BY <1>1 DEF StillRunning, DeadThreads, NoLostWakeup

\* A parked parent's child leaves the table only when the parent is told: it
\* is the only one that could reap it, and it is parked.
LEMMA ChildStep ==
  ASSUME IInv, [Next]_vars
  PROVE  ParkedHasChild'
<1>1. TypeOK /\ ParkedHasChild /\ UniquePids /\ ~NoProc.used
  BY TableFacts DEF IInv, ServerInv
<1>2. CASE UNCHANGED <<procs, nextPid>>
  BY <1>1, <1>2 DEF ParkedHasChild, IsChild
<1>3. ASSUME NEW w \in Workers, NEW s \in Slots, ForkReserve(w, s)
      PROVE  ParkedHasChild'
  <2>1. PICK c \in Slots : /\ ~procs[c].used /\ Untouched({c})
                           /\ ~procs'[c].waiting
    BY <1>3, ReserveEffect
  <2>2. QED
    BY <1>1, <2>1 DEF ParkedHasChild, IsChild, Untouched
\* The slots in F are freed, and no parked parent waits for what they hold.
<1>4. ASSUME NEW F \in SUBSET Slots,
             \A r \in Slots : procs'[r] = IF r \in F THEN NoProc ELSE procs[r],
             \A q \in Slots, c \in F : procs[q].used /\ procs[q].waiting
                                         => ~IsChild(c, q, procs[q].waitFor)
      PROVE  ParkedHasChild'
  <2>1. SUFFICES ASSUME NEW q \in Slots, procs'[q].used, procs'[q].waiting
                 PROVE  \E c \in Slots : IsChild(c, q, procs[q].waitFor)'
    BY <1>1, <1>4 DEF ParkedHasChild
  <2>2. procs'[q] = procs[q]
    BY <1>1, <1>4, <2>1
  <2>3. PICK c \in Slots : IsChild(c, q, procs[q].waitFor)
    BY <1>1, <2>1, <2>2 DEF ParkedHasChild
  <2>4. procs'[c] = procs[c]
    BY <1>4, <2>1, <2>2, <2>3
  <2>5. QED
    BY <2>2, <2>3, <2>4 DEF IsChild
<1>5. ASSUME NEW w \in Workers, ForkRefused(w) PROVE ParkedHasChild'
  <2>1. \A r \in Slots : procs'[r] = IF procs[r].pid = nextPid - 1
                                       THEN NoProc ELSE procs[r]
    BY <1>5, RefusedEffect
  <2>2. /\ ~Parked(msg[w])
        /\ \A r \in Slots : procs[r].used /\ procs[r].pid = nextPid - 1
                              => procs[r].ppid = msg[w]
    BY <1>5, PendingChild DEF IInv, ServerInv, ForkPending, ForkRefused
  <2>3. \A q, c \in Slots : /\ procs[q].used /\ procs[q].waiting
                            /\ procs[c].pid = nextPid - 1
                            => ~IsChild(c, q, procs[q].waitFor)
    BY <2>2 DEF IsChild, Parked
  <2> DEFINE F == {r \in Slots : procs[r].pid = nextPid - 1}
  <2>4. /\ F \in SUBSET Slots
        /\ \A r \in Slots : procs'[r] = IF r \in F THEN NoProc ELSE procs[r]
        /\ \A q \in Slots, c \in F : procs[q].used /\ procs[q].waiting
                                       => ~IsChild(c, q, procs[q].waitFor)
    BY <2>1, <2>3
  <2> HIDE DEF F
  <2>5. QED
    BY <1>4, <2>4
<1>6. ASSUME NEW w \in Workers, NEW s \in Slots, WaitReap(w, s)
      PROVE  ParkedHasChild'
  <2>1. PICK c \in Slots : procs[c].ppid = procs[s].pid /\ Freed(c)
    BY <1>6, ReapEffect
  <2>2. procs[s].used /\ ~procs[s].waiting
    BY <1>6, ServingFacts DEF WaitReap, Syscall
  <2>3. \A q \in Slots : procs[q].used /\ procs[q].waiting
                           => ~IsChild(c, q, procs[q].waitFor)
    BY <1>1, <2>1, <2>2 DEF IsChild, UniquePids
  <2>4. \A r \in Slots : procs'[r] = IF r \in {c} THEN NoProc ELSE procs[r]
    BY <2>1 DEF Freed, Untouched
  <2>5. QED
    BY <1>4, <2>3, <2>4
\* Nobody stops being a child.
<1>7. ASSUME \A r \in Slots : SameId(r),
             \A q \in Slots : procs'[q].used /\ procs'[q].waiting =>
               \E c \in Slots : IsChild(c, q, procs'[q].waitFor)
      PROVE  ParkedHasChild'
  BY <1>7 DEF ParkedHasChild, IsChild, SameId
<1>8. ASSUME NEW w \in Workers, NEW s \in Slots, WaitPark(w, s)
      PROVE  ParkedHasChild'
  <2>1. /\ Untouched({s}) /\ SameId(s)
        /\ \E c \in Slots : IsChild(c, s, procs'[s].waitFor)
    BY <1>8, ParkEffect
  <2>2. \A r \in Slots : SameId(r)
    BY <2>1 DEF Untouched, SameId
  <2>3. \A q \in Slots : q # s => procs'[q] = procs[q]
    BY <2>1 DEF Untouched
  <2>4. QED
    BY <1>1, <1>7, <2>1, <2>2, <2>3 DEF ParkedHasChild
<1>9. ASSUME NEW w \in Workers, NEW s \in Slots, Serving(w, s), DiesInPlace(s)
      PROVE  ParkedHasChild'
  <2>1. ~procs[s].waiting
    BY <1>9, ServingFacts
  <2>2. \A r \in Slots : SameId(r)
    BY <1>9 DEF DiesInPlace, Untouched, SameId
  <2>3. /\ \A q \in Slots : q # s => procs'[q] = procs[q]
        /\ ~procs'[s].waiting
    BY <1>9, <2>1 DEF DiesInPlace, Untouched
  <2>4. QED
    BY <1>1, <1>7, <2>2, <2>3 DEF ParkedHasChild
<1>10. ASSUME NEW w \in Workers, NEW s \in Slots, NEW q \in Slots,
              Serving(w, s), DiesToParent(q, s)
       PROVE  ParkedHasChild'
  <2>1. /\ \A r \in Slots : r \notin {q, s} => procs'[r] = procs[r]
        /\ ~procs'[s].used /\ ~procs'[q].waiting /\ SameId(q)
        /\ procs[q].used /\ procs[q].waiting
        /\ procs[q].pid = procs[s].ppid
    BY <1>1, <1>10 DEF DiesToParent, Untouched, WaitsFor
  <2>2. SUFFICES ASSUME NEW r \in Slots, procs'[r].used, procs'[r].waiting
                 PROVE  \E c \in Slots : IsChild(c, r, procs[r].waitFor)'
    BY DEF ParkedHasChild
  <2>3. procs'[r] = procs[r] /\ r # q /\ r # s
    BY <2>1, <2>2
  <2>4. PICK c \in Slots : IsChild(c, r, procs[r].waitFor)
    BY <1>1, <2>2, <2>3 DEF ParkedHasChild
  <2>5. c # s
    BY <1>1, <2>1, <2>2, <2>3, <2>4 DEF IsChild, UniquePids
  <2>6. SameId(c)
    BY <2>1, <2>5 DEF SameId
  <2>7. QED
    BY <2>3, <2>4, <2>6 DEF IsChild, SameId
<1>11. QED
  BY <1>2, <1>3, <1>5, <1>6, <1>8, <1>9, <1>10, TableChange

-----------------------------------------------------------------------------
(* The theorems                                                            *)

\* main() establishes the invariant.
LEMMA InitInv == Init => IInv
<1> SUFFICES ASSUME Init PROVE IInv
  OBVIOUS
<1>1. TypeOK
  BY InitType
<1>2. /\ procs[Root].used /\ procs[Root].alive /\ ~procs[Root].waiting
      /\ procs[Root].pid = 1 /\ procs[Root].ppid = NoPid
      /\ \A s \in Slots \ {Root} : ~procs[s].used
  BY ConstFacts, NewProcType, ServerAssumption DEF Init, NoProc, NoPid
<1>3. ServerInv
  <2>1. LockOwned
    BY ServerAssumption DEF Init, LockOwned, Nobody
  <2>2. UniquePids
    BY <1>2 DEF Init, UniquePids
  <2>3. RootKept
    BY <1>2 DEF RootKept
  <2>4. ForkPending
    BY DEF Init, ForkPending, Pids
  <2>5. DeadThreads /\ ParkedAlive
    BY <1>2 DEF DeadThreads, ParkedAlive
  <2>6. QED
    BY <2>1, <2>2, <2>3, <2>4, <2>5 DEF ServerInv
<1>4. OneOwner
  <2>1. \A p \in Pids : ~Parked(p)
    BY <1>2 DEF Parked
  <2>2. \A w \in Workers, p \in Pids : ~Holds(w, p)
    BY DEF Init, Holds
  <2>3. \A p \in Pids : thread[p] # "trapped"
    BY DEF Init
  <2>4. port = {}
    BY DEF Init
  <2>5. QED
    BY <2>1, <2>2, <2>3, <2>4 DEF OneOwner
<1>5. CallerKept /\ HostCaller
  BY DEF Init, CallerKept, HostCaller
<1>6. NoLostWakeup /\ ParkedHasChild
  BY <1>2 DEF NoLostWakeup, ParkedHasChild, WaitsFor
<1>7. QED
  BY <1>1, <1>3, <1>4, <1>5, <1>6 DEF IInv

\* Every step keeps it, part by part.
LEMMA StepInv == IInv /\ [Next]_vars => IInv'
<1> SUFFICES ASSUME IInv, [Next]_vars PROVE IInv'
  OBVIOUS
<1>1. TypeOK'
  BY TypeStep DEF IInv
<1>2. LockOwned'
  BY LockStep DEF IInv, ServerInv
<1>3. ServerInv'
  BY <1>2, TableStep, PendingStep, DeadStep DEF ServerInv
<1>4. QED
  BY <1>1, <1>3, OwnerStep, CallerStep, HostCallerStep, WakeupStep, ChildStep
  DEF IInv

\* The server's state is well typed in every behaviour: exit statuses fit the
\* byte wait4 encodes, waits name processes, and every index stays in range.
THEOREM TypeCorrect == Spec => []TypeOK
<1>1. Init => TypeOK
  BY InitType
<1>2. TypeOK /\ [Next]_vars => TypeOK'
  BY TypeStep
<1>3. QED
  BY <1>1, <1>2, PTL DEF Spec

\* The strengthened invariant holds whatever the table's size and however many
\* workers serve the port.
THEOREM Inductive == Spec => []IInv
<1>1. QED
  BY InitInv, StepInv, PTL DEF Spec

\* The process table, the mutex and Mach's threads agree at every step: pids
\* are unique, the root keeps its slot, fork's half-made child is its caller's,
\* and a process declared dead without execve has lost its thread.
THEOREM TableConsistent == Spec => []ServerInv
<1>1. IInv => ServerInv
  BY DEF IInv
<1>2. QED
  BY <1>1, Inductive, PTL

\* serve() and wait_complete() answer every exception at most once, and no
\* stopped guest is forgotten but one that execve declared dead and wait4 reaped.
THEOREM OneAnswer == Spec => []OneOwner
<1>1. IInv => OneOwner
  BY DEF IInv
<1>2. QED
  BY <1>1, Inductive, PTL

\* The `cur` pointer of a call that gives the mutex up (read, write, nanosleep)
\* or that finish() can overtake (fork) never dangles, unless execve has declared
\* the caller dead and the call gave the mutex up.
THEOREM CallerSafe == Spec => []CallerKept
<1>1. IInv => CallerKept
  BY DEF IInv
<1>2. QED
  BY <1>1, Inductive, PTL

\* proc_exited and sys_wait4 lose no wake-up between them: only execve leaves a
\* dead child next to a parent parked for it.
THEOREM WakeupSafe == Spec => []NoLostWakeup
<1>1. IInv => NoLostWakeup
  BY DEF IInv
<1>2. QED
  BY <1>1, Inductive, PTL

\* A parent is parked in sys_wait4 only while there is a child to answer it for.
THEOREM ParkSafe == Spec => []ParkedHasChild
<1>1. IInv => ParkedHasChild
  BY DEF IInv
<1>2. QED
  BY <1>1, Inductive, PTL

=============================================================================
