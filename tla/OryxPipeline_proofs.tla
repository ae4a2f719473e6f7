------------------------ MODULE OryxPipeline_proofs -------------------------
(***************************************************************************)
(* A pool with as many workers as the pipeline has stages is never used up *)
(* by calls that wait for one another, whatever the capacity of the pipes  *)
(* and the length of the pipeline.                                         *)
(*                                                                         *)
(* If no worker is left for a call on the port, all other guests have one. *)
(* The shell never blocks its worker, so every stage does: the first one   *)
(* that reads finds the pipe empty that the stage before it finds full.    *)
(*                                                                         *)
(* What the pipeline carries is a sum over its pipes and stages.  The      *)
(* invariant says that the partial sums exist (Carries), each the one      *)
(* before it and what one stage and one pipe hold: a read takes one from   *)
(* one of them, a write moves an item within one, and a stage that is done *)
(* has nothing behind it.  Nothing is lost, a pipeline read to its end is  *)
(* delivered, and only a last stage that stops early can break a pipe.     *)
(***************************************************************************)
EXTENDS OryxPipeline, FiniteSetTheorems, WellFoundedInduction, TLAPS

\* What the guests' programs and the way of their calls keep to.
PipelineInv ==
  /\ at \in [Guests -> {"running", "port", "handler", "hostcall", "reply",
                        "parked", "gone"}]
  /\ prog \in [Guests -> {"close", "wait", "read", "write", "exit", "gone"}]
  /\ fill \in [Pipes -> 0..Cap]
  /\ prog[Shell] \notin {"read", "write"}
  /\ prog[1] # "read"
  /\ prog[Stages] # "write"
  /\ \A g \in Stage : prog[g] \notin {"close", "wait"}
  /\ \A g \in Guests : at[g] = "hostcall" => prog[g] \in {"read", "write"}

\* The shell and the stages are numbered from 0, a pipe like the stage before it.
LEMMA GuestFacts ==
  /\ Guests = 0..Stages /\ Shell \in Guests /\ Stage \subseteq Guests
  /\ Shell \notin Stage /\ 1 \in Stage /\ Stages \in Stage /\ Stages # 1
  /\ \A g \in Stage : (g # 1 => In(g) \in Pipes) /\ (g # Stages => Out(g) \in Pipes)
BY PipelineAssumption DEF Guests, Stage, Shell, Pipes, In, Out

\* The shell and its stages start as main and fork leave them.
LEMMA InitInv == Init => PipelineInv
BY GuestFacts, PipelineAssumption DEF Init, PipelineInv, Shell

\* Every step of a call leaves the programs and the pipes as they must be.
LEMMA StepInv == PipelineInv /\ [Next]_vars => PipelineInv'
<1> SUFFICES ASSUME PipelineInv, [Next]_vars PROVE PipelineInv'
  OBVIOUS
<1> USE GuestFacts
<1>1. ASSUME NEW g \in Guests, Trap(g) PROVE PipelineInv'
  BY <1>1 DEF Trap, Goto, PipelineInv
<1>2. ASSUME NEW g \in Guests, Receive(g) PROVE PipelineInv'
  BY <1>2 DEF Receive, Goto, PipelineInv
<1>3. ASSUME NEW g \in Guests, Reply(g) PROVE PipelineInv'
  BY <1>3 DEF Reply, Goto, PipelineInv
<1>4. ASSUME NEW g \in Guests, BeginIO(g) PROVE PipelineInv'
  BY <1>4 DEF BeginIO, Goto, PipelineInv
<1>5. ASSUME NEW g \in Guests, HostRead(g) PROVE PipelineInv'
  <2>1. g \in Stage /\ g # 1 /\ In(g) \in Pipes
    BY <1>5 DEF HostRead, PipelineInv, Guests
  <2>2. fill' \in [Pipes -> 0..Cap]
    BY <1>5, <2>1, PipelineAssumption DEF HostRead, PipelineInv
  <2>3. QED
    BY <1>5, <2>1, <2>2, SMTT(20) DEF HostRead, Goto, PipelineInv
<1>6. ASSUME NEW g \in Guests, HostEof(g) PROVE PipelineInv'
  BY <1>6 DEF HostEof, Goto, PipelineInv
<1>7. ASSUME NEW g \in Guests, HostWrite(g) PROVE PipelineInv'
  <2>1. g \in Stage /\ g # Stages /\ Out(g) \in Pipes
    BY <1>7 DEF HostWrite, PipelineInv, Guests
  <2>2. fill' \in [Pipes -> 0..Cap]
    BY <1>7, <2>1, PipelineAssumption DEF HostWrite, PipelineInv
  <2>3. QED
    BY <1>7, <2>1, <2>2 DEF HostWrite, Goto, PipelineInv
<1>8. ASSUME NEW g \in Guests, BrokenPipe(g) PROVE PipelineInv'
  BY <1>8 DEF BrokenPipe, PipelineInv
<1>9. ASSUME NEW p \in Pipes, Close(p) PROVE PipelineInv'
  BY <1>9 DEF Close, Goto, PipelineInv
<1>10. ASSUME Wait PROVE PipelineInv'
  <2>1. /\ prog[Shell] = "wait" /\ fill' = fill
        /\ \/ /\ at' = [at EXCEPT ![Shell] = "reply"]
              /\ \/ prog' = prog
                 \/ prog' = [prog EXCEPT ![Shell] = "exit"]
           \/ at' = [at EXCEPT ![Shell] = "parked"] /\ prog' = prog
    BY <1>10 DEF Wait, Goto
  <2>2. QED
    BY <2>1 DEF PipelineInv
<1>11. ASSUME NEW g \in Guests, Exit(g) PROVE PipelineInv'
  BY <1>11 DEF Exit, Goto, PipelineInv
<1>12. ASSUME UNCHANGED vars PROVE PipelineInv'
  BY <1>12 DEF vars, PipelineInv
<1>13. QED
  BY <1>1, <1>2, <1>3, <1>4, <1>5, <1>6, <1>7, <1>8, <1>9, <1>10, <1>11, <1>12
     DEF Next, Serve, Finished

\* A set of stages has a least one.
LEMMA LeastStage ==
  ASSUME NEW S, S \subseteq Stage, S # {}
  PROVE  \E s \in S : \A t \in S : s <= t
<1>1. S \subseteq Nat
  BY PipelineAssumption DEF Stage
<1> DEFINE Less == {ss \in Nat \X Nat : ss[1] < ss[2]}
<1>2. IsWellFoundedOn(Less, Nat)
  BY NatLessThanWellFounded DEF OpToRel
<1>3. PICK s \in S : \A t \in S : ~(<<t, s>> \in Less)
  BY <1>1, <1>2, WFMin, Zenon
<1>4. ASSUME NEW t \in S PROVE s <= t
  <2>1. ~(t < s)
    BY <1>1, <1>3
  <2>2. QED
    BY <1>1, <2>1
<1>5. QED
  BY <1>4

\* Some stage reads and the one before it writes: the first writes and the last
\* reads.
LEMMA Neighbours ==
  ASSUME PipelineInv, \A g \in Stage : prog[g] \in {"read", "write"}
  PROVE  \E g \in Stage : g # 1 /\ prog[g] = "read" /\ g - 1 \in Stage
                          /\ prog[g - 1] = "write"
<1> DEFINE Reading == {g \in Stage : prog[g] = "read"}
<1>1. Stages \in Reading
  BY GuestFacts DEF PipelineInv
<1>2. PICK g \in Reading : \A h \in Reading : g <= h
  BY <1>1, LeastStage
<1>3. g \in Stage /\ g # 1
  BY GuestFacts DEF PipelineInv
<1>4. g - 1 \in Stage /\ g - 1 \notin Reading
  BY <1>2, <1>3, PipelineAssumption DEF Stage
<1>5. QED
  BY <1>3, <1>4

\* Blocked on each other: the two would need their pipe both empty and full.
LEMMA SomeoneReturns ==
  ASSUME PipelineInv, \A g \in Stage : at[g] = "hostcall"
  PROVE  \E g \in Stage : CanReturn(g)
<1> SUFFICES ASSUME \A g \in Stage : ~CanReturn(g) PROVE FALSE
  OBVIOUS
<1>1. \A g \in Stage : prog[g] \in {"read", "write"}
  BY GuestFacts DEF PipelineInv
<1>2. PICK g \in Stage : /\ g # 1 /\ prog[g] = "read" /\ g - 1 \in Stage
                         /\ prog[g - 1] = "write"
  BY <1>1, Neighbours
<1>3. In(g) = g - 1 /\ Out(g - 1) = g - 1 /\ g - 1 \in Pipes
  BY <1>2, GuestFacts DEF In, Out
<1>4. fill[g - 1] \in 0..Cap /\ ~(fill[g - 1] > 0) /\ ~(fill[g - 1] < Cap)
  BY <1>2, <1>3 DEF CanReturn, PipelineInv
<1>5. QED
  BY <1>4, PipelineAssumption

\* The counting: a guest on the port has no worker, so when no worker is left
\* all the others have one.
LEMMA AllOthersBusy ==
  ASSUME NWorkers >= Stages, NEW g \in Guests, at[g] = "port",
         ~(Cardinality(Busy) < NWorkers)
  PROVE  Busy = Guests \ {g}
<1>1. IsFiniteSet(Guests) /\ Cardinality(Guests) = Stages + 1
  BY GuestFacts, PipelineAssumption, FS_Interval
<1>2. IsFiniteSet(Guests \ {g}) /\ Cardinality(Guests \ {g}) = Stages
  BY <1>1, FS_RemoveElement, PipelineAssumption
<1>3. Busy \in SUBSET (Guests \ {g})
  BY DEF Busy
<1>4. /\ IsFiniteSet(Busy) /\ Cardinality(Busy) <= Stages
      /\ Cardinality(Busy) = Stages => Busy = Guests \ {g}
  BY <1>2, <1>3, FS_Subset
<1>5. Cardinality(Busy) \in Nat
  BY <1>4, FS_CardinalityType
<1>6. QED
  BY <1>4, <1>5, PipelineAssumption

\* A call on the port finds a worker, or one that will be free.
LEMMA InvWorkerLeft == NWorkers >= Stages /\ PipelineInv => WorkerLeft
<1> SUFFICES ASSUME NWorkers >= Stages, PipelineInv,
                    NEW g \in Guests, at[g] = "port",
                    ~(Cardinality(Busy) < NWorkers)
             PROVE  \E h \in Busy : CanReturn(h)
  BY DEF WorkerLeft
<1>1. Busy = Guests \ {g}
  BY AllOthersBusy
<1>2. CASE g # Shell
  <2>1. Shell \in Busy /\ at[Shell] # "hostcall"
    BY <1>1, <1>2, GuestFacts DEF PipelineInv
  <2>2. QED
    BY <2>1 DEF CanReturn
<1>3. CASE g = Shell
  <2>1. Stage \subseteq Busy
    BY <1>1, <1>3, GuestFacts
  <2>2. CASE \A h \in Stage : at[h] = "hostcall"
    BY <2>1, <2>2, SomeoneReturns
  <2>3. CASE \E h \in Stage : at[h] # "hostcall"
    BY <2>1, <2>3 DEF CanReturn
  <2>4. QED
    BY <2>2, <2>3
<1>4. QED
  BY <1>2, <1>3

\* "Extra workers so a guest blocked in read() cannot stall the rest": one for
\* each stage is enough, for any pipeline and any capacity.
THEOREM WorkersSuffice == NWorkers >= Stages => (Spec => []WorkerLeft)
<1> SUFFICES ASSUME NWorkers >= Stages PROVE Spec => []WorkerLeft
  OBVIOUS
<1>1. PipelineInv => WorkerLeft
  BY InvWorkerLeft
<1>2. QED
  BY InitInv, StepInv, <1>1, PTL DEF Spec

-----------------------------------------------------------------------------
(* What the pipeline carries                                               *)

\* A stage in the middle that has read an item and not yet passed it on.
Held(g) == IF g \in 2..(Stages - 1) /\ prog[g] = "write" THEN 1 ELSE 0

Done(g) == prog[g] \in {"exit", "gone"}

\* T counts, for each pipe, the items that have still to be read from it: what
\* the first stage has not written, what the pipes up to it hold and what the
\* stages up to it have in hand.  With the items read they are all there are; a
\* stage that writes and is done has left none behind it.
Carries(T) ==
  /\ T \in [0..(Stages - 1) -> 0..Items]
  /\ T[0] = source
  /\ \A g \in Pipes : T[g] = T[g - 1] + Held(g) + fill[g]
  /\ T[Stages - 1] + sink = Items
  /\ \A g \in Pipes : Done(g) => T[g - 1] = 0
  /\ ~EarlyExit /\ Done(Stages) => T[Stages - 1] = 0

Conserved == \E T \in [0..(Stages - 1) -> 0..Items] : Carries(T)

\* A stage keeps its ends until it exits, and the first one writes while there
\* is something to write.
EndsKept ==
  /\ \A g \in Stage : prog[g] # "gone" =>
       /\ g # 1 => g \in readers[In(g)]
       /\ g # Stages => g \in writers[Out(g)]
  /\ prog[1] = "write" => source > 0

\* The shell outlives its stages.
ShellLast ==
  /\ \A g \in reaped : prog[g] = "gone"
  /\ Done(Shell) => reaped = Stage

\* Everything has been read when the shell is gone, unless the last stage may
\* stop before its input ends.
Delivered == ~EarlyExit /\ prog[Shell] = "gone" => sink = Items

IInv ==
  /\ TypeOK
  /\ PipelineInv
  /\ EndsKept
  /\ ShellLast
  /\ Conserved

\* A pipe has a number like the stage that writes it, and there is one before
\* it to count from.
LEMMA PipeFacts ==
  /\ Stages \in Nat /\ Stages >= 2 /\ Items \in Nat /\ Cap \in Nat
  /\ Pipes \subseteq Stage /\ Stages - 1 \in Pipes
  /\ \A g \in Pipes : /\ g \in 1..(Stages - 1) /\ g - 1 \in 0..(Stages - 1)
                      /\ g \in 0..(Stages - 1) /\ g # Stages
                      /\ In(g) = g - 1 /\ Out(g) = g
  /\ \A g \in Stage : /\ g \in 1..Stages
                      /\ g # Stages => g \in Pipes
                      /\ g # 1 => g - 1 \in Pipes
  /\ In(Stages) = Stages - 1
BY PipelineAssumption DEF Pipes, Stage, In, Out

\* What Held counts.
LEMMA HeldFacts ==
  /\ \A g \in Pipes : Held(g) \in {0, 1} /\ (prog[g] # "write" => Held(g) = 0)
  /\ Held(1) = 0
  /\ \A g \in Pipes : g # 1 /\ prog[g] = "write" => Held(g) = 1
BY PipeFacts DEF Held

\* Everything is still to be read at first.
LEMMA InitAll == Init => IInv
<1> SUFFICES ASSUME Init PROVE IInv
  OBVIOUS
<1> USE GuestFacts, PipeFacts
<1>1. PipelineInv
  BY InitInv
<1>2. EndsKept
  BY PipelineAssumption, SMTT(20) DEF Init, EndsKept, In, Out
<1>3. ShellLast
  BY DEF Init, ShellLast, Done
<1>4. Conserved
  <2> DEFINE T == [i \in 0..(Stages - 1) |-> Items]
  <2>1. T \in [0..(Stages - 1) -> 0..Items]
    OBVIOUS
  <2>2. \A g \in Pipes : T[g] = Items /\ T[g - 1] = Items /\ Held(g) = 0
                         /\ fill[g] = 0 /\ ~Done(g)
    BY DEF Init, Held, Done
  <2>3. T[0] = Items /\ T[Stages - 1] = Items /\ ~Done(Stages)
    BY DEF Init, Done
  <2> HIDE DEF T
  <2>4. Carries(T)
    BY <2>1, <2>2, <2>3 DEF Carries, Init
  <2>5. QED
    BY <2>1, <2>4 DEF Conserved
<1>5. TypeOK
  <2>1. Busy = {}
    BY DEF Init, Busy
  <2>2. Cardinality(Busy) <= NWorkers
    BY <2>1, FS_EmptySet, PipelineAssumption
  <2>3. readers \in [Pipes -> SUBSET Guests] /\ writers \in [Pipes -> SUBSET Guests]
    <3>1. \A p \in Pipes : p \in Guests /\ p + 1 \in Guests
      BY DEF Pipes
    <3>2. QED
      BY <3>1 DEF Init
  <2>4. source \in 0..Items /\ sink \in 0..Items
    BY PipelineAssumption DEF Init
  <2>5. reaped \in SUBSET Stage /\ killed \in BOOLEAN
    BY ONLY Init DEF Init
  <2>6. QED
    BY <1>1, <2>2, <2>3, <2>4, <2>5 DEF TypeOK, PipelineInv
<1>6. QED
  BY <1>1, <1>2, <1>3, <1>4, <1>5 DEF IInv

\* A program that reads or writes has the end it needs.
LEMMA EndThere ==
  ASSUME PipelineInv, EndsKept, NEW g \in Guests, prog[g] \in {"read", "write"}
  PROVE  HasEnd(g) /\ g \in Stage /\ (prog[g] = "read" => g # 1)
                   /\ (prog[g] = "write" => g # Stages)
<1>1. g \in Stage
  BY GuestFacts DEF PipelineInv, Guests
<1>2. (prog[g] = "read" => g # 1) /\ (prog[g] = "write" => g # Stages)
  BY DEF PipelineInv
<1>3. QED
  BY <1>1, <1>2 DEF EndsKept, HasEnd

\* The items still to be read are counted the same while none is moved.
LEMMA CarriesSame ==
  ASSUME Conserved, UNCHANGED <<fill, source, sink>>,
         \A g \in Pipes : (prog'[g] = "write") <=> (prog[g] = "write"),
         \A g \in Stage : Done(g)' <=> Done(g)
  PROVE  Conserved'
<1>1. PICK T \in [0..(Stages - 1) -> 0..Items] : Carries(T)
  BY DEF Conserved
<1>2. \A g \in Pipes : Held(g)' = Held(g)
  BY PipeFacts DEF Held
<1>3. Carries(T)'
  BY <1>1, <1>2, PipeFacts, GuestFacts DEF Carries
<1>4. QED
  BY <1>3 DEF Conserved

\* An item that is read is counted no longer for the pipe it is read from, and
\* by the stage that holds it or among those that have arrived.
LEMMA ReadStep ==
  ASSUME IInv, NEW g \in Guests, HostRead(g)
  PROVE  Conserved' /\ sink' \in 0..Items
<1>1. PICK T \in [0..(Stages - 1) -> 0..Items] : Carries(T)
  BY DEF IInv, Conserved
<1>2. /\ g \in Stage /\ g # 1 /\ In(g) = g - 1 /\ g - 1 \in Pipes
      /\ prog[g] = "read" /\ fill[g - 1] > 0
      /\ fill' = [fill EXCEPT ![g - 1] = @ - 1]
      /\ source' = source
  BY EndThere, GuestFacts DEF HostRead, IInv, In
<1>3. /\ prog \in [Guests -> {"close", "wait", "read", "write", "exit", "gone"}]
      /\ fill \in [Pipes -> 0..Cap] /\ sink \in 0..Items
  BY DEF IInv, PipelineInv, TypeOK
<1>4. /\ \A i \in 0..(Stages - 1) : T[i] \in Int /\ T[i] >= 0
      /\ g \in Int /\ g - 1 \in 0..(Stages - 1) /\ g - 2 \in 0..(Stages - 1)
      /\ g - 1 - 1 = g - 2
  BY <1>2, PipeFacts, SMTT(20)
<1>5. T[g - 1] = T[g - 2] + Held(g - 1) + fill[g - 1]
  BY <1>1, <1>2, <1>4 DEF Carries
<1>6. T[g - 1] > 0
  <2>1. Held(g - 1) \in {0, 1} /\ fill[g - 1] \in Int
    BY <1>2, <1>3, HeldFacts
  <2>2. QED
    BY <1>2, <1>4, <1>5, <2>1
<1> DEFINE U == [T EXCEPT ![g - 1] = @ - 1]
<1>7. /\ U \in [0..(Stages - 1) -> 0..Items]
      /\ U[g - 1] = T[g - 1] - 1
      /\ \A i \in 0..(Stages - 1) : i # g - 1 => U[i] = T[i]
  BY <1>1, <1>4, <1>6, PipeFacts, SMTT(20)
<1> HIDE DEF U
<1>8. U[0] = source'
  BY <1>1, <1>2, <1>4, <1>7, PipeFacts DEF Carries
<1>9. \A h \in Guests : h # g => prog'[h] = prog[h]
  BY <1>3 DEF HostRead
<1>10. ASSUME NEW h \in Pipes PROVE U[h] = U[h - 1] + Held(h)' + fill'[h]
  <2>1. T[h] = T[h - 1] + Held(h) + fill[h]
    BY <1>1 DEF Carries
  <2>2. /\ h \in Guests /\ h \in Int /\ h - 1 \in 0..(Stages - 1)
        /\ h \in 0..(Stages - 1) /\ Held(h) \in {0, 1} /\ fill[h] \in Int
        /\ T[h] \in Int /\ T[h - 1] \in Int
    BY <1>3, <1>4, GuestFacts, PipeFacts, HeldFacts
  <2>3. CASE h = g
    <3>1. h # Stages
      BY PipeFacts
    <3>2. prog'[g] = "write"
      BY <1>3, <2>2, <2>3, <3>1 DEF HostRead
    <3>3. Held(h)' = 1 /\ Held(h) = 0
      BY <1>2, <2>2, <2>3, <3>1, <3>2, PipeFacts DEF Held
    <3>4. U[h] = T[h] /\ U[h - 1] = T[h - 1] - 1 /\ fill'[h] = fill[h]
      BY <1>2, <1>3, <1>7, <2>2, <2>3
    <3>5. QED
      BY <2>1, <2>2, <3>3, <3>4
  <2>4. CASE h = g - 1
    <3>1. Held(h)' = Held(h)
      BY <1>2, <1>9, <2>2, <2>4 DEF Held
    <3>2. U[h] = T[h] - 1 /\ U[h - 1] = T[h - 1] /\ fill'[h] = fill[h] - 1
      BY <1>2, <1>3, <1>7, <2>2, <2>4
    <3>3. QED
      BY <2>1, <2>2, <3>1, <3>2
  <2>5. CASE h # g /\ h # g - 1
    <3>1. Held(h)' = Held(h)
      BY <1>9, <2>2, <2>5 DEF Held
    <3>2. U[h] = T[h] /\ U[h - 1] = T[h - 1] /\ fill'[h] = fill[h]
      BY <1>2, <1>3, <1>4, <1>7, <2>2, <2>5
    <3>3. QED
      BY <2>1, <2>2, <3>1, <3>2
  <2>6. QED
    BY <2>3, <2>4, <2>5
<1>11. U[Stages - 1] + sink' = Items /\ sink' \in 0..Items
  <2>1. T[Stages - 1] + sink = Items
    BY <1>1 DEF Carries
  <2>2. CASE g = Stages
    <3>1. sink' = sink + 1 /\ U[Stages - 1] = T[Stages - 1] - 1
      BY <1>7, <2>2 DEF HostRead
    <3>2. QED
      BY <1>3, <1>4, <1>6, <2>1, <2>2, <3>1, PipeFacts
  <2>3. CASE g # Stages
    <3>1. sink' = sink /\ U[Stages - 1] = T[Stages - 1]
      BY <1>4, <1>7, <2>3, PipeFacts DEF HostRead
    <3>2. QED
      BY <1>3, <2>1, <3>1
  <2>4. QED
    BY <2>2, <2>3
<1>12. \A h \in Pipes : Done(h)' => U[h - 1] = 0
  <2>1. ASSUME NEW h \in Pipes, Done(h)' PROVE U[h - 1] = 0
    <3>1. h # g
      <4>1. h = g => g # Stages
        BY PipeFacts
      <4>2. h = g => prog'[g] = "write"
        BY <1>3, <1>2, <4>1, GuestFacts DEF HostRead
      <4>3. QED
        BY <2>1, <4>2 DEF Done
    <3>2. Done(h) /\ T[h - 1] = 0
      BY <1>1, <1>9, <2>1, <3>1, GuestFacts, PipeFacts DEF Carries, Done
    <3>3. h - 1 # g - 1
      BY <1>4, <3>1, PipeFacts, SMTT(20)
    <3>4. QED
      BY <1>7, <3>2, <3>3, PipeFacts
  <2>2. QED
    BY <2>1
<1>13. ~EarlyExit /\ Done(Stages)' => U[Stages - 1] = 0
  <2>1. SUFFICES ASSUME ~EarlyExit, Done(Stages)' PROVE U[Stages - 1] = 0
    OBVIOUS
  <2>2. g # Stages
    <3>1. g = Stages => prog'[Stages] = "read"
      BY <1>2, <2>1 DEF HostRead
    <3>2. QED
      BY <2>1, <3>1 DEF Done
  <2>3. Done(Stages) /\ T[Stages - 1] = 0
    BY <1>1, <1>9, <2>1, <2>2, GuestFacts DEF Carries, Done
  <2>4. QED
    BY <1>4, <1>7, <2>2, <2>3, PipeFacts
<1>14. QED
  BY <1>7, <1>8, <1>10, <1>11, <1>12, <1>13 DEF Carries, Conserved

\* An item that is written moves from what its stage had to what the pipe holds:
\* only what the first stage has still to write is counted down.
LEMMA WriteStep ==
  ASSUME IInv, NEW g \in Guests, HostWrite(g)
  PROVE  Conserved' /\ source' \in 0..Items
<1>1. PICK T \in [0..(Stages - 1) -> 0..Items] : Carries(T)
  BY DEF IInv, Conserved
<1>2. /\ g \in Stage /\ g # Stages /\ Out(g) = g /\ g \in Pipes
      /\ prog[g] = "write"
      /\ fill' = [fill EXCEPT ![g] = @ + 1]
      /\ sink' = sink
      /\ source' = IF g = 1 THEN source - 1 ELSE source
  BY EndThere, GuestFacts, PipeFacts DEF HostWrite, IInv, Out
<1>3. /\ prog \in [Guests -> {"close", "wait", "read", "write", "exit", "gone"}]
      /\ fill \in [Pipes -> 0..Cap] /\ source \in 0..Items
      /\ g = 1 => source > 0
  BY <1>2 DEF IInv, PipelineInv, TypeOK, EndsKept
<1>4. source' \in 0..Items
  BY <1>2, <1>3, PipeFacts
<1>5. \A i \in 0..(Stages - 1) : T[i] \in Int /\ T[i] >= 0
  BY PipeFacts
<1>6. \A h \in Guests : h # g => prog'[h] = prog[h]
  BY <1>3 DEF HostWrite
<1>7. /\ g # 1 => prog'[g] = "read"
      /\ g = 1 => prog'[g] = IF source = 1 THEN "exit" ELSE "write"
  BY <1>2, <1>3 DEF HostWrite
<1>8. \A h \in Pipes : Done(h)' => Done(h) \/ (h = g /\ g = 1 /\ source = 1)
  BY <1>6, <1>7, GuestFacts, PipeFacts DEF Done
<1>9. Done(Stages)' => Done(Stages)
  BY <1>2, <1>6, GuestFacts DEF Done
<1>10. \A h \in Pipes : h # g => Held(h)' = Held(h) /\ fill'[h] = fill[h]
  BY <1>2, <1>3, <1>6, GuestFacts, PipeFacts DEF Held
<1>11. fill'[g] = fill[g] + 1 /\ fill[g] \in Int
  BY <1>2, <1>3
<1>12. \A h \in Pipes : T[h] = T[h - 1] + Held(h) + fill[h]
  BY <1>1 DEF Carries
<1>13. CASE g = 1
  <2> DEFINE U == [T EXCEPT ![0] = @ - 1]
  <2>1. T[0] = source
    BY <1>1 DEF Carries
  <2>2. /\ U \in [0..(Stages - 1) -> 0..Items]
        /\ U[0] = source - 1
        /\ \A i \in 0..(Stages - 1) : i # 0 => U[i] = T[i]
    BY <1>1, <1>3, <1>13, <2>1, PipeFacts
  <2> HIDE DEF U
  <2>3. ASSUME NEW h \in Pipes PROVE U[h] = U[h - 1] + Held(h)' + fill'[h]
    <3>1. h \in Int /\ h >= 1 /\ h - 1 \in 0..(Stages - 1) /\ h \in 0..(Stages - 1)
      BY PipeFacts
    <3>2. CASE h = 1
      <4>1. Held(h) = 0 /\ Held(h)' = 0
        BY <3>2, PipeFacts DEF Held
      <4>2. T[1] = source + fill[1] /\ U[1] = T[1] /\ U[0] = source - 1
        BY <1>3, <1>11, <1>12, <1>13, <2>1, <2>2, <3>1, <3>2, <4>1
      <4>3. QED
        BY <1>3, <1>11, <1>13, <3>2, <4>1, <4>2
    <3>3. CASE h # 1
      BY <1>10, <1>12, <1>13, <2>2, <3>1, <3>3
    <3>4. QED
      BY <3>2, <3>3
  <2>4. U[Stages - 1] + sink' = Items
    BY <1>1, <1>2, <2>2, PipeFacts DEF Carries
  <2>5. ASSUME NEW h \in Pipes, Done(h)' PROVE U[h - 1] = 0
    <3>1. h \in Int /\ h >= 1 /\ h - 1 \in 0..(Stages - 1)
      BY PipeFacts
    <3>2. CASE h = 1
      <4>1. ~Done(1)
        BY <1>2, <1>13 DEF Done
      <4>2. source = 1
        BY <1>8, <2>5, <3>2, <4>1
      <4>3. QED
        BY <2>2, <3>2, <4>2
    <3>3. CASE h # 1
      <4>1. Done(h)
        BY <1>8, <1>13, <2>5, <3>3
      <4>2. T[h - 1] = 0
        BY <1>1, <4>1 DEF Carries
      <4>3. QED
        BY <2>2, <3>1, <3>3, <4>2
    <3>4. QED
      BY <3>2, <3>3
  <2>6. ~EarlyExit /\ Done(Stages)' => U[Stages - 1] = 0
    BY <1>1, <1>9, <2>2, PipeFacts DEF Carries
  <2>7. QED
    BY <1>2, <1>4, <1>13, <2>2, <2>3, <2>4, <2>5, <2>6 DEF Carries, Conserved
<1>14. CASE g # 1
  <2>0. g \in 2..(Stages - 1)
    BY <1>2, <1>14, PipeFacts
  <2>1. Held(g)' = 0 /\ Held(g) = 1
    BY <1>2, <1>7, <1>14, <2>0 DEF Held
  <2>2. \A h \in Pipes : T[h] = T[h - 1] + Held(h)' + fill'[h]
    <3>1. T[g] = T[g - 1] + Held(g)' + fill'[g]
      <4>1. T[g - 1] \in Int /\ T[g] \in Int
        BY <1>2, <1>5, PipeFacts
      <4>2. QED
        BY <1>2, <1>11, <1>12, <2>1, <4>1
    <3>2. QED
      BY <1>10, <1>12, <3>1
  <2>3. /\ T[0] = source' /\ T[Stages - 1] + sink' = Items
        /\ \A h \in Pipes : Done(h)' => T[h - 1] = 0
        /\ ~EarlyExit /\ Done(Stages)' => T[Stages - 1] = 0
    BY <1>1, <1>2, <1>8, <1>9, <1>14 DEF Carries
  <2>4. QED
    BY <1>4, <2>2, <2>3 DEF Carries, Conserved
<1>15. QED
  BY <1>13, <1>14

\* A stage is told of the end of its input when the stage before it is gone,
\* which has left nothing, and the pipe is empty.
LEMMA EofStep ==
  ASSUME IInv, NEW g \in Guests, HostEof(g)
  PROVE  Conserved'
<1>1. PICK T \in [0..(Stages - 1) -> 0..Items] : Carries(T)
  BY DEF IInv, Conserved
<1>2. /\ g \in Stage /\ g # 1 /\ In(g) = g - 1 /\ g - 1 \in Pipes
      /\ prog[g] = "read" /\ fill[g - 1] = 0 /\ writers[g - 1] = {}
      /\ UNCHANGED <<fill, source, sink>>
  BY EndThere, GuestFacts DEF HostEof, IInv, In
<1>3. prog \in [Guests -> {"close", "wait", "read", "write", "exit", "gone"}]
  BY DEF IInv, PipelineInv
<1>4. \A h \in Guests : h # g => prog'[h] = prog[h]
  BY <1>3 DEF HostEof
<1>5. prog'[g] = "exit"
  BY <1>3 DEF HostEof
<1>6. \A h \in Pipes : Held(h)' = Held(h)
  BY <1>2, <1>4, <1>5, GuestFacts, PipeFacts DEF Held
<1>7. T[g - 1] = 0
  <2>1. prog[g - 1] = "gone"
    BY <1>2, PipeFacts DEF IInv, EndsKept
  <2>2. Done(g - 1) /\ Held(g - 1) = 0
    BY <1>2, <2>1, HeldFacts DEF Done
  <2>3. T[g - 1] = T[g - 1 - 1] + Held(g - 1) + fill[g - 1] /\ T[g - 1 - 1] = 0
    BY <1>1, <1>2, <2>2 DEF Carries
  <2>4. QED
    BY <1>2, <2>2, <2>3
<1>8. \A h \in Pipes : Done(h)' => T[h - 1] = 0
  BY <1>1, <1>4, <1>7, GuestFacts, PipeFacts DEF Carries, Done
<1>9. ~EarlyExit /\ Done(Stages)' => T[Stages - 1] = 0
  BY <1>1, <1>4, <1>7, GuestFacts DEF Carries, Done
<1>10. Carries(T)'
  BY <1>1, <1>2, <1>6, <1>8, <1>9 DEF Carries
<1>11. QED
  BY <1>10 DEF Conserved

\* No step miscounts.
LEMMA ConservedStep ==
  ASSUME IInv, [Next]_vars
  PROVE  Conserved'
<1>1. /\ prog \in [Guests -> {"close", "wait", "read", "write", "exit", "gone"}]
      /\ \A g \in Stage : prog[g] \notin {"close", "wait"}
      /\ Conserved /\ Pipes \subseteq Guests /\ Stage \subseteq Guests
      /\ Shell \notin Stage /\ Pipes \subseteq Stage
  BY GuestFacts, PipeFacts DEF IInv, PipelineInv
<1>2. ASSUME UNCHANGED <<prog, fill, source, sink>> PROVE Conserved'
  BY <1>1, <1>2, CarriesSame DEF Done
<1>3. ASSUME NEW g \in Guests, BeginIO(g) PROVE Conserved'
  <2>1. HasEnd(g)
    BY <1>3, EndThere DEF BeginIO, IInv
  <2>2. prog' = prog
    BY <1>1, <1>3, <2>1 DEF BeginIO
  <2>3. QED
    BY <1>2, <1>3, <2>2 DEF BeginIO
<1>4. ASSUME NEW g \in Guests, Exit(g) PROVE Conserved'
  <2>1. \A h \in Stage : /\ (prog'[h] = "write") <=> (prog[h] = "write")
                         /\ Done(h)' <=> Done(h)
    BY <1>1, <1>4 DEF Exit, Done
  <2>2. QED
    BY <1>1, <1>4, <2>1, CarriesSame DEF Exit
<1>5. ASSUME Wait \/ \E p \in Pipes : Close(p) PROVE Conserved'
  <2>1. \A h \in Stage : prog'[h] = prog[h]
    BY <1>1, <1>5 DEF Wait, Close
  <2>2. UNCHANGED <<fill, source, sink>>
    BY <1>5 DEF Wait, Close
  <2>3. QED
    BY <1>1, <2>1, <2>2, CarriesSame DEF Done
<1>6. ASSUME NEW g \in Guests, Trap(g) \/ Receive(g) \/ Reply(g) \/ BrokenPipe(g)
      PROVE  Conserved'
  BY <1>2, <1>6 DEF Trap, Receive, Reply, BrokenPipe
<1>7. CASE UNCHANGED vars
  BY <1>2, <1>7 DEF vars
<1>8. QED
  BY <1>3, <1>4, <1>5, <1>6, <1>7, ReadStep, WriteStep, EofStep
  DEF Next, Serve, Finished

\* Only a stage that exits gives up its ends.
LEMMA EndsStep ==
  ASSUME IInv, [Next]_vars
  PROVE  EndsKept'
<1>1. /\ prog \in [Guests -> {"close", "wait", "read", "write", "exit", "gone"}]
      /\ readers \in [Pipes -> SUBSET Guests]
      /\ writers \in [Pipes -> SUBSET Guests]
      /\ EndsKept /\ Stage \subseteq Guests /\ Shell \notin Stage
      /\ 1 \in Stage /\ prog[1] # "read" /\ source \in 0..Items
      /\ \A g \in Stage : (g # 1 => In(g) \in Pipes)
                            /\ (g # Stages => Out(g) \in Pipes)
      /\ \A g \in Stage : prog[g] \notin {"close", "wait"}
  BY GuestFacts DEF IInv, PipelineInv, TypeOK
\* A step that closes nothing of a stage that goes on, and leaves the first
\* one's count.
<1>2. ASSUME UNCHANGED source,
             \A g \in Stage : /\ prog'[g] # "gone" => prog[g] # "gone"
                              /\ prog'[g] = "write" => prog[g] = "write" \/ g # 1,
             \A g \in Stage, p \in Pipes : prog'[g] # "gone" =>
                /\ g \in readers[p] => g \in readers'[p]
                /\ g \in writers[p] => g \in writers'[p]
      PROVE  EndsKept'
  BY <1>1, <1>2 DEF EndsKept
<1>3. ASSUME NEW g \in Guests, BeginIO(g) PROVE EndsKept'
  BY <1>1, <1>2, <1>3 DEF BeginIO
<1>4. ASSUME NEW g \in Guests, HostRead(g) PROVE EndsKept'
  <2>1. prog[g] = "read" /\ g # 1
    BY <1>1, <1>4 DEF HostRead
  <2>2. \A h \in Stage : /\ prog'[h] # "gone" => prog[h] # "gone"
                         /\ prog'[h] = "write" => prog[h] = "write" \/ h # 1
    BY <1>1, <1>4, <2>1 DEF HostRead
  <2>3. UNCHANGED <<source, readers, writers>>
    BY <1>4 DEF HostRead
  <2>4. QED
    BY <1>2, <2>2, <2>3
<1>5. ASSUME NEW g \in Guests, HostEof(g) PROVE EndsKept'
  BY <1>1, <1>2, <1>5 DEF HostEof
<1>6. ASSUME NEW g \in Guests, HostWrite(g) PROVE EndsKept'
  <2>1. \A h \in Stage : prog'[h] # "gone" => prog[h] # "gone"
    BY <1>1, <1>6 DEF HostWrite
  <2>2. prog'[1] = "write" => source' > 0
    <3>1. CASE g = 1
      BY <1>1, <1>6, <3>1 DEF HostWrite, EndsKept
    <3>2. CASE g # 1
      BY <1>1, <1>6, <3>2 DEF HostWrite, EndsKept
    <3>3. QED
      BY <3>1, <3>2
  <2>3. UNCHANGED <<readers, writers>>
    BY <1>6 DEF HostWrite
  <2>4. QED
    BY <1>1, <2>1, <2>2, <2>3 DEF EndsKept
<1>7. ASSUME NEW g \in Guests, Exit(g) PROVE EndsKept'
  <2>1. prog'[g] = "gone" /\ \A h \in Guests : h # g => prog'[h] = prog[h]
    BY <1>1, <1>7 DEF Exit
  <2>2. \A p \in Pipes : /\ readers'[p] = readers[p] \ {g}
                         /\ writers'[p] = writers[p] \ {g}
    BY <1>7 DEF Exit
  <2>3. UNCHANGED source
    BY <1>7 DEF Exit
  <2>4. QED
    BY <1>1, <1>2, <2>1, <2>2, <2>3
<1>8. ASSUME NEW p \in Pipes, Close(p) PROVE EndsKept'
  <2>1. \A h \in Stage : prog'[h] = prog[h]
    BY <1>1, <1>8 DEF Close
  <2>2. \A h \in Stage, q \in Pipes : /\ h \in readers[q] => h \in readers'[q]
                                      /\ h \in writers[q] => h \in writers'[q]
    BY <1>1, <1>8 DEF Close
  <2>3. UNCHANGED source
    BY <1>8 DEF Close
  <2>4. QED
    BY <1>2, <2>1, <2>2, <2>3
<1>9. ASSUME Wait PROVE EndsKept'
  <2>1. \A h \in Stage : prog'[h] = prog[h]
    BY <1>1, <1>9 DEF Wait
  <2>2. UNCHANGED <<source, readers, writers>>
    BY <1>9 DEF Wait
  <2>3. QED
    BY <1>2, <2>1, <2>2
<1>10. ASSUME NEW g \in Guests, Trap(g) \/ Receive(g) \/ Reply(g) \/ BrokenPipe(g)
       PROVE  EndsKept'
  BY <1>2, <1>10 DEF Trap, Receive, Reply, BrokenPipe
<1>11. CASE UNCHANGED vars
  BY <1>2, <1>11 DEF vars
<1>12. QED
  BY <1>3, <1>4, <1>5, <1>6, <1>7, <1>8, <1>9, <1>10, <1>11
  DEF Next, Serve, Finished

\* The shell is told of stages that are gone, and exits when it was told of all.
LEMMA LastStep ==
  ASSUME IInv, [Next]_vars
  PROVE  ShellLast' /\ reaped' \in SUBSET Stage
<1>1. /\ prog \in [Guests -> {"close", "wait", "read", "write", "exit", "gone"}]
      /\ prog[Shell] \notin {"read", "write"}
      /\ ShellLast /\ reaped \in SUBSET Stage
      /\ Stage \subseteq Guests /\ Shell \notin Stage /\ Guests = {Shell} \cup Stage
  BY GuestFacts DEF IInv, PipelineInv, TypeOK, Guests
<1>2. ASSUME UNCHANGED reaped,
             \A g \in Guests : prog[g] = "gone" => prog'[g] = "gone",
             Done(Shell)' => Done(Shell)
      PROVE  ShellLast' /\ reaped' \in SUBSET Stage
  BY <1>1, <1>2 DEF ShellLast
<1>3. ASSUME NEW g \in Guests,
             HostRead(g) \/ HostEof(g) \/ HostWrite(g)
      PROVE  ShellLast' /\ reaped' \in SUBSET Stage
  <2>1. UNCHANGED reaped /\ prog[g] \in {"read", "write"} /\ g # Shell
    BY <1>1, <1>3 DEF HostRead, HostEof, HostWrite
  <2>2. \A h \in Guests : h # g => prog'[h] = prog[h]
    BY <1>1, <1>3 DEF HostRead, HostEof, HostWrite
  <2>3. QED
    BY <1>1, <1>2, <2>1, <2>2 DEF Done
<1>4. ASSUME NEW g \in Guests, BeginIO(g)
      PROVE  ShellLast' /\ reaped' \in SUBSET Stage
  <2>1. UNCHANGED reaped /\ prog[g] \in {"read", "write"} /\ g # Shell
    BY <1>1, <1>4 DEF BeginIO
  <2>2. \A h \in Guests : h # g => prog'[h] = prog[h]
    BY <1>1, <1>4 DEF BeginIO
  <2>3. QED
    BY <1>1, <1>2, <2>1, <2>2 DEF Done
<1>5. ASSUME NEW g \in Guests, Exit(g)
      PROVE  ShellLast' /\ reaped' \in SUBSET Stage
  <2>1. /\ prog'[g] = "gone" /\ prog[g] = "exit"
        /\ \A h \in Guests : h # g => prog'[h] = prog[h]
        /\ reaped' = reaped \/ (g # Shell /\ reaped' = reaped \cup {g})
    BY <1>1, <1>5 DEF Exit
  <2>2. QED
    BY <1>1, <2>1 DEF ShellLast, Done
<1>6. ASSUME Wait PROVE ShellLast' /\ reaped' \in SUBSET Stage
  <2>1. /\ prog[Shell] = "wait" /\ \A h \in Stage : prog'[h] = prog[h]
        /\ \/ \E g \in Zombies : reaped' = reaped \cup {g} /\ prog' = prog
           \/ reaped' = reaped /\ prog' = prog
           \/ reaped' = reaped /\ reaped = Stage
    BY <1>1, <1>6 DEF Wait
  <2>2. QED
    BY <1>1, <2>1 DEF ShellLast, Done, Zombies
<1>7. ASSUME NEW p \in Pipes, Close(p)
      PROVE  ShellLast' /\ reaped' \in SUBSET Stage
  <2>1. /\ UNCHANGED reaped /\ prog[Shell] = "close"
        /\ \A h \in Stage : prog'[h] = prog[h]
        /\ prog'[Shell] \in {"close", "wait"}
    BY <1>1, <1>7 DEF Close
  <2>2. QED
    BY <1>1, <1>2, <2>1 DEF Done
<1>8. ASSUME UNCHANGED <<prog, reaped>>
      PROVE  ShellLast' /\ reaped' \in SUBSET Stage
  BY <1>2, <1>8 DEF Done
<1>9. ASSUME NEW g \in Guests, Trap(g) \/ Receive(g) \/ Reply(g) \/ BrokenPipe(g)
      PROVE  ShellLast' /\ reaped' \in SUBSET Stage
  BY <1>8, <1>9 DEF Trap, Receive, Reply, BrokenPipe
<1>10. CASE UNCHANGED vars
  BY <1>8, <1>10 DEF vars
<1>11. QED
  BY <1>3, <1>4, <1>5, <1>6, <1>7, <1>9, <1>10 DEF Next, Serve, Finished

\* The pool is never overdrawn: a call gets a worker when one is free, and no
\* other step takes one.
LEMMA BusyStep ==
  ASSUME IInv, [Next]_vars
  PROVE  Cardinality(Busy') <= NWorkers
<1>1. /\ at \in [Guests -> {"running", "port", "handler", "hostcall", "reply",
                            "parked", "gone"}]
      /\ Cardinality(Busy) <= NWorkers /\ NWorkers \in Nat
      /\ Shell \in Guests
  BY GuestFacts, PipelineAssumption DEF IInv, TypeOK
<1>2. IsFiniteSet(Busy) /\ Cardinality(Busy) \in Nat
  <2>1. IsFiniteSet(Guests)
    BY GuestFacts, PipelineAssumption, FS_Interval
  <2>2. Busy \in SUBSET Guests
    BY DEF Busy
  <2>3. QED
    BY <2>1, <2>2, FS_Subset, FS_CardinalityType
<1>3. ASSUME Busy' \in SUBSET Busy PROVE Cardinality(Busy') <= NWorkers
  <2>1. Cardinality(Busy') <= Cardinality(Busy) /\ Cardinality(Busy') \in Nat
    BY <1>2, <1>3, FS_Subset, FS_CardinalityType
  <2>2. QED
    BY <1>1, <1>2, <2>1
<1>4. ASSUME NEW g \in Guests, Receive(g) PROVE Cardinality(Busy') <= NWorkers
  <2>1. Busy' = Busy \cup {g} /\ g \notin Busy
    BY <1>1, <1>4 DEF Receive, Goto, Busy
  <2>2. Cardinality(Busy') = Cardinality(Busy) + 1
    BY <1>2, <2>1, FS_AddElement
  <2>3. Cardinality(Busy) < NWorkers
    BY <1>4 DEF Receive
  <2>4. QED
    BY <1>1, <1>2, <2>2, <2>3
<1>5. ASSUME NEW g \in Guests,
             BeginIO(g) \/ HostRead(g) \/ HostEof(g) \/ HostWrite(g) \/ Exit(g)
      PROVE  Busy' \in SUBSET Busy
  <2>1. g \in Busy
    BY <1>5 DEF BeginIO, HostRead, HostEof, HostWrite, Exit, Busy
  <2>2. \A h \in Guests : h # g => at'[h] = at[h] \/ at'[h] = "running"
    BY <1>1, <1>5 DEF BeginIO, HostRead, HostEof, HostWrite, Exit, Goto
  <2>3. QED
    BY <2>1, <2>2 DEF Busy
<1>6. ASSUME NEW g \in Guests, Trap(g) \/ Reply(g) PROVE Busy' \in SUBSET Busy
  BY <1>1, <1>6 DEF Trap, Reply, Goto, Busy
<1>7. ASSUME Wait \/ \E p \in Pipes : Close(p) PROVE Busy' \in SUBSET Busy
  <2>1. Shell \in Busy
    BY <1>1, <1>7 DEF Wait, Close, Busy
  <2>2. \A h \in Guests : h # Shell => at'[h] = at[h]
    BY <1>1, <1>7 DEF Wait, Close, Goto
  <2>3. QED
    BY <2>1, <2>2 DEF Busy
<1>8. ASSUME UNCHANGED at PROVE Busy' \in SUBSET Busy
  BY <1>8 DEF Busy
<1>9. ASSUME NEW g \in Guests, BrokenPipe(g) PROVE Busy' \in SUBSET Busy
  BY <1>8, <1>9 DEF BrokenPipe
<1>10. CASE UNCHANGED vars
  BY <1>3, <1>8, <1>10 DEF vars
<1>11. QED
  BY <1>3, <1>4, <1>5, <1>6, <1>7, <1>9, <1>10 DEF Next, Serve, Finished

\* No step leaves the types.
LEMMA TypeStep ==
  ASSUME IInv, [Next]_vars
  PROVE  TypeOK'
<1>1. PipelineInv'
  BY StepInv DEF IInv
<1>2. /\ readers \in [Pipes -> SUBSET Guests]
      /\ writers \in [Pipes -> SUBSET Guests]
      /\ source \in 0..Items /\ sink \in 0..Items /\ killed \in BOOLEAN
  BY DEF IInv, TypeOK
<1>3. /\ readers' \in [Pipes -> SUBSET Guests]
      /\ writers' \in [Pipes -> SUBSET Guests]
  <2>1. ASSUME NEW g \in Guests, Exit(g)
        PROVE  /\ readers' \in [Pipes -> SUBSET Guests]
               /\ writers' \in [Pipes -> SUBSET Guests]
    BY <1>2, <2>1 DEF Exit
  <2>2. ASSUME NEW p \in Pipes, Close(p)
        PROVE  /\ readers' \in [Pipes -> SUBSET Guests]
               /\ writers' \in [Pipes -> SUBSET Guests]
    BY <1>2, <2>2 DEF Close
  <2>3. QED
    BY <1>2, <2>1, <2>2 DEF Next, Serve, Trap, Receive, BeginIO, HostRead,
       HostEof, HostWrite, BrokenPipe, Wait, Reply, Finished, vars
<1>4. source' \in 0..Items /\ sink' \in 0..Items
  <2>1. ASSUME NEW g \in Guests, HostRead(g) PROVE source' = source
    BY <2>1 DEF HostRead
  <2>2. ASSUME NEW g \in Guests, HostWrite(g) PROVE sink' = sink
    BY <2>2 DEF HostWrite
  <2>3. QED
    BY <1>2, <2>1, <2>2, ReadStep, WriteStep DEF Next, Serve, Trap, Receive,
       BeginIO, HostEof, BrokenPipe, Wait, Close, Exit, Reply, Finished, vars
<1>5. killed' \in BOOLEAN
  BY <1>2 DEF Next, Serve, Trap, Receive, BeginIO, HostRead, HostEof, HostWrite,
     BrokenPipe, Wait, Close, Exit, Reply, Finished, vars
<1>6. Cardinality(Busy)' <= NWorkers
  BY BusyStep
<1>7. reaped' \in SUBSET Stage
  BY LastStep
<1>8. QED
  BY <1>1, <1>3, <1>4, <1>5, <1>6, <1>7 DEF TypeOK, PipelineInv

LEMMA StepAll == IInv /\ [Next]_vars => IInv'
BY TypeStep, StepInv, EndsStep, LastStep, ConservedStep DEF IInv

\* The stages a worker's broken pipe finds gone have left nothing to write:
\* only a last stage that stops early can break a pipe.
LEMMA KilledStep ==
  ASSUME IInv, ~EarlyExit, ~killed, [Next]_vars
  PROVE  ~killed'
<1>1. ASSUME NEW g \in Guests, BrokenPipe(g) PROVE FALSE
  <2>1. PICK T \in [0..(Stages - 1) -> 0..Items] : Carries(T)
    BY DEF IInv, Conserved
  <2>2. /\ prog[g] = "write" /\ g \in Pipes /\ readers[g] = {} /\ g + 1 \in Stage
        /\ g + 1 # 1 /\ In(g + 1) = g
    BY <1>1, EndThere, PipeFacts DEF BrokenPipe, IInv, Out, In, Stage
  <2>3. prog[g + 1] = "gone"
    BY <2>2 DEF IInv, EndsKept
  <2>4. T[g] = 0
    <3>1. Done(g + 1)
      BY <2>3 DEF Done
    <3>2. CASE g + 1 = Stages
      BY <2>1, <2>2, <3>1, <3>2, PipeFacts DEF Carries
    <3>3. CASE g + 1 # Stages
      <4>1. PICK h \in Pipes : h = g + 1
        BY <2>2, <3>3, PipeFacts
      <4>2. Done(h)
        BY <3>1, <4>1
      <4>3. T[h - 1] = 0
        BY <2>1, <4>2 DEF Carries
      <4>4. h - 1 = g
        BY <4>1, <2>2, PipeFacts
      <4>5. QED
        BY <4>3, <4>4
    <3>4. QED
      BY <3>2, <3>3
  <2>5. /\ T[g] = T[g - 1] + Held(g) + fill[g]
        /\ T[g - 1] >= 0 /\ T[g - 1] \in Int
        /\ fill[g] >= 0 /\ fill[g] \in Int
        /\ Held(g) \in {0, 1}
    <3>1. T[g] = T[g - 1] + Held(g) + fill[g]
      BY <2>1, <2>2 DEF Carries
    <3>2. T[g - 1] \in 0..Items
      BY <2>2, PipeFacts
    <3>3. fill[g] \in 0..Cap
      BY <2>2 DEF IInv, PipelineInv
    <3>4. Held(g) \in {0, 1}
      BY <2>2, HeldFacts
    <3>5. QED
      BY <3>1, <3>2, <3>3, <3>4, PipeFacts
  <2>6. CASE g = 1
    <3>1. T[g - 1] = source /\ source > 0
      BY <2>1, <2>2, <2>6 DEF Carries, IInv, EndsKept
    <3>2. QED
      BY <2>4, <2>5, <3>1
  <2>7. CASE g # 1
    <3>1. Held(g) = 1
      BY <2>2, <2>7, HeldFacts
    <3>2. QED
      BY <2>4, <2>5, <3>1
  <2>8. QED
    BY <2>6, <2>7
<1>2. QED
  BY <1>1 DEF Next, Serve, Trap, Receive, BeginIO, HostRead, HostEof, HostWrite,
     Wait, Close, Exit, Reply, Finished, vars

-----------------------------------------------------------------------------
(* The theorems                                                            *)

\* However the calls are served, items are neither lost nor invented.
THEOREM PipelineKept == Spec => []IInv
<1>1. QED
  BY InitAll, StepAll, PTL DEF Spec

\* The types of the pipeline's state, and a pool that is never overdrawn.
THEOREM TypeCorrect == Spec => []TypeOK
<1>1. IInv => TypeOK
  BY DEF IInv
<1>2. QED
  BY <1>1, PipelineKept, PTL

\* The end of file does not cut a pipeline short: when the last stage's input
\* has no writer left, every item has been read or is in that pipe.
THEOREM CompleteHolds == Spec => []Complete
<1>1. IInv => Complete
  <2> SUFFICES ASSUME IInv, writers[Stages - 1] = {}
               PROVE  sink + fill[Stages - 1] = Items
    BY DEF Complete
  <2>1. PICK T \in [0..(Stages - 1) -> 0..Items] : Carries(T)
    BY DEF IInv, Conserved
  <2> DEFINE l == Stages - 1
  <2>2. l \in Pipes /\ l \in Stage /\ l # Stages /\ Out(l) = l
    BY PipeFacts
  <2>3. prog[l] = "gone"
    BY <2>2 DEF IInv, EndsKept
  <2>4. Held(l) = 0 /\ Done(l)
    BY <2>2, <2>3, HeldFacts DEF Done
  <2>5. T[l] = T[l - 1] + Held(l) + fill[l] /\ T[l - 1] = 0 /\ T[l] + sink = Items
    BY <2>1, <2>2, <2>4 DEF Carries
  <2>6. fill[l] \in Int /\ sink \in Int
    BY <2>2 DEF IInv, TypeOK
  <2>7. QED
    BY <2>4, <2>5, <2>6
<1>2. QED
  BY <1>1, PipelineKept, PTL

\* A pipeline whose last stage reads its input to the end has delivered every
\* item when its shell exits.
THEOREM DeliveredHolds == Spec => []Delivered
<1>1. IInv => Delivered
  <2> SUFFICES ASSUME IInv, ~EarlyExit, prog[Shell] = "gone" PROVE sink = Items
    BY DEF Delivered
  <2>1. PICK T \in [0..(Stages - 1) -> 0..Items] : Carries(T)
    BY DEF IInv, Conserved
  <2>2. Done(Stages)
    BY GuestFacts DEF IInv, ShellLast, Done
  <2>3. T[Stages - 1] = 0 /\ T[Stages - 1] + sink = Items
    BY <2>1, <2>2 DEF Carries
  <2>4. QED
    BY <2>3 DEF IInv, TypeOK
<1>2. QED
  BY <1>1, PipelineKept, PTL

\* Without a stage that stops early the emulator is not killed by SIGPIPE: it
\* ends when the root process does.
THEOREM NoBrokenPipe == ~EarlyExit => (Spec => []EndsWithRoot)
<1> SUFFICES ASSUME ~EarlyExit PROVE Spec => []EndsWithRoot
  OBVIOUS
<1>1. Init => IInv /\ ~killed
  BY InitAll DEF Init
<1>2. IInv /\ ~killed /\ [Next]_vars => IInv' /\ ~killed'
  BY StepAll, KilledStep
<1>3. IInv /\ ~killed => EndsWithRoot
  BY DEF EndsWithRoot, Ended
<1>4. QED
  BY <1>1, <1>2, <1>3, PTL DEF Spec
=============================================================================
