-------------------------- MODULE OryxImage_proofs --------------------------
(***************************************************************************)
(* What holds of OryxImage for any memory, programs, requests and slots.   *)
(* First the TLS descriptors, which depend on nothing but set_thread_area, *)
(* fork and the handlers that leave them alone; then the images' types,    *)
(* the argument block, the pages that stay mapped and the statuses; last   *)
(* what a guest knows of its map, with the loader's part of it.            *)
(***************************************************************************)
EXTENDS OryxImage, OryxLoader_proofs

\* An image's descriptors: what TlsBacked says of one process, with the types.
TlsOk(m) ==
  /\ {"tls", "gdt", "want", "named"} \subseteq DOMAIN m
  /\ m.tls \in Slots \cup {NOSEL}
  /\ m.gdt \in [Slots -> Bases \cup {NoBase}]
  /\ m.want \in Bases \cup {NoBase}
  /\ m.tls # NOSEL => m.gdt[m.tls] = m.want
  /\ ~m.named => \A s \in Slots : m.gdt[s] # NoBase => s = m.tls

\* Every slot has an image with its descriptors in order.
TlsInv ==
  /\ image = [p \in Procs |-> image[p]]
  /\ \A p \in Procs : TlsOk(image[p])

\* n is m with something else changed.
Keeps(m, n) ==
  /\ {"tls", "gdt", "want", "named"} \subseteq DOMAIN n
  /\ n.tls = m.tls /\ n.gdt = m.gdt /\ n.want = m.want /\ n.named = m.named

\* No selector is a slot, and no base is the missing one.
LEMMA SlotFacts == NOSEL \notin Slots /\ NoBase \notin Bases
BY ImageAssumption DEF NOSEL, NoBase

\* Who keeps the descriptors keeps them right.
LEMMA KeepsOk ==
  ASSUME NEW m, NEW n, TlsOk(m), Keeps(m, n)
  PROVE  TlsOk(n)
BY DEF TlsOk, Keeps

\* An empty image has none.
LEMMA NoImageOk == TlsOk(NoImage)
BY DEF TlsOk, NoImage

\* One process's image is replaced.
LEMMA BecomesInv ==
  ASSUME TlsInv, NEW p \in Procs, NEW new, TlsOk(new), Becomes(p, new)
  PROVE  TlsInv'
BY DEF TlsInv, Becomes

\* Loading a program changes no descriptor.
LEMMA LoadedKeeps ==
  ASSUME NEW m, TlsOk(m), NEW new, NEW prog, NEW args
  PROVE  TlsOk(Loaded(m, new, prog, args))
<1>1. Keeps(m, Loaded(m, new, prog, args))
  BY DEF TlsOk, Keeps, Loaded
<1>2. QED
  BY <1>1, KeepsOk

\* Neither does writing into the memory.
LEMMA PokeKeeps ==
  ASSUME NEW m, TlsOk(m), NEW space
  PROVE  TlsOk([m EXCEPT !.space = space])
<1>1. Keeps(m, [m EXCEPT !.space = space])
  BY DEF TlsOk, Keeps
<1>2. QED
  BY <1>1, KeepsOk

\* A status is one such write, or none.
LEMMA StatusKeeps ==
  ASSUME NEW m, TlsOk(m), NEW buf
  PROVE  TlsOk(Status(m, buf))
BY PokeKeeps DEF Status

\* brk, both mmaps, munmap, mprotect: what Remaps is given.
LEMMA RemapsInv ==
  ASSUME TlsInv, NEW p \in Procs, NEW call, NEW new, TlsOk(new), NEW r, NEW op,
         NEW pages, Remaps(p, call, new, r, op, pages)
  PROVE  TlsInv'
<1> DEFINE n == [new EXCEPT !.view = IF r = HALF THEN image[p].view ELSE @,
                            !.stray = IF r = HALF THEN @ \cup {"half"} ELSE @]
<1>1. Keeps(new, n)
  BY DEF TlsOk, Keeps
<1>2. TlsOk(n)
  BY <1>1, KeepsOk
<1>3. Becomes(p, n)
  BY DEF Remaps
<1> HIDE DEF n
<1>4. QED
  BY <1>2, <1>3, BecomesInv

\* An image with another space, view and reasons.
LEMMA ViewKeeps ==
  ASSUME NEW m, TlsOk(m), NEW space, NEW view, NEW stray
  PROVE  /\ TlsOk([m EXCEPT !.space = space, !.view = view, !.stray = stray])
         /\ TlsOk([m EXCEPT !.space = space, !.stray = stray])
         /\ TlsOk([m EXCEPT !.view = view, !.stray = stray])
<1>1. /\ Keeps(m, [m EXCEPT !.space = space, !.view = view, !.stray = stray])
      /\ Keeps(m, [m EXCEPT !.space = space, !.stray = stray])
      /\ Keeps(m, [m EXCEPT !.view = view, !.stray = stray])
  BY DEF TlsOk, Keeps
<1>2. QED
  BY <1>1, KeepsOk

\* brk gives the image another space and break, or leaves it.
LEMMA BreakKeeps ==
  ASSUME NEW m, TlsOk(m), NEW space, NEW hi
  PROVE  TlsOk([m EXCEPT !.space = space, !.hi = hi])
<1>1. Keeps(m, [m EXCEPT !.space = space, !.hi = hi])
  BY DEF TlsOk, Keeps
<1>2. QED
  BY <1>1, KeepsOk

\* So brk keeps the descriptors, whichever of its branches is taken.
LEMMA BrkKeeps ==
  ASSUME NEW m, TlsOk(m), NEW want
  PROVE  TlsOk(BrkOf(m, want))
BY BreakKeeps, Zenon DEF BrkOf

\* The calls on the caller's own memory.
LEMMA StepMemory ==
  ASSUME TlsInv, NEW p \in Procs, NEW call \in Requests,
         \/ Brk(p, call) \/ Mmap(p, call) \/ MmapRefused(p, call)
         \/ MmapNoBuffer(p, call) \/ Munmap(p, call) \/ Mprotect(p, call)
  PROVE  TlsInv'
<1> DEFINE m == image[p]
<1>1. TlsOk(m)
  BY DEF TlsInv
<1>2. CASE Brk(p, call)
  <2> DEFINE b == BrkOf(m, call.want)
             view == BrkView(m, b.hi)
             stray == BrkStray(m, call.want, b.hi)
  <2>1. TlsOk(b)
    BY <1>1, BrkKeeps
  <2>2. Remaps(p, call, [b EXCEPT !.view = view, !.stray = stray], b.hi, "map", {})
    BY <1>2, Zenon DEF Brk
  <2> HIDE DEF b, view, stray
  <2>3. TlsOk([b EXCEPT !.view = view, !.stray = stray])
    BY <2>1, ViewKeeps
  <2>4. QED
    BY <2>2, <2>3, RemapsInv, Zenon
<1>3. CASE Mmap(p, call)
  BY <1>1, <1>3, ViewKeeps, RemapsInv DEF Mmap
<1>4. CASE MmapRefused(p, call)
  BY <1>1, <1>4, ViewKeeps, RemapsInv DEF MmapRefused
<1>5. CASE MmapNoBuffer(p, call)
  BY <1>1, <1>5, ViewKeeps, RemapsInv DEF MmapNoBuffer
<1>6. CASE Munmap(p, call)
  BY <1>1, <1>6, ViewKeeps, RemapsInv DEF Munmap
<1>7. CASE Mprotect(p, call)
  BY <1>1, <1>7, PokeKeeps, RemapsInv DEF Mprotect
<1>8. QED
  BY <1>2, <1>3, <1>4, <1>5, <1>6, <1>7

\* set_thread_area's choice is one of the thread's slots, and the old one if the
\* guest has never named any.
LEMMA SelectorFacts ==
  ASSUME NEW m, TlsOk(m), NEW entry, NEW sel \in Selector(m, entry)
  PROVE  /\ sel \in Slots
         /\ entry = NOSEL /\ m.tls # NOSEL => sel = m.tls
<1>1. CASE entry # NOSEL
  BY <1>1 DEF Selector
<1>2. CASE entry = NOSEL /\ m.tls # NOSEL
  BY <1>2 DEF Selector, TlsOk
<1>3. CASE entry = NOSEL /\ m.tls = NOSEL
  BY <1>3 DEF Selector, GdtFree
<1>4. QED
  BY <1>1, <1>2, <1>3

\* The slot it sets is the one it remembers, and nobody else's is touched; a
\* guest that named none has no other.
LEMMA StepSetThreadArea ==
  ASSUME TlsInv, NEW p \in Procs, NEW entry \in Entries,
         NEW base \in Bases \cup {NoBase}, NEW buf, SetThreadArea(p, entry, base, buf)
  PROVE  TlsInv'
<1> DEFINE m == image[p]
<1>1. TlsOk(m)
  BY DEF TlsInv
<1>2. PICK sel \in Selector(m, entry) :
        Writes(p, [m EXCEPT !.gdt[sel] = base, !.tls = sel, !.want = base,
                            !.named = @ \/ entry # NOSEL], buf)
  BY DEF SetThreadArea
<1> DEFINE n == [m EXCEPT !.gdt[sel] = base, !.tls = sel, !.want = base,
                          !.named = @ \/ entry # NOSEL]
<1>3. sel \in Slots /\ (entry = NOSEL /\ m.tls # NOSEL => sel = m.tls)
  BY <1>1, SelectorFacts
<1>4. /\ {"tls", "gdt", "want", "named"} \subseteq DOMAIN n
      /\ n.tls = sel /\ n.gdt = [m.gdt EXCEPT ![sel] = base] /\ n.want = base
      /\ n.named = (m.named \/ entry # NOSEL)
  BY <1>1 DEF TlsOk
<1> HIDE DEF n
<1>5. /\ n.gdt \in [Slots -> Bases \cup {NoBase}]
      /\ n.gdt[sel] = n.want /\ n.want \in Bases \cup {NoBase}
      /\ \A s \in Slots : s # sel => n.gdt[s] = m.gdt[s]
  BY <1>1, <1>3, <1>4, SlotFacts DEF TlsOk
<1>6. ASSUME ~n.named, NEW s \in Slots, n.gdt[s] # NoBase, s # sel PROVE FALSE
  <2>1. ~m.named /\ entry = NOSEL
    BY <1>4, <1>6
  <2>2. s = m.tls
    BY <1>1, <1>5, <1>6, <2>1 DEF TlsOk
  <2>3. QED
    BY <1>3, <1>6, <2>1, <2>2, SlotFacts
<1>7. TlsOk(n)
  BY <1>3, <1>4, <1>5, <1>6 DEF TlsOk
<1>8. Becomes(p, [n EXCEPT !.space = Poke(@, buf[1], buf[2], "result")])
  BY <1>2 DEF Writes, n
<1>9. QED
  BY <1>7, <1>8, PokeKeeps, BecomesInv

\* A child starts with the last descriptor at most.
LEMMA InheritOk ==
  ASSUME NEW m, TlsOk(m), NEW carried \in BOOLEAN
  PROVE  TlsOk(InheritTls(m, carried))
<1> DEFINE n == InheritTls(m, carried)
<1>1. /\ {"tls", "gdt", "want", "named"} \subseteq DOMAIN n
      /\ n.tls = IF carried THEN m.tls ELSE NOSEL
      /\ n.gdt = [s \in Slots |-> IF carried /\ s = m.tls THEN m.gdt[s] ELSE NoBase]
      /\ n.want = m.want /\ n.named = m.named
  BY DEF TlsOk, InheritTls
<1> HIDE DEF n
<1>2. /\ m.tls \in Slots \cup {NOSEL} /\ m.gdt \in [Slots -> Bases \cup {NoBase}]
      /\ m.want \in Bases \cup {NoBase}
      /\ m.tls # NOSEL => m.gdt[m.tls] = m.want
      /\ ~m.named => \A s \in Slots : m.gdt[s] # NoBase => s = m.tls
  BY DEF TlsOk
<1>3. CASE carried
  <2>1. /\ n.tls = m.tls
        /\ n.gdt = [s \in Slots |-> IF s = m.tls THEN m.gdt[s] ELSE NoBase]
    BY <1>1, <1>3
  <2>2. n.gdt \in [Slots -> Bases \cup {NoBase}]
    BY <1>2, <2>1
  <2>3. \A s \in Slots : n.gdt[s] # NoBase => s = n.tls
    BY <2>1
  <2>4. n.tls # NOSEL => n.gdt[n.tls] = n.want
    BY <1>1, <1>2, <2>1
  <2>5. n.tls \in Slots \cup {NOSEL} /\ n.want \in Bases \cup {NoBase}
    BY <1>1, <1>2, <2>1
  <2>6. ~n.named => \A s \in Slots : n.gdt[s] # NoBase => s = n.tls
    BY <2>3, Zenon
  <2>7. {"tls", "gdt", "want", "named"} \subseteq DOMAIN n
    BY <1>1, Zenon
  <2>8. TlsOk(n)
    BY ONLY <2>2, <2>4, <2>5, <2>6, <2>7, Zenon DEF TlsOk
  <2>9. QED
    BY <2>8 DEF n
<1>4. CASE ~carried
  <2>1. n.tls = NOSEL /\ n.gdt = [s \in Slots |-> NoBase]
    BY <1>1, <1>4
  <2>2. /\ n.tls \in Slots \cup {NOSEL} /\ n.gdt \in [Slots -> Bases \cup {NoBase}]
        /\ ~(n.tls # NOSEL) /\ \A s \in Slots : ~(n.gdt[s] # NoBase)
    BY <2>1
  <2>3. /\ n.tls # NOSEL => n.gdt[n.tls] = n.want
        /\ ~n.named => \A s \in Slots : n.gdt[s] # NoBase => s = n.tls
    BY <2>2, Zenon
  <2>4. {"tls", "gdt", "want", "named"} \subseteq DOMAIN n /\ n.want \in Bases \cup {NoBase}
    BY <1>1, <1>2, Zenon
  <2>5. TlsOk(n)
    BY ONLY <2>2, <2>3, <2>4, Zenon DEF TlsOk
  <2>6. QED
    BY <2>5 DEF n
<1>5. QED
  BY <1>3, <1>4

\* fork, execve, wait4 and exit.
LEMMA StepProcess ==
  ASSUME TlsInv,
         NEW p \in Procs, NEW c \in Procs, NEW prog, NEW args, NEW buf,
         \/ Fork(p, c) \/ Execve(p, prog, args)
         \/ WaitReap(p, c, buf) \/ WaitPark(p, c, buf) \/ Exit(c)
  PROVE  TlsInv'
<1>1. \A q \in Procs : TlsOk(image[q])
  BY DEF TlsInv
<1>2. CASE Fork(p, c)
  <2>1. PICK carried \in BOOLEAN : Becomes(c, InheritTls(image[p], carried))
    BY <1>2 DEF Fork
  <2>2. QED
    BY <1>1, <2>1, InheritOk, BecomesInv
<1>3. CASE Execve(p, prog, args)
  <2>1. \/ \E new : Becomes(p, Loaded(image[p], new, prog, args))
        \/ Becomes(p, NoImage)
    BY <1>3 DEF Execve
  <2>2. QED
    BY <1>1, <2>1, LoadedKeeps, NoImageOk, BecomesInv
<1>4. CASE WaitReap(p, c, buf)
  BY <1>1, <1>4, StatusKeeps, BecomesInv DEF WaitReap
<1>5. CASE WaitPark(p, c, buf)
  BY <1>5 DEF WaitPark, TlsInv
<1>6. CASE Exit(c)
  <2> DEFINE q == parent[c]
  <2>1. CASE image' = WaitComplete(q, c)
    <3>1. TlsOk(NoImage)
      BY NoImageOk
    <3>2. image' = [[image EXCEPT ![c] = NoImage] EXCEPT ![q] = Status(image[q], waddr[q])]
      BY <2>1 DEF WaitComplete
    <3>3. q \in Procs => TlsOk(Status(image[q], waddr[q]))
      BY <1>1, StatusKeeps
    <3> HIDE DEF q
    <3>4. QED
      BY <1>1, <3>1, <3>2, <3>3 DEF TlsInv
  <2>2. CASE Becomes(c, NoImage)
    BY <2>2, NoImageOk, BecomesInv
  <2>3. QED
    BY <1>6, <2>1, <2>2 DEF Exit
<1>7. QED
  BY <1>2, <1>3, <1>4, <1>5, <1>6

\* main's image has no descriptor.
LEMMA InitInv == Init => TlsInv
<1> SUFFICES ASSUME Init PROVE TlsInv
  OBVIOUS
<1>1. PICK prog \in Programs, args \in ArgLists :
        \E new : image = [p \in Procs |-> IF p = Root
                                            THEN Loaded(NoImage, new, prog, args)
                                            ELSE NoImage]
  BY DEF Init
<1>2. QED
  BY <1>1, LoadedKeeps, NoImageOk DEF TlsInv

\* Every call of every process.
LEMMA StepInv == TlsInv /\ [Next]_vars => TlsInv'
<1> SUFFICES ASSUME TlsInv, [Next]_vars PROVE TlsInv'
  OBVIOUS
<1>1. CASE UNCHANGED vars
  BY <1>1 DEF vars, TlsInv
<1>2. ASSUME NEW p \in Procs, NEW buf \in Buffers, Result(p, buf) PROVE TlsInv'
  <2>1. Becomes(p, [image[p] EXCEPT !.space = Poke(@, buf[1], buf[2], "result")])
    BY <1>2 DEF Result, Writes
  <2>2. TlsOk(image[p])
    BY DEF TlsInv
  <2>3. QED
    BY <2>1, <2>2, PokeKeeps, BecomesInv
<1>3. QED
  BY <1>1, <1>2, StepMemory, StepSetThreadArea, StepProcess DEF Next

\* Whatever programs are loaded and whatever calls are made, a process's
\* remembered selector leads, in its own thread, to the descriptor it asked for
\* last, which may be one that is not present, after any number of forks, refused
\* inheritances and execs; and a guest that leaves the choice to set_thread_area
\* never uses a second slot.
THEOREM TlsBackedHolds == Spec => []TlsBacked
<1>1. TlsInv => TlsBacked
  BY DEF TlsInv, TlsOk, TlsBacked
<1>2. QED
  BY InitInv, StepInv, <1>1, PTL DEF Spec

-----------------------------------------------------------------------------
(* The types of images                                                     *)

\* n is an image with m's argument block, whatever else has changed.
SameStack(m, n) == n.args = m.args /\ n.lost = m.lost
NewImage(m, n) == n \in Images /\ SameStack(m, n)

\* What the requests are made of.
LEMMA RequestFacts ==
  ASSUME NEW call \in Requests
  PROVE  /\ call.op = "brk" => call.want \in Address
         /\ call.op = "mmap" => /\ call.addr \in Address /\ call.len \in Address
                                /\ call.prot \in Prot /\ call.fixed \in BOOLEAN
                                /\ call.file \in Nat /\ call.file <= call.len
         /\ call.op = "munmap" => call.addr \in Address /\ call.len \in Address
         /\ call.op = "mprotect" => /\ call.addr \in Address /\ call.len \in Address
                                    /\ call.prot \in Prot
<1>1. \/ call \in [op: {"brk"}, want: Address]
      \/ call \in {r \in [op: {"mmap"}, addr: Address, len: Address, prot: Prot,
                         fixed: BOOLEAN, file: Address] : r.file <= r.len}
      \/ call \in [op: {"munmap"}, addr: Address, len: Address]
      \/ call \in [op: {"mprotect"}, addr: Address, len: Address, prot: Prot]
  BY ImageAssumption, Zenon
<1>2. Address \subseteq Nat
  BY DEF Address
<1>3. CASE call \in [op: {"brk"}, want: Address]
  BY <1>3
<1>4. CASE call \in {r \in [op: {"mmap"}, addr: Address, len: Address, prot: Prot,
                           fixed: BOOLEAN, file: Address] : r.file <= r.len}
  <2>1. /\ call \in [op: {"mmap"}, addr: Address, len: Address, prot: Prot,
                     fixed: BOOLEAN, file: Address]
        /\ call.file <= call.len
    BY <1>4
  <2>2. /\ call.op = "mmap" /\ call.addr \in Address /\ call.len \in Address
        /\ call.prot \in Prot /\ call.file \in Address
    BY <2>1
  <2>3. call.fixed \in BOOLEAN
    BY <2>1, Zenon
  <2>4. QED
    BY <1>2, <2>1, <2>2, <2>3
<1>5. CASE call \in [op: {"munmap"}, addr: Address, len: Address]
  BY <1>5
<1>6. CASE call \in [op: {"mprotect"}, addr: Address, len: Address, prot: Prot]
  BY <1>6
<1>7. QED
  BY <1>1, <1>3, <1>4, <1>5, <1>6

\* An image's fields.
LEMMA ImageFields ==
  ASSUME NEW m \in Images
  PROVE  /\ m.space \in Space /\ m.lo \in Address /\ m.hi \in Address
         /\ m.view \subseteq Page /\ m.stray \subseteq Reasons
         /\ m.tls \in Slots \cup {NOSEL} /\ m.gdt \in [Slots -> Bases \cup {NoBase}]
         /\ m.want \in Bases \cup {NoBase}
         /\ m.args \in Args /\ m.lost \subseteq Nat
BY DEF Images

\* The reasons there are.
LEMMA ReasonFacts ==
  /\ \A a : Unaligned(a) \subseteq Reasons
  /\ \A m, want, r : m.stray \subseteq Reasons => BrkStray(m, want, r) \subseteq Reasons
  /\ {"half"} \subseteq Reasons /\ {"fixed"} \subseteq Reasons
  /\ {"buffer"} \subseteq Reasons /\ {"hole"} \subseteq Reasons
  /\ {"mapwrap"} \subseteq Reasons /\ {"unmapwrap"} \subseteq Reasons
BY DEF Unaligned, BrkStray, Reasons, Losing, Leaving

\* An empty image.
LEMMA NoImageTypes == NoImage \in Images /\ NoImage.space = EmptySpace
<1>1. 0 \in Address
  BY Sizes DEF Address
<1>2. [s \in Slots |-> NoBase] \in [Slots -> Bases \cup {NoBase}]
  OBVIOUS
<1>3. [argv |-> <<>>, envp |-> <<>>] \in Args
  BY DEF Args
<1>4. QED
  BY <1>1, <1>2, <1>3, EmptyFacts DEF NoImage, Images

\* What the segments of an object claim, in their order.
LEMMA ObjectClaimsFacts ==
  ASSUME NEW obj, obj.segs \in Seq(Segments), NEW base
  PROVE  LET P == ObjectClaims(obj, base)
         IN  /\ P \in Seq(SUBSET Page) /\ Len(P) = Len(obj.segs)
             /\ \A k \in 1..Len(obj.segs) : P[k] = ClaimOf(obj, base, k)
<1> DEFINE P == ObjectClaims(obj, base)
           n == Len(obj.segs)
<1>1. DOMAIN obj.segs = 1..n /\ n \in Nat
  OBVIOUS
<1>2. P = [k \in 1..n |-> ClaimOf(obj, base, k)]
  BY <1>1 DEF ObjectClaims, ClaimOf
<1>3. \A k \in 1..n : ClaimOf(obj, base, k) \in SUBSET Page
  BY DEF ClaimOf, Pages
<1> HIDE DEF P, n
<1>4. P \in [1..n -> SUBSET Page]
  BY <1>2, <1>3
<1>5. P \in Seq(SUBSET Page) /\ Len(P) = n
  BY <1>1, <1>4
<1>6. QED
  BY <1>2, <1>5 DEF P, n

\* The elements of two sequences one after the other.
LEMMA Appended ==
  ASSUME NEW S, NEW e \in Seq(S), NEW l \in Seq(S)
  PROVE  /\ e \o l \in Seq(S) /\ Len(e \o l) = Len(e) + Len(l)
         /\ \A k \in 1..Len(e) : (e \o l)[k] = e[k]
         /\ \A k \in 1..Len(l) : (e \o l)[Len(e) + k] = l[k]
<1>1. PICK n \in Nat, m \in Nat : n = Len(e) /\ m = Len(l)
  OBVIOUS
<1>2. ASSUME NEW k \in 1..n PROVE (e \o l)[k] = e[k]
  <2>1. k \in 1..(Len(e) + Len(l)) /\ k <= Len(e)
    BY <1>1
  <2>2. QED
    BY <2>1
<1>3. ASSUME NEW k \in 1..m PROVE (e \o l)[n + k] = l[k]
  <2>1. n + k \in 1..(Len(e) + Len(l)) /\ ~(n + k <= Len(e)) /\ (n + k) - Len(e) = k
    BY <1>1
  <2>2. QED
    BY <2>1
<1>4. QED
  BY <1>1, <1>2, <1>3

\* A program's claims are its executable's and then its interpreter's.
LEMMA ClaimsFacts ==
  ASSUME NEW prog \in Programs
  PROVE  LET n == Len(prog.segs)
             ld == prog.interp[1]
             P == Claims(prog)
         IN  /\ prog \in Objects /\ Len(prog.interp) <= 1 /\ n \in Nat
             /\ P \in Seq(SUBSET Page)
             /\ prog.interp = <<>> => Len(P) = n
             /\ prog.interp # <<>> =>
                  /\ ld \in Interpreters /\ Len(ld.segs) \in Nat
                  /\ Len(P) = n + Len(ld.segs)
                  /\ \A k \in 1..Len(ld.segs) : P[n + k] = ClaimOf(ld, INTERP_BASE, k)
             /\ \A k \in 1..n : P[k] = ClaimOf(prog, PIE_BASE, k)
<1>1. prog \in Objects /\ Len(prog.interp) <= 1
  BY ImageAssumption
<1>2. prog.segs \in Seq(Segments) /\ prog.interp \in Seq(Interpreters)
  BY <1>1 DEF Objects
<1>3. PICK n \in Nat : n = Len(prog.segs)
  BY <1>2
<1>4. PICK E \in Seq(SUBSET Page) :
        /\ E = ObjectClaims(prog, PIE_BASE) /\ Len(E) = n
        /\ \A k \in 1..n : E[k] = ClaimOf(prog, PIE_BASE, k)
  BY <1>2, <1>3, ObjectClaimsFacts
<1>5. CASE prog.interp = <<>>
  <2>1. Claims(prog) = E \o <<>>
    BY <1>4, <1>5 DEF Claims
  <2>2. E \o <<>> = E
    OBVIOUS
  <2>3. Claims(prog) = E
    BY <2>1, <2>2
  <2>4. QED
    BY <1>1, <1>3, <1>4, <1>5, <2>3
<1>6. CASE prog.interp # <<>>
  <2>1. PICK ld \in Interpreters : ld = prog.interp[1]
    BY <1>2, <1>6
  <2>2. ld.segs \in Seq(Segments)
    BY DEF Interpreters
  <2>3. PICK m \in Nat : m = Len(ld.segs)
    BY <2>2
  <2>4. PICK L \in Seq(SUBSET Page) :
          /\ L = ObjectClaims(ld, INTERP_BASE) /\ Len(L) = m
          /\ \A k \in 1..m : L[k] = ClaimOf(ld, INTERP_BASE, k)
    BY <2>2, <2>3, ObjectClaimsFacts
  <2>5. PICK P : P = E \o L
    OBVIOUS
  <2>6. Claims(prog) = P
    BY <1>4, <1>6, <2>1, <2>4, <2>5 DEF Claims
  <2>7. Len(E) = n /\ Len(L) = m
    BY <1>4, <2>4
  <2>8. P \in Seq(SUBSET Page) /\ Len(P) = n + m
    BY <2>5, <2>7, Appended
  <2>9. /\ \A k \in 1..n : P[k] = E[k]
        /\ \A k \in 1..m : P[n + k] = L[k]
    BY <2>5, <2>7, Appended
  <2>10. QED
    BY <1>1, <1>3, <1>4, <1>6, <2>1, <2>3, <2>4, <2>6, <2>7, <2>8, <2>9
<1>7. QED
  BY <1>5, <1>6

\* A program's pages are pages: its stack's and those its segments claim.
LEMMA ProgramPagesFacts ==
  ASSUME NEW prog \in Programs
  PROVE  /\ ProgramPages(prog) \subseteq Page
         /\ ProgramPages(prog) =
              StackPages \cup ClaimsTo(prog, PIE_BASE, Len(prog.segs))
                \cup IF prog.interp = <<>> THEN {}
                     ELSE ClaimsTo(prog.interp[1], INTERP_BASE, Len(prog.interp[1].segs))
<1> DEFINE P == Claims(prog)
           n == Len(prog.segs)
           ld == prog.interp[1]
           m == Len(ld.segs)
           exe == ClaimsTo(prog, PIE_BASE, n)
           lds == ClaimsTo(ld, INTERP_BASE, m)
<1>1. /\ n \in Nat /\ P \in Seq(SUBSET Page)
      /\ prog.interp = <<>> => Len(P) = n
      /\ prog.interp # <<>> => /\ m \in Nat /\ Len(P) = n + m
                               /\ \A k \in 1..m : P[n + k] = ClaimOf(ld, INTERP_BASE, k)
      /\ \A k \in 1..n : P[k] = ClaimOf(prog, PIE_BASE, k)
  BY ClaimsFacts
<1>2. DOMAIN P = 1..Len(P) /\ \A k \in DOMAIN P : P[k] \in SUBSET Page
  BY <1>1
<1>3. ProgramPages(prog) = StackPages \cup UNION {P[k] : k \in DOMAIN P}
  BY DEF ProgramPages, ToSet
<1>4. exe = UNION {ClaimOf(prog, PIE_BASE, k) : k \in 1..n}
  BY DEF ClaimsTo
<1>5. lds = UNION {ClaimOf(ld, INTERP_BASE, k) : k \in 1..m}
  BY DEF ClaimsTo
<1> HIDE DEF P, n, m, ld, exe, lds
<1>6. CASE prog.interp = <<>>
  <2>1. UNION {P[k] : k \in DOMAIN P} = exe
    BY <1>1, <1>2, <1>4, <1>6
  <2>2. QED
    BY <1>2, <1>3, <1>6, <2>1 DEF StackPages, Pages, exe, n
<1>7. CASE prog.interp # <<>>
  <2>1. 1..(n + m) = 1..n \cup {n + k : k \in 1..m}
    <3>1. ASSUME NEW x \in 1..(n + m), x \notin 1..n PROVE x - n \in 1..m /\ x = n + (x - n)
      BY <1>1, <1>7, <3>1
    <3>2. 1..n \subseteq 1..(n + m) /\ \A k \in 1..m : n + k \in 1..(n + m)
      BY <1>1, <1>7
    <3>3. QED
      BY <3>1, <3>2
  <2>2. ASSUME NEW g PROVE g \in UNION {P[k] : k \in DOMAIN P} <=> g \in exe \cup lds
    <3>1. g \in UNION {P[k] : k \in DOMAIN P}
            <=> (\E k \in 1..n : g \in P[k]) \/ (\E k \in 1..m : g \in P[n + k])
      <4>1. DOMAIN P = 1..n \cup {n + k : k \in 1..m}
        BY <1>1, <1>2, <1>7, <2>1
      <4>2. QED
        BY <4>1
    <3>2. g \in exe <=> \E k \in 1..n : g \in P[k]
      BY <1>1, <1>4
    <3>3. g \in lds <=> \E k \in 1..m : g \in P[n + k]
      BY <1>1, <1>5, <1>7
    <3>4. QED
      BY <3>1, <3>2, <3>3
  <2>3. UNION {P[k] : k \in DOMAIN P} = exe \cup lds
    BY <2>2
  <2>4. QED
    BY <1>2, <1>3, <1>7, <2>3 DEF StackPages, Pages, exe, lds, n, m, ld
<1>8. QED
  BY <1>6, <1>7

\* A loaded program.
LEMMA LoadedTypes ==
  ASSUME NEW m \in Images, NEW s \in Space, NEW prog \in Programs, NEW args \in ArgLists
  PROVE  LET n == Loaded(m, LoadProgram(s, prog, args), prog, args)
         IN  n \in Images /\ n.args = args /\ n.lost = Overwritten(args)
<1> DEFINE new == LoadProgram(s, prog, args)
           stray == IF HasHole(prog) THEN {"hole"} ELSE {}
           n == Loaded(m, new, prog, args)
<1>1. prog \in Objects /\ Len(prog.interp) <= 1 /\ args \in Args
  BY ImageAssumption
<1>2. new.space \in Space /\ new.brk \in Address /\ new.entry \in Address
  BY <1>1, ProgramFacts
<1>3. ProgramPages(prog) \in SUBSET Page /\ stray \in SUBSET Reasons
  BY ProgramPagesFacts DEF Reasons, Losing
<1>4. Overwritten(args) \in SUBSET Nat
  <2>1. Strings(args) \in Seq(Nat)
    BY <1>1 DEF Strings, Args
  <2>2. QED
    BY <2>1 DEF Overwritten
<1>5. n = [m EXCEPT !.space = new.space, !.lo = new.brk, !.hi = new.brk,
                    !.view = ProgramPages(prog), !.stray = stray,
                    !.args = args, !.lost = Overwritten(args), !.entry = new.entry]
  BY DEF Loaded
<1> HIDE DEF n, new, stray
<1>6. n \in Images
  BY <1>1, <1>2, <1>3, <1>4, <1>5 DEF Images
<1>7. n.args = args /\ n.lost = Overwritten(args)
  BY <1>5 DEF Images
<1>8. QED
  BY <1>6, <1>7 DEF n, new

\* A status is written, or nothing is.
LEMMA StatusTypes ==
  ASSUME NEW m \in Images, NEW buf
  PROVE  NewImage(m, Status(m, buf))
<1> DEFINE space == Poke(m.space, buf[1], buf[2], "result")
<1>1. space \in Space
  BY ImageFields, PokeSpace, ImageAssumption
<1>2. Status(m, buf) = m \/ Status(m, buf) = [m EXCEPT !.space = space]
  BY Zenon DEF Status
<1> HIDE DEF space
<1>3. NewImage(m, m) /\ NewImage(m, [m EXCEPT !.space = space])
  BY <1>1 DEF Images, SameStack, NewImage
<1>4. QED
  BY <1>2, <1>3, Zenon

\* What a child is given.
LEMMA InheritTypes ==
  ASSUME NEW m \in Images, NEW carried \in BOOLEAN
  PROVE  NewImage(m, InheritTls(m, carried))
<1> DEFINE gdt == [s \in Slots |-> IF carried /\ s = m.tls THEN m.gdt[s] ELSE NoBase]
           tls == IF carried THEN m.tls ELSE NOSEL
<1>1. gdt \in [Slots -> Bases \cup {NoBase}]
  BY ImageFields
<1>2. tls \in Slots \cup {NOSEL}
  BY ImageFields
<1>3. InheritTls(m, carried) = [m EXCEPT !.gdt = gdt, !.tls = tls]
  BY DEF InheritTls
<1> HIDE DEF gdt, tls
<1>4. [m EXCEPT !.gdt = gdt, !.tls = tls] \in Images
  BY <1>1, <1>2 DEF Images
<1>5. SameStack(m, [m EXCEPT !.gdt = gdt, !.tls = tls])
  BY DEF Images, SameStack
<1>6. QED
  BY <1>3, <1>4, <1>5 DEF NewImage

-----------------------------------------------------------------------------
(* The calls on the caller's memory                                        *)

\* What brk makes of an image.
LEMMA BrkTypes ==
  ASSUME NEW m \in Images, NEW want \in Address
  PROVE  NewImage(m, BrkOf(m, want))
<1> DEFINE old  == PAGE_UP(m.hi)
           new  == PAGE_UP(want)
           grow == Protect(Allocate(m.space, old, new - old), old, new - old,
                           {"read", "write"})
           shrunk == Deallocate(m.space, new, old - new)
<1>1. m.space \in Space
  BY ImageFields
<1>2. grow \in Space /\ shrunk \in Space
  BY <1>1, SpaceFacts DEF Prot
<1>3. \/ BrkOf(m, want) = m
      \/ BrkOf(m, want) = [m EXCEPT !.space = grow, !.hi = want]
      \/ BrkOf(m, want) = [m EXCEPT !.space = shrunk, !.hi = want]
  BY Zenon DEF BrkOf
<1> HIDE DEF grow, shrunk
<1>4. NewImage(m, m) /\ \A s \in Space : NewImage(m, [m EXCEPT !.space = s, !.hi = want])
  BY DEF Images, SameStack, NewImage
<1>5. QED
  BY <1>2, <1>3, <1>4, Zenon

\* The memory a mapping leaves, and the memory it begins with.
LEMMA MmapTypes ==
  ASSUME NEW s \in Space, NEW call \in Requests, call.op = "mmap", NEW a, NEW fill, NEW n
  PROVE  /\ MmapBase(s, call) \in Space /\ MmapSpace(s, call, a) \in Space
         /\ Protect(Poke(MmapSpace(s, call, a), a, fill, "file"), a, n,
                    MmapProt(call.prot)) \in Space
<1>1. MmapBase(s, call) \in Space
  BY SpaceFacts DEF MmapBase
<1>2. MmapSpace(s, call, a) \in Space
  BY <1>1, SpaceFacts DEF MmapSpace
<1>3. MmapProt(call.prot) \in Prot
  BY RequestFacts DEF MmapProt, Prot
<1>4. Poke(MmapSpace(s, call, a), a, fill, "file") \in Space
  BY <1>2, PokeSpace, ImageAssumption
<1>5. QED
  BY <1>1, <1>2, <1>3, <1>4, SpaceFacts

-----------------------------------------------------------------------------
(* The invariant of the images                                             *)

\* Who has no guest has no memory.
EmptyInv == \A p \in Procs : ~Live(p) => image[p].space = EmptySpace

\* What a guest's argument block has lost is what building it overwrote.
DamageInv == \A p \in Procs : Live(p) => image[p].lost = Overwritten(image[p].args)

ImageInv == TypeOK /\ EmptyInv /\ DamageInv

\* What Asks and Answers leave has its types.
LEMMA AskedTypes ==
  ASSUME TypeOK, NEW p \in Procs
  PROVE  /\ \A op, buf : \A pages \in SUBSET Page :
              Asks(p, op, pages, buf) => asked'.proc \in Procs /\ asked'.pages \subseteq Page
         /\ \A call \in Requests : \A r :
              Answers(p, call, r) => again' \in [Procs -> Requests \cup {NoCall}]
         /\ \A call : Serves(p, call) => left' \in 0..MaxCalls
<1>1. \A op, buf : \A pages \in SUBSET Page :
        Asks(p, op, pages, buf) => asked'.proc \in Procs /\ asked'.pages \subseteq Page
  BY DEF Asks
<1>2. \A call \in Requests : \A r :
        Answers(p, call, r) => again' \in [Procs -> Requests \cup {NoCall}]
  BY DEF Answers, TypeOK
<1>3. ASSUME NEW call, Serves(p, call) PROVE left' \in 0..MaxCalls
  <2>1. left \in 0..MaxCalls /\ MaxCalls \in Nat /\ left > 0 /\ left' = left - 1
    BY <1>3, ImageAssumption DEF Serves, TypeOK
  <2>2. QED
    BY <2>1
<1>4. QED
  BY <1>1, <1>2, <1>3

\* The image of a guest is replaced by one with the same argument block.
LEMMA BecomesImage ==
  ASSUME TypeOK, EmptyInv, DamageInv, NEW p \in Procs, phase[p] = "running",
         NEW new, NewImage(image[p], new), Becomes(p, new), phase' = phase
  PROVE  /\ image' \in [Procs -> Images] /\ EmptyInv' /\ DamageInv'
         /\ image'[p] = new
         /\ \A q \in Procs : q # p => image'[q] = image[q]
<1>1. image' = [image EXCEPT ![p] = new] /\ new \in Images /\ SameStack(image[p], new)
  BY DEF Becomes, NewImage
<1>2. image' \in [Procs -> Images]
  BY <1>1 DEF TypeOK
<1>3. /\ image'[p] = new
      /\ \A q \in Procs : q # p => image'[q] = image[q]
  BY <1>1 DEF TypeOK
<1>4. \A q \in Procs : Live(q)' <=> Live(q)
  BY DEF Live
<1>5. Live(p)
  BY DEF Live
<1>6. EmptyInv'
  BY <1>3, <1>4, <1>5 DEF EmptyInv
<1>7. DamageInv'
  <2>1. ASSUME NEW q \in Procs, Live(q) PROVE image'[q].lost = Overwritten(image'[q].args)
    <3>1. image[q].lost = Overwritten(image[q].args)
      BY <2>1 DEF DamageInv
    <3>2. image'[q].lost = image[q].lost /\ image'[q].args = image[q].args
      BY <1>1, <1>3 DEF SameStack
    <3>3. QED
      BY <3>1, <3>2
  <2>2. QED
    BY <1>4, <2>1 DEF DamageInv
<1>8. QED
  BY <1>2, <1>3, <1>6, <1>7

\* A call on the caller's memory.
LEMMA RemapsImage ==
  ASSUME ImageInv, NEW p \in Procs, NEW call \in Requests,
         NEW new, NewImage(image[p], new), NEW r, NEW op, NEW pages \in SUBSET Page,
         Remaps(p, call, new, r, op, pages)
  PROVE  /\ ImageInv'
         /\ image'[p].space = new.space
         /\ \A q \in Procs : q # p => image'[q] = image[q]
         /\ asked'.op = op /\ asked'.pages = pages /\ asked'.proc = p
<1> DEFINE view == IF r = HALF THEN image[p].view ELSE new.view
           stray == IF r = HALF THEN new.stray \cup {"half"} ELSE new.stray
           n == [new EXCEPT !.view = view, !.stray = stray]
<1>1. TypeOK /\ EmptyInv /\ DamageInv
  BY DEF ImageInv
<1>2. new \in Images /\ image[p] \in Images
  BY <1>1 DEF NewImage, TypeOK
<1>3. view \in SUBSET Page /\ stray \in SUBSET Reasons
  BY <1>2, ImageFields, ReasonFacts
<1>4. Becomes(p, n) /\ phase' = phase /\ phase[p] = "running"
  BY DEF Remaps, Serves
<1> HIDE DEF view, stray
<1>5. n.space = new.space
  BY <1>2 DEF Images
<1>6. NewImage(image[p], n)
  <2>1. NewImage(new, n)
    BY <1>2, <1>3 DEF NewImage, SameStack, Images
  <2>2. QED
    BY <2>1 DEF NewImage, SameStack
<1> HIDE DEF n
<1>7. /\ image' \in [Procs -> Images] /\ EmptyInv' /\ DamageInv'
      /\ image'[p] = n
      /\ \A q \in Procs : q # p => image'[q] = image[q]
  BY <1>1, <1>4, <1>6, BecomesImage
<1>8. TypeOK'
  <2>1. /\ Serves(p, call) /\ Answers(p, call, r) /\ Asks(p, op, pages, NoBuffer)
        /\ phase' = phase /\ parent' = parent /\ waddr' = waddr
    BY DEF Remaps
  <2>2. /\ asked'.proc \in Procs /\ asked'.pages \subseteq Page
        /\ again' \in [Procs -> Requests \cup {NoCall}] /\ left' \in 0..MaxCalls
    BY <1>1, <2>1, AskedTypes
  <2>3. QED
    BY <1>1, <1>7, <2>1, <2>2 DEF TypeOK
<1>9. asked'.op = op /\ asked'.pages = pages /\ asked'.proc = p
  BY DEF Remaps, Asks
<1>10. QED
  BY <1>5, <1>7, <1>8, <1>9 DEF ImageInv

\* A result is put in the caller's memory, whatever becomes of the descriptors.
LEMMA WritesImage ==
  ASSUME ImageInv, NEW p \in Procs, NEW new, NewImage(image[p], new),
         new.space = image[p].space, NEW buf, Writes(p, new, buf)
  PROVE  /\ ImageInv'
         /\ image'[p].space = Poke(image[p].space, buf[1], buf[2], "result")
         /\ \A q \in Procs : q # p => image'[q] = image[q]
         /\ asked'.op = "write" /\ asked'.buf = buf /\ asked'.proc = p
<1> DEFINE space == Poke(new.space, buf[1], buf[2], "result")
           n == [new EXCEPT !.space = space]
<1>1. TypeOK /\ EmptyInv /\ DamageInv
  BY DEF ImageInv
<1>2. new \in Images /\ image[p] \in Images
  BY <1>1 DEF NewImage, TypeOK
<1>3. space \in Space
  BY <1>2, ImageFields, PokeSpace, ImageAssumption
<1>4. Becomes(p, n) /\ phase' = phase /\ phase[p] = "running"
  BY DEF Writes, Serves
<1>5. space = Poke(image[p].space, buf[1], buf[2], "result")
  OBVIOUS
<1> HIDE DEF space
<1>6. n.space = space
  BY <1>2 DEF Images
<1>7. NewImage(image[p], n)
  <2>1. NewImage(new, n)
    BY <1>2, <1>3 DEF NewImage, SameStack, Images
  <2>2. QED
    BY <2>1 DEF NewImage, SameStack
<1> HIDE DEF n
<1>8. /\ image' \in [Procs -> Images] /\ EmptyInv' /\ DamageInv'
      /\ image'[p] = n
      /\ \A q \in Procs : q # p => image'[q] = image[q]
  BY <1>1, <1>4, <1>7, BecomesImage
<1>9. TypeOK'
  <2>1. /\ Serves(p, NoCall) /\ Asks(p, "write", {}, buf)
        /\ phase' = phase /\ parent' = parent /\ waddr' = waddr /\ again' = again
    BY DEF Writes
  <2>2. asked'.proc \in Procs /\ asked'.pages \subseteq Page /\ left' \in 0..MaxCalls
    BY <1>1, <2>1, AskedTypes
  <2>3. QED
    BY <1>1, <1>8, <2>1, <2>2 DEF TypeOK
<1>10. asked'.op = "write" /\ asked'.buf = buf /\ asked'.proc = p
  BY DEF Writes, Asks
<1>11. QED
  BY <1>5, <1>6, <1>8, <1>9, <1>10 DEF ImageInv

-----------------------------------------------------------------------------
(* The pages a call names                                                  *)

\* The pages the kernel takes a rounded range for are among those the range
\* lies on.
LEMMA RangeSpanned ==
  ASSUME NEW a \in Address, NEW n \in Address
  PROVE  Pages(PAGE_DOWN(a), PAGE_UP(n)) \subseteq Spanned(a, n)
<1> SUFFICES ASSUME NEW g \in Pages(PAGE_DOWN(a), PAGE_UP(n)) PROVE g \in Spanned(a, n)
  OBVIOUS
<1> DEFINE d == PAGE_DOWN(a)
           u == PAGE_UP(n)
           k == a \div PageSize
<1>1. PageSize \in Nat \ {0} /\ Top \in Nat \ {0} /\ a \in Nat /\ n \in Nat /\ a < Top
  BY Sizes DEF Address
<1>2. d = k * PageSize /\ d \in Nat /\ d <= a /\ k \in Nat
  BY <1>1, PageDown
<1>3. u \in 0..(Top - 1) /\ u < n + PageSize /\ \E j \in Nat : u = j * PageSize
  BY PageUp DEF Address
<1>4. PICK j \in Nat : u = j * PageSize
  BY <1>3
<1>5. g \in Page /\ g \in Nat /\ d <= g * PageSize /\ g * PageSize < Wrap(d + u)
  BY DEF Pages, Page
<1> HIDE DEF d, u, k
<1>6. d + u \in Nat /\ d + u < 2 * Top
  BY <1>1, <1>2, <1>3
<1>7. g * PageSize \in Nat
  BY <1>1, <1>5
<1>8. g * PageSize < d + u
  BY <1>1, <1>2, <1>3, <1>5, <1>6, <1>7, WrapFacts
<1>9. d + u = (k + j) * PageSize
  BY <1>1, <1>2, <1>4
<1>10. g * PageSize + PageSize <= d + u
  <2>1. k + j \in Int /\ g \in Int /\ g * PageSize < (k + j) * PageSize
    BY <1>2, <1>5, <1>8, <1>9
  <2>2. g < k + j
    BY <1>1, <2>1, Multiples
  <2>3. g * PageSize + PageSize <= (k + j) * PageSize
    BY <1>1, <2>1, <2>2, Multiples
  <2>4. QED
    BY <1>9, <2>3
<1>11. g * PageSize < a + n
  BY <1>1, <1>2, <1>3, <1>7, <1>10
<1>12. QED
  BY <1>5, <1>11 DEF Spanned, d

\* So are the pages that what is read of a file goes to.
LEMMA FillSpanned ==
  ASSUME NEW a \in Address, NEW n \in Address, NEW fill \in Nat, fill <= n, fill # 0,
         NEW g \in Page, g \in Touched(a, fill)
  PROVE  g \in Spanned(a, n)
<1> DEFINE d == PAGE_DOWN(a)
           k == a \div PageSize
           e == a + fill - 1
           h == e \div PageSize
<1>1. /\ PageSize \in Nat \ {0} /\ a \in Nat /\ n \in Nat /\ g \in Nat
      /\ e \in Nat /\ e < a + n
  BY Sizes DEF Address, Page
<1>2. d = k * PageSize /\ k \in Nat
  BY <1>1, PageDown
<1>3. h \in Nat /\ h * PageSize <= e
  <2> HIDE DEF e
  <2>1. QED
    BY <1>1, PageDown
<1>4. k <= g /\ g <= h
  BY <1>2, <1>3 DEF Touched
<1> HIDE DEF d, k, e, h
<1>5. k * PageSize <= g * PageSize /\ g * PageSize <= h * PageSize
  BY <1>1, <1>2, <1>3, <1>4, Multiples
<1>6. g * PageSize \in Nat /\ h * PageSize \in Nat
  BY <1>1, <1>3
<1>7. g * PageSize < a + n
  BY <1>1, <1>3, <1>5, <1>6
<1>8. QED
  BY <1>2, <1>5, <1>7 DEF Spanned, d

\* A mapping is put at the first address of a page.
LEMMA MmapAtFacts ==
  ASSUME NEW s, NEW call \in Requests, call.op = "mmap", NEW a \in MmapAt(s, call)
  PROVE  a \in Address /\ PAGE_DOWN(a) = a
<1>1. /\ PageSize \in Nat \ {0} /\ Top \in Nat \ {0}
      /\ UserPages \in Nat \ {0} /\ UserPages * PageSize + PageSize <= Top
      /\ UserPages * PageSize \in Nat
  BY Sizes
<1>2. call.addr \in Address /\ call.fixed \in BOOLEAN
  BY RequestFacts
<1>3. /\ call.addr \in Nat /\ PAGE_DOWN(call.addr) \in Nat
      /\ PAGE_DOWN(call.addr) <= call.addr
      /\ PAGE_DOWN(call.addr) = (call.addr \div PageSize) * PageSize
      /\ call.addr \div PageSize \in Nat
  BY <1>2, PageDown DEF Address
<1>4. ASSUME NEW g \in Nat PROVE PAGE_DOWN(g * PageSize) = g * PageSize
  <2>1. g * PageSize \in Nat
    BY <1>1
  <2> DEFINE x == g * PageSize
             q == x \div PageSize
  <2>2. /\ PAGE_DOWN(x) = q * PageSize /\ q * PageSize <= x
        /\ x < q * PageSize + PageSize /\ q \in Nat
    BY <2>1, PageDown
  <2> HIDE DEF q
  <2>3. q * PageSize + PageSize = (q + 1) * PageSize
    BY <1>1, <2>2
  <2>4. g < q + 1
    BY <1>1, <2>2, <2>3, Multiples
  <2>5. q <= g
    <3>1. ASSUME g < q PROVE FALSE
      <4>1. g * PageSize + PageSize <= q * PageSize
        BY <1>1, <2>2, <3>1, Multiples
      <4>2. QED
        BY <1>1, <2>1, <2>2, <4>1
    <3>2. QED
      BY <2>2, <3>1
  <2>6. q = g
    BY <2>2, <2>4, <2>5
  <2>7. QED
    BY <2>2, <2>6
<1>5. \/ a = PAGE_DOWN(call.addr) \/ a = 0
      \/ \E g \in Page : a = g * PageSize
  <2> DEFINE at == PAGE_DOWN(call.addr)
             n == PAGE_UP(call.len)
  <2>1. MmapAt(s, call) \subseteq {0, at} \cup Holes(s, n)
    <3>1. CASE call.fixed
      BY <3>1 DEF MmapAt
    <3>2. CASE ~call.fixed /\ n = 0
      BY <3>2 DEF MmapAt
    <3>3. CASE ~call.fixed /\ n > 0
      BY <3>3 DEF MmapAt
    <3>4. n \in Nat
      BY RequestFacts, PageUp DEF Address
    <3> HIDE DEF n
    <3>5. n = 0 \/ n > 0
      BY <3>4
    <3>6. QED
      BY <1>2, <3>1, <3>2, <3>3, <3>5
  <2>2. QED
    BY <2>1 DEF Holes
<1>6. CASE a = PAGE_DOWN(call.addr)
  <2>1. PICK k \in Nat : PAGE_DOWN(call.addr) = k * PageSize
    BY <1>3
  <2>2. PAGE_DOWN(a) = a
    BY <1>4, <1>6, <2>1
  <2>3. PAGE_DOWN(call.addr) \in Address
    <3>1. PICK x : x = PAGE_DOWN(call.addr)
      OBVIOUS
    <3>2. x \in Nat /\ x <= call.addr /\ call.addr \in Address
      BY <1>2, <1>3, <3>1
    <3>3. x \in Address
      BY <1>1, <3>2 DEF Address
    <3>4. QED
      BY <3>1, <3>3
  <2>4. QED
    BY <1>6, <2>2, <2>3
<1>7. CASE a = 0
  BY <1>1, <1>4, <1>7 DEF Address
<1>8. CASE \E g \in Page : a = g * PageSize
  <2>1. PICK g \in Page : a = g * PageSize
    BY <1>8
  <2>2. g \in Nat /\ g <= UserPages
    BY <1>1 DEF Page
  <2>3. g * PageSize \in Nat /\ g * PageSize <= UserPages * PageSize
    BY <1>1, <2>2, Multiples
  <2>4. QED
    BY <1>1, <1>4, <2>1, <2>2, <2>3 DEF Address
<1>9. QED
  BY <1>5, <1>6, <1>7, <1>8

-----------------------------------------------------------------------------
(* What becomes of memory that stays mapped                                *)

\* What OnlyAsked says of a page of the process p.
SparedPage(p, old, new, g) ==
  \/ new[g] = old[g]
  \/ p = asked'.proc /\ g \in asked'.pages
       /\ (asked'.op = "protect" => new[g].data = old[g].data)
  \/ /\ p = asked'.proc /\ asked'.op = "write"
     /\ g \in Touched(asked'.buf[1], asked'.buf[2])
     /\ new[g].prot = {"read", "write"}
     /\ Readable(old, asked'.buf[1], asked'.buf[2]) =>
          \A i \in Offset : \/ new[g].data[i] = old[g].data[i]
                            \/ Inside(asked'.buf[1], asked'.buf[2], g, i)

\* What it says of the process p.
Spared(p) ==
  asked'.op # "exec" \/ p # asked'.proc =>
    \A g \in Mapped(image[p].space) \cap Mapped(image'[p].space) :
      SparedPage(p, image[p].space, image'[p].space, g)

\* Every guest's is spared when the others' is left alone.
LEMMA AllSpared ==
  ASSUME NEW p \in Procs, \A q \in Procs : q # p => image'[q] = image[q],
         Spared(p)
  PROVE  \A q \in Procs : Spared(q)
BY DEF Spared, SparedPage

\* A poke at the buffer that was named.
LEMMA PokeSpared ==
  ASSUME NEW p, NEW s \in Space, NEW buf \in Buffers \cup {NoBuffer}, NEW g \in Page,
         asked'.proc = p, asked'.op = "write", asked'.buf = buf
  PROVE  SparedPage(p, s, Poke(s, buf[1], buf[2], "result"), g)
<1>1. buf[1] \in Nat /\ buf[2] \in Nat
  <2>1. CASE buf \in Buffers
    BY <2>1, ImageAssumption DEF Address
  <2>2. CASE buf = NoBuffer
    BY <2>2 DEF NoBuffer
  <2>3. QED
    BY <2>1, <2>2
<1>2. "result" \in Tags
  BY ImageAssumption
<1>3. PICK a \in Nat, n \in Nat : a = buf[1] /\ n = buf[2]
  BY <1>1
<1>4. SparedPage(p, s, Poke(s, a, n, "result"), g)
  <2>1. asked'.buf[1] = a /\ asked'.buf[2] = n
    BY <1>3
  <2>2. PICK t : t = Poke(s, a, n, "result")
    OBVIOUS
  <2>3. PatchedPage(s, t, a, n, g)
    BY <1>2, <2>2, PokeFacts
  <2>4. SparedPage(p, s, t, g)
    BY <2>1, <2>3 DEF SparedPage, PatchedPage
  <2>5. QED
    BY <2>2, <2>4
<1>5. QED
  BY <1>3, <1>4

\* brk maps free pages and gives pages back.
LEMMA BrkSpared ==
  ASSUME NEW m \in Images, NEW want, NEW g \in Page,
         m.space[g] # NoPage, BrkOf(m, want).space[g] # NoPage
  PROVE  BrkOf(m, want).space[g] = m.space[g]
<1> DEFINE s == m.space
           old  == PAGE_UP(m.hi)
           new  == PAGE_UP(want)
           taken == Allocate(s, old, new - old)
           grow == Protect(taken, old, new - old, {"read", "write"})
           shrunk == Deallocate(s, new, old - new)
<1>1. s \in Space
  BY ImageFields
<1>2. taken \in Space /\ {"read", "write"} \in Prot
  BY <1>1, SpaceFacts DEF Prot
<1>3. CanAllocate(s, old, new - old) => grow[g] = s[g]
  <2>1. ASSUME CanAllocate(s, old, new - old) PROVE g \notin Pages(old, new - old)
    BY <2>1 DEF CanAllocate, Mapped
  <2> HIDE DEF old, new
  <2>2. ASSUME g \notin Pages(old, new - old) PROVE grow[g] = s[g]
    BY <1>1, <1>2, <2>2, AllocateKeeps, ProtectKeeps
  <2>3. QED
    BY <2>1, <2>2
<1>4. shrunk[g] = NoPage \/ shrunk[g] = s[g]
  BY <1>1, DeallocateKeeps
<1>5. \/ BrkOf(m, want) = m
      \/ /\ CanAllocate(s, old, new - old)
         /\ BrkOf(m, want) = [m EXCEPT !.space = grow, !.hi = want]
      \/ BrkOf(m, want) = [m EXCEPT !.space = shrunk, !.hi = want]
  BY Zenon DEF BrkOf
<1> HIDE DEF grow, shrunk, s, old, new
<1>6. \/ BrkOf(m, want).space = s
      \/ CanAllocate(s, old, new - old) /\ BrkOf(m, want).space = grow
      \/ BrkOf(m, want).space = shrunk
  BY <1>5 DEF Images, s
<1>7. QED
  BY <1>3, <1>4, <1>6 DEF s

\* A mapping changes none but the pages that were asked for.
LEMMA MmapSpared ==
  ASSUME NEW s \in Space, NEW call \in Requests, call.op = "mmap",
         NEW a \in MmapAt(s, call), NEW g \in Page,
         s[g] # NoPage, g \notin Spanned(a, call.len)
  PROVE  /\ \A fill \in {0, call.file} :
              Protect(Poke(MmapSpace(s, call, a), a, fill, "file"), a, PAGE_UP(call.len),
                      MmapProt(call.prot))[g] \in {s[g], NoPage}
         /\ MmapSpace(s, call, a)[g] \in {s[g], NoPage}
<1> DEFINE n == PAGE_UP(call.len)
           base == MmapBase(s, call)
           room == MmapSpace(s, call, a)
<1>1. /\ call.len \in Address /\ call.file \in Nat /\ call.file <= call.len
      /\ a \in Address /\ PAGE_DOWN(a) = a /\ call.prot \in Prot
  BY RequestFacts, MmapAtFacts
<1>2. g \notin Pages(a, n)
  BY <1>1, RangeSpanned
<1>3. base \in Space /\ room \in Space /\ MmapProt(call.prot) \in Prot
  BY <1>1, MmapTypes DEF MmapProt, Prot
<1>4. base[g] \in {s[g], NoPage}
  BY DeallocateKeeps DEF MmapBase
<1>5. room[g] = base[g]
  BY <1>2, <1>3, AllocateKeeps DEF MmapSpace
<1> HIDE DEF base, room, n
<1>6. ASSUME NEW fill \in {0, call.file}
      PROVE  Protect(Poke(room, a, fill, "file"), a, n, MmapProt(call.prot))[g] = room[g]
  <2> DEFINE filled == Poke(room, a, fill, "file")
  <2>1. fill \in Nat /\ fill <= call.len /\ a \in Nat /\ "file" \in Tags
    BY <1>1, ImageAssumption DEF Address
  <2>2. filled \in Space
    BY <1>3, <2>1, PokeSpace
  <2>3. filled[g] = room[g]
    <3>1. ASSUME fill # 0, g \in Touched(a, fill) PROVE FALSE
      BY <1>1, <2>1, <3>1, FillSpanned
    <3>2. QED
      BY <1>3, <2>1, <3>1, PokeFacts DEF PatchedPage
  <2> HIDE DEF filled
  <2>4. Protect(filled, a, n, MmapProt(call.prot))[g] = filled[g]
    BY <1>2, <1>3, <2>2, ProtectKeeps
  <2>5. QED
    BY <2>3, <2>4 DEF filled
<1>7. QED
  BY <1>4, <1>5, <1>6 DEF room, n

\* The calls on the caller's memory keep the invariant and spare what is not theirs.
LEMMA MemoryImage ==
  ASSUME ImageInv, NEW p \in Procs, NEW call \in Requests,
         \/ Brk(p, call) \/ Mmap(p, call) \/ MmapRefused(p, call)
         \/ MmapNoBuffer(p, call) \/ Munmap(p, call) \/ Mprotect(p, call)
  PROVE  ImageInv' /\ \A q \in Procs : Spared(q)
<1>1. PICK m \in Images : m = image[p]
  BY DEF ImageInv, TypeOK
<1>2. m.space \in Space /\ m.stray \subseteq Reasons /\ m.view \subseteq Page
  BY ImageFields
<1>3. ASSUME NEW new, NewImage(m, new), NEW r, NEW op, NEW pages \in SUBSET Page,
             Remaps(p, call, new, r, op, pages),
             \A g \in Page : m.space[g] # NoPage /\ new.space[g] # NoPage =>
               \/ new.space[g] = m.space[g]
               \/ g \in pages /\ (op = "protect" => new.space[g].data = m.space[g].data)
      PROVE  ImageInv' /\ \A q \in Procs : Spared(q)
  <2>1. /\ ImageInv' /\ image'[p].space = new.space
        /\ \A q \in Procs : q # p => image'[q] = image[q]
        /\ asked'.op = op /\ asked'.pages = pages /\ asked'.proc = p
    BY <1>1, <1>3, RemapsImage
  <2>2. Spared(p)
    BY <1>1, <1>3, <2>1 DEF Spared, SparedPage, Mapped
  <2>3. QED
    BY <2>1, <2>2, AllSpared
<1>4. CASE Brk(p, call)
  <2> DEFINE b == BrkOf(m, call.want)
             view == BrkView(m, b.hi)
             stray == BrkStray(m, call.want, b.hi)
             new == [b EXCEPT !.view = view, !.stray = stray]
  <2>1. Remaps(p, call, new, b.hi, "map", {})
    BY <1>1, <1>4 DEF Brk
  <2>2. call.want \in Address
    BY <1>4, RequestFacts DEF Brk
  <2>3. NewImage(m, b) /\ b \in Images
    BY <2>2, BrkTypes DEF NewImage
  <2>4. ASSUME NEW g \in Page, m.space[g] # NoPage, b.space[g] # NoPage
        PROVE  b.space[g] = m.space[g]
    BY <2>4, BrkSpared
  <2>5. view \in SUBSET Page /\ stray \in SUBSET Reasons
    BY <1>2, <2>3, ImageFields, ReasonFacts DEF BrkView
  <2> HIDE DEF b, view, stray
  <2>6. NewImage(b, new) /\ new.space = b.space
    BY <2>3, <2>5 DEF NewImage, SameStack, Images
  <2> HIDE DEF new
  <2>7. NewImage(m, new)
    BY <2>3, <2>6 DEF NewImage, SameStack
  <2>8. QED
    BY <1>3, <2>1, <2>4, <2>6, <2>7
<1>5. ASSUME NEW space \in Space, NEW view \in SUBSET Page, NEW stray \in SUBSET Reasons
      PROVE  LET new == [m EXCEPT !.space = space, !.view = view, !.stray = stray]
             IN  NewImage(m, new) /\ new.space = space
  BY DEF NewImage, SameStack, Images
<1>6. ASSUME NEW a, NEW n PROVE Spanned(a, n) \in SUBSET Page
  BY DEF Spanned
<1>7. CASE Mmap(p, call)
  <2>1. PICK a \in MmapAt(m.space, call), fill \in {0, call.file} :
          Remaps(p, call,
                 [m EXCEPT !.space = Protect(Poke(MmapSpace(@, call, a), a, fill, "file"),
                                             a, PAGE_UP(call.len), MmapProt(call.prot)),
                           !.view = @ \cup Spanned(a, call.len),
                           !.stray = @ \cup IF Wraps(0, call.len) THEN {"mapwrap"}
                                                                  ELSE {}],
                 a, "map", Spanned(a, call.len))
    BY <1>1, <1>7 DEF Mmap
  <2> DEFINE space == Protect(Poke(MmapSpace(m.space, call, a), a, fill, "file"),
                              a, PAGE_UP(call.len), MmapProt(call.prot))
             view == m.view \cup Spanned(a, call.len)
             stray == m.stray \cup IF Wraps(0, call.len) THEN {"mapwrap"} ELSE {}
             new == [m EXCEPT !.space = space, !.view = view, !.stray = stray]
  <2>2. Remaps(p, call, new, a, "map", Spanned(a, call.len))
    BY <2>1
  <2>3. call.op = "mmap"
    BY <1>7 DEF Mmap
  <2>4. space \in Space /\ view \in SUBSET Page /\ stray \in SUBSET Reasons
    BY <1>2, <1>6, <2>3, MmapTypes, ReasonFacts
  <2>5. ASSUME NEW g \in Page, m.space[g] # NoPage, g \notin Spanned(a, call.len)
        PROVE  space[g] \in {m.space[g], NoPage}
    BY <1>2, <2>3, <2>5, MmapSpared
  <2> HIDE DEF space, view, stray
  <2>6. NewImage(m, new) /\ new.space = space
    BY <1>5, <2>4
  <2> HIDE DEF new
  <2>7. QED
    BY <1>3, <1>6, <2>2, <2>5, <2>6
<1>8. CASE MmapRefused(p, call)
  <2> DEFINE space == MmapBase(m.space, call)
             stray == m.stray \cup IF call.fixed THEN {"fixed"} ELSE {}
             new == [m EXCEPT !.space = space, !.stray = stray]
  <2>1. Remaps(p, call, new, Error, "map", Spanned(call.addr, call.len))
    BY <1>1, <1>8 DEF MmapRefused
  <2>2. call.op = "mmap"
    BY <1>8 DEF MmapRefused
  <2>3. space \in Space /\ stray \in SUBSET Reasons
    BY <1>2, <2>2, MmapTypes, ReasonFacts
  <2>4. ASSUME NEW g \in Page, m.space[g] # NoPage
        PROVE  space[g] \in {m.space[g], NoPage}
    BY <1>2, <2>4, DeallocateKeeps DEF MmapBase
  <2> HIDE DEF space, stray
  <2>5. NewImage(m, new) /\ new.space = space
    BY <2>3 DEF NewImage, SameStack, Images
  <2> HIDE DEF new
  <2>6. QED
    BY <1>3, <1>6, <2>1, <2>4, <2>5
<1>9. CASE MmapNoBuffer(p, call)
  <2>1. PICK a \in MmapAt(m.space, call) :
          Remaps(p, call, [m EXCEPT !.space = MmapSpace(@, call, a),
                                    !.stray = @ \cup {"buffer"}],
                 Error, "map", Spanned(a, call.len))
    BY <1>1, <1>9 DEF MmapNoBuffer
  <2> DEFINE space == MmapSpace(m.space, call, a)
             stray == m.stray \cup {"buffer"}
             new == [m EXCEPT !.space = space, !.stray = stray]
  <2>2. Remaps(p, call, new, Error, "map", Spanned(a, call.len))
    BY <2>1
  <2>3. call.op = "mmap"
    BY <1>9 DEF MmapNoBuffer
  <2>4. space \in Space /\ stray \in SUBSET Reasons
    BY <1>2, <2>3, MmapTypes, ReasonFacts
  <2>5. ASSUME NEW g \in Page, m.space[g] # NoPage, g \notin Spanned(a, call.len)
        PROVE  space[g] \in {m.space[g], NoPage}
    BY <1>2, <2>3, <2>5, MmapSpared
  <2> HIDE DEF space, stray
  <2>6. NewImage(m, new) /\ new.space = space
    BY <2>4 DEF NewImage, SameStack, Images
  <2> HIDE DEF new
  <2>7. QED
    BY <1>3, <1>6, <2>2, <2>5, <2>6
<1>10. CASE Munmap(p, call)
  <2> DEFINE space == Deallocate(m.space, PAGE_DOWN(call.addr), PAGE_UP(call.len))
             view == m.view \ Spanned(call.addr, call.len)
             stray == m.stray \cup Unaligned(call.addr)
                        \cup IF Wraps(call.addr, call.len) THEN {"unmapwrap"} ELSE {}
             new == [m EXCEPT !.space = space, !.view = view, !.stray = stray]
  <2>1. Remaps(p, call, new, 0, "map", Spanned(call.addr, call.len))
    BY <1>1, <1>10 DEF Munmap
  <2>2. space \in Space /\ view \in SUBSET Page /\ stray \in SUBSET Reasons
    BY <1>2, SpaceFacts, ReasonFacts
  <2>3. ASSUME NEW g \in Page, m.space[g] # NoPage
        PROVE  space[g] \in {m.space[g], NoPage}
    BY <1>2, <2>3, DeallocateKeeps
  <2> HIDE DEF space, view, stray
  <2>4. NewImage(m, new) /\ new.space = space
    BY <1>5, <2>2
  <2> HIDE DEF new
  <2>5. QED
    BY <1>3, <1>6, <2>1, <2>3, <2>4
<1>11. CASE Mprotect(p, call)
  <2> DEFINE a == PAGE_DOWN(call.addr)
             n == PAGE_UP(call.len)
             space == Protect(m.space, a, n, call.prot)
             new == [m EXCEPT !.space = space]
  <2>1. Remaps(p, call, new, 0, "protect", Spanned(call.addr, call.len))
    BY <1>1, <1>11 DEF Mprotect
  <2>2. call.addr \in Address /\ call.len \in Address /\ call.prot \in Prot
    BY <1>11, RequestFacts DEF Mprotect
  <2>3. space \in Space
    BY <1>2, <2>2, SpaceFacts
  <2>4. Pages(a, n) \subseteq Spanned(call.addr, call.len)
    BY <2>2, RangeSpanned
  <2> HIDE DEF a, n
  <2>5. ASSUME NEW g \in Page
        PROVE  /\ g \notin Spanned(call.addr, call.len) => space[g] = m.space[g]
               /\ space[g].data = m.space[g].data
    BY <1>2, <2>2, <2>4, ProtectKeeps
  <2> HIDE DEF space
  <2>6. NewImage(m, new) /\ new.space = space
    BY <2>3 DEF NewImage, SameStack, Images
  <2> HIDE DEF new
  <2>7. QED
    BY <1>3, <1>6, <2>1, <2>5, <2>6
<1>12. QED
  BY <1>4, <1>7, <1>8, <1>9, <1>10, <1>11

-----------------------------------------------------------------------------
(* Results, fork, execve, wait4, exit                                      *)

\* A result, and a thread area's entry, are written into the caller's buffer.
LEMMA WritesSpared ==
  ASSUME ImageInv, NEW p \in Procs, NEW new, NewImage(image[p], new),
         new.space = image[p].space, NEW buf \in Buffers, Writes(p, new, buf)
  PROVE  ImageInv' /\ \A q \in Procs : Spared(q)
<1>1. /\ ImageInv'
      /\ image'[p].space = Poke(image[p].space, buf[1], buf[2], "result")
      /\ \A q \in Procs : q # p => image'[q] = image[q]
      /\ asked'.op = "write" /\ asked'.buf = buf /\ asked'.proc = p
  BY WritesImage
<1>2. image[p].space \in Space
  BY ImageFields DEF ImageInv, TypeOK
<1>3. \A g \in Page : SparedPage(p, image[p].space, image'[p].space, g)
  BY <1>1, <1>2, PokeSpared
<1>4. Spared(p)
  BY <1>3 DEF Spared, Mapped
<1>5. QED
  BY <1>1, <1>4, AllSpared

\* A result.
LEMMA ResultImage ==
  ASSUME ImageInv, NEW p \in Procs, NEW buf \in Buffers, Result(p, buf)
  PROVE  ImageInv' /\ \A q \in Procs : Spared(q)
<1>1. NewImage(image[p], image[p])
  BY DEF NewImage, SameStack, ImageInv, TypeOK
<1>2. QED
  BY <1>1, WritesSpared DEF Result

\* set_thread_area.
LEMMA ThreadAreaImage ==
  ASSUME ImageInv, TlsInv, NEW p \in Procs, NEW entry \in Entries,
         NEW base \in Bases \cup {NoBase}, NEW buf \in Buffers,
         SetThreadArea(p, entry, base, buf)
  PROVE  ImageInv' /\ \A q \in Procs : Spared(q)
<1>1. PICK m \in Images : m = image[p]
  BY DEF ImageInv, TypeOK
<1>2. PICK sel \in Selector(m, entry) :
        Writes(p, [m EXCEPT !.gdt[sel] = base, !.tls = sel, !.want = base,
                            !.named = @ \/ entry # NOSEL], buf)
  BY <1>1 DEF SetThreadArea
<1>3. sel \in Slots
  BY <1>1, <1>2, SelectorFacts DEF TlsInv
<1>4. PICK gdt \in [Slots -> Bases \cup {NoBase}] : gdt = [m.gdt EXCEPT ![sel] = base]
  BY <1>3, ImageFields
<1>5. PICK named \in BOOLEAN : named = (m.named \/ entry # NOSEL)
  OBVIOUS
<1> DEFINE n == [m EXCEPT !.gdt = gdt, !.tls = sel, !.want = base, !.named = named]
<1>6. Writes(p, n, buf)
  BY <1>2, <1>4, <1>5
<1>7. n \in Images
  BY <1>3 DEF Images
<1>8. SameStack(m, n) /\ n.space = m.space
  BY DEF Images, SameStack
<1> HIDE DEF n
<1>9. QED
  BY <1>1, <1>6, <1>7, <1>8, WritesSpared DEF NewImage

\* One process's image is replaced, and it may begin or end its life by that.
LEMMA OneImage ==
  ASSUME ImageInv, NEW p \in Procs, NEW new \in Images, Becomes(p, new),
         \A q \in Procs : q # p => (Live(q)' <=> Live(q)),
         Live(p)' => new.lost = Overwritten(new.args),
         ~Live(p)' => new.space = EmptySpace
  PROVE  /\ image' \in [Procs -> Images] /\ EmptyInv' /\ DamageInv'
         /\ image'[p] = new
         /\ \A q \in Procs : q # p => image'[q] = image[q]
<1>1. image' = [image EXCEPT ![p] = new]
  BY DEF Becomes
<1>2. image' \in [Procs -> Images]
  BY <1>1 DEF ImageInv, TypeOK
<1>3. /\ image'[p] = new
      /\ \A q \in Procs : q # p => image'[q] = image[q]
  BY <1>1 DEF ImageInv, TypeOK
<1>4. EmptyInv'
  BY <1>3 DEF ImageInv, EmptyInv
<1>5. DamageInv'
  BY <1>3 DEF ImageInv, DamageInv
<1>6. QED
  BY <1>2, <1>3, <1>4, <1>5

\* A child has its parent's memory and argument block, in a slot that had none.
LEMMA ForkImage ==
  ASSUME ImageInv, NEW p \in Procs, NEW c \in Procs, Fork(p, c)
  PROVE  ImageInv' /\ \A q \in Procs : Spared(q)
<1>1. TypeOK /\ EmptyInv /\ DamageInv
  BY DEF ImageInv
<1>2. PICK carried \in BOOLEAN : Becomes(c, InheritTls(image[p], carried))
  BY DEF Fork
<1>3. PICK new : new = InheritTls(image[p], carried)
  OBVIOUS
<1>4. NewImage(image[p], new)
  BY <1>1, <1>3, InheritTypes DEF TypeOK
<1>5. /\ phase[p] = "running" /\ phase[c] = "unused"
      /\ phase' = [phase EXCEPT ![c] = "running"]
      /\ Serves(p, NoCall) /\ Asks(c, "fork", {}, NoBuffer)
      /\ parent' = [parent EXCEPT ![c] = p] /\ again' = again /\ waddr' = waddr
  BY DEF Fork, Serves
<1>6. /\ Live(c)' /\ ~Live(c) /\ Live(p)
      /\ \A q \in Procs : q # c => (Live(q)' <=> Live(q))
  BY <1>1, <1>5 DEF Live, TypeOK
<1>7. new.lost = Overwritten(new.args)
  BY <1>1, <1>4, <1>6 DEF NewImage, SameStack, DamageInv
<1>8. /\ image' \in [Procs -> Images] /\ EmptyInv' /\ DamageInv'
      /\ \A q \in Procs : q # c => image'[q] = image[q]
  BY <1>2, <1>3, <1>4, <1>6, <1>7, OneImage DEF NewImage
<1>9. TypeOK'
  <2>1. asked'.proc \in Procs /\ asked'.pages \subseteq Page /\ left' \in 0..MaxCalls
    BY <1>1, <1>5, AskedTypes
  <2>2. QED
    BY <1>1, <1>5, <1>8, <2>1 DEF TypeOK
<1>10. Spared(c)
  <2>1. Mapped(image[c].space) = {}
    BY <1>1, <1>6, EmptyFacts DEF EmptyInv
  <2>2. QED
    BY <2>1 DEF Spared
<1>11. QED
  BY <1>8, <1>9, <1>10, AllSpared DEF ImageInv

\* execve makes the argument block anew, or leaves no image at all.
LEMMA ExecveImage ==
  ASSUME ImageInv, NEW p \in Procs, NEW prog \in Programs, NEW args \in ArgLists,
         Execve(p, prog, args)
  PROVE  ImageInv' /\ \A q \in Procs : Spared(q)
<1> DEFINE s == wipe_address_space(image[p].space)
           new == LoadProgram(s, prog, args)
<1>1. TypeOK /\ EmptyInv /\ DamageInv
  BY DEF ImageInv
<1>2. s \in Space
  BY <1>1, ImageFields DEF TypeOK, wipe_address_space, Space
<1>3. /\ \/ Becomes(p, Loaded(image[p], new, prog, args)) /\ UNCHANGED phase
         \/ Becomes(p, NoImage) /\ phase' = [phase EXCEPT ![p] = "zombie"]
      /\ asked'.proc = p /\ asked'.pages = {} /\ asked'.op = "exec"
      /\ Serves(p, NoCall) /\ phase[p] = "running"
      /\ again' = again /\ parent' = parent /\ waddr' = waddr
  BY DEF Execve, Serves
<1>4. PICK n : n = Loaded(image[p], new, prog, args)
  OBVIOUS
<1>5. n \in Images /\ n.lost = Overwritten(n.args)
  BY <1>1, <1>2, <1>4, LoadedTypes DEF TypeOK
<1> HIDE DEF s, new
<1>6. /\ image' \in [Procs -> Images] /\ EmptyInv' /\ DamageInv'
      /\ \A q \in Procs : q # p => image'[q] = image[q]
  <2>1. CASE Becomes(p, n) /\ UNCHANGED phase
    <3>1. Live(p)' /\ \A q \in Procs : Live(q)' <=> Live(q)
      BY <1>3, <2>1 DEF Live
    <3>2. QED
      BY <1>5, <2>1, <3>1, OneImage
  <2>2. CASE Becomes(p, NoImage) /\ phase' = [phase EXCEPT ![p] = "zombie"]
    <3>1. ~Live(p)' /\ \A q \in Procs : q # p => (Live(q)' <=> Live(q))
      BY <1>1, <2>2 DEF Live, TypeOK
    <3>2. QED
      BY <2>2, <3>1, NoImageTypes, OneImage
  <2>3. QED
    BY <1>3, <1>4, <2>1, <2>2
<1>7. TypeOK'
  <2>1. left' \in 0..MaxCalls
    BY <1>1, <1>3, AskedTypes
  <2>2. phase' \in [Procs -> {"unused", "running", "parked", "zombie"}]
    BY <1>1, <1>3 DEF TypeOK
  <2>3. QED
    BY <1>1, <1>3, <1>6, <2>1, <2>2 DEF TypeOK
<1>8. Spared(p)
  BY <1>3 DEF Spared
<1>9. QED
  BY <1>6, <1>7, <1>8, AllSpared DEF ImageInv

\* A status in a parent's memory, or none.
LEMMA StatusSpared ==
  ASSUME NEW p \in Procs, NEW m \in Images, m = image[p],
         NEW buf \in Buffers \cup {NoBuffer}, image'[p] = Status(m, buf),
         asked'.proc = p, asked'.op = "write", asked'.buf = buf
  PROVE  Spared(p)
<1>1. m.space \in Space
  BY ImageFields
<1>2. \/ Status(m, buf).space = m.space
      \/ Status(m, buf).space = Poke(m.space, buf[1], buf[2], "result")
  BY DEF Status, Images
<1>3. \A g \in Page : SparedPage(p, m.space, m.space, g)
  BY DEF SparedPage
<1>4. \A g \in Page : SparedPage(p, m.space, Poke(m.space, buf[1], buf[2], "result"), g)
  BY <1>1, PokeSpared
<1>5. QED
  BY <1>2, <1>3, <1>4 DEF Spared, Mapped

\* wait4 of a zombie.
LEMMA ReapImage ==
  ASSUME ImageInv, NEW p \in Procs, NEW c \in Procs, NEW buf \in Buffers \cup {NoBuffer},
         WaitReap(p, c, buf)
  PROVE  ImageInv' /\ \A q \in Procs : Spared(q)
<1>1. TypeOK /\ EmptyInv /\ DamageInv
  BY DEF ImageInv
<1>2. PICK m \in Images : m = image[p]
  BY <1>1 DEF TypeOK
<1>3. PICK new : new = Status(m, buf)
  OBVIOUS
<1>4. NewImage(m, new)
  BY <1>3, StatusTypes
<1>5. /\ phase[p] = "running" /\ phase[c] = "zombie"
      /\ phase' = phase \/ phase' = [phase EXCEPT ![c] = "unused"]
      /\ Serves(p, NoCall) /\ Becomes(p, new) /\ Asks(p, "write", {}, buf)
      /\ again' = again /\ parent' = parent /\ waddr' = waddr
  BY <1>2, <1>3 DEF WaitReap, Serves
<1>6. Live(p) /\ \A q \in Procs : Live(q)' <=> Live(q)
  BY <1>1, <1>5 DEF Live, TypeOK
<1>7. new.lost = Overwritten(new.args)
  BY <1>1, <1>2, <1>4, <1>6 DEF NewImage, SameStack, DamageInv
<1>8. /\ image' \in [Procs -> Images] /\ EmptyInv' /\ DamageInv'
      /\ image'[p] = new
      /\ \A q \in Procs : q # p => image'[q] = image[q]
  BY <1>4, <1>5, <1>6, <1>7, OneImage DEF NewImage
<1>9. TypeOK'
  <2>1. asked'.proc \in Procs /\ asked'.pages \subseteq Page /\ left' \in 0..MaxCalls
    BY <1>1, <1>5, AskedTypes
  <2>2. phase' \in [Procs -> {"unused", "running", "parked", "zombie"}]
    BY <1>1, <1>5 DEF TypeOK
  <2>3. QED
    BY <1>1, <1>5, <1>8, <2>1, <2>2 DEF TypeOK
<1>10. Spared(p)
  BY <1>2, <1>3, <1>5, <1>8, StatusSpared DEF Asks
<1>11. QED
  BY <1>8, <1>9, <1>10, AllSpared DEF ImageInv

\* wait4 with nobody to collect.
LEMMA ParkImage ==
  ASSUME ImageInv, NEW p \in Procs, NEW c \in Procs, NEW buf \in Buffers \cup {NoBuffer},
         WaitPark(p, c, buf)
  PROVE  ImageInv' /\ \A q \in Procs : Spared(q)
<1>1. TypeOK /\ EmptyInv /\ DamageInv
  BY DEF ImageInv
<1>2. /\ phase[p] = "running" /\ phase' = [phase EXCEPT ![p] = "parked"]
      /\ waddr' = [waddr EXCEPT ![p] = buf] /\ asked' = Quiet /\ Serves(p, NoCall)
      /\ image' = image /\ again' = again /\ parent' = parent
  BY DEF WaitPark, Serves
<1>3. \A q \in Procs : Live(q)' <=> Live(q)
  BY <1>1, <1>2 DEF Live, TypeOK
<1>4. EmptyInv' /\ DamageInv'
  BY <1>1, <1>2, <1>3 DEF EmptyInv, DamageInv
<1>5. TypeOK'
  <2>1. left' \in 0..MaxCalls
    BY <1>1, <1>2, AskedTypes
  <2>2. asked'.proc \in Procs /\ asked'.pages \subseteq Page
    BY <1>2, ImageAssumption DEF Quiet
  <2>3. QED
    BY <1>1, <1>2, <2>1, <2>2 DEF TypeOK
<1>6. \A q \in Procs : Spared(q)
  BY <1>2 DEF Spared, SparedPage
<1>7. QED
  BY <1>4, <1>5, <1>6 DEF ImageInv

\* exit, with a parent that waits and without.
LEMMA ExitImage ==
  ASSUME ImageInv, NEW c \in Procs, Exit(c)
  PROVE  ImageInv' /\ \A q \in Procs : Spared(q)
<1>1. TypeOK /\ EmptyInv /\ DamageInv
  BY DEF ImageInv
<1>2. PICK p \in Procs : p = parent[c]
  BY <1>1 DEF TypeOK
<1>3. /\ phase[c] = "running" /\ Serves(c, NoCall)
      /\ again' = again /\ parent' = parent
  BY DEF Exit, Serves
<1>4. left' \in 0..MaxCalls
  BY <1>1, <1>3, AskedTypes
<1>5. CASE phase[p] = "parked"
  <2>1. PICK m \in Images, buf \in Buffers \cup {NoBuffer} : m = image[p] /\ buf = waddr[p]
    BY <1>1 DEF TypeOK
  <2>2. PICK new : new = Status(m, buf)
    OBVIOUS
  <2>3. NewImage(m, new)
    BY <2>2, StatusTypes
  <2>4. /\ image' = [image EXCEPT ![c] = NoImage, ![p] = new]
        /\ phase' = [phase EXCEPT ![c] = "unused", ![p] = "running"]
        /\ Asks(p, "write", {}, buf)
        /\ waddr' = [waddr EXCEPT ![p] = NoBuffer]
    BY <1>2, <1>5, <2>1, <2>2 DEF Exit, WaitComplete
  <2>5. p # c
    BY <1>3, <1>5
  <2>6. /\ image' \in [Procs -> Images]
        /\ image'[p] = new /\ image'[c] = NoImage
        /\ \A q \in Procs : q # p /\ q # c => image'[q] = image[q]
    BY <1>1, <2>3, <2>4, <2>5, NoImageTypes DEF TypeOK, NewImage
  <2>7. /\ Live(p) /\ Live(p)' /\ ~Live(c)'
        /\ \A q \in Procs : q # p /\ q # c => (Live(q)' <=> Live(q))
    BY <1>1, <1>5, <2>4, <2>5 DEF Live, TypeOK
  <2>8. EmptyInv'
    BY <1>1, <2>6, <2>7, NoImageTypes DEF EmptyInv
  <2>9. DamageInv'
    <3>1. new.lost = Overwritten(new.args)
      BY <1>1, <2>1, <2>3, <2>7 DEF NewImage, SameStack, DamageInv
    <3>2. QED
      BY <1>1, <2>6, <2>7, <3>1 DEF DamageInv
  <2>10. TypeOK'
    <3>1. asked'.proc \in Procs /\ asked'.pages \subseteq Page
      BY <1>1, <2>4, AskedTypes
    <3>2. /\ phase' \in [Procs -> {"unused", "running", "parked", "zombie"}]
          /\ waddr' \in [Procs -> Buffers \cup {NoBuffer}]
      BY <1>1, <2>4 DEF TypeOK
    <3>3. QED
      BY <1>1, <1>3, <1>4, <2>6, <3>1, <3>2 DEF TypeOK
  <2>11. Spared(p)
    BY <2>1, <2>2, <2>4, <2>6, StatusSpared DEF Asks
  <2>12. Spared(c)
    BY <2>6, NoImageTypes, EmptyFacts DEF Spared
  <2>13. \A q \in Procs : q # p /\ q # c => Spared(q)
    BY <2>6 DEF Spared, SparedPage
  <2>14. QED
    BY <2>8, <2>9, <2>10, <2>11, <2>12, <2>13 DEF ImageInv
<1>6. CASE phase[p] # "parked"
  <2>1. /\ Becomes(c, NoImage) /\ phase' = [phase EXCEPT ![c] = "zombie"]
        /\ Asks(c, "exit", {}, NoBuffer) /\ waddr' = waddr
    BY <1>2, <1>6 DEF Exit
  <2>2. ~Live(c)' /\ \A q \in Procs : q # c => (Live(q)' <=> Live(q))
    BY <1>1, <2>1 DEF Live, TypeOK
  <2>3. /\ image' \in [Procs -> Images] /\ EmptyInv' /\ DamageInv'
        /\ image'[c] = NoImage
        /\ \A q \in Procs : q # c => image'[q] = image[q]
    BY <2>1, <2>2, NoImageTypes, OneImage
  <2>4. TypeOK'
    <3>1. asked'.proc \in Procs /\ asked'.pages \subseteq Page
      BY <1>1, <2>1, AskedTypes
    <3>2. phase' \in [Procs -> {"unused", "running", "parked", "zombie"}]
      BY <1>1, <2>1 DEF TypeOK
    <3>3. QED
      BY <1>1, <1>3, <1>4, <2>1, <2>3, <3>1, <3>2 DEF TypeOK
  <2>5. Spared(c)
    BY <2>3, NoImageTypes, EmptyFacts DEF Spared
  <2>6. QED
    BY <2>3, <2>4, <2>5, AllSpared DEF ImageInv
<1>7. QED
  BY <1>5, <1>6

-----------------------------------------------------------------------------
(* What holds of every image                                               *)

\* main's first image.
LEMMA InitImage == Init => ImageInv
<1> SUFFICES ASSUME Init PROVE ImageInv
  OBVIOUS
<1>1. PICK prog \in Programs, args \in ArgLists :
        image = [p \in Procs |-> IF p = Root
                   THEN Loaded(NoImage, LoadProgram(EmptySpace, prog, args), prog, args)
                   ELSE NoImage]
  BY DEF Init
<1>2. PICK n : n = Loaded(NoImage, LoadProgram(EmptySpace, prog, args), prog, args)
  OBVIOUS
<1>3. n \in Images /\ n.lost = Overwritten(n.args)
  BY <1>2, NoImageTypes, EmptyFacts, LoadedTypes
<1>4. image = [p \in Procs |-> IF p = Root THEN n ELSE NoImage]
  BY <1>1, <1>2
<1>5. phase = [p \in Procs |-> IF p = Root THEN "running" ELSE "unused"]
  BY DEF Init
<1>6. TypeOK
  <2>1. phase \in [Procs -> {"unused", "running", "parked", "zombie"}]
    BY <1>5
  <2>2. image \in [Procs -> Images]
    BY <1>3, <1>4, NoImageTypes
  <2>3. /\ again \in [Procs -> Requests \cup {NoCall}] /\ parent \in [Procs -> Procs]
        /\ waddr \in [Procs -> Buffers \cup {NoBuffer}]
        /\ asked.proc \in Procs /\ asked.pages \subseteq Page
    BY ImageAssumption DEF Init, Quiet
  <2>4. left \in 0..MaxCalls
    BY ImageAssumption DEF Init
  <2>5. QED
    BY <2>1, <2>2, <2>3, <2>4 DEF TypeOK
<1>7. EmptyInv
  BY <1>4, <1>5, NoImageTypes DEF EmptyInv, Live
<1>8. DamageInv
  BY <1>3, <1>4, <1>5 DEF DamageInv, Live
<1>9. QED
  BY <1>6, <1>7, <1>8 DEF ImageInv

\* Every call of every process.
LEMMA StepImage ==
  ASSUME ImageInv, TlsInv, Next
  PROVE  ImageInv' /\ \A q \in Procs : Spared(q)
<1>1. CASE \E p \in Procs, call \in Requests :
             \/ Brk(p, call) \/ Mmap(p, call) \/ MmapRefused(p, call)
             \/ MmapNoBuffer(p, call) \/ Munmap(p, call) \/ Mprotect(p, call)
  BY <1>1, MemoryImage
<1>2. CASE \E p \in Procs, buf \in Buffers : Result(p, buf)
  BY <1>2, ResultImage
<1>3. CASE \E p \in Procs, entry \in Entries, base \in Bases \cup {NoBase}, buf \in Buffers :
             SetThreadArea(p, entry, base, buf)
  BY <1>3, ThreadAreaImage
<1>4. CASE \E p, c \in Procs : Fork(p, c)
  BY <1>4, ForkImage
<1>5. CASE \E p \in Procs, prog \in Programs, args \in ArgLists : Execve(p, prog, args)
  BY <1>5, ExecveImage
<1>6. CASE \E p, c \in Procs, buf \in Buffers \cup {NoBuffer} :
             WaitReap(p, c, buf) \/ WaitPark(p, c, buf)
  BY <1>6, ReapImage, ParkImage
<1>7. CASE \E c \in Procs : Exit(c)
  BY <1>7, ExitImage
<1>8. QED
  BY <1>1, <1>2, <1>3, <1>4, <1>5, <1>6, <1>7 DEF Next

\* A step that changes nothing.
LEMMA StutterImage ==
  ASSUME ImageInv, UNCHANGED vars
  PROVE  ImageInv'
BY DEF ImageInv, TypeOK, EmptyInv, DamageInv, Live, vars

\* The invariant of all the images.
LEMMA ImageHolds == Spec => [](ImageInv /\ TlsInv)
<1>1. ImageInv /\ TlsInv /\ [Next]_vars => (ImageInv /\ TlsInv)'
  BY StepImage, StutterImage, StepInv
<1>2. QED
  BY InitImage, InitInv, <1>1, PTL DEF Spec

-----------------------------------------------------------------------------
(* What the runs check                                                     *)

\* Whatever programs are loaded and whatever calls are made, an image keeps its
\* types: every handler's arithmetic on addresses stays within 32 bits, the
\* pages it maps are a task's own, and no descriptor is out of the table.
THEOREM TypeCorrect == Spec => []TypeOK
<1>1. ImageInv => TypeOK
  BY DEF ImageInv
<1>2. QED
  BY ImageHolds, <1>1, PTL

\* For any strings: the first of them is overwritten, and only those that begin
\* less than 24 bytes above the lowest.
LEMMA OverwrittenFacts ==
  ASSUME NEW args \in Args
  PROVE  /\ 1 \in Overwritten(args)
         /\ \A i \in Overwritten(args) : Total(Strings(args), i - 1) < 24
<1>1. /\ Strings(args) \in Seq(Nat) /\ Len(Strings(args)) \in Nat \ {0}
      /\ Len(args.argv) \in Nat /\ Len(args.envp) \in Nat
  BY DEF Strings, Args
<1>2. PICK n \in Nat \ {0} : n = Len(Strings(args))
  BY <1>1
<1>3. \A k \in 0..n : Total(Strings(args), k) \in Nat /\ Total(Strings(args), 0) = 0
  BY <1>1, <1>2, TotalFacts
<1>4. PICK s \in Int : s = Soff(args)
  <2>1. Total(Strings(args), n) \in Nat
    BY <1>2, <1>3
  <2>2. QED
    BY <1>2, <2>1 DEF Soff, BLOCK
<1>5. PICK r \in Nat : r = Reserved(args) /\ Written(args) = r + 6
  <2>1. PICK x \in Nat : x = Pointers(args)
    <3>1. PICK a \in Nat, e \in Nat : a = Len(args.argv) /\ e = Len(args.envp)
      BY <1>1
    <3>2. Pointers(args) = 1 + (a + 1) + (e + 1)
      BY <3>1 DEF Pointers
    <3>3. QED
      BY <3>2
  <2>2. Reserved(args) = x + 28 /\ Written(args) = x + 34
    BY <2>1 DEF Reserved, Written
  <2>3. QED
    BY <2>2
<1>6. PICK v \in Int : v = s - 4 * r
  BY <1>4, <1>5
<1>7. v % 16 \in 0..15
  OBVIOUS
<1>8. Voff(args) = v - (v % 16)
  BY <1>4, <1>5, <1>6 DEF Voff
<1>9. PICK o \in Int : o = Voff(args) /\ o <= v /\ v < o + 16
  BY <1>7, <1>8
<1>10. Overwritten(args) = {i \in 1..n : s + Total(Strings(args), i - 1) < o + 4 * (r + 6)}
  BY <1>2, <1>4, <1>5, <1>9 DEF Overwritten
<1>11. 1 \in Overwritten(args)
  <2>1. s + 0 < o + 4 * (r + 6)
    BY <1>6, <1>9
  <2>2. Total(Strings(args), 1 - 1) = 0
    BY <1>2, <1>3
  <2>3. QED
    BY <1>2, <1>10, <2>1, <2>2
<1>12. ASSUME NEW i \in Overwritten(args) PROVE Total(Strings(args), i - 1) < 24
  <2>1. i \in 1..n /\ s + Total(Strings(args), i - 1) < o + 4 * (r + 6)
    BY <1>10
  <2>2. i - 1 \in 0..n
    BY <2>1
  <2>3. PICK t \in Nat : t = Total(Strings(args), i - 1)
    BY <1>3, <2>2
  <2>4. s + t < o + 4 * (r + 6)
    BY <2>1, <2>3
  <2>5. t < 24
    BY <1>6, <1>9, <2>4
  <2>6. QED
    BY <2>3, <2>5
<1>13. QED
  BY <1>11, <1>12

\* In any guest, through any forks and execs and whatever arguments and
\* environment it was started with, the string build_stack laid lowest is
\* damaged and none is that begins 24 bytes above it.
THEOREM StackDamageHolds == Spec => []StackDamage
<1>1. ASSUME ImageInv PROVE StackDamage
  <2>1. ASSUME NEW p \in Procs, Live(p)
        PROVE  /\ 1 \in image[p].lost
               /\ \A i \in image[p].lost : Total(Strings(image[p].args), i - 1) < 24
    <3>1. image[p].args \in Args
      BY <1>1, ImageFields DEF ImageInv, TypeOK
    <3>2. image[p].lost = Overwritten(image[p].args)
      BY <1>1, <2>1 DEF ImageInv, DamageInv
    <3>3. QED
      BY <3>1, <3>2, OverwrittenFacts
  <2>2. QED
    BY <2>1 DEF StackDamage
<1>2. ImageInv => StackDamage
  BY <1>1
<1>3. QED
  BY ImageHolds, <1>2, PTL

\* Whatever is called and with whatever buffers and lengths, a page that stays
\* mapped keeps its bytes and protection, but for what the call named: no
\* handler's rounding reaches a page beside the range, and a poke gives the rest
\* of its pages back as it read them.
THEOREM OnlyAskedHolds == Spec => OnlyAsked
<1> DEFINE Kept ==
      \A p \in Procs :
        LET old == image[p].space
            new == image'[p].space
            buf == asked'.buf
        IN  asked'.op # "exec" \/ p # asked'.proc =>
            \A g \in Mapped(old) \cap Mapped(new) :
              \/ new[g] = old[g]
              \/ p = asked'.proc /\ g \in asked'.pages
                   /\ (asked'.op = "protect" => new[g].data = old[g].data)
              \/ /\ p = asked'.proc /\ asked'.op = "write"
                 /\ g \in Touched(buf[1], buf[2])
                 /\ new[g].prot = {"read", "write"}
                 /\ Readable(old, buf[1], buf[2]) =>
                      \A i \in Offset : \/ new[g].data[i] = old[g].data[i]
                                        \/ Inside(buf[1], buf[2], g, i)
<1>1. (\A p \in Procs : Spared(p)) => Kept
  BY DEF Spared, SparedPage
<1>2. ImageInv /\ TlsInv /\ [Next]_vars => [Kept]_vars
  BY <1>1, StepImage DEF vars
<1>3. QED
  BY ImageHolds, <1>2, PTL DEF Spec, OnlyAsked

\* A status that is poked into pages that are all there is there afterwards.
LEMMA StatusWritten ==
  ASSUME NEW m \in Images, NEW buf \in Buffers \cup {NoBuffer}, buf[1] # 0,
         PokeOk(m.space, buf[1], buf[2]), NEW g \in Page, NEW i \in Offset,
         Inside(buf[1], buf[2], g, i)
  PROVE  Status(m, buf).space[g].data[i] = "result"
<1>1. buf[1] \in Nat /\ buf[2] \in Nat
  BY ImageAssumption DEF NoBuffer, Address
<1>2. m.space \in Space /\ "result" \in Tags
  BY ImageFields, ImageAssumption
<1>3. Status(m, buf).space = Poke(m.space, buf[1], buf[2], "result")
  BY DEF Status, Images
<1>4. Poke(m.space, buf[1], buf[2], "result")[g].data[i] = "result"
  BY <1>1, <1>2, PokeFacts
<1>5. QED
  BY <1>3, <1>4

\* A slot is given back by the wait4 of a zombie or by the exit of a child that
\* is waited for.
LEMMA CollectedBy ==
  ASSUME ImageInv, Next, NEW c \in Procs, phase[c] # "unused", phase'[c] = "unused"
  PROVE  \/ \E p \in Procs, buf \in Buffers \cup {NoBuffer} : WaitReap(p, c, buf)
         \/ Exit(c) /\ phase[parent[c]] = "parked"
<1>1. phase \in [Procs -> {"unused", "running", "parked", "zombie"}]
  BY DEF ImageInv, TypeOK
<1>2. phase' # phase
  OBVIOUS
<1>3. ASSUME NEW p \in Procs, NEW call \in Requests,
             \/ Brk(p, call) \/ Mmap(p, call) \/ MmapRefused(p, call)
             \/ MmapNoBuffer(p, call) \/ Munmap(p, call) \/ Mprotect(p, call)
      PROVE  FALSE
  <2>1. phase' = phase
    BY <1>3 DEF Brk, Mmap, MmapRefused, MmapNoBuffer, Munmap, Mprotect, Remaps
  <2>2. QED
    BY <1>2, <2>1
<1>4. ASSUME NEW p \in Procs, NEW new, NEW buf, Writes(p, new, buf) PROVE FALSE
  BY <1>2, <1>4 DEF Writes
<1>5. ASSUME NEW p \in Procs, NEW k \in Procs, Fork(p, k) PROVE FALSE
  BY <1>1, <1>5 DEF Fork
<1>6. ASSUME NEW p \in Procs, NEW prog, NEW args, Execve(p, prog, args) PROVE FALSE
  BY <1>1, <1>6 DEF Execve
<1>7. ASSUME NEW p \in Procs, NEW k \in Procs, NEW buf, WaitPark(p, k, buf) PROVE FALSE
  BY <1>1, <1>7 DEF WaitPark
<1>8. ASSUME NEW p \in Procs, NEW k \in Procs, NEW buf, WaitReap(p, k, buf) PROVE k = c
  <2>1. phase' = phase \/ phase' = [phase EXCEPT ![k] = "unused"]
    BY <1>8 DEF WaitReap
  <2>2. QED
    BY <1>1, <2>1
<1>9. ASSUME NEW k \in Procs, Exit(k) PROVE k = c /\ phase[parent[c]] = "parked"
  <2>1. \/ /\ phase[parent[k]] = "parked"
           /\ phase' = [phase EXCEPT ![k] = "unused", ![parent[k]] = "running"]
        \/ phase' = [phase EXCEPT ![k] = "zombie"]
    BY <1>9 DEF Exit
  <2>2. QED
    BY <1>1, <2>1
<1>10. QED
  BY <1>3, <1>4, <1>5, <1>6, <1>7, <1>8, <1>9 DEF Next, Result, SetThreadArea

\* In any order of exit and wait4, and with any buffers, a child is collected
\* with its status where its parent wanted it; a parked parent whose buffer is
\* not mapped is the one exception.
THEOREM StatusDeliveredHolds == Spec => StatusDelivered
<1> DEFINE Delivered ==
      \A c \in Procs :
        LET p    == parent[c]
            buf  == asked'.buf
            done == image'[p].space
        IN  phase[c] # "unused" /\ phase'[c] = "unused" =>
              \/ buf[1] = 0
              \/ phase[p] = "parked" /\ ~PokeOk(image[p].space, buf[1], buf[2])
              \/ \A g \in Page, i \in Offset :
                   Inside(buf[1], buf[2], g, i) => done[g].data[i] = "result"
<1>1. ASSUME ImageInv, Next, NEW c \in Procs, phase[c] # "unused", phase'[c] = "unused"
      PROVE  \/ asked'.buf[1] = 0
             \/ /\ phase[parent[c]] = "parked"
                /\ ~PokeOk(image[parent[c]].space, asked'.buf[1], asked'.buf[2])
             \/ \A g \in Page, i \in Offset :
                  Inside(asked'.buf[1], asked'.buf[2], g, i) =>
                    image'[parent[c]].space[g].data[i] = "result"
  <2>1. PICK p \in Procs : p = parent[c]
    BY <1>1 DEF ImageInv, TypeOK
  <2>2. PICK m \in Images : m = image[p]
    BY <1>1 DEF ImageInv, TypeOK
  <2>3. CASE \E q \in Procs, buf \in Buffers \cup {NoBuffer} : WaitReap(q, c, buf)
    <3>1. PICK q \in Procs, buf \in Buffers \cup {NoBuffer} : WaitReap(q, c, buf)
      BY <2>3
    <3>2. /\ q = p /\ asked'.buf = buf /\ image'[p] = Status(m, buf)
      BY <1>1, <2>1, <2>2, <3>1 DEF WaitReap, Becomes, Asks, ImageInv, TypeOK
    <3>3. buf[1] = 0 \/ PokeOk(m.space, buf[1], buf[2])
      BY <1>1, <2>2, <3>1, <3>2 DEF WaitReap
    <3>4. QED
      BY <2>1, <3>2, <3>3, StatusWritten
  <2>4. CASE Exit(c) /\ phase[parent[c]] = "parked"
    <3>1. PICK buf \in Buffers \cup {NoBuffer} : buf = waddr[p]
      BY <1>1 DEF ImageInv, TypeOK
    <3>2. asked'.buf = buf /\ image'[p] = Status(m, buf)
      <4>1. /\ image' = [image EXCEPT ![c] = NoImage, ![p] = Status(m, buf)]
            /\ Asks(p, "write", {}, buf)
        BY <2>1, <2>2, <2>4, <3>1 DEF Exit, WaitComplete
      <4>2. QED
        BY <1>1, <4>1 DEF Asks, ImageInv, TypeOK
    <3>3. QED
      BY <2>1, <2>2, <2>4, <3>2, StatusWritten
  <2>5. QED
    BY <1>1, <2>3, <2>4, CollectedBy
<1>2. ImageInv /\ Next => Delivered
  BY <1>1
<1>3. ImageInv /\ TlsInv /\ [Next]_vars => [Delivered]_vars
  BY <1>2 DEF vars
<1>4. QED
  BY ImageHolds, <1>3, PTL DEF Spec, StatusDelivered

-----------------------------------------------------------------------------
(* What a guest can conclude from its answers                              *)

\* A program without a hole: each claim is free or taken as a whole when its
\* turn comes.
LEMMA NoHoleFits ==
  ASSUME NEW prog \in Programs, ~HasHole(prog)
  PROVE  /\ \A j \in 1..Len(prog.segs) :
              LET U == {} \cup ClaimsTo(prog, PIE_BASE, j - 1)
                  C == ClaimOf(prog, PIE_BASE, j)
              IN  C \cap U = {} \/ C \subseteq U
         /\ prog.interp # <<>> =>
              \A j \in 1..Len(prog.interp[1].segs) :
                LET U == ClaimsTo(prog, PIE_BASE, Len(prog.segs))
                           \cup ClaimsTo(prog.interp[1], INTERP_BASE, j - 1)
                    C == ClaimOf(prog.interp[1], INTERP_BASE, j)
                IN  C \cap U = {} \/ C \subseteq U
<1> DEFINE P == Claims(prog)
           n == Len(prog.segs)
           ld == prog.interp[1]
           m == Len(ld.segs)
<1>1. /\ n \in Nat /\ P \in Seq(SUBSET Page)
      /\ prog.interp = <<>> => Len(P) = n
      /\ prog.interp # <<>> => /\ m \in Nat /\ Len(P) = n + m
                               /\ \A k \in 1..m : P[n + k] = ClaimOf(ld, INTERP_BASE, k)
      /\ \A k \in 1..n : P[k] = ClaimOf(prog, PIE_BASE, k)
  BY ClaimsFacts
<1>2. \A i, j \in 1..Len(P) : i < j => P[i] \cap P[j] = {} \/ P[j] \subseteq P[i]
  BY <1>1 DEF HasHole
<1> HIDE DEF P, n, m, ld
<1>3. ASSUME NEW j \in 1..n
      PROVE  LET U == {} \cup ClaimsTo(prog, PIE_BASE, j - 1)
                 C == ClaimOf(prog, PIE_BASE, j)
             IN  C \cap U = {} \/ C \subseteq U
  <2>1. j \in 1..Len(P) /\ \A i \in 1..(j - 1) : i \in 1..Len(P) /\ i \in 1..n /\ i < j
    BY <1>1
  <2>2. \A i \in 1..(j - 1) :
          \/ ClaimOf(prog, PIE_BASE, i) \cap ClaimOf(prog, PIE_BASE, j) = {}
          \/ ClaimOf(prog, PIE_BASE, j) \subseteq ClaimOf(prog, PIE_BASE, i)
    BY <1>1, <1>2, <2>1
  <2>3. QED
    BY <2>2 DEF ClaimsTo
<1>4. ASSUME prog.interp # <<>>, NEW j \in 1..m
      PROVE  LET U == ClaimsTo(prog, PIE_BASE, n) \cup ClaimsTo(ld, INTERP_BASE, j - 1)
                 C == ClaimOf(ld, INTERP_BASE, j)
             IN  C \cap U = {} \/ C \subseteq U
  <2>1. /\ m \in Nat /\ Len(P) = n + m
        /\ \A k \in 1..m : P[n + k] = ClaimOf(ld, INTERP_BASE, k)
    BY <1>1, <1>4
  <2>2. /\ n + j \in 1..Len(P)
        /\ \A i \in 1..n : i \in 1..Len(P) /\ i < n + j
        /\ \A i \in 1..(j - 1) : n + i \in 1..Len(P) /\ i \in 1..m /\ n + i < n + j
    BY <1>1, <2>1
  <2>3. \A i \in 1..n :
          \/ ClaimOf(prog, PIE_BASE, i) \cap ClaimOf(ld, INTERP_BASE, j) = {}
          \/ ClaimOf(ld, INTERP_BASE, j) \subseteq ClaimOf(prog, PIE_BASE, i)
    BY <1>1, <1>2, <2>1, <2>2
  <2>4. \A i \in 1..(j - 1) :
          \/ ClaimOf(ld, INTERP_BASE, i) \cap ClaimOf(ld, INTERP_BASE, j) = {}
          \/ ClaimOf(ld, INTERP_BASE, j) \subseteq ClaimOf(ld, INTERP_BASE, i)
    BY <1>2, <2>1, <2>2
  <2>5. QED
    BY <2>3, <2>4 DEF ClaimsTo
<1>5. QED
  BY <1>3, <1>4 DEF n, m, ld

\* A program that has been loaded into nothing has no other pages than its own,
\* all of them if there is no hole, and its break is in user space.
LEMMA ProgramMapped ==
  ASSUME NEW s \in Space, Mapped(s) = {}, NEW prog \in Programs, NEW args,
         LoadProgram(s, prog, args).ok
  PROVE  LET new == LoadProgram(s, prog, args)
         IN  /\ Mapped(new.space) \subseteq ProgramPages(prog)
             /\ ~HasHole(prog) => Mapped(new.space) = ProgramPages(prog)
             /\ new.brk <= UserPages * PageSize
<1>1. prog \in Objects /\ Len(prog.interp) <= 1
  BY ImageAssumption
<1>2. /\ prog.segs \in Seq(Segments) /\ prog.entry \in Address /\ prog.fixed \in BOOLEAN
      /\ prog.interp \in Seq(Interpreters)
  BY <1>1 DEF Objects
<1>3. PIE_BASE \in Address /\ INTERP_BASE \in Address
  BY LayoutFacts
<1> DEFINE new == LoadProgram(s, prog, args)
           C == ClaimsTo(prog, PIE_BASE, Len(prog.segs))
<1>4. PICK exe \in Outs : exe = LoadOne(s, prog, PIE_BASE)
  BY <1>2, <1>3, ObjectOuts
<1>5. exe.ok /\ exe.space \in Space /\ exe.brk \in Address
  BY <1>1, <1>4, ProgramParts DEF Outs
<1>6. /\ Mapped(exe.space) \subseteq C
      /\ ~HasHole(prog) => Mapped(exe.space) = C
      /\ exe.brk <= UserPages * PageSize
  <2>1. /\ Mapped(exe.space) \subseteq Mapped(s) \cup C
        /\ (\A j \in 1..Len(prog.segs) :
              LET U == Mapped(s) \cup ClaimsTo(prog, PIE_BASE, j - 1)
              IN  \/ ClaimOf(prog, PIE_BASE, j) \cap U = {}
                  \/ ClaimOf(prog, PIE_BASE, j) \subseteq U)
             => Mapped(exe.space) = Mapped(s) \cup C
        /\ exe.brk <= UserPages * PageSize
    BY <1>2, <1>3, <1>4, <1>5, ObjectMapped
  <2>2. ~HasHole(prog) =>
          \A j \in 1..Len(prog.segs) :
            LET U == Mapped(s) \cup ClaimsTo(prog, PIE_BASE, j - 1)
            IN  \/ ClaimOf(prog, PIE_BASE, j) \cap U = {}
                \/ ClaimOf(prog, PIE_BASE, j) \subseteq U
    BY NoHoleFits
  <2> HIDE DEF C
  <2>3. QED
    BY <2>1, <2>2
<1>7. CASE prog.interp = <<>>
  <2>1. /\ BuildStack(exe.space, args).ok /\ new.brk = exe.brk
        /\ new.space = BuildStack(exe.space, args).space
    BY <1>1, <1>4, <1>7, ProgramParts
  <2>2. Mapped(new.space) = Mapped(exe.space) \cup StackPages
    BY <1>5, <2>1, StackMapped DEF StackPages
  <2>3. ProgramPages(prog) = StackPages \cup C
    BY <1>7, ProgramPagesFacts
  <2> HIDE DEF new, C
  <2>4. QED
    BY <1>6, <2>1, <2>2, <2>3 DEF new
<1>8. CASE prog.interp # <<>>
  <2>1. PICK ld \in Interpreters : ld = prog.interp[1]
    BY <1>2, <1>8
  <2>2. ld.segs \in Seq(Segments) /\ ld.entry \in Address /\ ld.fixed \in BOOLEAN
    BY DEF Interpreters
  <2> DEFINE L == ClaimsTo(ld, INTERP_BASE, Len(ld.segs))
  <2>3. PICK lo \in Outs : lo = LoadOne(exe.space, ld, INTERP_BASE)
    BY <1>3, <1>5, <2>2, ObjectOuts
  <2>4. /\ lo.ok /\ BuildStack(lo.space, args).ok /\ new.brk \in {exe.brk, lo.brk}
        /\ new.space = BuildStack(lo.space, args).space
    BY <1>1, <1>4, <1>8, <2>1, <2>3, ProgramParts
  <2>5. /\ Mapped(lo.space) \subseteq Mapped(exe.space) \cup L
        /\ (\A j \in 1..Len(ld.segs) :
              LET U == Mapped(exe.space) \cup ClaimsTo(ld, INTERP_BASE, j - 1)
              IN  \/ ClaimOf(ld, INTERP_BASE, j) \cap U = {}
                  \/ ClaimOf(ld, INTERP_BASE, j) \subseteq U)
             => Mapped(lo.space) = Mapped(exe.space) \cup L
        /\ lo.brk <= UserPages * PageSize
    BY <1>3, <1>5, <2>2, <2>3, <2>4, ObjectMapped
  <2>6. ~HasHole(prog) =>
          \A j \in 1..Len(ld.segs) :
            LET U == Mapped(exe.space) \cup ClaimsTo(ld, INTERP_BASE, j - 1)
            IN  \/ ClaimOf(ld, INTERP_BASE, j) \cap U = {}
                \/ ClaimOf(ld, INTERP_BASE, j) \subseteq U
    BY <1>6, <1>8, <2>1, NoHoleFits
  <2>7. lo.space \in Space
    BY DEF Outs
  <2>8. Mapped(new.space) = Mapped(lo.space) \cup StackPages
    BY <2>4, <2>7, StackMapped DEF StackPages
  <2>9. ProgramPages(prog) = StackPages \cup C \cup L
    BY <1>8, <2>1, ProgramPagesFacts
  <2> HIDE DEF new, C, L
  <2>10. ~HasHole(prog) => Mapped(lo.space) = C \cup L
    BY <1>6, <2>5, <2>6
  <2>11. QED
    BY <1>6, <2>4, <2>5, <2>8, <2>9, <2>10 DEF new
<1>9. QED
  BY <1>7, <1>8

\* brk maps and unmaps the pages between the old break and the new one.
LEMMA BrkMapped ==
  ASSUME NEW m \in Images, m.hi <= Top - PageSize, NEW want \in Address,
         want <= Top - PageSize
  PROVE  LET b == BrkOf(m, want)
             up == {g \in Page : m.hi <= g * PageSize /\ g * PageSize < b.hi}
             down == {g \in Page : b.hi <= g * PageSize /\ g * PageSize < m.hi}
         IN  /\ b.hi \in {m.hi, want}
             /\ Mapped(b.space) = (Mapped(m.space) \cup up) \ down
             /\ b.view = m.view /\ b.stray = m.stray
<1> DEFINE b == BrkOf(m, want)
           s == m.space
           old == PAGE_UP(m.hi)
           new == PAGE_UP(want)
           taken == Allocate(s, old, new - old)
           grow == Protect(taken, old, new - old, {"read", "write"})
           shrunk == Deallocate(s, new, old - new)
           Between(x, y) == {g \in Page : x <= g * PageSize /\ g * PageSize < y}
<1>1. s \in Space /\ m.hi \in Address
  BY ImageFields
<1>2. PageSize \in Nat \ {0} /\ Top \in Nat \ {0} /\ \A g \in Page : g * PageSize \in Nat
  BY Sizes DEF Page
<1>3. m.hi \in Nat /\ want \in Nat /\ m.hi + PageSize <= Top /\ want + PageSize <= Top
  BY <1>1, <1>2 DEF Address
<1>4. old \in 0..(Top - 1) /\ new \in 0..(Top - 1)
  BY <1>1, PageUp DEF Address
<1>5. \A g \in Page : /\ g * PageSize < old <=> g * PageSize < m.hi
                      /\ g * PageSize < new <=> g * PageSize < want
  BY <1>3, RoundedUp
<1> HIDE DEF old, new
<1>6. /\ Between(old, new) = Between(m.hi, want)
      /\ Between(new, old) = Between(want, m.hi)
  <2>1. \A g \in Page : /\ old <= g * PageSize <=> m.hi <= g * PageSize
                        /\ new <= g * PageSize <=> want <= g * PageSize
    BY <1>2, <1>3, <1>4, <1>5
  <2>2. QED
    BY <1>5, <2>1
<1>7. CASE b = m
  <2>1. b.hi = m.hi
    BY <1>7
  <2>2. Between(m.hi, m.hi) = {}
    BY <1>2, <1>3
  <2> HIDE DEF b
  <2>3. QED
    BY <1>7, <2>1, <2>2 DEF b
<1>8. CASE new > old /\ b = [m EXCEPT !.space = grow, !.hi = want]
  <2>1. Pages(old, new - old) = Between(old, new)
    <3>1. old + (new - old) = new /\ Wrap(new) = new
      BY <1>2, <1>4, WrapFacts
    <3>2. QED
      BY <3>1 DEF Pages
  <2>2. Between(new, old) = {}
    BY <1>2, <1>4, <1>8
  <2>3. taken \in Space /\ Mapped(taken) = Mapped(s) \cup Between(old, new)
    BY <1>1, <2>1, SpaceFacts, AllocateMapped
  <2> HIDE DEF taken
  <2>4. Mapped(grow) = Mapped(taken)
    <3>1. {"read", "write"} \in Prot
      BY DEF Prot
    <3>2. QED
      BY <2>3, <3>1, ProtectMapped
  <2> HIDE DEF grow, b
  <2>5. b.space = grow /\ b.hi = want /\ b.view = m.view /\ b.stray = m.stray
    BY <1>8 DEF Images
  <2> HIDE DEF s
  <2>6. Mapped(b.space) = (Mapped(s) \cup Between(m.hi, want)) \ Between(want, m.hi)
    BY <1>6, <2>2, <2>3, <2>4, <2>5
  <2>7. QED
    BY <2>5, <2>6 DEF b, s
<1>9. CASE ~(new > old) /\ b = [m EXCEPT !.space = shrunk, !.hi = want]
  <2>1. Pages(new, old - new) = Between(new, old)
    <3>1. new + (old - new) = old /\ Wrap(old) = old
      BY <1>2, <1>4, WrapFacts
    <3>2. QED
      BY <3>1 DEF Pages
  <2>2. Between(old, new) = {}
    BY <1>2, <1>4, <1>9
  <2>3. Mapped(shrunk) = Mapped(s) \ Between(new, old)
    BY <1>1, <2>1, DeallocateMapped
  <2> HIDE DEF shrunk, b
  <2>4. b.space = shrunk /\ b.hi = want /\ b.view = m.view /\ b.stray = m.stray
    BY <1>9 DEF Images
  <2> HIDE DEF s
  <2>5. Mapped(b.space) = (Mapped(s) \cup Between(m.hi, want)) \ Between(want, m.hi)
    BY <1>6, <2>2, <2>3, <2>4
  <2>6. QED
    BY <2>4, <2>5 DEF b, s
<1>10. \/ b = m
       \/ new > old /\ b = [m EXCEPT !.space = grow, !.hi = want]
       \/ ~(new > old) /\ b = [m EXCEPT !.space = shrunk, !.hi = want]
  BY Zenon DEF BrkOf, old, new
<1>11. QED
  BY <1>7, <1>8, <1>9, <1>10

\* An address in the last page of 32 bits is rounded up to 0.
LEMMA RoundedToNothing ==
  ASSUME NEW x \in Address, x > Top - PageSize
  PROVE  PAGE_UP(x) = 0
<1>1. PageSize \in Nat \ {0} /\ Top \in Nat \ {0} /\ PageSize <= Top /\ x \in Nat /\ x < Top
  BY Sizes DEF Address
<1> DEFINE y == x + PageSize - 1
<1>2. y \in Nat /\ Top <= y /\ y < 2 * Top
  BY <1>1
<1>3. PICK w \in Nat : w = Wrap(y) /\ w < PageSize
  BY <1>1, <1>2, WrapFacts
<1>4. PAGE_DOWN(w) = 0
  <2>1. PICK k \in Nat : PAGE_DOWN(w) = k * PageSize /\ k * PageSize <= w
    BY PageDown
  <2>2. CASE k = 0
    BY <1>1, <2>1, <2>2
  <2>3. CASE k >= 1
    <3>1. 1 * PageSize <= k * PageSize
      BY <1>1, <2>3, Multiples
    <3>2. QED
      BY <1>1, <1>3, <2>1, <3>1
  <2>4. QED
    BY <2>2, <2>3
<1>5. QED
  BY <1>3, <1>4 DEF PAGE_UP

\* A break that wraps maps nothing, and gives back what was below the old one or
\* nothing.
LEMMA BrkWrapped ==
  ASSUME NEW m \in Images, NEW want \in Address, want > Top - PageSize
  PROVE  LET b == BrkOf(m, want)
         IN  b.hi \in {m.hi, want} /\ Mapped(b.space) \subseteq Mapped(m.space)
<1> DEFINE b == BrkOf(m, want)
           old == PAGE_UP(m.hi)
           new == PAGE_UP(want)
           shrunk == Deallocate(m.space, new, old - new)
<1>1. m.space \in Space /\ old \in Nat /\ ~(new > old)
  <2>1. new = 0
    BY RoundedToNothing
  <2>2. old \in 0..(Top - 1)
    BY ImageFields, PageUp DEF Address
  <2> HIDE DEF old, new
  <2>3. QED
    BY <2>1, <2>2, ImageFields
<1>2. b = m \/ b = [m EXCEPT !.space = shrunk, !.hi = want]
  BY <1>1, Zenon DEF BrkOf
<1>3. Mapped(shrunk) \subseteq Mapped(m.space)
  BY <1>1, DeallocateMapped
<1> HIDE DEF b, shrunk
<1>4. \/ b.space = m.space /\ b.hi = m.hi
      \/ b.space = shrunk /\ b.hi = want
  BY <1>2 DEF Images
<1>5. QED
  BY <1>3, <1>4 DEF b

\* The break granted after one that had wrapped finds nothing in its way below it,
\* and maps all of that.
LEMMA BrkUnwrapped ==
  ASSUME NEW m \in Images, m.hi > Top - PageSize, NEW want \in Address,
         want <= Top - PageSize
  PROVE  LET b == BrkOf(m, want)
         IN  \/ b = m
             \/ /\ b.hi = want
                /\ {g \in Page : g * PageSize < want} \subseteq Mapped(b.space)
<1> DEFINE b == BrkOf(m, want)
           s == m.space
           old == PAGE_UP(m.hi)
           new == PAGE_UP(want)
           taken == Allocate(s, old, new - old)
           grow == Protect(taken, old, new - old, {"read", "write"})
           low == {g \in Page : g * PageSize < want}
<1>1. s \in Space /\ m.hi \in Address
  BY ImageFields
<1>2. /\ PageSize \in Nat \ {0} /\ Top \in Nat \ {0} /\ \A g \in Page : g * PageSize \in Nat
      /\ want \in Nat /\ want + PageSize <= Top
  BY Sizes DEF Page, Address
<1>3. old = 0
  BY <1>1, RoundedToNothing
<1>4. new \in 0..(Top - 1) /\ want <= new
  BY <1>2, PageUp DEF Address
<1>5. \/ b = m
      \/ new > old /\ b = [m EXCEPT !.space = grow, !.hi = want]
      \/ want # 0 /\ ~(new > old)
  BY Zenon DEF BrkOf
<1> HIDE DEF old, new
<1>6. ~(want # 0 /\ ~(new > old))
  BY <1>2, <1>3, <1>4
<1>7. CASE new > old /\ b = [m EXCEPT !.space = grow, !.hi = want]
  <2>1. low \subseteq Pages(old, new - old)
    <3>1. old + (new - old) = new /\ Wrap(new) = new
      BY <1>2, <1>3, <1>4, WrapFacts
    <3>2. \A g \in Page : g * PageSize < want => old <= g * PageSize /\ g * PageSize < new
      BY <1>2, <1>3, <1>4
    <3>3. QED
      BY <3>1, <3>2 DEF Pages
  <2>2. taken \in Space /\ Mapped(taken) = Mapped(s) \cup Pages(old, new - old)
    BY <1>1, SpaceFacts, AllocateMapped
  <2> HIDE DEF taken
  <2>3. Mapped(grow) = Mapped(taken)
    <3>1. {"read", "write"} \in Prot
      BY DEF Prot
    <3>2. QED
      BY <2>2, <3>1, ProtectMapped
  <2> HIDE DEF grow, b
  <2>4. b.space = grow /\ b.hi = want
    BY <1>7 DEF Images
  <2> HIDE DEF low, s
  <2>5. low \subseteq Mapped(b.space)
    BY <2>1, <2>2, <2>3, <2>4
  <2>6. QED
    BY <2>4, <2>5 DEF b, low
<1>8. QED
  BY <1>5, <1>6, <1>7

\* A mapping that is granted maps the pages it was asked for, and loses none:
\* what MAP_FIXED drops it maps again.
LEMMA MmapMapped ==
  ASSUME NEW s \in Space, NEW call \in Requests, call.op = "mmap", call.len > 0,
         NEW a \in MmapAt(s, call)
  PROVE  LET new == Mapped(MmapSpace(s, call, a))
         IN  /\ Mapped(s) \subseteq new
             /\ call.len <= Top - PageSize => new = Mapped(s) \cup Spanned(a, call.len)
             /\ call.len > Top - PageSize => new = Mapped(s)
<1> DEFINE n == PAGE_UP(call.len)
           at == PAGE_DOWN(call.addr)
           base == MmapBase(s, call)
<1>1. /\ call.len \in Nat /\ call.len \in Address /\ call.fixed \in BOOLEAN
      /\ a \in Address /\ PAGE_DOWN(a) = a
  BY RequestFacts, MmapAtFacts DEF Address
<1>2. n \in 0..(Top - 1) /\ n \in Address
  BY <1>1, PageUp DEF Address
<1>3. base \in Space
  BY MmapTypes
<1>4. call.fixed => a = at
  BY DEF MmapAt
<1>5. /\ call.fixed => Mapped(base) = Mapped(s) \ Pages(a, n)
      /\ ~call.fixed => base = s
  <2>1. call.fixed => base = Deallocate(s, at, n)
    BY DEF MmapBase
  <2>2. ~call.fixed => base = s
    BY DEF MmapBase
  <2> HIDE DEF base, at, n
  <2>3. QED
    BY <1>4, <2>1, <2>2, DeallocateMapped
<1>6. Mapped(MmapSpace(s, call, a)) = Mapped(base) \cup Pages(a, n)
  <2>1. MmapSpace(s, call, a) = Allocate(base, a, n)
    BY DEF MmapSpace
  <2> HIDE DEF base, n
  <2>2. QED
    BY <1>3, <2>1, AllocateMapped
<1>7. (n > 0 => InUser(a, n)) /\ (n = 0 => a = 0)
  <2>1. CASE call.fixed
    BY <2>1 DEF MmapAt, CanAllocate
  <2>2. CASE ~call.fixed
    BY <1>2, <2>2 DEF MmapAt, CanAllocate, Holes
  <2>3. QED
    BY <1>1, <2>1, <2>2
<1> HIDE DEF base, at, n
<1>8. Mapped(MmapSpace(s, call, a)) = Mapped(s) \cup Pages(a, n)
  BY <1>1, <1>5, <1>6
<1>9. ASSUME call.len <= Top - PageSize PROVE Pages(a, n) = Spanned(a, call.len)
  <2>1. PageSize \in Nat \ {0} /\ Top \in Nat \ {0} /\ \A g \in Page : g * PageSize \in Nat
    BY Sizes DEF Page
  <2>2. call.len + PageSize <= Top /\ a \in Nat
    BY <1>1, <1>9, <2>1 DEF Address
  <2>3. call.len <= n
    BY <1>1, <2>2, PageUp DEF n, Address
  <2>4. InUser(a, n)
    BY <1>1, <1>2, <1>7, <2>3
  <2>5. Pages(a, n) = {g \in Page : a <= g * PageSize /\ g * PageSize < a + n}
    BY <1>1, <1>2, <2>4, RangeFacts
  <2>6. Spanned(a, call.len) \subseteq Pages(a, n)
    <3>1. \A g \in Page : g * PageSize < a + call.len => g * PageSize < a + n
      BY <1>1, <1>2, <2>1, <2>2, <2>3
    <3>2. QED
      BY <1>1, <2>5, <3>1 DEF Spanned
  <2>7. Pages(a, n) \subseteq Spanned(a, call.len)
    BY <1>1, RangeSpanned DEF n
  <2>8. QED
    BY <2>6, <2>7
<1>10. ASSUME call.len > Top - PageSize PROVE Pages(a, n) = {}
  <2>1. n = 0
    BY <1>1, <1>10, RoundedToNothing DEF n
  <2>2. a = 0
    BY <1>7, <2>1
  <2>3. Wrap(0 + 0) = 0
    BY Sizes, WrapFacts
  <2>4. \A g \in Page : g * PageSize \in Nat
    BY Sizes DEF Page
  <2>5. QED
    BY <2>1, <2>2, <2>3, <2>4 DEF Pages
<1>11. QED
  BY <1>8, <1>9, <1>10

\* munmap unmaps nothing but the pages it names, and all of them if it begins at
\* a page's first address and nothing wraps.
LEMMA MunmapMapped ==
  ASSUME NEW s \in Space, NEW addr \in Address, NEW len \in Address
  PROVE  LET new == Mapped(Deallocate(s, PAGE_DOWN(addr), PAGE_UP(len)))
         IN  /\ new \subseteq Mapped(s) /\ Mapped(s) \ Spanned(addr, len) \subseteq new
             /\ PAGE_DOWN(addr) = addr /\ addr + len <= Top - PageSize
                  => new = Mapped(s) \ Spanned(addr, len)
<1> DEFINE n == PAGE_UP(len)
<1>1. Mapped(Deallocate(s, PAGE_DOWN(addr), n)) = Mapped(s) \ Pages(PAGE_DOWN(addr), n)
  BY DeallocateMapped
<1>2. Pages(PAGE_DOWN(addr), n) \subseteq Spanned(addr, len)
  BY RangeSpanned
<1>3. ASSUME PAGE_DOWN(addr) = addr, addr + len <= Top - PageSize
      PROVE  Spanned(addr, len) \subseteq Pages(addr, n)
  <2>1. /\ PageSize \in Nat \ {0} /\ Top \in Nat \ {0} /\ \A g \in Page : g * PageSize \in Nat
        /\ addr \in Nat /\ len \in Nat
    BY Sizes DEF Page, Address
  <2>2. len + PageSize <= Top /\ addr + len + PageSize <= Top
    BY <1>3, <2>1
  <2>3. n \in Nat /\ len <= n /\ n < len + PageSize
    BY <2>1, <2>2, PageUp DEF Address
  <2> HIDE DEF n
  <2>4. addr + n \in Nat /\ addr + n < Top /\ addr + len <= addr + n
    BY <2>1, <2>2, <2>3
  <2>5. Wrap(addr + n) = addr + n
    BY <2>4, WrapFacts
  <2>6. \A g \in Page : g * PageSize < addr + len => g * PageSize < addr + n
    BY <2>1, <2>3, <2>4
  <2>7. QED
    BY <1>3, <2>5, <2>6 DEF Spanned, Pages
<1> HIDE DEF n
<1>4. QED
  BY <1>1, <1>2, <1>3 DEF n

\* No page of a task is that near the top.
LEMMA PageBelow == \A g \in Page : g * PageSize <= Top - PageSize
<1> SUFFICES ASSUME NEW g \in Page PROVE g * PageSize <= Top - PageSize
  OBVIOUS
<1>1. /\ PageSize \in Nat /\ Top \in Nat /\ UserPages \in Nat
      /\ UserPages * PageSize \in Nat /\ UserPages * PageSize + PageSize <= Top
  BY Sizes
<1>2. g \in Nat /\ g <= UserPages
  BY <1>1 DEF Page
<1>3. g * PageSize \in Nat /\ g * PageSize <= UserPages * PageSize
  BY <1>1, <1>2, Multiples
<1>4. QED
  BY <1>1, <1>3

\* A guest that asks for the break it has, at LONG_MIN, asks for ever.
Stuck(m, call) == call.op = "brk" /\ call.want = HALF /\ m.hi = HALF

\* What ViewAgrees says of an image whose guest makes call again; and where its
\* break is.
ViewOk(m, call) ==
  /\ m.stray = {} => Mapped(m.space) = m.view
  /\ m.stray \subseteq Losing => Mapped(m.space) \subseteq m.view
  /\ m.stray \subseteq Leaving => m.view \subseteq Mapped(m.space) \/ Stuck(m, call)
  /\ "wrap" \notin m.stray => m.hi <= Top - PageSize

ViewInv == \A p \in Procs : Live(p) => ViewOk(image[p], again[p])

\* n has what ViewOk speaks of from m.
SameView(m, n) ==
  /\ Mapped(n.space) = Mapped(m.space)
  /\ n.view = m.view /\ n.stray = m.stray /\ n.hi = m.hi

\* And then what is said of m's view is said of n's.
LEMMA SameViewOk ==
  ASSUME NEW m, NEW n, SameView(m, n), NEW call, ViewOk(m, call)
  PROVE  ViewOk(n, call)
BY DEF SameView, ViewOk, Stuck

\* Once pages have been lost and others have been left nothing is claimed.
LEMMA BothOk ==
  ASSUME NEW m, "wrap" \in m.stray, "half" \in m.stray, NEW call
  PROVE  ViewOk(m, call)
BY DEF ViewOk, Losing, Leaving

\* Map and view stay together when both get the same pages and lose the same.
LEMMA DeltaOk ==
  ASSUME NEW m, NEW n, NEW call, NEW other, ViewOk(m, call), ~Stuck(m, call),
         NEW up, NEW down, n.stray = m.stray,
         Mapped(n.space) = (Mapped(m.space) \cup up) \ down,
         n.view = (m.view \cup up) \ down,
         "wrap" \notin n.stray => n.hi <= Top - PageSize
  PROVE  ViewOk(n, other)
BY DEF ViewOk

\* A guest that makes another call than brk is not stuck.
LEMMA NotStuck ==
  ASSUME NEW p, NEW call, Serves(p, call), call.op # "brk", NEW m
  PROVE  ~Stuck(m, again[p])
BY DEF Serves, Stuck, NoCall

\* No answer but an address is LONG_MIN, and it is no break that wraps.
LEMMA HalfFacts ==
  /\ HALF \in Nat /\ HALF # 0 /\ HALF # Error
  /\ HALF <= Top - PageSize
<1>1. Top \in Nat /\ PageSize \in Nat /\ Top >= 2 /\ 2 * PageSize <= Top
  <2>1. /\ PageSize \in Nat \ {0} /\ Top \in Nat /\ UserPages \in Nat \ {0}
        /\ UserPages * PageSize \in Nat /\ UserPages * PageSize + PageSize <= Top
    BY Sizes
  <2>2. 0 * PageSize + PageSize <= UserPages * PageSize
    BY <2>1, Multiples
  <2>3. QED
    BY <2>1, <2>2
<1>2. HALF \in Nat /\ HALF # 0 /\ 2 * HALF <= Top
  BY <1>1 DEF HALF
<1>3. HALF <= Top - PageSize
  BY <1>1, <1>2
<1>4. QED
  BY <1>2, <1>3 DEF Error

\* One process's image has changed, and perhaps who is alive.
LEMMA OneView ==
  ASSUME ViewInv, NEW p \in Procs, again' = again,
         Live(p)' => ViewOk(image'[p], again[p]),
         \A q \in Procs : q # p => image'[q] = image[q] /\ (Live(q)' => Live(q))
  PROVE  ViewInv'
<1>1. ASSUME NEW q \in Procs, Live(q)' PROVE ViewOk(image'[q], again'[q])
  <2>1. CASE q = p
    BY <1>1, <2>1
  <2>2. CASE q # p
    BY <1>1, <2>2 DEF ViewInv
  <2>3. QED
    BY <2>1, <2>2
<1>2. ASSUME NEW q \in Procs PROVE ViewOk(image[q], again[q])' <=> ViewOk(image'[q], again'[q])
  BY DEF ViewOk, Stuck
<1>3. QED
  BY <1>1, <1>2 DEF ViewInv

\* A call on the caller's memory: what is to be shown of its new image.
LEMMA RemapsView ==
  ASSUME ImageInv, ViewInv, NEW p \in Procs, NEW call \in Requests, NEW new \in Images,
         NEW r, NEW op, NEW pages, Remaps(p, call, new, r, op, pages),
         r # HALF => ViewOk(new, NoCall),
         r = HALF => ViewOk([new EXCEPT !.view = image[p].view,
                                        !.stray = @ \cup {"half"}], call)
  PROVE  ViewInv'
<1> DEFINE halved == [new EXCEPT !.view = image[p].view, !.stray = @ \cup {"half"}]
           same == [new EXCEPT !.view = @, !.stray = @]
           n == IF r = HALF THEN halved ELSE same
           c == IF r = HALF THEN call ELSE NoCall
<1>1. phase' = phase /\ Becomes(p, n) /\ Answers(p, call, r) /\ phase[p] = "running"
  BY DEF Remaps, Serves
<1>2. same = new
  BY DEF Images
<1> HIDE DEF same, halved
<1>3. ViewOk(n, c)
  BY <1>2 DEF halved
<1> HIDE DEF n, c
<1>4. /\ image' = [image EXCEPT ![p] = n] /\ again' = [again EXCEPT ![p] = c]
      /\ image \in [Procs -> Images] /\ DOMAIN again = Procs
  BY <1>1 DEF Becomes, Answers, ImageInv, TypeOK, c
<1>5. ASSUME NEW q \in Procs, Live(q)' PROVE ViewOk(image'[q], again'[q])
  <2>1. CASE q = p
    BY <1>3, <1>4, <2>1
  <2>2. CASE q # p
    <3>1. Live(q) /\ image'[q] = image[q] /\ again'[q] = again[q]
      BY <1>1, <1>4, <1>5, <2>2 DEF Live
    <3>2. QED
      BY <3>1 DEF ViewInv
  <2>3. QED
    BY <2>1, <2>2
<1>6. ASSUME NEW q \in Procs PROVE ViewOk(image[q], again[q])' <=> ViewOk(image'[q], again'[q])
  BY DEF ViewOk, Stuck
<1>7. QED
  BY <1>5, <1>6 DEF ViewInv

\* A guest that has lost pages it was given, for a reason that is remembered.
LEMMA LostOk ==
  ASSUME NEW m, NEW n, NEW call, NEW other, ViewOk(m, call),
         Mapped(n.space) \subseteq Mapped(m.space), m.view \subseteq n.view,
         m.stray \subseteq n.stray, n.stray \cap Losing # {},
         "wrap" \in n.stray \/ n.hi = m.hi
  PROVE  ViewOk(n, other)
BY DEF ViewOk, Losing, Leaving

\* One to which pages are left that it gave up, or was never given.
LEMMA LeftOk ==
  ASSUME NEW m, NEW n, NEW call, NEW other, ViewOk(m, call), ~Stuck(m, call),
         NEW gone, Mapped(m.space) \ gone \subseteq Mapped(n.space),
         n.view = m.view \ gone, n.hi = m.hi,
         m.stray \subseteq n.stray, n.stray \cap Leaving # {}
  PROVE  ViewOk(n, other)
BY DEF ViewOk, Losing, Leaving

\* brk: the view gets and loses the pages between the breaks, as the map does;
\* told LONG_MIN the guest asks again, and learns nothing.
LEMMA BreakView ==
  ASSUME ImageInv, ViewInv, NEW p \in Procs, NEW call \in Requests, Brk(p, call)
  PROVE  ViewInv'
<1>1. PICK m \in Images : m = image[p]
  BY DEF ImageInv, TypeOK
<1> DEFINE b == BrkOf(m, call.want)
           view == BrkView(m, b.hi)
           stray == BrkStray(m, call.want, b.hi)
           new == [b EXCEPT !.view = view, !.stray = stray]
           halved == [new EXCEPT !.view = m.view, !.stray = @ \cup {"half"}]
           Between(x, y) == {g \in Page : x <= g * PageSize /\ g * PageSize < y}
<1>2. /\ Remaps(p, call, new, b.hi, "map", {}) /\ call.op = "brk"
      /\ again[p] \in {NoCall, call} /\ phase[p] = "running"
  BY <1>1 DEF Brk, Remaps, Serves
<1>3. ViewOk(m, again[p])
  BY <1>1, <1>2 DEF ViewInv, Live
<1>4. /\ call.want \in Address /\ m.hi \in Address /\ m.view \subseteq Page
  BY <1>2, RequestFacts, ImageFields
<1>0. /\ call.want \in Nat /\ m.hi \in Nat /\ Top - PageSize \in Int
      /\ \A g \in Page : g * PageSize \in Nat
  BY <1>4, Sizes DEF Address, Page
<1>5. b \in Images
  BY <1>4, BrkTypes DEF NewImage
<1>6. view \in SUBSET Page /\ stray \in SUBSET Reasons
  BY <1>4, <1>5, ImageFields, ReasonFacts DEF BrkView
<1>7. view = (m.view \cup Between(m.hi, b.hi)) \ Between(b.hi, m.hi)
  BY DEF BrkView
<1>8. /\ call.want > Top - PageSize => stray = m.stray \cup {"wrap"}
      /\ call.want <= Top - PageSize =>
           /\ m.hi > Top - PageSize /\ b.hi # m.hi => stray = {"unwrap"}
           /\ m.hi <= Top - PageSize \/ b.hi = m.hi => stray = m.stray
  <2> HIDE DEF b
  <2>1. /\ Wraps(0, call.want) <=> call.want > Top - PageSize
        /\ Wraps(0, m.hi) <=> m.hi > Top - PageSize
    BY <1>0 DEF Wraps
  <2>2. QED
    BY <1>0, <2>1 DEF BrkStray
<1>9. b.hi \in Nat
  BY <1>5, ImageFields DEF Address
<1> HIDE DEF b, view, stray
<1>10. /\ new \in Images /\ new.space = b.space /\ new.hi = b.hi /\ new.view = view
       /\ new.stray = stray
  BY <1>5, <1>6 DEF Images
<1> HIDE DEF new
<1>11. /\ halved.space = b.space /\ halved.hi = b.hi /\ halved.view = m.view
       /\ halved.stray = stray \cup {"half"}
  BY <1>10 DEF Images
<1> HIDE DEF halved
<1>12. ASSUME b.hi # HALF => ViewOk(new, NoCall), b.hi = HALF => ViewOk(halved, call)
       PROVE  ViewInv'
  BY <1>1, <1>2, <1>10, <1>12, RemapsView DEF halved
<1>13. b.hi = m.hi => Between(m.hi, b.hi) = {} /\ Between(b.hi, m.hi) = {}
  BY <1>0
<1>14. Stuck(m, again[p]) => call.want = HALF /\ m.hi = HALF
  BY <1>2 DEF Stuck, NoCall
<1>15. CASE call.want > Top - PageSize
  <2>1. b.hi \in {m.hi, call.want} /\ Mapped(b.space) \subseteq Mapped(m.space)
    BY <1>4, <1>15, BrkWrapped DEF b
  <2>2. Between(b.hi, m.hi) = {}
    <3>1. \A g \in Page : g * PageSize <= Top - PageSize
      BY PageBelow
    <3>2. CASE b.hi = call.want
      BY <1>0, <1>15, <3>1, <3>2
    <3>3. QED
      BY <1>13, <2>1, <3>2
  <2>3. m.view \subseteq view
    BY <1>7, <2>2
  <2>4. ViewOk(new, NoCall)
    <3>1. "wrap" \in stray /\ m.stray \subseteq stray /\ stray \cap Losing # {}
      BY <1>8, <1>15 DEF Losing
    <3>2. QED
      BY <1>3, <1>10, <2>1, <2>3, <3>1, LostOk
  <2>5. ViewOk(halved, call)
    BY <1>8, <1>11, <1>15, BothOk
  <2>6. QED
    BY <1>12, <2>4, <2>5
<1>16. CASE call.want <= Top - PageSize /\ m.hi > Top - PageSize /\ b.hi # m.hi
  <2>1. /\ b.hi = call.want
        /\ {g \in Page : g * PageSize < call.want} \subseteq Mapped(b.space)
    BY <1>4, <1>16, BrkUnwrapped DEF b
  <2>2. view \subseteq Mapped(b.space)
    <3>1. \A g \in Page : g * PageSize <= Top - PageSize
      BY PageBelow
    <3>2. ASSUME NEW g \in view PROVE g \in Page /\ g * PageSize < call.want
      <4>1. g \in Page /\ g \notin Between(b.hi, m.hi)
        BY <1>6, <1>7
      <4>2. g * PageSize \in Nat /\ g * PageSize < m.hi
        BY <1>0, <1>16, <3>1, <4>1
      <4>3. QED
        BY <1>0, <2>1, <4>1, <4>2
    <3>3. QED
      BY <2>1, <3>2
  <2>3. stray = {"unwrap"}
    BY <1>8, <1>16
  <2>4. ViewOk(new, NoCall)
    BY <1>10, <1>16, <2>1, <2>2, <2>3 DEF ViewOk, Losing
  <2>5. ASSUME b.hi = HALF PROVE ViewOk(halved, call)
    <3>1. Stuck(halved, call)
      BY <1>2, <1>11, <2>1, <2>5 DEF Stuck
    <3>2. QED
      BY <1>11, <1>16, <2>1, <2>3, <3>1 DEF ViewOk, Losing
  <2>6. QED
    BY <1>12, <2>4, <2>5
<1>17. CASE call.want <= Top - PageSize /\ m.hi > Top - PageSize /\ b.hi = m.hi
  <2>1. b = m
    <3>1. b = m \/ b.hi = call.want
      BY <1>4, <1>17, BrkUnwrapped DEF b
    <3>2. QED
      BY <1>0, <1>17, <3>1
  <2>2. stray = m.stray /\ b.hi # HALF
    BY <1>0, <1>8, <1>17, HalfFacts
  <2>3. ~Stuck(m, again[p])
    BY <1>14, <1>17, <2>2
  <2>4. /\ Mapped(new.space) = (Mapped(m.space) \cup {}) \ {}
        /\ new.view = (m.view \cup {}) \ {}
    BY <1>7, <1>10, <1>13, <1>17, <2>1
  <2>5. "wrap" \notin new.stray => new.hi <= Top - PageSize
    BY <1>3, <1>10, <1>17, <2>2 DEF ViewOk
  <2>6. ViewOk(new, NoCall)
    BY <1>3, <1>10, <2>2, <2>3, <2>4, <2>5, DeltaOk
  <2>7. QED
    BY <1>12, <2>2, <2>6
<1>18. CASE call.want <= Top - PageSize /\ m.hi <= Top - PageSize
  <2>1. stray = m.stray
    BY <1>8, <1>18
  <2>2. /\ b.hi \in {m.hi, call.want}
        /\ Mapped(b.space) = (Mapped(m.space) \cup Between(m.hi, b.hi)) \ Between(b.hi, m.hi)
    BY <1>4, <1>18, BrkMapped DEF b
  <2>3. b.hi <= Top - PageSize
    BY <1>18, <2>2
  <2>4. ASSUME b.hi # HALF PROVE ViewOk(new, NoCall)
    <3>1. ~Stuck(m, again[p])
      BY <1>14, <2>2, <2>4
    <3> HIDE DEF Between
    <3>2. QED
      BY <1>3, <1>7, <1>10, <2>1, <2>2, <2>3, <3>1, DeltaOk
  <2>5. ASSUME b.hi = HALF PROVE ViewOk(halved, call)
    <3>1. CASE call.want = HALF
      <4>1. Stuck(halved, call)
        BY <1>2, <1>11, <2>5, <3>1 DEF Stuck
      <4>2. QED
        BY <1>11, <2>3, <4>1 DEF ViewOk, Losing
    <3>2. CASE call.want # HALF
      <4>1. b.hi = m.hi
        BY <2>2, <2>5, <3>2
      <4>2. Mapped(halved.space) = Mapped(m.space)
        <5>1. Between(m.hi, b.hi) = {} /\ Between(b.hi, m.hi) = {}
          BY <1>13, <4>1
        <5> HIDE DEF Between
        <5>2. QED
          BY <1>11, <2>2, <5>1
      <4>3. ~Stuck(m, again[p])
        BY <1>14, <3>2
      <4>4. /\ m.stray \subseteq halved.stray /\ halved.stray \cap Leaving # {}
            /\ halved.view = m.view \ {} /\ halved.hi = m.hi
            /\ Mapped(m.space) \ {} \subseteq Mapped(halved.space)
        BY <1>11, <2>1, <4>1, <4>2 DEF Leaving
      <4>5. QED
        BY <1>3, <4>3, <4>4, LeftOk
    <3>3. QED
      BY <3>1, <3>2
  <2>6. QED
    BY <1>12, <2>4, <2>5
<1>19. QED
  BY <1>0, <1>15, <1>16, <1>17, <1>18

\* A guest that makes such a call is not waiting for a break, and its view is in
\* order.
LEMMA CallerView ==
  ASSUME ImageInv, ViewInv, NEW p \in Procs, NEW call \in Requests, call.op # "brk",
         NEW new, NEW r, NEW op, NEW pages, Remaps(p, call, new, r, op, pages),
         NEW m, m = image[p]
  PROVE  ViewOk(m, again[p]) /\ ~Stuck(m, again[p])
<1>1. Serves(p, call) /\ phase[p] = "running"
  BY DEF Remaps, Serves
<1>2. QED
  BY <1>1, NotStuck DEF ViewInv, Live

\* mmap: the pages granted are the pages mapped; told LONG_MIN, the guest asks
\* again and has more than it knows of.
LEMMA MmapView ==
  ASSUME ImageInv, ViewInv, NEW p \in Procs, NEW call \in Requests, Mmap(p, call)
  PROVE  ViewInv'
<1>1. PICK m \in Images : m = image[p]
  BY DEF ImageInv, TypeOK
<1>2. PICK a \in MmapAt(m.space, call), fill \in {0, call.file} :
        Remaps(p, call,
               [m EXCEPT !.space = Protect(Poke(MmapSpace(@, call, a), a, fill, "file"),
                                           a, PAGE_UP(call.len), MmapProt(call.prot)),
                         !.view = @ \cup Spanned(a, call.len),
                         !.stray = @ \cup IF Wraps(0, call.len) THEN {"mapwrap"}
                                                                ELSE {}],
               a, "map", Spanned(a, call.len))
  BY <1>1 DEF Mmap
<1> DEFINE room == MmapSpace(m.space, call, a)
           space == Protect(Poke(room, a, fill, "file"),
                            a, PAGE_UP(call.len), MmapProt(call.prot))
           view == m.view \cup Spanned(a, call.len)
           stray == m.stray \cup IF Wraps(0, call.len) THEN {"mapwrap"} ELSE {}
           new == [m EXCEPT !.space = space, !.view = view, !.stray = stray]
           halved == [new EXCEPT !.view = m.view, !.stray = @ \cup {"half"}]
<1>3. Remaps(p, call, new, a, "map", Spanned(a, call.len))
  BY <1>2
<1>4. call.op = "mmap" /\ call.len > 0 /\ call.op # "brk"
  BY DEF Mmap
<1>5. ViewOk(m, again[p]) /\ ~Stuck(m, again[p])
  BY <1>1, <1>3, <1>4, CallerView
<1>6. m.space \in Space /\ m.stray \subseteq Reasons /\ m.view \subseteq Page
  BY ImageFields
<1>7. space \in Space /\ view \in SUBSET Page /\ stray \in SUBSET Reasons
  BY <1>4, <1>6, MmapTypes, ReasonFacts DEF Spanned
<1>8. Mapped(space) = Mapped(room)
  <2>1. room \in Space /\ Poke(room, a, fill, "file") \in Space /\ "file" \in Tags
    BY <1>4, <1>6, MmapTypes, PokeSpace, ImageAssumption
  <2>2. MmapProt(call.prot) \in Prot
    BY <1>4, RequestFacts DEF MmapProt, Prot
  <2> HIDE DEF room
  <2>3. QED
    BY <2>1, <2>2, PokeMapped, ProtectMapped
<1>9. /\ Mapped(m.space) \subseteq Mapped(room)
      /\ call.len <= Top - PageSize
           => Mapped(room) = Mapped(m.space) \cup Spanned(a, call.len)
      /\ call.len > Top - PageSize => Mapped(room) = Mapped(m.space)
  BY <1>4, <1>6, MmapMapped
<1>10. \/ call.len > Top - PageSize /\ "mapwrap" \in stray
       \/ call.len <= Top - PageSize /\ stray = m.stray
  <2>1. call.len \in Nat /\ Top - PageSize \in Int
    BY <1>4, RequestFacts, Sizes DEF Address
  <2>2. Wraps(0, call.len) <=> call.len > Top - PageSize
    BY <2>1 DEF Wraps
  <2>3. QED
    BY <2>1, <2>2
<1>11. "wrap" \notin m.stray => m.hi <= Top - PageSize
  BY <1>5 DEF ViewOk
<1>12. m.stray \subseteq stray
  OBVIOUS
<1> HIDE DEF room, space, stray
<1>13. /\ new \in Images /\ new.space = space /\ new.hi = m.hi
       /\ new.view = view /\ new.stray = stray
  BY <1>7 DEF Images
<1> HIDE DEF new
<1>14. /\ halved.space = space /\ halved.hi = m.hi /\ halved.view = m.view
       /\ halved.stray = stray \cup {"half"}
  BY <1>13 DEF Images
<1> HIDE DEF halved
<1>15. ViewOk(halved, call)
  <2>1. /\ m.stray \subseteq halved.stray /\ halved.stray \cap Leaving # {}
        /\ Mapped(m.space) \ {} \subseteq Mapped(halved.space) /\ halved.view = m.view \ {}
    BY <1>8, <1>9, <1>12, <1>14 DEF Leaving
  <2>2. QED
    BY <1>5, <1>14, <2>1, LeftOk
<1>16. ViewOk(new, NoCall)
  <2>1. CASE call.len > Top - PageSize /\ "mapwrap" \in stray
    <3>1. /\ Mapped(new.space) \subseteq Mapped(m.space) /\ m.view \subseteq new.view
          /\ new.stray \cap Losing # {}
      BY <1>8, <1>9, <1>13, <2>1 DEF Losing
    <3>2. QED
      BY <1>5, <1>12, <1>13, <3>1, LostOk
  <2>2. CASE call.len <= Top - PageSize /\ stray = m.stray
    <3> DEFINE up == Spanned(a, call.len)
    <3>1. /\ Mapped(new.space) = (Mapped(m.space) \cup up) \ {}
          /\ new.view = (m.view \cup up) \ {}
      BY <1>8, <1>9, <1>13, <2>2
    <3> HIDE DEF up
    <3>2. QED
      BY <1>5, <1>11, <1>13, <2>2, <3>1, DeltaOk
  <2>3. QED
    BY <1>10, <2>1, <2>2
<1>17. QED
  BY <1>1, <1>3, <1>13, <1>15, <1>16, RemapsView DEF halved

\* A refused mmap keeps the map as it was, or has torn down what it was to
\* replace; without a buffer it keeps what it mapped.
LEMMA MmapFailedView ==
  ASSUME ImageInv, ViewInv, NEW p \in Procs, NEW call \in Requests,
         MmapRefused(p, call) \/ MmapNoBuffer(p, call)
  PROVE  ViewInv'
<1>1. PICK m \in Images : m = image[p]
  BY DEF ImageInv, TypeOK
<1>2. call.op = "mmap" /\ call.len > 0 /\ call.op # "brk" /\ call.fixed \in BOOLEAN
  BY RequestFacts DEF MmapRefused, MmapNoBuffer
<1>3. m.space \in Space /\ m.stray \subseteq Reasons
  BY ImageFields
<1>4. Error # HALF
  BY HalfFacts
<1>5. CASE MmapRefused(p, call)
  <2> DEFINE space == MmapBase(m.space, call)
             stray == m.stray \cup IF call.fixed THEN {"fixed"} ELSE {}
             new == [m EXCEPT !.space = space, !.stray = stray]
  <2>1. Remaps(p, call, new, Error, "map", Spanned(call.addr, call.len))
    BY <1>1, <1>5 DEF MmapRefused
  <2>2. ViewOk(m, again[p]) /\ ~Stuck(m, again[p])
    BY <1>1, <1>2, <2>1, CallerView
  <2>3. space \in Space /\ stray \in SUBSET Reasons
    BY <1>2, <1>3, MmapTypes, ReasonFacts
  <2>4. /\ call.fixed => Mapped(space) \subseteq Mapped(m.space)
        /\ ~call.fixed => space = m.space
    BY <1>3, DeallocateMapped DEF MmapBase
  <2>5. /\ m.stray \subseteq stray /\ (call.fixed => "fixed" \in stray)
        /\ (~call.fixed => stray = m.stray)
    OBVIOUS
  <2> HIDE DEF space, stray
  <2>6. /\ new \in Images /\ new.space = space /\ new.hi = m.hi
        /\ new.view = m.view /\ new.stray = stray
    BY <2>3 DEF Images
  <2> HIDE DEF new
  <2>7. CASE call.fixed
    <3>1. ViewOk(new, NoCall)
      <4>1. new.stray \cap Losing # {} /\ m.view \subseteq new.view
        BY <2>5, <2>6, <2>7 DEF Losing
      <4>2. QED
        BY <2>2, <2>4, <2>5, <2>6, <2>7, <4>1, LostOk
    <3>2. QED
      BY <1>4, <2>1, <2>6, <3>1, RemapsView
  <2>8. CASE ~call.fixed
    <3>1. ViewOk(new, NoCall)
      BY <2>2, <2>4, <2>5, <2>6, <2>8 DEF ViewOk
    <3>2. QED
      BY <1>4, <2>1, <2>6, <3>1, RemapsView
  <2>9. QED
    BY <1>2, <2>7, <2>8
<1>6. CASE MmapNoBuffer(p, call)
  <2>1. PICK a \in MmapAt(m.space, call) :
          Remaps(p, call, [m EXCEPT !.space = MmapSpace(@, call, a),
                                    !.stray = @ \cup {"buffer"}],
                 Error, "map", Spanned(a, call.len))
    BY <1>1, <1>6 DEF MmapNoBuffer
  <2> DEFINE space == MmapSpace(m.space, call, a)
             stray == m.stray \cup {"buffer"}
             new == [m EXCEPT !.space = space, !.stray = stray]
  <2>2. Remaps(p, call, new, Error, "map", Spanned(a, call.len))
    BY <2>1
  <2>3. ViewOk(m, again[p]) /\ ~Stuck(m, again[p])
    BY <1>1, <1>2, <2>2, CallerView
  <2>4. space \in Space /\ stray \in SUBSET Reasons
    BY <1>2, <1>3, MmapTypes, ReasonFacts
  <2>5. Mapped(m.space) \subseteq Mapped(space)
    BY <1>2, <1>3, MmapMapped
  <2>6. m.stray \subseteq stray /\ "buffer" \in stray
    OBVIOUS
  <2> HIDE DEF space, stray
  <2>7. /\ new \in Images /\ new.space = space /\ new.hi = m.hi
        /\ new.view = m.view /\ new.stray = stray
    BY <2>4 DEF Images
  <2> HIDE DEF new
  <2>8. ViewOk(new, NoCall)
    <3>1. /\ new.stray \cap Leaving # {} /\ new.view = m.view \ {}
          /\ Mapped(m.space) \ {} \subseteq Mapped(new.space)
      BY <2>5, <2>6, <2>7 DEF Leaving
    <3>2. QED
      BY <2>3, <2>6, <2>7, <3>1, LeftOk
  <2>9. QED
    BY <1>4, <2>2, <2>7, <2>8, RemapsView
<1>7. QED
  BY <1>5, <1>6

\* munmap takes from the view what it was asked to, and from the map as much or
\* less.
LEMMA MunmapView ==
  ASSUME ImageInv, ViewInv, NEW p \in Procs, NEW call \in Requests, Munmap(p, call)
  PROVE  ViewInv'
<1>1. PICK m \in Images : m = image[p]
  BY DEF ImageInv, TypeOK
<1> DEFINE gone == Spanned(call.addr, call.len)
           space == Deallocate(m.space, PAGE_DOWN(call.addr), PAGE_UP(call.len))
           view == m.view \ gone
           stray == m.stray \cup Unaligned(call.addr)
                      \cup IF Wraps(call.addr, call.len) THEN {"unmapwrap"} ELSE {}
           new == [m EXCEPT !.space = space, !.view = view, !.stray = stray]
<1>2. Remaps(p, call, new, 0, "map", gone) /\ call.op # "brk" /\ call.op = "munmap"
  BY <1>1 DEF Munmap
<1>3. ViewOk(m, again[p]) /\ ~Stuck(m, again[p])
  BY <1>1, <1>2, CallerView
<1>4. /\ m.space \in Space /\ m.stray \subseteq Reasons /\ m.view \subseteq Page
      /\ call.addr \in Address /\ call.len \in Address
  BY <1>2, ImageFields, RequestFacts
<1>5. space \in Space /\ view \in SUBSET Page /\ stray \in SUBSET Reasons
  BY <1>4, SpaceFacts, ReasonFacts
<1>6. /\ Mapped(m.space) \ gone \subseteq Mapped(space)
      /\ PAGE_DOWN(call.addr) = call.addr /\ call.addr + call.len <= Top - PageSize
           => Mapped(space) = Mapped(m.space) \ gone
  BY <1>4, MunmapMapped
<1>7. \/ stray \cap Leaving # {}
      \/ /\ call.addr + call.len <= Top - PageSize /\ PAGE_DOWN(call.addr) = call.addr
         /\ stray = m.stray
  <2>1. call.addr + call.len \in Nat /\ Top - PageSize \in Int
    BY <1>4, Sizes DEF Address
  <2>2. Wraps(call.addr, call.len) \/ call.addr + call.len <= Top - PageSize
    BY <2>1 DEF Wraps
  <2>3. QED
    BY <2>2 DEF Unaligned, Leaving
<1>8. m.stray \subseteq stray
  OBVIOUS
<1>9. "wrap" \notin m.stray => m.hi <= Top - PageSize
  BY <1>3 DEF ViewOk
<1>10. 0 # HALF
  BY HalfFacts
<1> HIDE DEF space, stray, gone
<1>11. /\ new \in Images /\ new.space = space /\ new.hi = m.hi
       /\ new.view = m.view \ gone /\ new.stray = stray
  BY <1>5 DEF Images
<1> HIDE DEF new
<1>12. ViewOk(new, NoCall)
  <2>1. CASE stray \cap Leaving # {}
    BY <1>3, <1>6, <1>8, <1>11, <2>1, LeftOk
  <2>2. CASE /\ call.addr + call.len <= Top - PageSize /\ PAGE_DOWN(call.addr) = call.addr
             /\ stray = m.stray
    <3>1. /\ Mapped(new.space) = (Mapped(m.space) \cup {}) \ gone
          /\ new.view = (m.view \cup {}) \ gone
      BY <1>6, <1>11, <2>2
    <3>2. QED
      BY <1>3, <1>9, <1>11, <2>2, <3>1, DeltaOk
  <2>3. QED
    BY <1>7, <2>1, <2>2
<1>13. QED
  BY <1>2, <1>10, <1>11, <1>12, RemapsView

\* mprotect maps and unmaps nothing.
LEMMA MprotectView ==
  ASSUME ImageInv, ViewInv, NEW p \in Procs, NEW call \in Requests, Mprotect(p, call)
  PROVE  ViewInv'
<1>1. PICK m \in Images : m = image[p]
  BY DEF ImageInv, TypeOK
<1> DEFINE space == Protect(m.space, PAGE_DOWN(call.addr), PAGE_UP(call.len), call.prot)
           new == [m EXCEPT !.space = space]
<1>2. /\ Remaps(p, call, new, 0, "protect", Spanned(call.addr, call.len))
      /\ call.op # "brk" /\ call.op = "mprotect"
  BY <1>1 DEF Mprotect
<1>3. ViewOk(m, again[p]) /\ ~Stuck(m, again[p])
  BY <1>1, <1>2, CallerView
<1>4. m.space \in Space /\ call.prot \in Prot
  BY <1>2, ImageFields, RequestFacts
<1>5. space \in Space /\ Mapped(space) = Mapped(m.space)
  BY <1>4, SpaceFacts, ProtectMapped
<1>6. 0 # HALF
  BY HalfFacts
<1> HIDE DEF space
<1>7. /\ new \in Images /\ new.space = space /\ new.hi = m.hi
      /\ new.view = m.view /\ new.stray = m.stray
  BY <1>5 DEF Images
<1> HIDE DEF new
<1>8. ViewOk(new, NoCall)
  BY <1>3, <1>5, <1>7 DEF ViewOk
<1>9. QED
  BY <1>2, <1>6, <1>7, <1>8, RemapsView

\* What a view says of an image it says of every image with the same pages; while
\* no call is made again, whatever the next one is.
LEMMA SettledOk ==
  ASSUME NEW m, NEW n, SameView(m, n), ViewOk(m, NoCall), NEW other
  PROVE  ViewOk(n, other)
BY DEF SameView, ViewOk, Stuck, NoCall

\* A caller whose call is no repetition of one.
LEMMA FreshCall ==
  ASSUME ViewInv, NEW p \in Procs, Serves(p, NoCall)
  PROVE  again[p] = NoCall /\ ViewOk(image[p], NoCall) /\ Live(p) /\ phase[p] = "running"
BY DEF ViewInv, Serves, Live

\* Results, and descriptors, in the memory there is.
LEMMA WritesView ==
  ASSUME ImageInv, ViewInv, NEW p \in Procs, NEW new \in Images,
         SameView(image[p], new), NEW buf, Writes(p, new, buf)
  PROVE  ViewInv'
<1> DEFINE n == [new EXCEPT !.space = Poke(@, buf[1], buf[2], "result")]
<1>1. /\ Becomes(p, n) /\ phase' = phase /\ again' = again
      /\ again[p] = NoCall /\ ViewOk(image[p], NoCall)
  BY FreshCall DEF Writes
<1>2. new.space \in Space /\ "result" \in Tags
  BY ImageFields, ImageAssumption
<1>3. /\ n.space = Poke(new.space, buf[1], buf[2], "result")
      /\ n.view = new.view /\ n.stray = new.stray /\ n.hi = new.hi
  BY DEF Images
<1> HIDE DEF n
<1>4. SameView(image[p], n)
  BY <1>2, <1>3, PokeMapped DEF SameView
<1>5. image' = [image EXCEPT ![p] = n] /\ image \in [Procs -> Images]
  BY <1>1 DEF Becomes, ImageInv, TypeOK
<1>6. image'[p] = n /\ \A q \in Procs : q # p => image'[q] = image[q]
  BY <1>5
<1>7. \A q \in Procs : Live(q)' => Live(q)
  BY <1>1 DEF Live
<1>8. ViewOk(image'[p], again[p])
  BY <1>1, <1>4, <1>6, SettledOk
<1>9. QED
  BY <1>1, <1>6, <1>7, <1>8, OneView

\* A call that has a result.
LEMMA ResultView ==
  ASSUME ImageInv, ViewInv, NEW p \in Procs, NEW buf, Result(p, buf)
  PROVE  ViewInv'
BY WritesView DEF Result, ImageInv, TypeOK, SameView

\* set_thread_area.
LEMMA ThreadAreaView ==
  ASSUME ImageInv, TlsInv, ViewInv, NEW p \in Procs, NEW entry \in Entries,
         NEW base \in Bases \cup {NoBase}, NEW buf \in Buffers,
         SetThreadArea(p, entry, base, buf)
  PROVE  ViewInv'
<1>1. PICK m \in Images : m = image[p]
  BY DEF ImageInv, TypeOK
<1>2. PICK sel \in Selector(m, entry) :
        Writes(p, [m EXCEPT !.gdt[sel] = base, !.tls = sel, !.want = base,
                            !.named = @ \/ entry # NOSEL], buf)
  BY <1>1 DEF SetThreadArea
<1>3. sel \in Slots
  BY <1>1, <1>2, SelectorFacts DEF TlsInv
<1>4. PICK gdt \in [Slots -> Bases \cup {NoBase}] : gdt = [m.gdt EXCEPT ![sel] = base]
  BY <1>3, ImageFields
<1>5. PICK named \in BOOLEAN : named = (m.named \/ entry # NOSEL)
  OBVIOUS
<1> DEFINE n == [m EXCEPT !.gdt = gdt, !.tls = sel, !.want = base, !.named = named]
<1>6. Writes(p, n, buf)
  BY <1>2, <1>4, <1>5
<1>7. n \in Images
  BY <1>3 DEF Images
<1>8. SameView(m, n)
  BY DEF Images, SameView
<1> HIDE DEF n
<1>9. QED
  BY <1>1, <1>6, <1>7, <1>8, WritesView

\* A child knows what its parent knew, of a copy of the same memory.
LEMMA ForkView ==
  ASSUME ImageInv, ViewInv, NEW p \in Procs, NEW c \in Procs, Fork(p, c)
  PROVE  ViewInv'
<1>1. PICK carried \in BOOLEAN : Becomes(c, InheritTls(image[p], carried))
  BY DEF Fork
<1>2. PICK m \in Images : m = image[p]
  BY DEF ImageInv, TypeOK
<1>3. PICK n : n = InheritTls(m, carried)
  OBVIOUS
<1>4. SameView(m, n)
  BY <1>3 DEF InheritTls, SameView, Images
<1>5. /\ again' = again /\ phase' = [phase EXCEPT ![c] = "running"]
      /\ ViewOk(m, NoCall)
  BY <1>2, FreshCall DEF Fork
<1>6. image' = [image EXCEPT ![c] = n] /\ image \in [Procs -> Images] /\ DOMAIN phase = Procs
  BY <1>1, <1>2, <1>3 DEF Becomes, ImageInv, TypeOK
<1>7. image'[c] = n /\ \A q \in Procs : q # c => image'[q] = image[q]
  BY <1>6
<1>8. \A q \in Procs : q # c => (Live(q)' => Live(q))
  BY <1>5, <1>6 DEF Live
<1>9. ViewOk(image'[c], again[c])
  BY <1>4, <1>5, <1>7, SettledOk
<1>10. QED
  BY <1>5, <1>7, <1>8, <1>9, OneView

\* A new program's pages are what its segments claim, the stack's beside them,
\* and its break is below the end of the task's memory.
LEMMA LoadedView ==
  ASSUME NEW m \in Images, NEW s \in Space, Mapped(s) = {}, NEW prog \in Programs,
         NEW args, NEW call, LoadProgram(s, prog, args).ok
  PROVE  ViewOk(Loaded(m, LoadProgram(s, prog, args), prog, args), call)
<1> DEFINE new == LoadProgram(s, prog, args)
           n == Loaded(m, new, prog, args)
<1>1. /\ Mapped(new.space) \subseteq ProgramPages(prog)
      /\ ~HasHole(prog) => Mapped(new.space) = ProgramPages(prog)
      /\ new.brk <= UserPages * PageSize
  BY ProgramMapped
<1>2. new.brk \in Address /\ new.space \in Space
  BY ImageAssumption, ProgramFacts
<1>3. new.brk <= Top - PageSize
  <2>1. new.brk \in Nat
    BY <1>2 DEF Address
  <2> HIDE DEF new
  <2>2. QED
    BY <1>1, <2>1, Sizes
<1> HIDE DEF new
<1>4. /\ n.space = new.space /\ n.hi = new.brk /\ n.view = ProgramPages(prog)
      /\ n.stray = IF HasHole(prog) THEN {"hole"} ELSE {}
  BY DEF Loaded, Images
<1> HIDE DEF n
<1>5. ViewOk(n, call)
  BY <1>1, <1>3, <1>4 DEF ViewOk, Losing, Leaving
<1>6. QED
  BY <1>5 DEF n, new

\* execve of a program that can be loaded; the others leave nobody to know anything.
LEMMA ExecveView ==
  ASSUME ImageInv, ViewInv, NEW p \in Procs, NEW prog \in Programs, NEW args \in ArgLists,
         Execve(p, prog, args)
  PROVE  ViewInv'
<1>1. PICK m \in Images : m = image[p]
  BY DEF ImageInv, TypeOK
<1>2. PICK s : s = wipe_address_space(m.space)
  OBVIOUS
<1>3. s \in Space /\ Mapped(s) = {}
  <2>1. m.space \in Space
    BY ImageFields
  <2>2. s = [g \in Page |-> NoPage]
    BY <1>2, <2>1 DEF wipe_address_space, Space
  <2>3. QED
    BY <2>2 DEF Space, Mapped
<1>4. PICK n : n = Loaded(m, LoadProgram(s, prog, args), prog, args)
  OBVIOUS
<1>5. LoadProgram(s, prog, args).ok => ViewOk(n, again[p])
  BY <1>3, <1>4, LoadedView
<1>6. /\ again' = again /\ image \in [Procs -> Images] /\ DOMAIN phase = Procs
      /\ phase[p] = "running"
      /\ \/ LoadProgram(s, prog, args).ok /\ Becomes(p, n) /\ phase' = phase
         \/ Becomes(p, NoImage) /\ phase' = [phase EXCEPT ![p] = "zombie"]
  BY <1>1, <1>2, <1>4 DEF Execve, Serves, ImageInv, TypeOK
<1>7. /\ \A q \in Procs : q # p => image'[q] = image[q]
      /\ Live(p)' => ViewOk(image'[p], again[p])
  BY <1>5, <1>6 DEF Becomes, Live
<1>8. \A q \in Procs : q # p => (Live(q)' => Live(q))
  BY <1>6 DEF Live
<1>9. QED
  BY <1>6, <1>7, <1>8, OneView

\* A status is poked, or there is none.
LEMMA StatusView ==
  ASSUME NEW m \in Images, NEW buf
  PROVE  SameView(m, Status(m, buf))
<1> DEFINE n == [m EXCEPT !.space = Poke(@, buf[1], buf[2], "result")]
<1>1. Mapped(Poke(m.space, buf[1], buf[2], "result")) = Mapped(m.space)
  BY ImageFields, PokeMapped, ImageAssumption
<1>2. SameView(m, n)
  BY <1>1 DEF SameView, Images
<1>3. SameView(m, m)
  BY DEF SameView
<1>4. QED
  BY <1>2, <1>3 DEF Status

\* wait4, with a child to collect and without.
LEMMA WaitView ==
  ASSUME ImageInv, ViewInv, NEW p \in Procs, NEW c \in Procs, NEW buf,
         WaitReap(p, c, buf) \/ WaitPark(p, c, buf)
  PROVE  ViewInv'
<1>1. PICK m \in Images : m = image[p]
  BY DEF ImageInv, TypeOK
<1>2. image \in [Procs -> Images] /\ DOMAIN phase = Procs
  BY DEF ImageInv, TypeOK
<1>3. again[p] = NoCall /\ ViewOk(m, NoCall) /\ phase[p] = "running"
  BY <1>1, FreshCall DEF WaitReap, WaitPark
<1>4. CASE WaitReap(p, c, buf)
  <2>1. PICK n : n = Status(m, buf)
    OBVIOUS
  <2>2. SameView(m, n)
    BY <2>1, StatusView
  <2>3. /\ image' = [image EXCEPT ![p] = n] /\ again' = again /\ phase[c] = "zombie"
        /\ phase' = phase \/ phase' = [phase EXCEPT ![c] = "unused"]
    BY <1>1, <1>4, <2>1 DEF WaitReap, Becomes
  <2>4. image'[p] = n /\ \A q \in Procs : q # p => image'[q] = image[q]
    BY <1>2, <2>3
  <2>5. \A q \in Procs : Live(q)' => Live(q)
    BY <1>2, <2>3 DEF Live
  <2>6. ViewOk(image'[p], again[p])
    BY <1>3, <2>2, <2>4, SettledOk
  <2>7. QED
    BY <2>3, <2>4, <2>5, <2>6, OneView
<1>5. CASE WaitPark(p, c, buf)
  <2>1. image' = image /\ again' = again /\ phase' = [phase EXCEPT ![p] = "parked"]
    BY <1>5 DEF WaitPark
  <2>2. \A q \in Procs : q # p => (Live(q)' => Live(q))
    BY <1>2, <2>1 DEF Live
  <2>3. ViewOk(image'[p], again[p])
    BY <1>1, <1>3, <2>1
  <2>4. QED
    BY <2>1, <2>2, <2>3, OneView
<1>6. QED
  BY <1>4, <1>5

\* exit changes the map of nobody who stays.
LEMMA ExitView ==
  ASSUME ImageInv, ViewInv, NEW c \in Procs, Exit(c)
  PROVE  ViewInv'
<1>1. /\ image \in [Procs -> Images] /\ DOMAIN phase = Procs /\ parent[c] \in Procs
      /\ again' = again /\ phase[c] = "running"
  BY DEF ImageInv, TypeOK, Exit, Serves
<1>2. PICK p \in Procs : p = parent[c]
  BY <1>1
<1>3. CASE phase[p] = "parked"
  <2>1. PICK m \in Images : m = image[p]
    BY <1>1
  <2>2. PICK n : n = Status(m, waddr[p])
    OBVIOUS
  <2>3. /\ image' = [image EXCEPT ![c] = NoImage, ![p] = n]
        /\ phase' = [phase EXCEPT ![c] = "unused", ![p] = "running"]
    BY <1>2, <1>3, <2>1, <2>2 DEF Exit, WaitComplete
  <2>4. p # c
    BY <1>1, <1>3
  <2>5. ViewOk(n, again[p])
    <3>1. ViewOk(m, again[p])
      BY <1>3, <2>1 DEF ViewInv, Live
    <3>2. QED
      BY <2>2, <3>1, StatusView, SameViewOk
  <2>6. /\ image'[p] = n /\ phase'[c] = "unused"
        /\ \A q \in Procs : q # p /\ q # c => image'[q] = image[q] /\ phase'[q] = phase[q]
    BY <1>1, <2>3, <2>4
  <2>7. ASSUME NEW q \in Procs, Live(q)' PROVE ViewOk(image'[q], again'[q])
    <3>1. q # c
      BY <2>6, <2>7 DEF Live
    <3>2. CASE q = p
      BY <1>1, <2>5, <2>6, <3>2
    <3>3. CASE q # p
      <4>1. Live(q) /\ image'[q] = image[q]
        BY <2>6, <2>7, <3>1, <3>3 DEF Live
      <4>2. QED
        BY <1>1, <4>1 DEF ViewInv
    <3>4. QED
      BY <3>2, <3>3
  <2>8. ASSUME NEW q \in Procs
        PROVE  ViewOk(image[q], again[q])' <=> ViewOk(image'[q], again'[q])
    BY DEF ViewOk, Stuck
  <2>9. QED
    BY <2>7, <2>8 DEF ViewInv
<1>4. CASE phase[p] # "parked"
  <2>1. image' = [image EXCEPT ![c] = NoImage] /\ phase' = [phase EXCEPT ![c] = "zombie"]
    BY <1>2, <1>4 DEF Exit, Becomes
  <2>2. /\ ~Live(c)'
        /\ \A q \in Procs : q # c => image'[q] = image[q] /\ (Live(q)' => Live(q))
    BY <1>1, <2>1 DEF Live
  <2>3. QED
    BY <1>1, <2>2, OneView
<1>5. QED
  BY <1>3, <1>4

\* main's program.
LEMMA InitView == Init => ViewInv
<1> SUFFICES ASSUME Init PROVE ViewInv
  OBVIOUS
<1>1. PICK prog \in Programs, args \in ArgLists :
        /\ LoadProgram(EmptySpace, prog, args).ok
        /\ image = [p \in Procs |-> IF p = Root
                      THEN Loaded(NoImage, LoadProgram(EmptySpace, prog, args), prog, args)
                      ELSE NoImage]
  BY DEF Init
<1>2. PICK n : n = Loaded(NoImage, LoadProgram(EmptySpace, prog, args), prog, args)
  OBVIOUS
<1>3. \A call : ViewOk(n, call)
  BY <1>1, <1>2, NoImageTypes, EmptyFacts, LoadedView
<1>4. ASSUME NEW p \in Procs, Live(p) PROVE image[p] = n
  <2>1. p = Root
    BY <1>4 DEF Init, Live
  <2>2. QED
    BY <1>1, <1>2, <2>1
<1>5. QED
  BY <1>3, <1>4 DEF ViewInv

\* Every call of every process.
LEMMA StepView ==
  ASSUME ImageInv, TlsInv, ViewInv, Next
  PROVE  ViewInv'
<1>1. CASE \E p \in Procs, call \in Requests :
             \/ Brk(p, call) \/ Mmap(p, call) \/ MmapRefused(p, call)
             \/ MmapNoBuffer(p, call) \/ Munmap(p, call) \/ Mprotect(p, call)
  BY <1>1, BreakView, MmapView, MmapFailedView, MunmapView, MprotectView
<1>2. CASE \E p \in Procs, buf \in Buffers : Result(p, buf)
  BY <1>2, ResultView
<1>3. CASE \E p \in Procs, entry \in Entries, base \in Bases \cup {NoBase}, buf \in Buffers :
             SetThreadArea(p, entry, base, buf)
  BY <1>3, ThreadAreaView
<1>4. CASE \E p, c \in Procs : Fork(p, c)
  BY <1>4, ForkView
<1>5. CASE \E p \in Procs, prog \in Programs, args \in ArgLists : Execve(p, prog, args)
  BY <1>5, ExecveView
<1>6. CASE \E p, c \in Procs, buf \in Buffers \cup {NoBuffer} :
             WaitReap(p, c, buf) \/ WaitPark(p, c, buf)
  BY <1>6, WaitView
<1>7. CASE \E c \in Procs : Exit(c)
  BY <1>7, ExitView
<1>8. QED
  BY <1>1, <1>2, <1>3, <1>4, <1>5, <1>6, <1>7 DEF Next

\* Over any sequence of brk, mmap, munmap, fork and execve, of any number of
\* guests with any programs and addresses, what a guest can conclude from its
\* answers is what Mach has mapped, unless one of the things named with ViewAgrees
\* has happened to it: after the losing ones it has no page it does not know of,
\* after the leaving ones every page it counts on, after both nothing is said.
THEOREM ViewAgreesHolds == Spec => []ViewAgrees
<1>1. Init => ViewInv
  BY InitView
<1>2. ViewInv /\ UNCHANGED vars => ViewInv'
  BY DEF ViewInv, ViewOk, Stuck, Live, vars
<1>3. ImageInv /\ TlsInv /\ ViewInv /\ [Next]_vars => ViewInv'
  BY <1>2, StepView
<1>4. ViewInv => ViewAgrees
  <2>1. SUFFICES ASSUME ViewInv, NEW p \in Procs, Live(p)
                 PROVE  LET m == image[p]
                        IN  /\ m.stray = {} => Mapped(m.space) = m.view
                            /\ m.stray \subseteq Losing => Mapped(m.space) \subseteq m.view
                            /\ m.stray \subseteq Leaving /\ again[p] = NoCall
                                 => m.view \subseteq Mapped(m.space)
    BY DEF ViewAgrees
  <2>2. ViewOk(image[p], again[p])
    BY <2>1 DEF ViewInv
  <2>3. again[p] = NoCall => ~Stuck(image[p], again[p])
    BY DEF Stuck, NoCall
  <2>4. QED
    BY <2>2, <2>3 DEF ViewOk
<1>5. QED
  BY ImageHolds, <1>1, <1>3, <1>4, PTL DEF Spec

=============================================================================
