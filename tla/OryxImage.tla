----------------------------- MODULE OryxImage ------------------------------
(***************************************************************************)
(* The images of the guests under linux-personality/oryxlinux.c: address   *)
(* space, break, initial stack and TLS descriptors, and the calls that     *)
(* change them.  Every handler here runs under the mutex and while the     *)
(* guest's one thread is stopped, so a call is one step.  A guest whose     *)
(* execve failed is followed no further here; OryxServer and OryxFiles do.  *)
(*                                                                         *)
(* Beside what the code keeps, image[p].view is what the guest can work    *)
(* out from the answers it was given, by the rules of Linux: the pages it  *)
(* holds.  image[p].stray is why the view and Mach's map may have parted,  *)
(* and image[p].want the TLS base it was last promised.                    *)
(***************************************************************************)
EXTENDS OryxLoader

CONSTANTS
  Procs,      \* table slots; the root is one of them
  Root,
  Programs,   \* what execve and main may be given: objects,
  ArgLists,   \* the sizes of their argument and environment strings,
  Requests,   \* the calls guests make, records of the kinds below
  Buffers,    \* the buffers they have results put in: <<address, length>>
  Slots,      \* the descriptors a thread has room for, as selectors
  Entries,    \* the entry_number they name: NOSEL to have one chosen
  Bases,      \* the TLS bases they ask for
  MaxCalls    \* bound: how many calls are served

ASSUME ImageAssumption ==
  /\ Root \in Procs
  /\ MaxCalls \in Nat
  /\ {"result", "file", "args"} \subseteq Tags
  /\ Slots \subseteq Nat /\ Entries \subseteq Nat \cup {-1}
  /\ "none" \notin Bases
  /\ Programs \subseteq Objects /\ \A prog \in Programs : Len(prog.interp) <= 1
  /\ ArgLists \subseteq Args
  /\ Buffers \subseteq Address \X Nat
  /\ Requests \subseteq [op: {"brk"}, want: Address]
       \cup {r \in [op: {"mmap"}, addr: Address, len: Address, prot: Prot,
                    fixed: BOOLEAN, file: Address] : r.file <= r.len}
       \cup [op: {"munmap"}, addr: Address, len: Address]
       \cup [op: {"mprotect"}, addr: Address, len: Address, prot: Prot]

HALF == Top \div 2       \* LONG_MIN as an address
NOSEL == -1
NoBase == "none"
Error == -1
NoCall == [op |-> "none"]
NoBuffer == <<0, 0>>
NoImage == [space |-> EmptySpace, lo |-> 0, hi |-> 0, view |-> {}, stray |-> {},
            tls |-> NOSEL, gdt |-> [s \in Slots |-> NoBase], want |-> NoBase,
            named |-> FALSE, args |-> [argv |-> <<>>, envp |-> <<>>], lost |-> {},
            entry |-> 0]

VARIABLES
  phase,   \* of each slot: unused, the guest runs, is parked in wait4, a zombie
  image,   \* what the process has
  again,   \* the call it makes again, its registers never having been updated
  parent,  \* ppid
  waddr,   \* wait_status_addr of a parked parent
  asked,   \* the call this step served: by whom, the pages and bytes it named
  left     \* calls until the bound

vars == <<phase, image, again, parent, waddr, asked, left>>

Quiet == [proc |-> Root, op |-> "none", pages |-> {}, buf |-> NoBuffer, prog |-> 0]

\* Why a view and Mach's map may have parted: pages the guest was given are gone,
\* or pages it gave up are left.
Losing == {"wrap", "mapwrap", "fixed", "hole"}
Leaving == {"unwrap", "unmapwrap", "unaligned", "half", "buffer"}
Reasons == Losing \cup Leaving
Images == [space: Space, lo: Address, hi: Address, view: SUBSET Page,
           stray: SUBSET Reasons, tls: Slots \cup {NOSEL},
           gdt: [Slots -> Bases \cup {NoBase}], want: Bases \cup {NoBase},
           named: BOOLEAN, args: Args, lost: SUBSET Nat, entry: Address]

\* The types of the variables.
TypeOK ==
  /\ phase \in [Procs -> {"unused", "running", "parked", "zombie"}]
  /\ image \in [Procs -> Images]
  /\ again \in [Procs -> Requests \cup {NoCall}]
  /\ parent \in [Procs -> Procs]
  /\ waddr \in [Procs -> Buffers \cup {NoBuffer}]
  /\ asked.proc \in Procs /\ asked.pages \subseteq Page
  /\ left \in 0..MaxCalls

-----------------------------------------------------------------------------
(* A new image                                                             *)

\* The pages the segments claim, the executable's first, then the interpreter's.
ObjectClaims(obj, base) ==
  LET b == Bias(obj, base)
  IN  [k \in DOMAIN obj.segs |-> Pages(VStart(obj.segs[k], b), VSize(obj.segs[k], b))]
Claims(prog) ==
  ObjectClaims(prog, PIE_BASE)
    \o IF prog.interp = <<>> THEN <<>> ELSE ObjectClaims(prog.interp[1], INTERP_BASE)

StackPages == Pages(STACK_TOP - STACK_SIZE, STACK_SIZE)
ProgramPages(prog) == StackPages \cup UNION ToSet(Claims(prog))

\* A segment that needs pages beyond one an earlier segment has claimed.
HasHole(prog) ==
  LET P == Claims(prog)
  IN  \E i, j \in DOMAIN P : i < j /\ P[i] \cap P[j] # {} /\ ~(P[j] \subseteq P[i])

\* old with the program in it; its descriptors are left alone.
Loaded(old, new, prog, args) ==
  [old EXCEPT !.space = new.space, !.lo = new.brk, !.hi = new.brk,
              !.view = ProgramPages(prog),
              !.stray = IF HasHole(prog) THEN {"hole"} ELSE {},
              !.args = args, !.lost = Overwritten(args), !.entry = new.entry]

\* main: an empty task and the first program, if it can be loaded.
Init ==
  /\ phase = [p \in Procs |-> IF p = Root THEN "running" ELSE "unused"]
  /\ \E prog \in Programs, args \in ArgLists :
       LET new == LoadProgram(EmptySpace, prog, args)
       IN  /\ new.ok
           /\ image = [p \in Procs |-> IF p = Root
                                         THEN Loaded(NoImage, new, prog, args)
                                         ELSE NoImage]
  /\ again = [p \in Procs |-> NoCall]
  /\ parent = [p \in Procs |-> Root]
  /\ waddr = [p \in Procs |-> NoBuffer]
  /\ asked = Quiet
  /\ left = MaxCalls

-----------------------------------------------------------------------------
(* Serving a call                                                          *)

Serves(p, call) ==
  /\ left > 0 /\ left' = left - 1
  /\ phase[p] = "running"
  /\ again[p] \in {NoCall, call}

Asks(p, op, pages, buf) ==
  asked' = [proc |-> p, op |-> op, pages |-> pages, buf |-> buf, prog |-> 0]

Becomes(p, new) == image' = [image EXCEPT ![p] = new]

\* A result equal to LONG_MIN is taken for a handler that has set the registers
\* itself: the guest executes the same int $0x80 again.
Answers(p, call, r) ==
  again' = [again EXCEPT ![p] = IF r = HALF THEN call ELSE NoCall]

\* A call on the caller's own memory, and what the guest makes of its answer.
Remaps(p, call, new, r, op, pages) ==
  /\ Serves(p, call)
  /\ Becomes(p, [new EXCEPT !.view = IF r = HALF THEN image[p].view ELSE @,
                            !.stray = IF r = HALF THEN @ \cup {"half"} ELSE @])
  /\ Answers(p, call, r)
  /\ Asks(p, op, pages, NoBuffer)
  /\ UNCHANGED <<phase, parent, waddr>>

\* The pages of [a, a+n) in true arithmetic, and whether rounding its end up wraps.
Spanned(a, n) == {g \in Page : PAGE_DOWN(a) <= g * PageSize /\ g * PageSize < a + n}
Wraps(a, n) == a + n > Top - PageSize
Unaligned(a) == IF PAGE_DOWN(a) # a THEN {"unaligned"} ELSE {}

-----------------------------------------------------------------------------
(* brk, mmap, munmap, mprotect                                             *)

\* What sys_brk makes of a request: the image with another space and break.
BrkOf(m, want) ==
  LET old  == PAGE_UP(m.hi)
      new  == PAGE_UP(want)
      grow == Protect(Allocate(m.space, old, new - old), old, new - old,
                      {"read", "write"})
  IN  IF \/ want = 0 \/ want < m.lo
         \/ new > old /\ ~CanAllocate(m.space, old, new - old) THEN m
      ELSE IF new > old THEN [m EXCEPT !.space = grow, !.hi = want]
      ELSE [m EXCEPT !.space = Deallocate(@, new, old - new), !.hi = want]

\* The guest has the pages below the break it was told, and no more.
BrkView(m, r) ==
  (m.view \cup {g \in Page : m.hi <= g * PageSize /\ g * PageSize < r})
     \ {g \in Page : r <= g * PageSize /\ g * PageSize < m.hi}

\* A break too near the top is rounded up to 0.  From there the next one that is
\* granted maps all below it again, and is the most the guest can still hold.
BrkStray(m, want, r) ==
  IF Wraps(0, want) THEN m.stray \cup {"wrap"}
  ELSE IF Wraps(0, m.hi) /\ r # m.hi THEN {"unwrap"}
  ELSE m.stray

Brk(p, call) ==
  LET m   == image[p]
      new == BrkOf(m, call.want)
  IN  /\ call.op = "brk"
      /\ Remaps(p, call, [new EXCEPT !.view = BrkView(m, new.hi),
                                     !.stray = BrkStray(m, call.want, new.hi)],
                new.hi, "map", {})

\* Where the kernel may put a mapping.  MAP_FIXED drops what is there first; a
\* refused hint means anywhere; a length that rounds to 0 is granted, at 0.
MmapAt(s, call) ==
  LET a == PAGE_DOWN(call.addr)
      n == PAGE_UP(call.len)
      fits(t) == n > 0 /\ CanAllocate(t, a, n)
  IN  CASE call.fixed -> IF n = 0 THEN {0} \cap {a}
                         ELSE IF fits(Deallocate(s, a, n)) THEN {a} ELSE {}
        [] ~call.fixed /\ n = 0 -> {0}
        [] ~call.fixed /\ n > 0 -> IF a # 0 /\ fits(s) THEN {a} ELSE Holes(s, n)

\* The space a mapping begins with, and the space with it at a.
MmapBase(s, call) ==
  IF call.fixed THEN Deallocate(s, PAGE_DOWN(call.addr), PAGE_UP(call.len)) ELSE s
MmapSpace(s, call, a) == Allocate(MmapBase(s, call), a, PAGE_UP(call.len))

MmapProt(prot) == IF prot = {} THEN {"read"} ELSE prot

\* What is read of the file, nothing if the read fails, is poked in.
Mmap(p, call) ==
  LET m == image[p]
      n == PAGE_UP(call.len)
  IN  /\ call.op = "mmap" /\ call.len > 0
      /\ \E a \in MmapAt(m.space, call), fill \in {0, call.file} :
           Remaps(p, call,
                  [m EXCEPT !.space = Protect(Poke(MmapSpace(@, call, a), a, fill, "file"),
                                              a, n, MmapProt(call.prot)),
                            !.view = @ \cup Spanned(a, call.len),
                            !.stray = @ \cup IF Wraps(0, call.len) THEN {"mapwrap"}
                                                                   ELSE {}],
                  a, "map", Spanned(a, call.len))

\* ENOMEM: no place for it, with what MAP_FIXED dropped gone.
MmapRefused(p, call) ==
  LET m == image[p]
  IN  /\ call.op = "mmap" /\ call.len > 0
      /\ MmapAt(m.space, call) = {}
      /\ Remaps(p, call, [m EXCEPT !.space = MmapBase(@, call),
                                   !.stray = @ \cup IF call.fixed THEN {"fixed"} ELSE {}],
                Error, "map", Spanned(call.addr, call.len))

\* ENOMEM: the emulator has no memory for the file's bytes; the mapping stays.
MmapNoBuffer(p, call) ==
  LET m == image[p]
  IN  /\ call.op = "mmap" /\ call.len > 0 /\ call.file > 0
      /\ \E a \in MmapAt(m.space, call) :
           Remaps(p, call, [m EXCEPT !.space = MmapSpace(@, call, a),
                                     !.stray = @ \cup {"buffer"}],
                  Error, "map", Spanned(a, call.len))

\* Always answered 0, for an address that Linux would refuse as well.
Munmap(p, call) ==
  /\ call.op = "munmap"
  /\ Remaps(p, call,
            [image[p] EXCEPT
               !.space = Deallocate(@, PAGE_DOWN(call.addr), PAGE_UP(call.len)),
               !.view = @ \ Spanned(call.addr, call.len),
               !.stray = @ \cup Unaligned(call.addr)
                           \cup IF Wraps(call.addr, call.len) THEN {"unmapwrap"} ELSE {}],
            0, "map", Spanned(call.addr, call.len))

Mprotect(p, call) ==
  /\ call.op = "mprotect"
  /\ Remaps(p, call,
            [image[p] EXCEPT !.space = Protect(@, PAGE_DOWN(call.addr), PAGE_UP(call.len),
                                               call.prot)],
            0, "protect", Spanned(call.addr, call.len))

-----------------------------------------------------------------------------
(* Calls that put a result in the guest's memory                           *)

Writes(p, new, buf) ==
  /\ Serves(p, NoCall)
  /\ Becomes(p, [new EXCEPT !.space = Poke(@, buf[1], buf[2], "result")])
  /\ Asks(p, "write", {}, buf)
  /\ UNCHANGED <<phase, again, parent, waddr>>

Result(p, buf) == Writes(p, image[p], buf)

GdtFree(gdt) == {s \in Slots : gdt[s] = NoBase}

\* Mutant: no slot is remembered.
SelectorFresh(m, entry) ==
  IF entry # NOSEL THEN {entry} \cap Slots ELSE GdtFree(m.gdt)

\* Mutant: Mach's refusal of a slot is not looked at.
SelectorUnchecked(m, entry) == IF entry # NOSEL THEN {entry} ELSE GdtFree(m.gdt)

\* The slot the caller names, or the one it had last, or a free one.
Selector(m, entry) ==
  CASE entry # NOSEL -> {entry} \cap Slots
    [] entry = NOSEL /\ m.tls # NOSEL -> {m.tls}
    [] entry = NOSEL /\ m.tls = NOSEL -> GdtFree(m.gdt)

\* The descriptor is set before the entry is written back.  A descriptor that is
\* not present, NoBase, leaves Mach's slot empty, and the selector is remembered
\* all the same.
SetThreadArea(p, entry, base, buf) ==
  /\ Readable(image[p].space, buf[1], buf[2])
  /\ \E sel \in Selector(image[p], entry) :
       Writes(p, [image[p] EXCEPT !.gdt[sel] = base, !.tls = sel, !.want = base,
                                  !.named = @ \/ entry # NOSEL], buf)

-----------------------------------------------------------------------------
(* fork, execve, exit, wait4                                               *)

\* The new thread has no descriptors; the last one set is carried over, unless
\* Mach refuses it.
InheritTls(m, carried) ==
  [m EXCEPT !.gdt = [s \in Slots |-> IF carried /\ s = m.tls THEN m.gdt[s] ELSE NoBase],
            !.tls = IF carried THEN m.tls ELSE NOSEL]

Fork(p, c) ==
  /\ Serves(p, NoCall)
  /\ phase[c] = "unused"
  /\ phase' = [phase EXCEPT ![c] = "running"]
  /\ \E carried \in BOOLEAN : Becomes(c, InheritTls(image[p], carried))
  /\ parent' = [parent EXCEPT ![c] = p]
  /\ Asks(c, "fork", {}, NoBuffer)
  /\ UNCHANGED <<again, waddr>>

\* vm_region finds every region in turn, whatever lies between them.
wipe_address_space(s) == [g \in DOMAIN s |-> NoPage]

\* The old image is gone before it is known whether the new one can be loaded;
\* if not the guest is killed.
Execve(p, prog, args) ==
  LET new == LoadProgram(wipe_address_space(image[p].space), prog, args)
  IN  /\ Serves(p, NoCall)
      /\ IF new.ok
           THEN /\ Becomes(p, Loaded(image[p], new, prog, args))
                /\ UNCHANGED phase
           ELSE /\ Becomes(p, NoImage)
                /\ phase' = [phase EXCEPT ![p] = "zombie"]
      /\ asked' = [proc |-> p, op |-> "exec", pages |-> {}, buf |-> NoBuffer,
                   prog |-> prog]
      /\ UNCHANGED <<again, parent, waddr>>

\* The poke of a status: at 0 there is none.
Status(m, buf) ==
  IF buf[1] = 0 THEN m
  ELSE [m EXCEPT !.space = Poke(@, buf[1], buf[2], "result")]

\* A parent with a zombie is told at once; if the status cannot be written the
\* zombie stays.
WaitReap(p, c, buf) ==
  /\ Serves(p, NoCall)
  /\ phase[c] = "zombie" /\ parent[c] = p
  /\ Becomes(p, Status(image[p], buf))
  /\ phase' = IF buf[1] = 0 \/ PokeOk(image[p].space, buf[1], buf[2])
                THEN [phase EXCEPT ![c] = "unused"] ELSE phase
  /\ Asks(p, "write", {}, buf)
  /\ UNCHANGED <<again, parent, waddr>>

WaitPark(p, c, buf) ==
  /\ Serves(p, NoCall)
  /\ phase[c] = "running" /\ parent[c] = p /\ c # p
  /\ phase' = [phase EXCEPT ![p] = "parked"]
  /\ waddr' = [waddr EXCEPT ![p] = buf]
  /\ asked' = Quiet
  /\ UNCHANGED <<image, again, parent>>

\* Mutant: cur is still the child when its status is written.
WaitCompleteInChild(p, c) ==
  [image EXCEPT ![c] = Status(image[c], waddr[p])]

\* wait_complete writes the status into the parent's memory.
WaitComplete(p, c) ==
  [image EXCEPT ![c] = NoImage, ![p] = Status(image[p], waddr[p])]

Exit(c) ==
  LET p == parent[c]
  IN  /\ Serves(c, NoCall)
      /\ c # Root
      /\ IF phase[p] = "parked"
           THEN /\ image' = WaitComplete(p, c)
                /\ phase' = [phase EXCEPT ![c] = "unused", ![p] = "running"]
                /\ Asks(p, "write", {}, waddr[p])
                /\ waddr' = [waddr EXCEPT ![p] = NoBuffer]
           ELSE /\ Becomes(c, NoImage)
                /\ phase' = [phase EXCEPT ![c] = "zombie"]
                /\ Asks(c, "exit", {}, NoBuffer)
                /\ UNCHANGED waddr
      /\ UNCHANGED <<again, parent>>

-----------------------------------------------------------------------------
Next ==
  \/ \E p \in Procs, call \in Requests :
       \/ Brk(p, call)
       \/ Mmap(p, call)
       \/ MmapRefused(p, call)
       \/ MmapNoBuffer(p, call)
       \/ Munmap(p, call)
       \/ Mprotect(p, call)
  \/ \E p \in Procs, buf \in Buffers : Result(p, buf)
  \/ \E p \in Procs, entry \in Entries, base \in Bases \cup {NoBase}, buf \in Buffers :
       SetThreadArea(p, entry, base, buf)
  \/ \E p, c \in Procs : Fork(p, c)
  \/ \E p \in Procs, prog \in Programs, args \in ArgLists : Execve(p, prog, args)
  \/ \E p, c \in Procs, buf \in Buffers \cup {NoBuffer} :
       \/ WaitReap(p, c, buf)
       \/ WaitPark(p, c, buf)
  \/ \E c \in Procs : Exit(c)

Spec == Init /\ [][Next]_vars

-----------------------------------------------------------------------------
(* Properties                                                              *)

Live(p) == phase[p] \in {"running", "parked"}

\* What a guest can conclude from its answers is what Mach has mapped, over any
\* sequence of brk, mmap, munmap, fork and execve, unless something named here
\* has happened.  Four things only lose pages: a break that wraps, an mmap whose
\* length wraps, MAP_FIXED refused after its teardown, a segment that got no
\* pages because its first was taken.  Five only leave some behind: the break
\* granted after one that wrapped, a munmap whose end wraps or that begins within
\* a page, a result at LONG_MIN, a file mapping without a buffer.
ViewAgrees ==
  \A p \in Procs : Live(p) =>
    LET m == image[p]
    IN  /\ m.stray = {} => Mapped(m.space) = m.view
        /\ m.stray \subseteq Losing => Mapped(m.space) \subseteq m.view
        /\ m.stray \subseteq Leaving /\ again[p] = NoCall
             => m.view \subseteq Mapped(m.space)

\* The vector build_stack stores is three pairs longer than the room it left:
\* the lowest string is always damaged, and nothing that begins 24 bytes or
\* more above the reserved end ever is.
StackDamage ==
  \A p \in Procs : Live(p) =>
    LET m == image[p]
    IN  /\ 1 \in m.lost
        /\ \A i \in m.lost : Total(Strings(m.args), i - 1) < 24

\* Behind a remembered selector is, in this thread, the descriptor that the guest
\* asked for last, through any forks and execs, none if it asked for one that is
\* not present; and a guest that never named a slot uses one at most.
TlsBacked ==
  \A p \in Procs : Live(p) =>
    LET m == image[p]
    IN  /\ m.tls # NOSEL => m.gdt[m.tls] = m.want
        /\ ~m.named => \A s \in Slots : m.gdt[s] # NoBase => s = m.tls

\* Memory that stays mapped keeps its bytes and its protection, but for what
\* the call named.  A result changes nothing round its buffer, unless a page of
\* the buffer could not be read, when the rest of its pages is zeroed; and its
\* pages are left readable and writable.
OnlyAsked ==
  [][\A p \in Procs :
       LET old == image[p].space
           new == image'[p].space
           buf == asked'.buf
       IN  asked'.op # "exec" \/ p # asked'.proc =>
           \A g \in Mapped(old) \cap Mapped(new) :
             \/ new[g] = old[g]
             \/ p = asked'.proc /\ g \in asked'.pages
                  /\ (asked'.op = "protect" => new[g].data = old[g].data)
             \/ /\ p = asked'.proc /\ asked'.op = "write"
                /\ g \in Touched(buf[1], buf[2])
                /\ new[g].prot = {"read", "write"}
                /\ Readable(old, buf[1], buf[2]) =>
                     \A i \in Offset : \/ new[g].data[i] = old[g].data[i]
                                       \/ Inside(buf[1], buf[2], g, i)]_vars

\* A child is collected with its status in its parent's memory, whichever came
\* first, the exit or the wait4; unless the parent wanted none or, parked, has
\* given a buffer that is not mapped.
StatusDelivered ==
  [][\A c \in Procs :
       LET p    == parent[c]
           buf  == asked'.buf
           done == image'[p].space
       IN  phase[c] # "unused" /\ phase'[c] = "unused" =>
             \/ buf[1] = 0
             \/ phase[p] = "parked" /\ ~PokeOk(image[p].space, buf[1], buf[2])
             \/ \A g \in Page, i \in Offset :
                  Inside(buf[1], buf[2], g, i) => done[g].data[i] = "result"]_vars

\* The segment of prog or its interpreter that a byte was last loaded from.
Sources(prog, g, i) ==
  LET Of(obj, base) ==
        LET b == Bias(obj, base)
        IN  {k \in DOMAIN obj.segs :
               Inside(Begin(obj.segs[k], b), obj.segs[k].filesz, g, i)}
      LastTag(obj, base) == {obj.segs[k].tag : k \in
                            {k \in Of(obj, base) : \A j \in Of(obj, base) : j <= k}}
  IN  LastTag(prog, PIE_BASE) \cup UNION {LastTag(ld, INTERP_BASE) : ld \in ToSet(prog.interp)}

\* The image execve leaves is the new program's and nothing else's: each byte
\* comes from the file, the argument block or the kernel's zeros, nothing of
\* the old image is left, pages two segments share hold both, the guest is
\* entered at a loaded byte, and the break is above every segment.
ExecExact ==
  [][\A p \in Procs :
       asked'.op = "exec" /\ asked'.proc = p /\ phase'[p] = "running" =>
         LET new  == image'[p]
             prog == asked'.prog
             argp == Pages(STACK_TOP - PageSize, PageSize)
         IN  /\ \A g \in Mapped(new.space), i \in Offset :
                  LET from == IF g \in argp THEN {"args"} ELSE Sources(prog, g, i)
                  IN  new.space[g].data[i] \in
                        (IF from = {} THEN {"zero"} ELSE from)
             /\ \A g \in Page, i \in Offset :
                  Sources(prog, g, i) # {} => g \in Mapped(new.space)
             /\ \E g \in Page, i \in Offset :
                  Inside(new.entry, 1, g, i) /\ Sources(prog, g, i) # {}
             /\ \A g \in ProgramPages(prog) \ StackPages : g * PageSize < new.lo]_vars
=============================================================================
