----------------------------- MODULE OryxLoader -----------------------------
(***************************************************************************)
(* How linux-personality/oryxlinux.c puts a program into an address space: *)
(* load_one for the executable and for its interpreter, build_stack, and   *)
(* load_program, which calls them for main and for execve alike.           *)
(*                                                                         *)
(* An object is [fixed, segs, entry, interp]: whether it is an ET_EXEC,    *)
(* its PT_LOAD segments, e_entry, and the objects PT_INTERP leads to (none *)
(* for a static program).  An object without segments also stands for a    *)
(* file that cannot be opened or is no i386 ELF.                           *)
(***************************************************************************)
EXTENDS OryxMemory, SequencesExt

CONSTANTS
  PIE_BASE, INTERP_BASE, STACK_TOP, STACK_SIZE,
  MaxStrings  \* argv and envp together: 120 in the code

ASSUME LoaderAssumption ==
  /\ {PIE_BASE, INTERP_BASE, STACK_TOP, STACK_SIZE} \subseteq {PageSize * g : g \in 0..UserPages}
  /\ STACK_SIZE \in (PageSize .. STACK_TOP)
  /\ MaxStrings \in Nat
  /\ "args" \in Tags

\* What objects and argument lists are made of: the fields are 32 bits wide,
\* and a string has its NUL at least.
Address == 0..(Top - 1)
Segments == [vaddr: Address, filesz: Address, memsz: Address, prot: Prot, tag: Tags]
Interpreters == [fixed: BOOLEAN, segs: Seq(Segments), entry: Address, interp: {<<>>}]
Objects == [fixed: BOOLEAN, segs: Seq(Segments), entry: Address,
            interp: Seq(Interpreters)]
Args == [argv: Seq(Nat \ {0}), envp: Seq(Nat \ {0})]

-----------------------------------------------------------------------------
(* load_one                                                                *)

Begin(seg, base) == Wrap(base + seg.vaddr)
VStart(seg, base) == PAGE_DOWN(Begin(seg, base))
VSize(seg, base) ==
  Wrap(PAGE_UP(Wrap(Begin(seg, base) + seg.memsz)) - VStart(seg, base))

\* A range that is partly taken is left as it is, all of it (KERN_NO_SPACE).
Room(s, a, n) == IF CanAllocate(s, a, n) THEN Allocate(s, a, n) ELSE s

LoadSegment(out, seg) ==
  LET a    == VStart(seg, out.base)
      size == VSize(seg, out.base)
      room == Room(out.space, a, size)
      at   == Begin(seg, out.base)
  IN  IF ~out.ok \/ ~InUser(a, size) \/ ~PokeOk(room, at, seg.filesz)
        THEN [out EXCEPT !.ok = FALSE]
        ELSE [out EXCEPT
                !.space = Protect(Poke(room, at, seg.filesz, seg.tag), a, size, seg.prot),
                !.brk = IF a + size > @ THEN a + size ELSE @]

Bias(obj, base) == IF obj.fixed THEN 0 ELSE base

\* The result: whether it worked, the space, the end of the highest segment,
\* the load bias and where the object is to be entered.
LoadOne(s, obj, base) ==
  LET b == Bias(obj, base)
      loaded[k \in 0..Len(obj.segs)] ==
        IF k = 0 THEN [ok |-> obj.segs # <<>>, space |-> s, brk |-> 0,
                       base |-> b, entry |-> Wrap(b + obj.entry)]
        ELSE LoadSegment(loaded[k - 1], obj.segs[k])
  IN  loaded[Len(obj.segs)]

-----------------------------------------------------------------------------
(* build_stack, in the code's own numbers: a block of 64 KiB below         *)
(* STACK_TOP, the strings at its top, the vector of 4-byte words under     *)
(* them.  args is [argv, envp], each the sequence of its strings' sizes.   *)

BLOCK == 65536
Total(sizes, n) ==
  LET total[k \in 0..n] == IF k = 0 THEN 0 ELSE total[k - 1] + sizes[k]
  IN  total[n]

\* What lies above the vector, from the lowest address up: envp, argv, "i686"
\* and the 16 random bytes; they were laid out from the top down.
Strings(args) == args.envp \o args.argv \o <<5, 16>>
Soff(args) == BLOCK - Total(Strings(args), Len(Strings(args)))

\* argc, argv and its NULL, envp and its NULL
Pointers(args) == 1 + (Len(args.argv) + 1) + (Len(args.envp) + 1)

\* Mutant: the vector is reserved without the terminators of argv and envp.
ReservedNoNulls(args) == 1 + Len(args.argv) + Len(args.envp) + 14 * 2

\* nwords: 14 pairs of auxiliary values
Reserved(args) == Pointers(args) + 14 * 2

\* The pairs that are stored, AT_NULL's included
Written(args) == Pointers(args) + 17 * 2

Voff(args) == LET v == Soff(args) - 4 * Reserved(args) IN v - (v % 16)

\* The strings whose first bytes the end of the vector overwrites.
Overwritten(args) ==
  {i \in 1..Len(Strings(args)) :
     Soff(args) + Total(Strings(args), i - 1) < Voff(args) + 4 * Written(args)}

\* The model's block is the stack's highest page.
BuildStack(s, args) ==
  LET base == STACK_TOP - STACK_SIZE
      ok   == /\ CanAllocate(s, base, STACK_SIZE)
              /\ Len(args.argv) + Len(args.envp) <= MaxStrings
      room == Protect(Room(s, base, STACK_SIZE), base, STACK_SIZE, {"read", "write"})
  IN  [ok |-> ok,
       space |-> IF ok THEN Poke(room, STACK_TOP - PageSize, PageSize, "args") ELSE room]

-----------------------------------------------------------------------------
(* load_program                                                            *)

\* Mutant: the interpreter's end is the break even when it is the lower one.
FirstBreakInterp(exe, ld) == IF ld = <<>> THEN exe.brk ELSE ld[1].brk

\* The break starts where the highest of the two objects ends.
FirstBreak(exe, ld) ==
  IF ld # <<>> /\ ld[1].brk > exe.brk THEN ld[1].brk ELSE exe.brk

LoadProgram(s, prog, args) ==
  LET exe   == LoadOne(s, prog, PIE_BASE)
      ld    == [i \in DOMAIN prog.interp |->
                  LoadOne(exe.space, prog.interp[i], INTERP_BASE)]
      last  == IF ld = <<>> THEN exe ELSE ld[1]
      stack == BuildStack(last.space, args)
  IN  [ok    |-> exe.ok /\ last.ok /\ stack.ok,
       space |-> stack.space,
       brk   |-> FirstBreak(exe, ld),
       entry |-> last.entry]
=============================================================================
