----------------------------- MODULE OryxMemory -----------------------------
(***************************************************************************)
(* A guest's address space as linux-personality/oryxlinux.c handles it:    *)
(* the Mach calls it makes on another task's memory, and peek and poke,    *)
(* through which every byte in and out of a guest goes.                    *)
(*                                                                         *)
(* Addresses are numbers modulo Top, as a vm_address_t is modulo 2^32; the *)
(* kernel has the pages from UserPages up for itself.  A page is a         *)
(* protection and PageSize bytes; a byte is named for who wrote it.        *)
(***************************************************************************)
EXTENDS Integers, Sequences, FiniteSets

CONSTANTS
  PageSize,   \* vm_page_size, in the model's bytes
  NPages,     \* pages that a vm_address_t can tell apart
  UserPages,  \* pages a task may map: those below VM_MAX_ADDRESS
  Tags        \* who may have written a byte, beside the kernel's zeros

ASSUME MemoryAssumption ==
  /\ PageSize \in Nat \ {0}
  /\ UserPages \in Nat \ {0}
  /\ NPages \in Nat /\ NPages > UserPages
  /\ "zero" \notin Tags

Top == PageSize * NPages
Page == 0..(UserPages - 1)
Offset == 0..(PageSize - 1)
Prot == SUBSET {"read", "write"}

NoPage == [prot |-> {}, data |-> <<>>]
Frame == [prot : Prot, data : [Offset -> Tags \cup {"zero"}]]
Space == [Page -> Frame \cup {NoPage}]
ZeroPage == [prot |-> {"read", "write"}, data |-> [i \in Offset |-> "zero"]]
EmptySpace == [g \in Page |-> NoPage]

Mapped(s) == {g \in Page : s[g] # NoPage}

-----------------------------------------------------------------------------
(* Addresses                                                               *)

Wrap(x) == x % Top
PAGE_DOWN(x) == x - (x % PageSize)

\* Mutant: a page too many when the address is aligned.
PAGE_UPNext(x) == PAGE_DOWN(Wrap(x + PageSize))
PAGE_UP(x) == PAGE_DOWN(Wrap(x + PageSize - 1))

\* What the kernel takes [a, a+n) for: nothing when the end wraps.
Pages(a, n) ==
  {g \in Page : a <= g * PageSize /\ g * PageSize < Wrap(a + n)}

\* The pages the bytes [a, a+n) lie on, the kernel's included.
Touched(a, n) == (a \div PageSize)..((a + n - 1) \div PageSize)

Inside(a, n, g, i) == a <= g * PageSize + i /\ g * PageSize + i < a + n

-----------------------------------------------------------------------------
(* Mach                                                                    *)

\* vm_allocate at a given address: a range in user space with nothing in it.
InUser(a, n) == Wrap(a + n) > a /\ Wrap(a + n) <= UserPages * PageSize
CanAllocate(s, a, n) == InUser(a, n) /\ Pages(a, n) \cap Mapped(s) = {}

Allocate(s, a, n) ==
  LET G == Pages(a, n) IN [g \in Page |-> IF g \in G THEN ZeroPage ELSE s[g]]

\* vm_allocate anywhere: any hole that is long enough.
Holes(s, n) == {a \in {g * PageSize : g \in Page} : CanAllocate(s, a, n)}

Deallocate(s, a, n) ==
  LET G == Pages(a, n) IN [g \in Page |-> IF g \in G THEN NoPage ELSE s[g]]

Protect(s, a, n, prot) ==
  LET G == Pages(a, n)
  IN  [g \in Page |-> IF g \in G /\ s[g] # NoPage THEN [s[g] EXCEPT !.prot = prot] ELSE s[g]]

-----------------------------------------------------------------------------
(* Reading and writing a guest                                             *)

Readable(s, a, n) ==
  \A g \in Touched(a, n) : g \in Page /\ "read" \in s[g].prot

\* The whole pages are read, patched, made writable and written back.  If they
\* cannot all be read the patch goes over zeros; if they are not all mapped the
\* write fails, with the protection changed already.
PokeOk(s, a, n) == n = 0 \/ \A g \in Touched(a, n) : g \in Page /\ s[g] # NoPage

\* Mutant: the enclosing pages are not read first.
PokeBlind(s, a, n, tag) ==
  LET ok == PokeOk(s, a, n)
  IN  [g \in Page |->
         IF n = 0 \/ g \notin Touched(a, n) \/ s[g] = NoPage THEN s[g]
         ELSE [prot |-> {"read", "write"},
               data |-> IF ok THEN [i \in Offset |-> IF Inside(a, n, g, i) THEN tag
                                                     ELSE "zero"]
                              ELSE s[g].data]]

Poke(s, a, n, tag) ==
  LET ok   == PokeOk(s, a, n)
      read == Readable(s, a, n)
  IN  [g \in Page |->
         IF n = 0 \/ g \notin Touched(a, n) \/ s[g] = NoPage THEN s[g]
         ELSE [prot |-> {"read", "write"},
               data |-> IF ok THEN [i \in Offset |-> IF Inside(a, n, g, i) THEN tag
                                                     ELSE IF read THEN s[g].data[i]
                                                     ELSE "zero"]
                              ELSE s[g].data]]
=============================================================================
