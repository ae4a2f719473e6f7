------------------------- MODULE OryxLoader_proofs --------------------------
(***************************************************************************)
(* What the operators of OryxMemory and OryxLoader do, for any page size   *)
(* and any number of pages: rounding and wrapping, the kernel's calls on   *)
(* an address space, poke, and the loading of an object segment by         *)
(* segment.                                                                *)
(***************************************************************************)
EXTENDS OryxLoader, TLAPS, WellFoundedInduction

-----------------------------------------------------------------------------
(* Numbers                                                                 *)

\* Division with a remainder.
LEMMA Division ==
  ASSUME NEW P \in Nat \ {0}, NEW x \in Nat
  PROVE  /\ x \div P \in Nat /\ x % P \in 0..(P - 1)
         /\ x = P * (x \div P) + (x % P)
<1>1. x \div P \in Nat /\ x % P \in 0..(P - 1)
  OBVIOUS
<1>2. PICK q \in Nat : q = x \div P
  BY <1>1
<1>3. PICK r \in 0..(P - 1) : r = x % P
  BY <1>1
<1>4. x = P * q + r
  BY <1>2, <1>3, SMTT(30)
<1>5. QED
  BY <1>1, <1>2, <1>3, <1>4

\* What is left of a number that wraps once at most.
LEMMA Wrapping ==
  ASSUME NEW T \in Nat \ {0}, NEW x \in Nat
  PROVE  /\ x % T \in 0..(T - 1)
         /\ x < T => x % T = x
         /\ T <= x /\ x < 2 * T => x % T = x - T
OBVIOUS

\* Multiples of the page size are ordered as their pages are, a page apart.
LEMMA Multiples ==
  ASSUME NEW P \in Nat \ {0}, NEW i \in Int, NEW j \in Int
  PROVE  /\ i < j => i * P + P <= j * P
         /\ i * P < j * P => i < j
         /\ i <= j => i * P <= j * P
<1>1. ASSUME i < j PROVE i * P + P <= j * P
  BY <1>1
<1>2. ASSUME j <= i PROVE j * P <= i * P
  BY <1>2
<1>3. i * P \in Int /\ j * P \in Int
  OBVIOUS
<1>4. ASSUME i <= j PROVE i * P <= j * P
  BY <1>4
<1>5. ASSUME i * P < j * P PROVE i < j
  BY <1>2, <1>3, <1>5
<1>6. QED
  BY <1>1, <1>4, <1>5

\* The numbers a module's constants make.
LEMMA Sizes ==
  /\ PageSize \in Nat \ {0} /\ Top \in Nat \ {0} /\ PageSize <= Top
  /\ UserPages * PageSize \in Nat /\ UserPages * PageSize + PageSize <= Top
  /\ UserPages \in Nat \ {0}
<1>1. /\ PageSize \in Nat \ {0} /\ UserPages \in Nat \ {0} /\ NPages \in Nat
      /\ NPages > UserPages
  BY MemoryAssumption
<1>2. Top = NPages * PageSize
  BY <1>1 DEF Top
<1>3. UserPages * PageSize + PageSize <= Top
  BY <1>1, <1>2, Multiples
<1>4. UserPages * PageSize \in Nat /\ Top \in Nat
  BY <1>1, <1>2
<1>5. QED
  BY <1>1, <1>3, <1>4

\* An address wraps to an address.
LEMMA WrapFacts ==
  ASSUME NEW x \in Nat
  PROVE  /\ Wrap(x) \in 0..(Top - 1)
         /\ x < Top => Wrap(x) = x
         /\ Top <= x /\ x < 2 * Top => Wrap(x) = x - Top
BY Sizes, Wrapping DEF Wrap

\* Rounding down gives the first address of the page.
LEMMA PageDown ==
  ASSUME NEW x \in Nat
  PROVE  /\ PAGE_DOWN(x) = (x \div PageSize) * PageSize
         /\ PAGE_DOWN(x) \in Nat /\ PAGE_DOWN(x) <= x /\ x < PAGE_DOWN(x) + PageSize
         /\ x \div PageSize \in Nat
<1>1. /\ PageSize \in Nat \ {0}
      /\ x \div PageSize \in Nat /\ x % PageSize \in 0..(PageSize - 1)
      /\ x = PageSize * (x \div PageSize) + (x % PageSize)
  BY Sizes, Division
<1>2. PICK q \in Nat : q = x \div PageSize
  BY <1>1
<1>3. PICK r \in 0..(PageSize - 1) : r = x % PageSize
  BY <1>1
<1>4. q * PageSize = PageSize * q /\ q * PageSize \in Nat
  BY <1>1
<1>5. PAGE_DOWN(x) = q * PageSize
  BY <1>1, <1>2, <1>3, <1>4 DEF PAGE_DOWN
<1>6. QED
  BY <1>1, <1>2, <1>3, <1>4, <1>5

\* Rounding up gives the next page's, or 0 past the last one.
LEMMA PageUp ==
  ASSUME NEW x \in 0..(Top - 1)
  PROVE  /\ PAGE_UP(x) \in 0..(Top - 1)
         /\ \E k \in Nat : PAGE_UP(x) = k * PageSize
         /\ PAGE_UP(x) < x + PageSize
         /\ x + PageSize <= Top => x <= PAGE_UP(x)
<1>1. /\ PageSize \in Nat \ {0} /\ Top \in Nat \ {0} /\ PageSize <= Top
  BY Sizes
<1> DEFINE w == Wrap(x + PageSize - 1)
<1>2. /\ w \in 0..(Top - 1) /\ w < x + PageSize
      /\ x + PageSize <= Top => w = x + PageSize - 1
  BY <1>1, WrapFacts
<1>3. PAGE_UP(x) = PAGE_DOWN(w)
  BY DEF PAGE_UP
<1> HIDE DEF w
<1>4. /\ PAGE_DOWN(w) = (w \div PageSize) * PageSize
      /\ PAGE_DOWN(w) \in Nat /\ PAGE_DOWN(w) <= w /\ w < PAGE_DOWN(w) + PageSize
      /\ w \div PageSize \in Nat
  BY <1>2, PageDown
<1> DEFINE up == PAGE_UP(x)
<1>5. up = PAGE_DOWN(w) /\ \E k \in Nat : up = k * PageSize
  BY <1>3, <1>4
<1> HIDE DEF up
<1>6. up \in 0..(Top - 1) /\ up < x + PageSize
  BY <1>1, <1>2, <1>4, <1>5
<1>7. ASSUME x + PageSize <= Top PROVE x <= up
  BY <1>1, <1>2, <1>4, <1>5, <1>7
<1>8. QED
  BY <1>5, <1>6, <1>7 DEF up

-----------------------------------------------------------------------------
(* Mach's calls                                                            *)

\* Each of them makes an address space of an address space.
LEMMA SpaceFacts ==
  ASSUME NEW s \in Space, NEW a, NEW n
  PROVE  /\ Allocate(s, a, n) \in Space /\ Deallocate(s, a, n) \in Space
         /\ \A prot \in Prot : Protect(s, a, n, prot) \in Space
<1>1. ZeroPage \in Frame
  BY DEF ZeroPage, Frame, Prot
<1>2. ASSUME NEW prot \in Prot, NEW g \in Page, s[g] # NoPage
      PROVE  [s[g] EXCEPT !.prot = prot] \in Frame
  BY <1>2 DEF Space, Frame
<1>3. QED
  BY <1>1, <1>2 DEF Space, Allocate, Deallocate, Protect

\* The one nothing is mapped in is one.
LEMMA EmptyFacts == EmptySpace \in Space /\ Mapped(EmptySpace) = {}
BY DEF EmptySpace, Space, Mapped

\* What is allocated was free, and the rest stays as it was.
LEMMA AllocateKeeps ==
  ASSUME NEW s \in Space, NEW a, NEW n, NEW g \in Page
  PROVE  /\ g \notin Pages(a, n) => Allocate(s, a, n)[g] = s[g]
         /\ g \in Pages(a, n) => Allocate(s, a, n)[g] # NoPage
<1>1. ZeroPage # NoPage
  <2>1. ZeroPage.prot = {"read", "write"} /\ NoPage.prot = {}
    BY DEF ZeroPage, NoPage
  <2>2. QED
    BY <2>1
<1>2. QED
  BY <1>1 DEF Allocate

\* What is deallocated is gone, and the rest stays as it was.
LEMMA DeallocateKeeps ==
  ASSUME NEW s \in Space, NEW a, NEW n, NEW g \in Page
  PROVE  /\ g \notin Pages(a, n) => Deallocate(s, a, n)[g] = s[g]
         /\ g \in Pages(a, n) => Deallocate(s, a, n)[g] = NoPage
BY DEF Deallocate

\* A change of protection changes no byte, and nothing outside its range.
LEMMA ProtectKeeps ==
  ASSUME NEW s \in Space, NEW a, NEW n, NEW prot \in Prot, NEW g \in Page
  PROVE  /\ g \notin Pages(a, n) => Protect(s, a, n, prot)[g] = s[g]
         /\ Protect(s, a, n, prot)[g].data = s[g].data
         /\ s[g] = NoPage => Protect(s, a, n, prot)[g] = NoPage
<1>1. CASE g \in Pages(a, n) /\ s[g] # NoPage
  <2>1. s[g] \in Frame
    BY <1>1 DEF Space
  <2>2. [s[g] EXCEPT !.prot = prot].data = s[g].data
    BY <2>1 DEF Frame
  <2>3. QED
    BY <1>1, <2>2 DEF Protect
<1>2. CASE ~(g \in Pages(a, n) /\ s[g] # NoPage)
  BY <1>2 DEF Protect
<1>3. QED
  BY <1>1, <1>2

-----------------------------------------------------------------------------
(* poke                                                                    *)

\* A byte of [a, a+n) is on one of its pages.
LEMMA InsideTouched ==
  ASSUME NEW a \in Nat, NEW n \in Nat, NEW g \in Page, NEW i \in Offset,
         Inside(a, n, g, i)
  PROVE  g \in Touched(a, n) /\ n # 0
<1>1. /\ PageSize \in Nat \ {0} /\ g \in Nat /\ i \in Nat /\ i < PageSize
      /\ g * PageSize \in Nat
  BY Sizes DEF Page, Offset
<1>2. a <= g * PageSize + i /\ g * PageSize + i < a + n
  BY DEF Inside
<1>3. n # 0 /\ a + n - 1 \in Nat
  BY <1>1, <1>2
<1> DEFINE lo == a \div PageSize
           e == a + n - 1
           hi == e \div PageSize
<1>4. /\ lo \in Nat /\ lo * PageSize <= a
  BY PageDown
<1>5. hi \in Nat /\ e < hi * PageSize + PageSize
  <2> HIDE DEF e
  <2>1. e \in Nat
    BY <1>3 DEF e
  <2>2. QED
    BY <2>1, PageDown
<1>6. g * PageSize + i <= e
  BY <1>1, <1>2
<1> HIDE DEF lo, hi, e
<1>7. lo * PageSize \in Nat /\ hi * PageSize \in Nat
  BY <1>1, <1>4, <1>5
<1>8. lo <= g
  <2>1. ASSUME g < lo PROVE FALSE
    <3>1. g * PageSize + PageSize <= lo * PageSize
      BY <1>1, <1>4, <2>1, Multiples
    <3>2. QED
      BY <1>1, <1>2, <1>4, <1>7, <3>1
  <2>2. QED
    BY <1>1, <1>4, <2>1
<1>9. g <= hi
  <2>1. ASSUME hi < g PROVE FALSE
    <3>1. hi * PageSize + PageSize <= g * PageSize
      BY <1>1, <1>5, <2>1, Multiples
    <3>2. e \in Nat
      BY <1>3 DEF e
    <3>3. QED
      BY <1>1, <1>5, <1>6, <1>7, <3>1, <3>2
  <2>2. QED
    BY <1>1, <1>5, <2>1
<1>10. QED
  BY <1>1, <1>3, <1>4, <1>5, <1>8, <1>9 DEF Touched, lo, hi, e

\* What is poked is an address space with the same pages.
LEMMA PokeSpace ==
  ASSUME NEW s \in Space, NEW a, NEW n, NEW tag \in Tags
  PROVE  /\ Poke(s, a, n, tag) \in Space
         /\ \A g \in Page : Poke(s, a, n, tag)[g] = NoPage <=> s[g] = NoPage
<1> DEFINE page(g) ==
             [prot |-> {"read", "write"},
              data |-> IF PokeOk(s, a, n)
                         THEN [i \in Offset |-> IF Inside(a, n, g, i) THEN tag
                                                ELSE IF Readable(s, a, n)
                                                       THEN s[g].data[i] ELSE "zero"]
                         ELSE s[g].data]
<1>1. ASSUME NEW g \in Page, s[g] # NoPage
      PROVE  page(g) \in Frame /\ page(g) # NoPage
  <2>1. s[g] \in Frame
    BY <1>1 DEF Space
  <2>2. s[g].data \in [Offset -> Tags \cup {"zero"}]
    BY <2>1 DEF Frame
  <2>3. page(g).data \in [Offset -> Tags \cup {"zero"}]
    BY <2>2
  <2>4. page(g) = [prot |-> {"read", "write"}, data |-> page(g).data]
    OBVIOUS
  <2> HIDE DEF page
  <2>5. page(g) \in Frame
    BY <2>3, <2>4 DEF Frame, Prot
  <2>6. page(g).prot = {"read", "write"} /\ NoPage.prot = {}
    BY <2>4 DEF NoPage
  <2>7. QED
    BY <2>5, <2>6
<1>2. Poke(s, a, n, tag) =
        [g \in Page |-> IF n = 0 \/ g \notin Touched(a, n) \/ s[g] = NoPage THEN s[g]
                        ELSE page(g)]
  BY DEF Poke
<1> HIDE DEF page
<1>3. QED
  BY <1>1, <1>2 DEF Space

\* t's page g is s's, or one of the n bytes' at a: then it is readable and
\* writable, and its other bytes are s's if they could all be read.
PatchedPage(s, t, a, n, g) ==
  \/ t[g] = s[g]
  \/ /\ n # 0 /\ g \in Touched(a, n) /\ t[g].prot = {"read", "write"}
     /\ Readable(s, a, n) => \A i \in Offset :
          t[g].data[i] = s[g].data[i] \/ Inside(a, n, g, i)

\* Poke changes nothing but its own pages, which it leaves readable and
\* writable; nothing but its own bytes when it could read them all; and those
\* it sets when they are all mapped.
LEMMA PokeFacts ==
  ASSUME NEW s \in Space, NEW a \in Nat, NEW n \in Nat, NEW tag \in Tags, NEW g \in Page
  PROVE  LET t == Poke(s, a, n, tag)
         IN  /\ PatchedPage(s, t, a, n, g)
             /\ PokeOk(s, a, n) => \A i \in Offset :
                  Inside(a, n, g, i) => t[g].data[i] = tag
<1> DEFINE t == Poke(s, a, n, tag)
<1>1. CASE n = 0 \/ g \notin Touched(a, n) \/ s[g] = NoPage
  <2>1. t[g] = s[g]
    BY <1>1 DEF Poke
  <2>2. ASSUME PokeOk(s, a, n), NEW i \in Offset, Inside(a, n, g, i) PROVE FALSE
    <3>1. n # 0 /\ g \in Touched(a, n)
      BY <2>2, InsideTouched
    <3>2. QED
      BY <1>1, <2>2, <3>1 DEF PokeOk
  <2>3. QED
    BY <2>1, <2>2 DEF PatchedPage
<1>2. CASE ~(n = 0 \/ g \notin Touched(a, n) \/ s[g] = NoPage)
  <2> DEFINE patched == [i \in Offset |-> IF Inside(a, n, g, i) THEN tag
                                          ELSE IF Readable(s, a, n)
                                                 THEN s[g].data[i] ELSE "zero"]
  <2>1. t[g] = [prot |-> {"read", "write"},
                data |-> IF PokeOk(s, a, n) THEN patched ELSE s[g].data]
    BY <1>2 DEF Poke
  <2>2. /\ t[g].prot = {"read", "write"}
        /\ t[g].data = IF PokeOk(s, a, n) THEN patched ELSE s[g].data
    BY <2>1
  <2>3. \A i \in Offset : /\ Inside(a, n, g, i) => patched[i] = tag
                          /\ Readable(s, a, n) =>
                               patched[i] = s[g].data[i] \/ Inside(a, n, g, i)
    OBVIOUS
  <2> HIDE DEF patched, t
  <2>4. QED
    BY <1>2, <2>2, <2>3 DEF t, PatchedPage
<1>3. QED
  BY <1>1, <1>2

-----------------------------------------------------------------------------
(* What is mapped                                                          *)

\* A frame is a page.
LEMMA FrameFacts == NoPage \notin Frame
<1>1. 0 \in Offset
  BY Sizes DEF Offset
<1>2. ASSUME NEW frame \in Frame PROVE frame.data # <<>>
  <2>1. DOMAIN frame.data = Offset
    BY DEF Frame
  <2>2. DOMAIN <<>> = {}
    OBVIOUS
  <2>3. QED
    BY <1>1, <2>1, <2>2
<1>3. NoPage.data = <<>>
  BY DEF NoPage
<1>4. QED
  BY <1>2, <1>3

\* Allocating maps a range.
LEMMA AllocateMapped ==
  ASSUME NEW s \in Space, NEW a, NEW n
  PROVE  Mapped(Allocate(s, a, n)) = Mapped(s) \cup Pages(a, n)
<1>1. Pages(a, n) \subseteq Page
  BY DEF Pages
<1>2. \A g \in Page : Allocate(s, a, n)[g] # NoPage <=> s[g] # NoPage \/ g \in Pages(a, n)
  BY AllocateKeeps
<1>3. QED
  BY <1>1, <1>2 DEF Mapped

\* Deallocating unmaps it.
LEMMA DeallocateMapped ==
  ASSUME NEW s \in Space, NEW a, NEW n
  PROVE  Mapped(Deallocate(s, a, n)) = Mapped(s) \ Pages(a, n)
<1>1. \A g \in Page :
        Deallocate(s, a, n)[g] # NoPage <=> s[g] # NoPage /\ g \notin Pages(a, n)
  BY DeallocateKeeps
<1>2. QED
  BY <1>1 DEF Mapped

\* A change of protection maps and unmaps nothing.
LEMMA ProtectMapped ==
  ASSUME NEW s \in Space, NEW a, NEW n, NEW prot \in Prot
  PROVE  Mapped(Protect(s, a, n, prot)) = Mapped(s)
<1>1. ASSUME NEW g \in Page, s[g] # NoPage PROVE Protect(s, a, n, prot)[g] # NoPage
  <2>1. s[g] \in Frame
    BY <1>1 DEF Space
  <2>2. [s[g] EXCEPT !.prot = prot] \in Frame
    BY <2>1 DEF Frame
  <2>3. Protect(s, a, n, prot)[g] \in {s[g], [s[g] EXCEPT !.prot = prot]}
    BY DEF Protect
  <2>4. QED
    BY <2>1, <2>2, <2>3, FrameFacts
<1>2. \A g \in Page : Protect(s, a, n, prot)[g] # NoPage <=> s[g] # NoPage
  BY <1>1, ProtectKeeps
<1>3. QED
  BY <1>2 DEF Mapped

\* Nor does a poke.
LEMMA PokeMapped ==
  ASSUME NEW s \in Space, NEW a, NEW n, NEW tag \in Tags
  PROVE  Mapped(Poke(s, a, n, tag)) = Mapped(s)
BY PokeSpace DEF Mapped

\* Where a range that can be mapped ends.
LEMMA RangeFacts ==
  ASSUME NEW a \in Address, NEW n \in Address, InUser(a, n)
  PROVE  /\ Wrap(a + n) = a + n /\ a + n <= UserPages * PageSize
         /\ Pages(a, n) = {g \in Page : a <= g * PageSize /\ g * PageSize < a + n}
<1>1. Top \in Nat \ {0} /\ a \in Nat /\ n \in Nat /\ a < Top /\ n < Top
  BY Sizes DEF Address
<1>2. PICK x \in Nat : x = a + n /\ x < 2 * Top
  BY <1>1
<1>3. Wrap(x) > a /\ Wrap(x) <= UserPages * PageSize
  BY <1>2 DEF InUser
<1>4. Wrap(x) = x
  BY <1>1, <1>2, <1>3, WrapFacts
<1>5. QED
  BY <1>2, <1>3, <1>4 DEF Pages

\* An address is below one that is rounded up exactly if it is below it before,
\* for the first address of a page.
LEMMA RoundedUp ==
  ASSUME NEW x \in Nat, x + PageSize <= Top, NEW g \in Page
  PROVE  g * PageSize < PAGE_UP(x) <=> g * PageSize < x
<1>1. PageSize \in Nat \ {0} /\ Top \in Nat \ {0} /\ g \in Int
  BY Sizes DEF Page
<1>2. x \in 0..(Top - 1)
  BY <1>1
<1>3. PICK u \in Int, k \in Int :
        u = PAGE_UP(x) /\ u = k * PageSize /\ u < x + PageSize /\ x <= u
  BY <1>2, PageUp
<1>4. PICK y \in Int : y = g * PageSize
  BY <1>1
<1>5. ASSUME y < u PROVE y < x
  <2>1. g < k
    BY <1>1, <1>3, <1>4, <1>5, Multiples
  <2>2. g * PageSize + PageSize <= k * PageSize
    BY <1>1, <1>3, <2>1, Multiples
  <2>3. QED
    BY <1>1, <1>3, <1>4, <2>2
<1>6. y < x => y < u
  BY <1>3, <1>4
<1>7. QED
  BY <1>3, <1>4, <1>5, <1>6

-----------------------------------------------------------------------------
(* Recursion along a sequence                                              *)

\* What holds at 0 and is handed on holds up to n.
LEMMA Ladder ==
  ASSUME NEW n \in Nat, NEW G, 0 \in G, \A i \in 1..n : i - 1 \in G => i \in G
  PROVE  0..n \subseteq G
<1> DEFINE Less == {ss \in Nat \X Nat : ss[1] < ss[2]}
           Bad == 0..n \ G
<1> SUFFICES ASSUME Bad # {} PROVE FALSE
  OBVIOUS
<1>1. IsWellFoundedOn(Less, Nat)
  BY NatLessThanWellFounded DEF OpToRel
<1>2. Bad \subseteq Nat
  OBVIOUS
<1>3. PICK m \in Bad : \A t \in Bad : ~(<<t, m>> \in Less)
  BY <1>1, <1>2, WFMin, Zenon
<1>4. m \in 1..n /\ m - 1 \in 0..n /\ m - 1 < m
  <2>1. m \in 0..n /\ m # 0
    OBVIOUS
  <2>2. QED
    BY <2>1
<1>5. m - 1 \notin Bad
  <2>1. <<m - 1, m>> \in Less
    BY <1>4
  <2> HIDE DEF Less, Bad
  <2>2. QED
    BY <1>3, <2>1
<1>6. m - 1 \in G
  BY <1>4, <1>5
<1>7. m \in G
  BY <1>4, <1>6
<1>8. QED
  BY <1>7

\* Each value up to n is made of the one before it.
Steps(f, n, first, step) ==
  \A i \in 0..n : f[i] = IF i = 0 THEN first ELSE step[i][f[i - 1]]

\* Such values exist, for any number of steps.
LEMMA StepsExist ==
  ASSUME NEW D, NEW first \in D, NEW n \in Nat, NEW step \in [1..n -> [D -> D]]
  PROVE  \E f \in [0..n -> D] : Steps(f, n, first, step)
<1> DEFINE G == {m \in 0..n : \E f \in [0..m -> D] : Steps(f, m, first, step)}
<1>1. 0 \in G
  <2> DEFINE f == [i \in 0..0 |-> first]
  <2>1. f \in [0..0 -> D] /\ Steps(f, 0, first, step)
    BY DEF Steps
  <2>2. QED
    BY <2>1
<1>2. ASSUME NEW m \in 1..n, m - 1 \in G PROVE m \in G
  <2>1. PICK f \in [0..(m - 1) -> D] : Steps(f, m - 1, first, step)
    BY <1>2
  <2>2. m - 1 \in 0..(m - 1) /\ m \in 0..n
    OBVIOUS
  <2>3. f[m - 1] \in D /\ step[m] \in [D -> D]
    BY <2>2
  <2>4. step[m][f[m - 1]] \in D
    BY <2>3
  <2> DEFINE g == [i \in 0..m |-> IF i = m THEN step[m][f[m - 1]] ELSE f[i]]
  <2>5. g \in [0..m -> D]
    BY <2>4
  <2>6. ASSUME NEW i \in 0..m
        PROVE  g[i] = IF i = 0 THEN first ELSE step[i][g[i - 1]]
    <3>1. CASE i = m
      <4>1. i # 0 /\ g[i] = step[i][f[i - 1]] /\ g[i - 1] = f[i - 1]
        BY <3>1
      <4>2. QED
        BY <4>1
    <3>2. CASE i # m
      <4>1. i \in 0..(m - 1)
        BY <3>2
      <4>2. f[i] = IF i = 0 THEN first ELSE step[i][f[i - 1]]
        BY <2>1, <4>1 DEF Steps
      <4>3. g[i] = f[i] /\ (i # 0 => g[i - 1] = f[i - 1])
        BY <3>2, <4>1
      <4>4. QED
        BY <4>2, <4>3
    <3>3. QED
      BY <3>1, <3>2
  <2> HIDE DEF g
  <2>7. Steps(g, m, first, step)
    BY <2>6 DEF Steps
  <2>8. QED
    BY <2>2, <2>5, <2>7
<1> HIDE DEF G
<1>3. 0..n \subseteq G
  BY <1>1, <1>2, Ladder
<1>4. n \in G
  BY <1>3
<1>5. QED
  BY <1>4 DEF G

-----------------------------------------------------------------------------
(* Totals                                                                  *)

\* A sum of sizes is a number.
LEMMA TotalFacts ==
  ASSUME NEW sizes \in Seq(Nat), NEW n \in 0..Len(sizes)
  PROVE  Total(sizes, n) \in Nat /\ Total(sizes, 0) = 0
<1> DEFINE Sum(m, f) == f = [k \in 0..m |-> IF k = 0 THEN 0 ELSE f[k - 1] + sizes[k]]
           total(m) == CHOOSE f : Sum(m, f)
<1>1. ASSUME NEW m \in 0..Len(sizes) PROVE Sum(m, total(m))
  <2> DEFINE step == [i \in 1..m |-> [x \in Nat |-> x + sizes[i]]]
  <2>1. \A i \in 1..m : sizes[i] \in Nat
    OBVIOUS
  <2>2. step \in [1..m -> [Nat -> Nat]] /\ m \in Nat
    BY <2>1
  <2>3. PICK f \in [0..m -> Nat] : Steps(f, m, 0, step)
    BY <2>2, StepsExist
  <2>4. ASSUME NEW k \in 0..m
        PROVE  f[k] = IF k = 0 THEN 0 ELSE f[k - 1] + sizes[k]
    <3>1. k # 0 => k \in 1..m /\ k - 1 \in 0..m
      BY <2>2
    <3>2. QED
      BY <2>3, <3>1 DEF Steps
  <2>5. Sum(m, f)
    BY <2>4
  <2>6. QED
    BY <2>5
<1>2. ASSUME NEW m \in 0..Len(sizes) PROVE Total(sizes, m) = total(m)[m]
  BY DEF Total
<1>3. ASSUME NEW m \in 0..Len(sizes) PROVE total(m)[m] \in Nat
  <2> DEFINE f == total(m)
             G == {k \in 0..m : f[k] \in Nat}
  <2>1. Sum(m, f)
    BY <1>1
  <2> HIDE DEF f
  <2>2. m \in Nat /\ \A i \in 1..m : sizes[i] \in Nat
    OBVIOUS
  <2>3. ASSUME NEW k \in 0..m PROVE f[k] = IF k = 0 THEN 0 ELSE f[k - 1] + sizes[k]
    BY <2>1
  <2>4. 0 \in G
    BY <2>2, <2>3
  <2>5. ASSUME NEW i \in 1..m, i - 1 \in G PROVE i \in G
    <3>1. i \in 0..m /\ i # 0 /\ f[i - 1] \in Nat /\ sizes[i] \in Nat
      BY <2>2, <2>5
    <3>2. f[i] = f[i - 1] + sizes[i]
      BY <2>3, <3>1
    <3>3. PICK x \in Nat, y \in Nat : x = f[i - 1] /\ y = sizes[i]
      BY <3>1
    <3>4. f[i] \in Nat
      BY <3>2, <3>3
    <3>5. QED
      BY <3>1, <3>4
  <2> HIDE DEF G
  <2>6. 0..m \subseteq G
    BY <2>2, <2>4, <2>5, Ladder
  <2>7. f[m] \in Nat
    BY <2>2, <2>6 DEF G
  <2>8. QED
    BY <2>7 DEF f
<1>4. Total(sizes, 0) = 0
  <2>1. 0 \in 0..Len(sizes)
    OBVIOUS
  <2>2. Sum(0, total(0))
    BY <1>1, <2>1
  <2>3. total(0)[0] = 0
    BY <2>2
  <2>4. QED
    BY <1>2, <2>1, <2>3
<1>5. QED
  BY <1>2, <1>3, <1>4

-----------------------------------------------------------------------------
(* Loading                                                                 *)

\* What loading an object goes through.
Outs == [ok: BOOLEAN, space: Space, brk: Address, base: Address, entry: Address]

\* The addresses of the layout.
LEMMA LayoutFacts ==
  /\ {PIE_BASE, INTERP_BASE, STACK_TOP, STACK_SIZE} \subseteq Address
  /\ STACK_SIZE >= PageSize /\ STACK_SIZE <= STACK_TOP
  /\ STACK_TOP - PageSize \in Nat
<1>1. /\ PageSize \in Nat \ {0} /\ UserPages \in Nat \ {0} /\ Top \in Nat
      /\ UserPages * PageSize \in Nat /\ UserPages * PageSize + PageSize <= Top
  BY Sizes
<1>2. ASSUME NEW g \in 0..UserPages PROVE PageSize * g \in Address
  <2>1. g * PageSize <= UserPages * PageSize /\ g * PageSize \in Nat
    BY <1>1, Multiples
  <2>2. PageSize * g = g * PageSize
    BY <1>1
  <2>3. QED
    BY <1>1, <2>1, <2>2 DEF Address
<1>3. {PIE_BASE, INTERP_BASE, STACK_TOP, STACK_SIZE} \subseteq Address
  BY <1>2, LoaderAssumption
<1>4. STACK_SIZE >= PageSize /\ STACK_SIZE <= STACK_TOP
  BY <1>1, <1>3, LoaderAssumption DEF Address
<1>5. QED
  BY <1>1, <1>3, <1>4 DEF Address

\* A segment's place is an address, and so is its end if it can be mapped.
LEMMA SegmentFacts ==
  ASSUME NEW seg \in Segments, NEW base \in Address
  PROVE  /\ Begin(seg, base) \in Address /\ VStart(seg, base) \in Address
         /\ VSize(seg, base) \in Address
         /\ InUser(VStart(seg, base), VSize(seg, base)) =>
              /\ VStart(seg, base) + VSize(seg, base) \in Address
              /\ Wrap(VStart(seg, base) + VSize(seg, base))
                   = VStart(seg, base) + VSize(seg, base)
<1>1. /\ PageSize \in Nat \ {0} /\ UserPages \in Nat \ {0} /\ Top \in Nat \ {0}
      /\ UserPages * PageSize \in Nat /\ UserPages * PageSize + PageSize <= Top
  BY Sizes
<1>2. seg.vaddr \in Address /\ seg.memsz \in Address
  BY DEF Segments
<1> DEFINE b == Begin(seg, base)
           a == VStart(seg, base)
           w == Wrap(b + seg.memsz)
           up == PAGE_UP(w)
           n == VSize(seg, base)
<1>3. b \in Address
  <2>1. base + seg.vaddr \in Nat
    BY <1>2 DEF Address
  <2>2. QED
    BY <2>1, WrapFacts DEF Begin, Address
<1>4. a \in Nat /\ a <= b
  BY <1>3, PageDown DEF VStart, Address
<1>5. w \in Address
  <2>1. b + seg.memsz \in Nat
    BY <1>2, <1>3 DEF Address
  <2>2. QED
    BY <2>1, WrapFacts DEF Address
<1>6. up \in Address
  BY <1>5, PageUp DEF Address
<1>7. n = Wrap(up - a)
  BY DEF VSize
<1> HIDE DEF up, w, b, a, n
<1>8. a \in Address
  BY <1>1, <1>3, <1>4 DEF Address
<1>9. n \in Address
  <2>1. up - a \in Int
    BY <1>6, <1>8 DEF Address
  <2>2. (up - a) % Top \in 0..(Top - 1)
    BY <1>1, <2>1
  <2>3. QED
    BY <1>7, <2>2 DEF Wrap, Address
<1>10. ASSUME InUser(a, n) PROVE a + n \in Address /\ Wrap(a + n) = a + n
  <2>1. a + n \in Nat /\ a + n < 2 * Top
    BY <1>1, <1>8, <1>9 DEF Address
  <2>2. Wrap(a + n) > a
    BY <1>10 DEF InUser
  <2>3. a + n < Top
    BY <1>1, <1>8, <1>9, <2>1, <2>2, WrapFacts DEF Address
  <2>4. QED
    BY <2>1, <2>3, WrapFacts DEF Address
<1>11. QED
  BY <1>3, <1>8, <1>9, <1>10 DEF b, a, n

\* Mapping a segment's room or leaving it.
LEMMA RoomSpace ==
  ASSUME NEW s \in Space, NEW a, NEW n
  PROVE  Room(s, a, n) \in Space
BY SpaceFacts DEF Room

\* A segment more.
LEMMA SegmentOuts ==
  ASSUME NEW out \in Outs, NEW seg \in Segments
  PROVE  LoadSegment(out, seg) \in Outs
<1> DEFINE a == VStart(seg, out.base)
           size == VSize(seg, out.base)
           room == Room(out.space, a, size)
           at == Begin(seg, out.base)
           filled == Protect(Poke(room, at, seg.filesz, seg.tag), a, size, seg.prot)
           end == a + size
<1>1. out.base \in Address /\ out.space \in Space /\ seg.tag \in Tags /\ seg.prot \in Prot
      /\ out.brk \in Address
  BY DEF Outs, Segments
<1>2. filled \in Space
  BY <1>1, RoomSpace, PokeSpace, SpaceFacts
<1>3. InUser(a, size) => end \in Address
  BY <1>1, SegmentFacts
<1>4. [out EXCEPT !.ok = FALSE] \in Outs
  BY DEF Outs
<1>5. CASE ~out.ok \/ ~InUser(a, size) \/ ~PokeOk(room, at, seg.filesz)
  BY <1>4, <1>5 DEF LoadSegment
<1>6. CASE ~(~out.ok \/ ~InUser(a, size) \/ ~PokeOk(room, at, seg.filesz))
  <2>1. LoadSegment(out, seg) =
          [out EXCEPT !.space = filled, !.brk = IF end > @ THEN end ELSE @]
    BY <1>6, Zenon DEF LoadSegment
  <2>2. end \in Address
    BY <1>3, <1>6
  <2> HIDE DEF filled, end
  <2>3. [out EXCEPT !.space = filled, !.brk = IF end > @ THEN end ELSE @] \in Outs
    BY <1>1, <1>2, <2>2 DEF Outs
  <2>4. QED
    BY <2>1, <2>3
<1>7. QED
  BY <1>5, <1>6

\* What loading begins with.
FirstOut(s, obj, base) ==
  [ok |-> obj.segs # <<>>, space |-> s, brk |-> 0,
   base |-> Bias(obj, base), entry |-> Wrap(Bias(obj, base) + obj.entry)]

\* An object is loaded segment by segment.
LEMMA LoadingFacts ==
  ASSUME NEW s \in Space, NEW obj, obj.segs \in Seq(Segments), obj.entry \in Address,
         obj.fixed \in BOOLEAN, NEW base \in Address
  PROVE  \E f \in [0..Len(obj.segs) -> Outs] :
           /\ f[0] = FirstOut(s, obj, base)
           /\ \A i \in 1..Len(obj.segs) : f[i] = LoadSegment(f[i - 1], obj.segs[i])
           /\ LoadOne(s, obj, base) = f[Len(obj.segs)]
<1> DEFINE b == Bias(obj, base)
           n == Len(obj.segs)
           first == FirstOut(s, obj, base)
           Loading(f) == f = [k \in 0..n |-> IF k = 0 THEN first
                                             ELSE LoadSegment(f[k - 1], obj.segs[k])]
           loaded == CHOOSE f : Loading(f)
           step == [i \in 1..n |-> [x \in Outs |-> LoadSegment(x, obj.segs[i])]]
<1>1. n \in Nat /\ \A i \in 1..n : obj.segs[i] \in Segments
  OBVIOUS
<1>2. first \in Outs
  <2>1. Top \in Nat \ {0}
    BY Sizes
  <2>2. b \in Address /\ 0 \in Address
    BY <2>1 DEF Bias, Address
  <2>3. b + obj.entry \in Nat
    BY <2>2 DEF Address
  <2>4. Wrap(b + obj.entry) \in Address
    BY <2>3, WrapFacts DEF Address
  <2> HIDE DEF b
  <2>5. QED
    BY <2>2, <2>4 DEF Outs, FirstOut, b
<1>3. LoadOne(s, obj, base) = loaded[n]
  BY DEF LoadOne, FirstOut
<1> HIDE DEF first
<1>4. step \in [1..n -> [Outs -> Outs]]
  BY <1>1, SegmentOuts
<1>5. PICK f \in [0..n -> Outs] : Steps(f, n, first, step)
  BY <1>1, <1>2, <1>4, StepsExist
<1>6. Loading(f)
  <2>1. ASSUME NEW k \in 0..n
        PROVE  f[k] = IF k = 0 THEN first ELSE LoadSegment(f[k - 1], obj.segs[k])
    <3>1. k # 0 => k \in 1..n /\ k - 1 \in 0..n
      BY <1>1
    <3>2. QED
      BY <1>5, <3>1 DEF Steps
  <2>2. QED
    BY <2>1
<1>7. Loading(loaded)
  BY <1>6
<1> DEFINE G == {k \in 0..n : loaded[k] \in Outs}
<1> HIDE DEF loaded, n, step
<1>8. ASSUME NEW k \in 0..n
      PROVE  loaded[k] = IF k = 0 THEN first
                         ELSE LoadSegment(loaded[k - 1], obj.segs[k])
  BY <1>7
<1>9. 0 \in G
  BY <1>1, <1>2, <1>8
<1>10. ASSUME NEW i \in 1..n, i - 1 \in G PROVE i \in G
  <2>1. i \in 0..n /\ i # 0 /\ loaded[i - 1] \in Outs /\ obj.segs[i] \in Segments
    BY <1>1, <1>10
  <2>2. loaded[i] = LoadSegment(loaded[i - 1], obj.segs[i])
    BY <1>8, <2>1
  <2>3. QED
    BY <2>1, <2>2, SegmentOuts
<1> HIDE DEF G
<1>11. 0..n \subseteq G
  BY <1>1, <1>9, <1>10, Ladder
<1>12. loaded \in [0..n -> Outs]
  <2>1. \A k \in 0..n : loaded[k] \in Outs
    BY <1>11 DEF G
  <2>2. loaded = [k \in 0..n |-> loaded[k]]
    BY <1>7
  <2>3. QED
    BY <2>1, <2>2
<1>13. loaded[0] = first /\ \A i \in 1..n : loaded[i] = LoadSegment(loaded[i - 1], obj.segs[i])
  BY <1>1, <1>8
<1>14. QED
  BY <1>3, <1>12, <1>13 DEF n, first

\* So what comes of it is right.
LEMMA ObjectOuts ==
  ASSUME NEW s \in Space, NEW obj, obj.segs \in Seq(Segments), obj.entry \in Address,
         obj.fixed \in BOOLEAN, NEW base \in Address
  PROVE  LoadOne(s, obj, base) \in Outs
<1>1. Len(obj.segs) \in Nat
  OBVIOUS
<1>2. QED
  BY <1>1, LoadingFacts

\* The stack is built in an address space.
LEMMA StackSpace ==
  ASSUME NEW s \in Space, NEW args
  PROVE  BuildStack(s, args).space \in Space
<1> DEFINE base == STACK_TOP - STACK_SIZE
           room == Protect(Room(s, base, STACK_SIZE), base, STACK_SIZE, {"read", "write"})
<1>1. room \in Space
  BY RoomSpace, SpaceFacts DEF Prot
<1>2. "args" \in Tags
  BY LoaderAssumption
<1> HIDE DEF room
<1>3. Poke(room, STACK_TOP - PageSize, PageSize, "args") \in Space
  BY <1>1, <1>2, PokeSpace
<1>4. QED
  BY <1>1, <1>3 DEF BuildStack, room

\* A loaded program has a space, a break and an entry.
LEMMA ProgramFacts ==
  ASSUME NEW s \in Space, NEW prog \in Objects, Len(prog.interp) <= 1, NEW args
  PROVE  LET new == LoadProgram(s, prog, args)
         IN  new.space \in Space /\ new.brk \in Address /\ new.entry \in Address
<1> DEFINE exe == LoadOne(s, prog, PIE_BASE)
           ld == [i \in DOMAIN prog.interp |->
                    LoadOne(exe.space, prog.interp[i], INTERP_BASE)]
           last == IF ld = <<>> THEN exe ELSE ld[1]
           stack == BuildStack(last.space, args)
<1>1. PIE_BASE \in Address /\ INTERP_BASE \in Address
  BY LayoutFacts
<1>2. /\ prog.segs \in Seq(Segments) /\ prog.entry \in Address /\ prog.fixed \in BOOLEAN
      /\ prog.interp \in Seq(Interpreters)
  BY DEF Objects
<1>3. exe \in Outs
  BY <1>1, <1>2, ObjectOuts
<1>4. exe.space \in Space /\ exe.brk \in Address /\ exe.entry \in Address
  BY <1>3 DEF Outs
<1> HIDE DEF exe
<1>5. ASSUME NEW i \in DOMAIN prog.interp PROVE ld[i] \in Outs
  <2>1. prog.interp[i] \in Interpreters
    BY <1>2
  <2>2. /\ prog.interp[i].segs \in Seq(Segments) /\ prog.interp[i].entry \in Address
        /\ prog.interp[i].fixed \in BOOLEAN
    BY <2>1 DEF Interpreters
  <2>3. QED
    BY <1>1, <1>4, <2>2, ObjectOuts
<1>6. ld # <<>> => 1 \in DOMAIN prog.interp
  <2>1. ASSUME ld # <<>>, 1 \notin DOMAIN prog.interp PROVE FALSE
    <3>1. prog.interp \in Seq(Interpreters) /\ Len(prog.interp) = 0
      BY <1>2, <2>1
    <3>2. DOMAIN prog.interp = {}
      BY <3>1
    <3>3. ld = [i \in {} |-> LoadOne(exe.space, prog.interp[i], INTERP_BASE)]
      BY <3>2
    <3>4. ld = <<>>
      BY <3>3
    <3>5. QED
      BY <2>1, <3>4
  <2>2. QED
    BY <2>1
<1> HIDE DEF ld
<1>7. last \in Outs
  BY <1>3, <1>5, <1>6
<1>8. FirstBreak(exe, ld) \in Address
  BY <1>3, <1>5, <1>6 DEF FirstBreak, Outs
<1>9. last.space \in Space /\ last.entry \in Address
  BY <1>7 DEF Outs
<1>10. stack.space \in Space
  BY <1>9, StackSpace
<1>11. /\ LoadProgram(s, prog, args).space = stack.space
       /\ LoadProgram(s, prog, args).brk = FirstBreak(exe, ld)
       /\ LoadProgram(s, prog, args).entry = last.entry
  BY DEF LoadProgram, exe, ld
<1>12. QED
  BY <1>8, <1>9, <1>10, <1>11

-----------------------------------------------------------------------------
(* The pages a program is given                                            *)

\* The pages a segment of an object claims, and those the first k do.
ClaimOf(obj, base, k) ==
  Pages(VStart(obj.segs[k], Bias(obj, base)), VSize(obj.segs[k], Bias(obj, base)))
ClaimsTo(obj, base, k) == UNION {ClaimOf(obj, base, i) : i \in 1..k}

\* No segments claim nothing.
LEMMA ClaimsNone ==
  ASSUME NEW obj, NEW base
  PROVE  ClaimsTo(obj, base, 0) = {}
<1>1. 1..0 = {}
  OBVIOUS
<1>2. QED
  BY <1>1 DEF ClaimsTo

\* One more segment claims its own.
LEMMA ClaimsStep ==
  ASSUME NEW obj, NEW base, NEW k \in Nat \ {0}
  PROVE  ClaimsTo(obj, base, k) = ClaimsTo(obj, base, k - 1) \cup ClaimOf(obj, base, k)
<1>1. 1..k = 1..(k - 1) \cup {k}
  OBVIOUS
<1>2. QED
  BY <1>1 DEF ClaimsTo

\* A segment that is loaded maps what it claims, unless something in it is
\* taken; then it maps nothing.  It ends in user space.
LEMMA SegmentMapped ==
  ASSUME NEW out \in Outs, NEW seg \in Segments, LoadSegment(out, seg).ok
  PROVE  LET new == LoadSegment(out, seg)
             P == Pages(VStart(seg, out.base), VSize(seg, out.base))
         IN  /\ out.ok
             /\ Mapped(new.space) = IF P \cap Mapped(out.space) = {}
                                      THEN Mapped(out.space) \cup P ELSE Mapped(out.space)
             /\ out.brk <= UserPages * PageSize => new.brk <= UserPages * PageSize
<1> DEFINE a == VStart(seg, out.base)
           size == VSize(seg, out.base)
           room == Room(out.space, a, size)
           at == Begin(seg, out.base)
           poked == Poke(room, at, seg.filesz, seg.tag)
           filled == Protect(poked, a, size, seg.prot)
           end == a + size
           brk == IF end > out.brk THEN end ELSE out.brk
           new == LoadSegment(out, seg)
<1>1. /\ out.base \in Address /\ out.space \in Space /\ out.brk \in Address
      /\ seg.tag \in Tags /\ seg.prot \in Prot
  BY DEF Outs, Segments
<1>2. ~(~out.ok \/ ~InUser(a, size) \/ ~PokeOk(room, at, seg.filesz))
  <2>1. ASSUME ~out.ok \/ ~InUser(a, size) \/ ~PokeOk(room, at, seg.filesz) PROVE FALSE
    <3>1. LoadSegment(out, seg) = [out EXCEPT !.ok = FALSE]
      BY <2>1 DEF LoadSegment
    <3>2. ~LoadSegment(out, seg).ok
      BY <3>1 DEF Outs
    <3>3. QED
      BY <3>2
  <2>2. QED
    BY <2>1
<1>3. new = [out EXCEPT !.space = filled, !.brk = brk]
  BY <1>2, Zenon DEF LoadSegment
<1>4. a \in Address /\ size \in Address
  BY <1>1, SegmentFacts
<1>5. InUser(a, size)
  BY <1>2
<1>6. end <= UserPages * PageSize /\ UserPages * PageSize \in Nat /\ end \in Nat
  <2> HIDE DEF a, size
  <2>1. QED
    BY <1>4, <1>5, RangeFacts, Sizes DEF Address
<1>7. room \in Space /\ poked \in Space
  BY <1>1, RoomSpace, PokeSpace
<1>8. Mapped(filled) = Mapped(room)
  <2> HIDE DEF room, a, size, at
  <2>1. Mapped(poked) = Mapped(room)
    BY <1>1, <1>7, PokeMapped
  <2> HIDE DEF poked
  <2>2. QED
    BY <1>1, <1>7, <2>1, ProtectMapped
<1>9. Mapped(room) = IF Pages(a, size) \cap Mapped(out.space) = {}
                       THEN Mapped(out.space) \cup Pages(a, size) ELSE Mapped(out.space)
  <2> HIDE DEF a, size
  <2>1. QED
    BY <1>1, <1>5, AllocateMapped DEF Room, CanAllocate
<1> HIDE DEF a, size, room, poked, filled, end, new
<1>10. new.space = filled /\ new.brk = brk
  BY <1>3 DEF Outs
<1>11. out.brk <= UserPages * PageSize => brk <= UserPages * PageSize
  BY <1>6
<1> HIDE DEF brk
<1>12. QED
  BY <1>2, <1>8, <1>9, <1>10, <1>11 DEF a, size, new

\* A loaded object has mapped its segments' claims, all of them if each was free
\* or taken as a whole when its turn came.
LEMMA ObjectMapped ==
  ASSUME NEW s \in Space, NEW obj, obj.segs \in Seq(Segments), obj.entry \in Address,
         obj.fixed \in BOOLEAN, NEW base \in Address, LoadOne(s, obj, base).ok
  PROVE  LET o == LoadOne(s, obj, base)
             n == Len(obj.segs)
         IN  /\ Mapped(s) \subseteq Mapped(o.space)
             /\ Mapped(o.space) \subseteq Mapped(s) \cup ClaimsTo(obj, base, n)
             /\ (\A j \in 1..n :
                   LET U == Mapped(s) \cup ClaimsTo(obj, base, j - 1)
                   IN  \/ ClaimOf(obj, base, j) \cap U = {}
                       \/ ClaimOf(obj, base, j) \subseteq U)
                  => Mapped(o.space) = Mapped(s) \cup ClaimsTo(obj, base, n)
             /\ o.brk <= UserPages * PageSize
<1> DEFINE C(k) == ClaimsTo(obj, base, k)
           n == Len(obj.segs)
           Fits == \A j \in 1..n :
                     LET U == Mapped(s) \cup C(j - 1)
                     IN  \/ ClaimOf(obj, base, j) \cap U = {}
                         \/ ClaimOf(obj, base, j) \subseteq U
           Good(o, k) == /\ Mapped(s) \subseteq Mapped(o.space)
                         /\ Mapped(o.space) \subseteq Mapped(s) \cup C(k)
                         /\ Fits => Mapped(o.space) = Mapped(s) \cup C(k)
                         /\ o.brk <= UserPages * PageSize
<1>1. PICK f \in [0..n -> Outs] :
        /\ f[0] = FirstOut(s, obj, base)
        /\ \A i \in 1..n : f[i] = LoadSegment(f[i - 1], obj.segs[i])
        /\ LoadOne(s, obj, base) = f[n]
  BY LoadingFacts
<1>2. n \in Nat /\ \A i \in 1..n : obj.segs[i] \in Segments
  OBVIOUS
<1> DEFINE G == {k \in 0..n : f[k].base = Bias(obj, base) /\ (f[k].ok => Good(f[k], k))}
<1> HIDE DEF n
<1>3. 0 \in G
  <2>1. f[0].base = Bias(obj, base) /\ f[0].space = s /\ f[0].brk = 0
    BY <1>1 DEF FirstOut
  <2>2. C(0) = {}
    BY ClaimsNone
  <2>3. 0 <= UserPages * PageSize
    BY Sizes
  <2> HIDE DEF C, Fits
  <2>4. Good(f[0], 0)
    BY <2>1, <2>2, <2>3
  <2>5. QED
    BY <1>2, <2>1, <2>4
<1>4. ASSUME NEW i \in 1..n, i - 1 \in G PROVE i \in G
  <2>1. PICK out \in Outs, seg \in Segments, new \in {f[i]} :
          out = f[i - 1] /\ seg = obj.segs[i] /\ new = f[i]
    BY <1>1, <1>2
  <2>2. new = LoadSegment(out, seg)
    BY <1>1, <2>1
  <2>3. out.base = Bias(obj, base)
    BY <1>4, <2>1
  <2>4. new.base = out.base
    BY <2>2 DEF LoadSegment, Outs
  <2>5. C(i) = C(i - 1) \cup ClaimOf(obj, base, i)
    BY ClaimsStep
  <2>6. ASSUME new.ok PROVE Good(new, i)
    <3> DEFINE P == ClaimOf(obj, base, i)
    <3>1. P = Pages(VStart(seg, out.base), VSize(seg, out.base))
      BY <2>1, <2>3 DEF ClaimOf
    <3>2. /\ out.ok
          /\ Mapped(new.space) = IF P \cap Mapped(out.space) = {}
                                   THEN Mapped(out.space) \cup P ELSE Mapped(out.space)
          /\ out.brk <= UserPages * PageSize => new.brk <= UserPages * PageSize
      BY <2>2, <2>6, <3>1, SegmentMapped
    <3>3. Good(out, i - 1)
      BY <1>4, <2>1, <3>2
    <3>4. Fits => P \cap (Mapped(s) \cup C(i - 1)) = {} \/ P \subseteq Mapped(s) \cup C(i - 1)
      OBVIOUS
    <3> HIDE DEF Fits, C, P
    <3>5. QED
      BY <2>5, <3>2, <3>3, <3>4 DEF P
  <2> HIDE DEF Good
  <2>7. QED
    BY <2>1, <2>3, <2>4, <2>6
<1>5. n \in G
  <2> HIDE DEF G
  <2>1. 0..n \subseteq G
    BY <1>2, <1>3, <1>4, Ladder
  <2>2. QED
    BY <1>2, <2>1
<1>6. Good(f[n], n)
  <2> HIDE DEF Good
  <2>1. QED
    BY <1>1, <1>5
<1>7. QED
  BY <1>1, <1>6 DEF n

\* A stack that is built has been mapped.
LEMMA StackMapped ==
  ASSUME NEW s \in Space, NEW args, BuildStack(s, args).ok
  PROVE  Mapped(BuildStack(s, args).space)
           = Mapped(s) \cup Pages(STACK_TOP - STACK_SIZE, STACK_SIZE)
<1> DEFINE base == STACK_TOP - STACK_SIZE
           some == Room(s, base, STACK_SIZE)
           room == Protect(some, base, STACK_SIZE, {"read", "write"})
           full == Poke(room, STACK_TOP - PageSize, PageSize, "args")
<1>1. CanAllocate(s, base, STACK_SIZE)
  BY DEF BuildStack
<1>2. some \in Space /\ room \in Space /\ {"read", "write"} \in Prot /\ "args" \in Tags
  BY RoomSpace, SpaceFacts, LoaderAssumption DEF Prot
<1>3. BuildStack(s, args).space = full
  BY Zenon DEF BuildStack
<1>4. Mapped(some) = Mapped(s) \cup Pages(base, STACK_SIZE)
  BY <1>1, AllocateMapped DEF Room
<1> HIDE DEF some
<1>5. Mapped(room) = Mapped(some)
  BY <1>2, ProtectMapped
<1> HIDE DEF room
<1>6. Mapped(full) = Mapped(room)
  BY <1>2, PokeMapped
<1>7. QED
  BY <1>3, <1>4, <1>5, <1>6

\* A program is its executable, its interpreter if it has one, and the stack.
LEMMA ProgramParts ==
  ASSUME NEW s, NEW prog \in Objects, Len(prog.interp) <= 1, NEW args,
         LoadProgram(s, prog, args).ok
  PROVE  LET new == LoadProgram(s, prog, args)
             exe == LoadOne(s, prog, PIE_BASE)
             ld == LoadOne(exe.space, prog.interp[1], INTERP_BASE)
         IN  /\ exe.ok
             /\ prog.interp = <<>> =>
                  /\ BuildStack(exe.space, args).ok
                  /\ new.space = BuildStack(exe.space, args).space
                  /\ new.brk = exe.brk
             /\ prog.interp # <<>> =>
                  /\ ld.ok /\ BuildStack(ld.space, args).ok
                  /\ new.space = BuildStack(ld.space, args).space
                  /\ new.brk \in {exe.brk, ld.brk}
<1> DEFINE new == LoadProgram(s, prog, args)
           exe == LoadOne(s, prog, PIE_BASE)
           lds == [i \in DOMAIN prog.interp |->
                     LoadOne(exe.space, prog.interp[i], INTERP_BASE)]
           last == IF lds = <<>> THEN exe ELSE lds[1]
           ld == LoadOne(exe.space, prog.interp[1], INTERP_BASE)
<1>1. /\ exe.ok /\ last.ok /\ BuildStack(last.space, args).ok
      /\ new.space = BuildStack(last.space, args).space
      /\ new.brk = FirstBreak(exe, lds)
  BY DEF LoadProgram
<1>2. prog.interp \in Seq(Interpreters)
  BY DEF Objects
<1>3. CASE prog.interp = <<>>
  <2>1. DOMAIN prog.interp = {}
    BY <1>3
  <2>2. lds = [i \in {} |-> LoadOne(exe.space, prog.interp[i], INTERP_BASE)]
    BY <2>1
  <2>3. lds = <<>>
    BY <2>2
  <2>4. last = exe /\ FirstBreak(exe, lds) = exe.brk
    BY <2>3 DEF FirstBreak
  <2> HIDE DEF new, exe, lds, last
  <2>5. QED
    BY <1>1, <1>3, <2>4 DEF new, exe
<1>4. CASE prog.interp # <<>>
  <2>1. 1 \in DOMAIN prog.interp
    BY <1>2, <1>4
  <2>2. lds[1] = ld /\ DOMAIN lds # {}
    BY <2>1
  <2>3. lds # <<>>
    BY <2>2
  <2>4. last = ld /\ FirstBreak(exe, lds) \in {exe.brk, ld.brk}
    BY <2>2, <2>3 DEF FirstBreak
  <2> HIDE DEF new, exe, lds, last
  <2>5. QED
    BY <1>1, <1>4, <2>4 DEF new, exe
<1>5. QED
  BY <1>3, <1>4

=============================================================================
