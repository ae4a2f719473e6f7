-------------------------- MODULE OryxFiles_proofs --------------------------
(***************************************************************************)
(* The descriptor tables of OryxFiles, for any number of processes, table  *)
(* size, host limit and cache size.                                        *)
(*                                                                         *)
(* FilesInv is Exclusive with what it needs to be inductive: the types,    *)
(* the emulator's own stdio open, and the table of a process that does not *)
(* exist empty.  A call opens only free host descriptors (NthFacts), and a *)
(* close gives one up that nobody else has.  A process that execve declared *)
(* dead may lose its table in the middle of a read or write: what it was   *)
(* reading is then nobody's, and stays so.                                 *)
(***************************************************************************)
EXTENDS OryxFiles, FiniteSetTheorems, TLAPS

\* The invariant of the tables F, the host's descriptors H, the processes L, the
\* cache D and the calls under way I.  A call that opens or closes several
\* descriptors goes through states that are as good.
TablesOk(F, H) ==
  /\ F \in [Procs -> [GuestFds -> HostFds \cup {None}]]
  /\ H \in [HostFds -> Files \cup {Free}]
  /\ \A p \in Procs, g \in GuestFds : F[p][g] # None => H[F[p][g]] # Free

Unshared(F) ==
  \A p, q \in Procs, g, k \in GuestFds :
    F[p][g] = F[q][k] /\ F[p][g] >= Stdio => p = q /\ g = k

Stream(F, H, D, c) ==
  /\ D[c].own >= Stdio
  /\ H[D[c].own] = D[c].file
  /\ \A p \in Procs, g \in GuestFds : F[p][g] # D[c].own
  /\ \A b \in CacheSlots : D[b].own = D[c].own => b = c

CacheOk(F, H, D) ==
  /\ D \in [CacheSlots -> Cached \cup {NoDir}]
  /\ \A c \in CacheSlots : D[c] # NoDir => Stream(F, H, D, c)

StdioOpen(H) == \A h \in HostFds : h < Stdio => H[h] = Std

\* No table and no stream has the descriptor h.
Orphan(F, D, h) ==
  /\ \A p \in Procs, g \in GuestFds : F[p][g] # h
  /\ \A c \in CacheSlots : D[c].own # h

\* The call of p under way outlives p.
Loose(F, L, D, I, p) == p \notin L /\ (I[p] < Stdio \/ Orphan(F, D, I[p]))

CallsOk(F, H, L, D, I) ==
  /\ I \in [Procs -> HostFds \cup {None}]
  /\ \A p \in Procs : I[p] # None =>
       /\ H[I[p]] # Free
       /\ (\E g \in GuestFds : F[p][g] = I[p]) \/ Loose(F, L, D, I, p)

DeadEmpty(F, L) ==
  /\ L \in SUBSET Procs
  /\ \A p \in Procs \ L : F[p] = NoFds

Good(F, H, L, D, I) ==
  /\ TablesOk(F, H) /\ Unshared(F) /\ CacheOk(F, H, D)
  /\ StdioOpen(H) /\ CallsOk(F, H, L, D, I) /\ DeadEmpty(F, L)

FilesInv == Good(fd, host, live, dircache, inflight)

\* The parts of FilesInv are the invariants the runs check.
LEMMA InvParts == FilesInv => Exclusive /\ StdioKept /\ InFlightKept
BY DEF FilesInv, Good, Exclusive, StdioKept, InFlightKept, TablesOk,
   Unshared, CacheOk, Stream, StdioOpen, CallsOk, Loose

\* So are the types, with the processes that execve declared dead.
DoomedLive == doomed \in SUBSET live

LEMMA InvTypes == FilesInv /\ DoomedLive => TypeOK
BY DEF FilesInv, DoomedLive, Good, TypeOK, TablesOk, CacheOk, CallsOk, DeadEmpty

-----------------------------------------------------------------------------
(* Counting                                                                *)

\* How many members of S are smaller than x.
Below(S, x) == Cardinality({y \in S : y < x})

\* The rank of a member of a finite set of numbers, and that ranks differ.
LEMMA BelowFacts ==
  ASSUME NEW S, S \subseteq Int, IsFiniteSet(S)
  PROVE  \A x, z \in S : /\ Below(S, x) \in 0..(Cardinality(S) - 1)
                         /\ x < z => Below(S, x) < Below(S, z)
<1> TAKE x, z \in S
<1> DEFINE B(t) == {y \in S : y < t}
<1>1. \A t \in S : IsFiniteSet(B(t)) /\ Cardinality(B(t)) \in Nat
  BY FS_Subset, FS_CardinalityType
<1>2. Cardinality(S) \in Nat
  BY FS_CardinalityType
<1>3. Cardinality(B(x)) < Cardinality(S)
  <2>1. B(x) \in SUBSET S /\ B(x) # S
    OBVIOUS
  <2>2. Cardinality(B(x)) <= Cardinality(S) /\ Cardinality(S) # Cardinality(B(x))
    BY <2>1, FS_Subset
  <2>3. QED
    BY <1>1, <1>2, <2>2
<1>4. x < z => Cardinality(B(x)) < Cardinality(B(z))
  <2> SUFFICES ASSUME x < z PROVE Cardinality(B(x)) < Cardinality(B(z))
    OBVIOUS
  <2>1. B(x) \in SUBSET B(z) /\ x \in B(z) /\ x \notin B(x)
    <3>1. \A y \in S : y < x => y < z
      OBVIOUS
    <3>2. x < z /\ ~(x < x)
      OBVIOUS
    <3>3. QED
      BY <3>1, <3>2, Zenon
  <2>2. Cardinality(B(x)) <= Cardinality(B(z)) /\ Cardinality(B(z)) # Cardinality(B(x))
    BY <1>1, <2>1, FS_Subset
  <2>3. QED
    BY <1>1, <2>2
<1>5. QED
  BY <1>1, <1>2, <1>3, <1>4 DEF Below

\* A finite set of numbers has a member of every rank, and Nth finds it.
LEMMA NthFacts ==
  ASSUME NEW S, S \subseteq Int, IsFiniteSet(S), NEW n \in 0..(Cardinality(S) - 1)
  PROVE  Nth(S, n) \in S /\ Below(S, Nth(S, n)) = n
<1> DEFINE T == 0..(Cardinality(S) - 1)
           f == [x \in S |-> Below(S, x)]
<1>1. Cardinality(S) \in Nat
  BY FS_CardinalityType
<1>2. IsFiniteSet(T) /\ Cardinality(T) = Cardinality(S)
  BY <1>1, FS_Interval
<1>3. f \in Injection(S, T)
  <2>1. f \in [S -> T]
    BY BelowFacts
  <2>2. \A x, z \in S : x # z => f[x] # f[z]
    <3> TAKE x, z \in S
    <3>1. f[x] \in Int /\ f[z] \in Int
      BY <2>1, <1>1
    <3>2. (x < z => f[x] < f[z]) /\ (z < x => f[z] < f[x])
      BY BelowFacts
    <3>3. QED
      BY <3>1, <3>2
  <2>3. QED
    BY <2>1, <2>2 DEF Injection, IsInjective
<1>4. f \in Surjection(S, T)
  BY <1>2, <1>3, FS_Injection
<1>5. \E x \in S : Below(S, x) = n
  BY <1>4 DEF Surjection
<1>6. QED
  BY <1>5 DEF Nth, Below

\* The descriptors are numbers, -1 is none of them, and what is open on
\* something is not free.
LEMMA FileFacts ==
  /\ HostFds \subseteq Int /\ IsFiniteSet(HostFds)
  /\ GuestFds \subseteq Int /\ IsFiniteSet(GuestFds)
  /\ None \in Int /\ None \notin HostFds /\ None \notin GuestFds
  /\ \A h \in HostFds : h >= 0
  /\ Stdio \in Nat /\ None < Stdio
  /\ Free \notin Files /\ Std \in Files
  /\ \A d \in Dirs : Dir(d) \in Files
  /\ \A k \in Pipes : PipeEnd(k, "read") \in Files /\ PipeEnd(k, "write") \in Files
<1>1. IsFiniteSet(HostFds) /\ IsFiniteSet(GuestFds)
  BY FilesAssumption, FS_Interval DEF HostFds, GuestFds
<1>2. /\ HostFds \subseteq Int /\ GuestFds \subseteq Int
      /\ None \in Int /\ None \notin HostFds /\ None \notin GuestFds
      /\ \A h \in HostFds : h >= 0
      /\ Stdio \in Nat /\ None < Stdio
  BY FilesAssumption DEF HostFds, GuestFds, None
<1>3. Free # Std
  BY DEF Free, Std
<1>4. \A d \in Dirs : Free # Dir(d)
  BY DEF Free, Dir
<1>5. \A k \in Pipes, e \in {"read", "write"} : Free # PipeEnd(k, e)
  BY DEF Free, PipeEnd
<1>6. Free \notin Files
  <2> SUFFICES ASSUME Free \in Files PROVE FALSE
    OBVIOUS
  <2>1. CASE \E d \in Dirs : Free = Dir(d)
    BY <1>4, <2>1
  <2>2. CASE \E k \in Pipes, e \in {"read", "write"} : Free = PipeEnd(k, e)
    BY <1>5, <2>2
  <2>3. QED
    BY <1>3, <2>1, <2>2 DEF Files
<1>7. QED
  BY <1>1, <1>2, <1>6 DEF Files

\* The host's free descriptors are none of the emulator's own.
LEMMA FreeFacts ==
  ASSUME NEW F, NEW H, NEW L, NEW D, NEW I, Good(F, H, L, D, I)
  PROVE  /\ FreeHost(H) \subseteq Int /\ IsFiniteSet(FreeHost(H))
         /\ FreeHost(H) \subseteq HostFds
         /\ \A h \in FreeHost(H) : h >= Stdio /\ H[h] = Free
<1>1. FreeHost(H) \subseteq HostFds
  BY DEF FreeHost
<1>2. IsFiniteSet(FreeHost(H))
  BY <1>1, FileFacts, FS_Subset
<1>3. \A h \in FreeHost(H) : h >= Stdio /\ H[h] = Free
  BY FileFacts DEF FreeHost, Good, StdioOpen
<1>4. QED
  BY <1>1, <1>2, <1>3, FileFacts

\* The lowest member of a set of descriptors.
LEMMA LowestFacts ==
  ASSUME NEW S, S \subseteq Int, IsFiniteSet(S), S # {}
  PROVE  Nth(S, 0) \in S
<1>1. Cardinality(S) \in Nat /\ Cardinality(S) # 0
  BY FS_CardinalityType, FS_EmptySet
<1>2. 0 \in 0..(Cardinality(S) - 1)
  BY <1>1
<1>3. QED
  BY <1>2, NthFacts

\* A cached stream has a descriptor of its own, which is open.
LEMMA StreamFacts ==
  ASSUME NEW F, NEW H, NEW D, CacheOk(F, H, D), NEW c \in CacheSlots, D[c] # NoDir
  PROVE  /\ D[c].own \in HostFds /\ D[c].file \in Files
         /\ H[D[c].own] # Free
<1>1. D[c] \in Cached
  BY DEF CacheOk
<1>2. D[c].own \in HostFds /\ D[c].file \in Files
  BY <1>1 DEF Cached, Files
<1>3. QED
  BY <1>2, FileFacts DEF CacheOk, Stream

-----------------------------------------------------------------------------
(* Descriptors opened and closed                                           *)

\* Whatever happens to the tables, while every stream's descriptor is left
\* alone and entered nowhere, the cache is as good as it was.
LEMMA CacheUntouched ==
  ASSUME NEW F, NEW H, NEW D, CacheOk(F, H, D), NEW F2, NEW H2,
         \A c \in CacheSlots : D[c] # NoDir =>
           /\ H2[D[c].own] = H[D[c].own]
           /\ \A p \in Procs, g \in GuestFds : F2[p][g] # D[c].own
  PROVE  CacheOk(F2, H2, D)
BY DEF CacheOk, Stream

\* Free descriptors N are opened; places of the tables that were free are given
\* some of them, no two the same, or a descriptor of the emulator's own.
Opens(F, H, N, F2, H2) ==
  /\ N \subseteq FreeHost(H)
  /\ H2 \in [HostFds -> Files \cup {Free}]
  /\ \A i \in HostFds : (i \in N => H2[i] # Free) /\ (i \notin N => H2[i] = H[i])
  /\ F2 \in [Procs -> [GuestFds -> HostFds \cup {None}]]
  /\ \A q \in Procs, k \in GuestFds :
       F2[q][k] = F[q][k] \/ F2[q][k] \in N \/ F2[q][k] < Stdio
  /\ \A q \in Procs, k \in GuestFds : F[q][k] # None => F2[q][k] = F[q][k]
  /\ \A q, r \in Procs, k, l \in GuestFds :
       F2[q][k] = F2[r][l] /\ F2[q][k] \in N => q = r /\ k = l

\* The facts about one place of the tables that GoodOpen and GoodClose need.
LEMMA PlaceFacts ==
  ASSUME NEW F, NEW H, TablesOk(F, H), NEW q \in Procs, NEW k \in GuestFds
  PROVE  /\ F[q][k] \in HostFds \cup {None}
         /\ F[q][k] # None => F[q][k] \in HostFds /\ H[F[q][k]] # Free
         /\ F[q][k] < Stdio \/ F[q][k] >= Stdio
         /\ F[q][k] >= Stdio => ~(F[q][k] < Stdio) /\ F[q][k] # None
<1>1. F[q][k] \in HostFds \cup {None}
  BY DEF TablesOk
<1>2. F[q][k] \in Int
  BY <1>1, FileFacts
<1>3. Stdio \in Int /\ None < Stdio /\ None \in Int
  BY FileFacts
<1>4. F[q][k] # None => H[F[q][k]] # Free
  BY DEF TablesOk
<1>5. QED
  BY <1>1, <1>2, <1>3, <1>4

\* The same of a table not yet known to be good.
LEMMA PlaceTypes ==
  ASSUME NEW F \in [Procs -> [GuestFds -> HostFds \cup {None}]],
         NEW q \in Procs, NEW k \in GuestFds
  PROVE  /\ F[q][k] \in HostFds \cup {None}
         /\ F[q][k] < Stdio \/ F[q][k] >= Stdio
         /\ F[q][k] >= Stdio => ~(F[q][k] < Stdio) /\ F[q][k] # None
<1>1. F[q][k] \in HostFds \cup {None}
  OBVIOUS
<1>2. F[q][k] \in Int
  BY <1>1, FileFacts
<1>3. Stdio \in Int /\ None < Stdio /\ None \in Int
  BY FileFacts
<1>4. QED
  BY <1>1, <1>2, <1>3

\* No two places have one descriptor that may be closed.
LEMMA UnsharedAt ==
  ASSUME NEW F, Unshared(F), NEW q \in Procs, NEW r \in Procs,
         NEW k \in GuestFds, NEW l \in GuestFds,
         F[q][k] = F[r][l], F[q][k] >= Stdio
  PROVE  q = r /\ k = l
BY Zenon DEF Unshared

\* The invariant survives any such opening.
LEMMA GoodOpen ==
  ASSUME NEW F, NEW H, NEW L, NEW D, NEW I, Good(F, H, L, D, I),
         NEW N, NEW F2, NEW H2, Opens(F, H, N, F2, H2),
         NEW L2, DeadEmpty(F2, L2),
         \A q \in Procs : I[q] # None /\ q \notin L => q \notin L2
  PROVE  Good(F2, H2, L2, D, I)
<1>1. \A i \in N : i \in HostFds /\ i >= Stdio /\ H[i] = Free
  BY FreeFacts DEF Opens
<1>2. /\ TablesOk(F, H) /\ Unshared(F) /\ CacheOk(F, H, D)
      /\ StdioOpen(H) /\ CallsOk(F, H, L, D, I)
  BY DEF Good
<1>3. \A i \in HostFds : (i \in N => H2[i] # Free) /\ (i \notin N => H2[i] = H[i])
  BY DEF Opens
<1>4. \A q \in Procs, k \in GuestFds : F[q][k] \notin N
  <2>1. \A i \in N : H[i] = Free /\ i \in HostFds
    BY <1>1
  <2>2. \A h \in HostFds : h # None
    BY FileFacts
  <2>3. \A q \in Procs, k \in GuestFds : F[q][k] # None => H[F[q][k]] # Free
    BY <1>2 DEF TablesOk
  <2>4. QED
    BY <2>1, <2>2, <2>3, Zenon
<1>5. StdioOpen(H2)
  <2>1. ASSUME NEW h \in HostFds, h < Stdio PROVE H2[h] = Std
    <3>1. h \notin N
      <4>1. h \in Int /\ Stdio \in Int
        BY FileFacts
      <4>2. QED
        BY <1>1, <2>1, <4>1
    <3>2. H2[h] = H[h] /\ H[h] = Std
      BY <1>2, <1>3, <2>1, <3>1 DEF StdioOpen
    <3>3. QED
      BY <3>2
  <2>2. QED
    BY <2>1 DEF StdioOpen
<1>6. F2 \in [Procs -> [GuestFds -> HostFds \cup {None}]]
  BY DEF Opens
<1>7. TablesOk(F2, H2)
  <2>1. ASSUME NEW q \in Procs, NEW k \in GuestFds, F2[q][k] # None
        PROVE  H2[F2[q][k]] # Free
    <3>1. F2[q][k] \in HostFds
      BY <1>6, <2>1, PlaceTypes
    <3>2. CASE F2[q][k] \in N
      BY <1>3, <3>1, <3>2
    <3>3. CASE F2[q][k] < Stdio
      <4>1. H2[F2[q][k]] = Std
        BY <1>5, <3>1, <3>3 DEF StdioOpen
      <4>2. QED
        BY <4>1, FileFacts
    <3>4. CASE F2[q][k] \notin N /\ F2[q][k] = F[q][k]
      <4>1. H[F[q][k]] # Free
        BY <1>2, <2>1, <3>4, PlaceFacts
      <4>2. QED
        BY <1>3, <3>1, <3>4, <4>1
    <3>5. QED
      BY <3>2, <3>3, <3>4 DEF Opens
  <2>2. H2 \in [HostFds -> Files \cup {Free}]
    BY DEF Opens
  <2>3. QED
    BY <1>6, <2>1, <2>2 DEF TablesOk
<1>8. Unshared(F2)
  <2>1. ASSUME NEW q \in Procs, NEW r \in Procs, NEW k \in GuestFds,
               NEW l \in GuestFds, F2[q][k] = F2[r][l], F2[q][k] >= Stdio
        PROVE  q = r /\ k = l
    <3>1. CASE F2[q][k] \in N
      BY <2>1, <3>1 DEF Opens
    <3>2. CASE F2[q][k] \notin N
      <4>1. ~(F2[q][k] < Stdio)
        BY <1>6, <2>1, PlaceTypes
      <4>2. F2[q][k] = F[q][k] /\ F2[r][l] = F[r][l]
        BY <2>1, <3>2, <4>1 DEF Opens
      <4>3. QED
        <5>1. F[q][k] = F[r][l] /\ F[q][k] >= Stdio
          BY <2>1, <4>2
        <5>2. QED
          BY <1>2, <5>1, UnsharedAt
    <3>3. QED
      BY <3>1, <3>2
  <2>2. QED
    BY <2>1 DEF Unshared
<1>9. CacheOk(F2, H2, D)
  <2>1. ASSUME NEW c \in CacheSlots, D[c] # NoDir
        PROVE  /\ H2[D[c].own] = H[D[c].own]
               /\ \A q \in Procs, k \in GuestFds : F2[q][k] # D[c].own
    <3>1. D[c].own \in HostFds /\ H[D[c].own] # Free
      BY <1>2, <2>1, StreamFacts
    <3>2. D[c].own \notin N
      BY <1>1, <3>1
    <3>3. Stream(F, H, D, c)
      BY <1>2, <2>1 DEF CacheOk
    <3>4. ~(D[c].own < Stdio)
      <4>1. HostFds \subseteq Int /\ Stdio \in Int
        BY FileFacts
      <4>2. D[c].own \in Int /\ D[c].own >= Stdio
        BY <3>1, <3>3, <4>1 DEF Stream
      <4>3. QED
        BY <4>1, <4>2
    <3>5. \A q \in Procs, k \in GuestFds : F2[q][k] # D[c].own
      BY <3>2, <3>3, <3>4 DEF Opens, Stream
    <3>6. QED
      BY <1>3, <3>1, <3>2, <3>5
  <2>2. QED
    BY <1>2, <2>1, CacheUntouched
<1>10. CallsOk(F2, H2, L2, D, I)
  <2>1. ASSUME NEW q \in Procs, I[q] # None
        PROVE  /\ H2[I[q]] # Free
               /\ (\E k \in GuestFds : F2[q][k] = I[q]) \/ Loose(F2, L2, D, I, q)
    <3>1. CASE \E k \in GuestFds : F[q][k] = I[q]
      <4>1. PICK k \in GuestFds : F[q][k] = I[q]
        BY <3>1
      <4>2. F2[q][k] = I[q]
        BY <2>1, <4>1 DEF Opens
      <4>3. QED
        BY <1>7, <2>1, <4>2 DEF TablesOk
    <3>2. CASE Loose(F, L, D, I, q)
      <4>1. I[q] \in HostFds /\ H[I[q]] # Free
        BY <1>2, <2>1 DEF CallsOk
      <4>2. I[q] \notin N
        BY <1>1, <4>1
      <4>3. H2[I[q]] # Free
        BY <1>3, <4>1, <4>2
      <4>4. q \notin L2
        BY <2>1, <3>2 DEF Loose
      <4>5. CASE I[q] < Stdio
        BY <4>3, <4>4, <4>5 DEF Loose
      <4>6. CASE ~(I[q] < Stdio) /\ Orphan(F, D, I[q])
        <5>1. \A r \in Procs, k \in GuestFds : F2[r][k] # I[q]
          BY <4>2, <4>6 DEF Opens, Orphan
        <5>2. QED
          BY <4>3, <4>4, <4>6, <5>1 DEF Loose, Orphan
      <4>7. QED
        BY <3>2, <4>5, <4>6 DEF Loose
    <3>3. QED
      BY <1>2, <2>1, <3>1, <3>2 DEF CallsOk
  <2>2. QED
    BY <1>2, <2>1 DEF CallsOk
<1>11. QED
  BY <1>5, <1>7, <1>8, <1>9, <1>10 DEF Good

\* The host descriptors S are closed, as far as they are not the emulator's own,
\* and so are all places of tables and all streams that have one of them; a
\* process whose call is under way is left alone.
Closes(F, D, I, S, F2, D2) ==
  /\ F2 \in [Procs -> [GuestFds -> HostFds \cup {None}]]
  /\ \A q \in Procs, k \in GuestFds :
       F2[q][k] # None => F2[q][k] = F[q][k]
  /\ \A q \in Procs, k \in GuestFds :
       F2[q][k] # None => F2[q][k] < Stdio \/ F2[q][k] \notin S
  /\ D2 \in [CacheSlots -> Cached \cup {NoDir}]
  /\ \A c \in CacheSlots : D2[c] # NoDir => D2[c] = D[c] /\ D[c].own \notin S
  /\ \A q \in Procs : I[q] # None => F2[q] = F[q]

\* The invariant survives any such closing.
LEMMA GoodClose ==
  ASSUME NEW F, NEW H, NEW L, NEW D, NEW I, Good(F, H, L, D, I),
         NEW S, NEW F2, NEW D2, Closes(F, D, I, S, F2, D2),
         NEW L2, DeadEmpty(F2, L2), L2 \subseteq L,
         \A q \in Procs : I[q] # None /\ Loose(F, L, D, I, q) =>
           I[q] < Stdio \/ I[q] \notin S
  PROVE  Good(F2, Closed(H, S), L2, D2, I)
<1> DEFINE H2 == Closed(H, S)
<1>1. /\ TablesOk(F, H) /\ Unshared(F) /\ CacheOk(F, H, D)
      /\ StdioOpen(H) /\ CallsOk(F, H, L, D, I)
  BY DEF Good
<1>2. /\ H2 \in [HostFds -> Files \cup {Free}]
      /\ \A i \in HostFds : i \notin S => H2[i] = H[i]
      /\ \A i \in HostFds : i < Stdio => H2[i] = H[i]
  <2>1. Stdio \in Int /\ HostFds \subseteq Int
    BY FileFacts
  <2>2. H \in [HostFds -> Files \cup {Free}]
    BY <1>1 DEF TablesOk
  <2>3. QED
    BY <2>1, <2>2 DEF Closed
<1> HIDE DEF H2
<1>3. StdioOpen(H2)
  BY <1>1, <1>2 DEF StdioOpen
<1>4. F2 \in [Procs -> [GuestFds -> HostFds \cup {None}]]
  BY DEF Closes
<1>5. TablesOk(F2, H2)
  <2>1. ASSUME NEW q \in Procs, NEW k \in GuestFds, F2[q][k] # None
        PROVE  H2[F2[q][k]] # Free
    <3>1. F2[q][k] = F[q][k] /\ (F2[q][k] < Stdio \/ F2[q][k] \notin S)
      BY <2>1 DEF Closes
    <3>2. F2[q][k] \in HostFds /\ H[F2[q][k]] # Free
      BY <1>1, <2>1, <3>1, PlaceFacts
    <3>3. QED
      BY <1>2, <3>1, <3>2
  <2>2. QED
    BY <1>2, <1>4, <2>1 DEF TablesOk
<1>6. Unshared(F2)
  <2>1. ASSUME NEW q \in Procs, NEW r \in Procs, NEW k \in GuestFds,
               NEW l \in GuestFds, F2[q][k] = F2[r][l], F2[q][k] >= Stdio
        PROVE  q = r /\ k = l
    <3>1. F2[q][k] # None
      BY <1>4, <2>1, PlaceTypes
    <3>2. F2[q][k] = F[q][k] /\ F2[r][l] = F[r][l]
      BY <2>1, <3>1 DEF Closes
    <3>3. QED
      <4>1. F[q][k] = F[r][l] /\ F[q][k] >= Stdio
        BY <2>1, <3>2
      <4>2. QED
        BY <1>1, <4>1, UnsharedAt
  <2>2. QED
    BY <2>1 DEF Unshared
<1>7. CacheOk(F2, H2, D2)
  <2>1. ASSUME NEW c \in CacheSlots, D2[c] # NoDir
        PROVE  Stream(F2, H2, D2, c)
    <3>1. D2[c] = D[c] /\ D[c] # NoDir /\ D[c].own \notin S
      BY <2>1 DEF Closes
    <3>2. Stream(F, H, D, c)
      BY <1>1, <3>1 DEF CacheOk
    <3>3. D[c].own \in HostFds
      BY <1>1, <3>1, StreamFacts
    <3>4. H2[D[c].own] = D[c].file
      BY <1>2, <3>1, <3>2, <3>3 DEF Stream
    <3>5. D[c].own # None
      BY <3>3, FileFacts
    <3>6. \A q \in Procs, k \in GuestFds : F2[q][k] # D[c].own
      BY <3>2, <3>5 DEF Closes, Stream
    <3>7. \A b \in CacheSlots : D2[b].own = D[c].own => b = c
      <4>1. ASSUME NEW b \in CacheSlots, D2[b].own = D[c].own PROVE b = c
        <5>1. D2[b] # NoDir
          BY <3>5, <4>1 DEF NoDir
        <5>2. D2[b] = D[b]
          BY <5>1 DEF Closes
        <5>3. QED
          BY <3>2, <4>1, <5>2 DEF Stream
      <4>2. QED
        BY <4>1
    <3>8. QED
      BY <3>1, <3>2, <3>4, <3>6, <3>7 DEF Stream
  <2>2. D2 \in [CacheSlots -> Cached \cup {NoDir}]
    BY DEF Closes
  <2>3. QED
    BY <2>1, <2>2 DEF CacheOk
<1>8. CallsOk(F2, H2, L2, D2, I)
  <2>1. ASSUME NEW q \in Procs, I[q] # None
        PROVE  /\ H2[I[q]] # Free
               /\ (\E k \in GuestFds : F2[q][k] = I[q]) \/ Loose(F2, L2, D2, I, q)
    <3>1. CASE \E k \in GuestFds : F[q][k] = I[q]
      <4>1. PICK k \in GuestFds : F[q][k] = I[q]
        BY <3>1
      <4>2. F2[q][k] = I[q]
        BY <2>1, <4>1 DEF Closes
      <4>3. QED
        BY <1>5, <2>1, <4>2 DEF TablesOk
    <3>2. CASE Loose(F, L, D, I, q)
      <4>1. I[q] \in HostFds /\ H[I[q]] # Free
        BY <1>1, <2>1 DEF CallsOk
      <4>2. H2[I[q]] # Free
        BY <1>2, <2>1, <3>2, <4>1
      <4>3. q \notin L2
        BY <3>2 DEF Loose
      <4>4. CASE I[q] < Stdio
        BY <4>2, <4>3, <4>4 DEF Loose
      <4>5. CASE Orphan(F, D, I[q])
        <5>1. I[q] # None
          BY <4>1, FileFacts
        <5>2. \A r \in Procs, k \in GuestFds : F2[r][k] # I[q]
          BY <4>5, <5>1 DEF Closes, Orphan
        <5>3. \A c \in CacheSlots : D2[c].own # I[q]
          BY <4>5, <5>1 DEF Closes, Orphan, NoDir
        <5>4. QED
          BY <4>2, <4>3, <5>2, <5>3 DEF Loose, Orphan
      <4>6. QED
        BY <3>2, <4>4, <4>5 DEF Loose
    <3>3. QED
      BY <1>1, <2>1, <3>1, <3>2 DEF CallsOk
  <2>2. QED
    BY <1>1, <2>1 DEF CallsOk
<1>9. QED
  BY <1>3, <1>5, <1>6, <1>7, <1>8 DEF Good, H2

\* A stream is put on a descriptor that nobody else has.
LEMMA GoodCache ==
  ASSUME NEW F, NEW H, NEW L, NEW D, NEW I, Good(F, H, L, D, I),
         NEW c \in CacheSlots, D[c] = NoDir,
         NEW x \in HostFds, NEW h \in HostFds, h >= Stdio,
         H[h] \in {Dir(d) : d \in Dirs},
         \A q \in Procs, k \in GuestFds : F[q][k] # h,
         \A b \in CacheSlots : D[b].own # h,
         \A q \in Procs : I[q] # h
  PROVE  Good(F, H, L, [D EXCEPT ![c] = [fd |-> x, own |-> h, file |-> H[h]]], I)
<1> DEFINE new == [fd |-> x, own |-> h, file |-> H[h]]
           D2 == [D EXCEPT ![c] = new]
<1>1. new \in Cached /\ new.own = h /\ new.file = H[h]
  BY DEF Cached
<1>2. /\ D2 \in [CacheSlots -> Cached \cup {NoDir}]
      /\ \A b \in CacheSlots : D2[b] = IF b = c THEN new ELSE D[b]
  BY <1>1 DEF Good, CacheOk
<1> HIDE DEF new, D2
<1>3. ASSUME NEW b \in CacheSlots, D2[b] # NoDir PROVE Stream(F, H, D2, b)
  <2>1. CASE b = c
    BY <1>1, <1>2, <2>1 DEF Stream
  <2>2. CASE b # c
    <3>1. D2[b] = D[b] /\ Stream(F, H, D, b)
      BY <1>2, <1>3, <2>2 DEF Good, CacheOk
    <3>2. \A e \in CacheSlots : D2[e].own = D[b].own => e = b
      BY <1>1, <1>2, <3>1 DEF Stream
    <3>3. QED
      BY <3>1, <3>2 DEF Stream
  <2>3. QED
    BY <2>1, <2>2
<1>4. CacheOk(F, H, D2)
  BY <1>2, <1>3 DEF CacheOk
<1>5. CallsOk(F, H, L, D2, I)
  <2>1. \A q \in Procs : Loose(F, L, D, I, q) => Loose(F, L, D2, I, q)
    BY <1>1, <1>2 DEF Loose, Orphan
  <2>2. QED
    BY <2>1 DEF Good, CallsOk
<1>6. QED
  BY <1>4, <1>5 DEF Good, D2, new
-----------------------------------------------------------------------------
(* The calls                                                               *)

\* A process that exists may change its own table.
LEMMA DeadKept ==
  ASSUME NEW F, NEW L, DeadEmpty(F, L), NEW F2, NEW p \in L,
         \A q \in Procs : q # p => F2[q] = F[q]
  PROVE  DeadEmpty(F2, L)
BY DEF DeadEmpty

\* The parts of the invariant by name.
LEMMA Parts ==
  ASSUME FilesInv
  PROVE  /\ TablesOk(fd, host) /\ Unshared(fd) /\ CacheOk(fd, host, dircache)
         /\ StdioOpen(host) /\ CallsOk(fd, host, live, dircache, inflight)
         /\ DeadEmpty(fd, live)
         /\ fd \in [Procs -> [GuestFds -> HostFds \cup {None}]]
         /\ host \in [HostFds -> Files \cup {Free}]
         /\ dircache \in [CacheSlots -> Cached \cup {NoDir}]
         /\ inflight \in [Procs -> HostFds \cup {None}]
BY DEF FilesInv, Good, TablesOk, CacheOk, CallsOk

\* What a guest has open is a file.
LEMMA OpenFile ==
  ASSUME FilesInv, NEW p \in Procs, NEW g \in GuestFds, fd[p][g] # None
  PROVE  fd[p][g] \in HostFds /\ host[fd[p][g]] \in Files
<1>1. fd[p][g] \in HostFds /\ host[fd[p][g]] # Free
  BY Parts, PlaceFacts
<1>2. QED
  BY <1>1, Parts

\* The lowest free numbers, of the host and of a guest.
LEMMA LowestHost ==
  ASSUME NEW F, NEW H, NEW L, NEW D, NEW I, Good(F, H, L, D, I), FreeHost(H) # {}
  PROVE  Nth(FreeHost(H), 0) \in FreeHost(H)
BY FreeFacts, LowestFacts

\* A guest's free numbers are finitely many.
LEMMA FreeGuestFacts ==
  ASSUME NEW p \in Procs
  PROVE  FreeGuest(p) \subseteq Int /\ IsFiniteSet(FreeGuest(p))
<1>1. FreeGuest(p) \subseteq GuestFds
  BY DEF FreeGuest
<1>2. QED
  BY <1>1, FileFacts, FS_Subset

\* The number that gfd_alloc picks is one of the table, and free.
LEMMA LowestGuest ==
  ASSUME NEW p \in Procs, FreeGuest(p) # {}
  PROVE  Nth(FreeGuest(p), 0) \in GuestFds /\ fd[p][Nth(FreeGuest(p), 0)] = None
<1>1. Nth(FreeGuest(p), 0) \in FreeGuest(p)
  BY FreeGuestFacts, LowestFacts
<1>2. QED
  BY <1>1 DEF FreeGuest

\* The next one.
LEMMA SecondGuest ==
  ASSUME NEW p \in Procs, FreeGuest(p) # {}, Cardinality(FreeGuest(p)) # 1
  PROVE  /\ Nth(FreeGuest(p), 1) \in GuestFds
         /\ fd[p][Nth(FreeGuest(p), 1)] = None
         /\ Nth(FreeGuest(p), 1) # Nth(FreeGuest(p), 0)
<1>1. FreeGuest(p) \subseteq Int /\ IsFiniteSet(FreeGuest(p))
  BY FreeGuestFacts
<1>2. Cardinality(FreeGuest(p)) \in Nat /\ Cardinality(FreeGuest(p)) # 0
  BY <1>1, FS_CardinalityType, FS_EmptySet
<1>3. /\ 0 \in 0..(Cardinality(FreeGuest(p)) - 1)
      /\ 1 \in 0..(Cardinality(FreeGuest(p)) - 1)
  BY <1>2
<1>4. /\ Below(FreeGuest(p), Nth(FreeGuest(p), 0)) = 0
      /\ Below(FreeGuest(p), Nth(FreeGuest(p), 1)) = 1
      /\ Nth(FreeGuest(p), 1) \in FreeGuest(p)
  BY <1>1, <1>3, NthFacts
<1>5. QED
  BY <1>4 DEF FreeGuest

\* One free descriptor h is opened and entered at a free place.
LEMMA OpensOne ==
  ASSUME NEW F, NEW H, NEW L, NEW D, NEW I, Good(F, H, L, D, I),
         NEW h \in FreeHost(H), NEW file \in Files,
         NEW p \in Procs, NEW g \in GuestFds, F[p][g] = None
  PROVE  Opens(F, H, {h}, [F EXCEPT ![p][g] = h], [H EXCEPT ![h] = file])
<1> DEFINE F2 == [F EXCEPT ![p][g] = h]
           H2 == [H EXCEPT ![h] = file]
<1>1. /\ F \in [Procs -> [GuestFds -> HostFds \cup {None}]]
      /\ H \in [HostFds -> Files \cup {Free}]
  BY DEF Good, TablesOk
<1>2. h \in HostFds /\ H[h] = Free
  BY DEF FreeHost
<1>3. file # Free
  BY FileFacts
<1>4. /\ H2 \in [HostFds -> Files \cup {Free}]
      /\ \A i \in HostFds : H2[i] = IF i = h THEN file ELSE H[i]
  BY <1>1, <1>2
<1>5. /\ F2 \in [Procs -> [GuestFds -> HostFds \cup {None}]]
      /\ \A q \in Procs, k \in GuestFds :
           F2[q][k] = IF q = p /\ k = g THEN h ELSE F[q][k]
  BY <1>1, <1>2
<1>6. \A q \in Procs, k \in GuestFds : F[q][k] # h
  <2>1. \A q \in Procs, k \in GuestFds : F[q][k] # None => H[F[q][k]] # Free
    BY DEF Good, TablesOk
  <2>2. h # None
    BY <1>2, FileFacts
  <2>3. QED
    BY <1>2, <2>1, <2>2
<1> HIDE DEF F2, H2
<1>7. Opens(F, H, {h}, F2, H2)
  <2>1. \A i \in HostFds : (i \in {h} => H2[i] # Free) /\ (i \notin {h} => H2[i] = H[i])
    BY <1>3, <1>4
  <2>2. \A q \in Procs, k \in GuestFds : F2[q][k] = F[q][k] \/ F2[q][k] \in {h}
    BY <1>5
  <2>3. \A q \in Procs, k \in GuestFds : F[q][k] # None => F2[q][k] = F[q][k]
    BY <1>5
  <2>4. \A q, r \in Procs, k, l \in GuestFds :
          F2[q][k] = F2[r][l] /\ F2[q][k] \in {h} => q = r /\ k = l
    <3>1. \A q \in Procs, k \in GuestFds : F2[q][k] = h => q = p /\ k = g
      BY <1>5, <1>6
    <3>2. QED
      BY <3>1
  <2>5. QED
    BY <1>4, <1>5, <2>1, <2>2, <2>3, <2>4 DEF Opens
<1>8. QED
  BY <1>7 DEF F2, H2

\* open, dup and F_DUPFD.
LEMMA StepAlloc ==
  ASSUME FilesInv, NEW p \in Procs, Calls(p), NEW file \in Files, Alloc(p, file)
  PROVE  FilesInv'
<1> DEFINE h == Nth(FreeHost(host), 0)
           g == Nth(FreeGuest(p), 0)
<1>1. h \in FreeHost(host)
  BY LowestHost DEF Alloc, FilesInv
<1>2. g \in GuestFds /\ fd[p][g] = None
  BY LowestGuest DEF Alloc
<1>3. fd' = [fd EXCEPT ![p][g] = h] /\ host' = [host EXCEPT ![h] = file]
  BY DEF Alloc, Opened
<1> HIDE DEF h, g
<1>4. Opens(fd, host, {h}, fd', host')
  BY <1>1, <1>2, <1>3, OpensOne DEF FilesInv
<1>5. DeadEmpty(fd', live)
  <2>1. \A q \in Procs : q # p => fd'[q] = fd[q]
    BY <1>3, Parts
  <2>2. QED
    BY <2>1, DeadKept, Parts DEF Calls
<1>6. Good(fd', host', live, dircache, inflight)
  BY <1>4, <1>5, GoodOpen DEF FilesInv
<1>7. QED
  BY <1>6 DEF FilesInv, Alloc

\* pipe: two openings one after the other, or one.
LEMMA StepPipe ==
  ASSUME FilesInv, NEW p \in Procs, NEW k \in Pipes, Pipe(p, k)
  PROVE  FilesInv'
<1> DEFINE r == Nth(FreeHost(host), 0)
           w == Nth(FreeHost(host), 1)
           g == Nth(FreeGuest(p), 0)
           m == Nth(FreeGuest(p), 1)
           fr == PipeEnd(k, "read")
           fw == PipeEnd(k, "write")
<1>1. /\ FreeHost(host) \subseteq Int /\ IsFiniteSet(FreeHost(host))
      /\ FreeHost(host) \subseteq HostFds
      /\ \A h \in FreeHost(host) : host[h] = Free
  BY FreeFacts DEF FilesInv
<1>2. r \in FreeHost(host) /\ w \in FreeHost(host) /\ r # w
  <2>1. Cardinality(FreeHost(host)) \in Nat /\ Cardinality(FreeHost(host)) >= 2
    BY <1>1, FS_CardinalityType DEF Pipe
  <2>2. 0 \in 0..(Cardinality(FreeHost(host)) - 1) /\ 1 \in 0..(Cardinality(FreeHost(host)) - 1)
    BY <2>1
  <2>3. Below(FreeHost(host), r) = 0 /\ Below(FreeHost(host), w) = 1
    BY <1>1, <2>2, NthFacts
  <2>4. QED
    BY <1>1, <2>2, <2>3, NthFacts
<1>3. g \in GuestFds /\ fd[p][g] = None
  BY LowestGuest DEF Pipe
<1>4. fr \in Files /\ fw \in Files
  BY FileFacts
<1>5. live' = live /\ dircache' = dircache /\ inflight' = inflight /\ Calls(p)
  BY DEF Pipe
<1>6. CASE Cardinality(FreeGuest(p)) = 1
  <2>1. fd' = [fd EXCEPT ![p][g] = r] /\ host' = [host EXCEPT ![r] = fr]
    BY <1>6 DEF Pipe
  <2> HIDE DEF r, w, g, m, fr, fw
  <2>2. Opens(fd, host, {r}, fd', host')
    BY <1>2, <1>3, <1>4, <2>1, OpensOne DEF FilesInv
  <2>3. \A q \in Procs : q # p => fd'[q] = fd[q]
    BY <2>1, Parts
  <2>4. DeadEmpty(fd', live)
    BY <1>5, <2>3, DeadKept, Parts DEF Calls
  <2>5. Good(fd', host', live, dircache, inflight)
    BY <2>2, <2>4, GoodOpen DEF FilesInv
  <2>6. QED
    BY <1>5, <2>5 DEF FilesInv
<1>7. CASE Cardinality(FreeGuest(p)) # 1
  <2> DEFINE F1 == [fd EXCEPT ![p][g] = r]
             H1 == [host EXCEPT ![r] = fr]
  <2>1. m \in GuestFds /\ fd[p][m] = None /\ m # g
    BY <1>7, SecondGuest DEF Pipe
  <2>2. /\ fd' = [fd EXCEPT ![p][g] = r, ![p][m] = w]
        /\ host' = [host EXCEPT ![r] = fr, ![w] = fw]
    BY <1>7 DEF Pipe
  <2> HIDE DEF r, w, g, m, fr, fw
  <2>3. fd' = [F1 EXCEPT ![p][m] = w] /\ host' = [H1 EXCEPT ![w] = fw]
    BY <2>2
  <2>4. Opens(fd, host, {r}, F1, H1)
    BY <1>2, <1>3, <1>4, OpensOne DEF FilesInv
  <2>5. \A q \in Procs : q # p => F1[q] = fd[q] /\ fd'[q] = fd[q]
    BY <2>2, Parts
  <2>6. DeadEmpty(F1, live)
    BY <1>5, <2>5, DeadKept, Parts DEF Calls
  <2>7. Good(F1, H1, live, dircache, inflight)
    BY <2>4, <2>6, GoodOpen DEF FilesInv
  <2>8. F1[p][m] = None
    BY <2>1, Parts
  <2>9. w \in FreeHost(H1)
    <3>1. w \in HostFds /\ host[w] = Free /\ r # w
      BY <1>1, <1>2
    <3>2. QED
      BY <3>1, Parts DEF FreeHost
  <2> HIDE DEF F1, H1
  <2>10. Opens(F1, H1, {w}, fd', host')
    BY <1>4, <2>1, <2>3, <2>7, <2>8, <2>9, OpensOne
  <2>11. DeadEmpty(fd', live)
    BY <1>5, <2>5, DeadKept, Parts DEF Calls
  <2>12. Good(fd', host', live, dircache, inflight)
    BY <2>7, <2>10, <2>11, GoodOpen
  <2>13. QED
    BY <1>5, <2>12 DEF FilesInv
<1>8. QED
  BY <1>6, <1>7
\* Nobody else has a descriptor that p may close, and no stream reads it.
LEMMA OnlyHere ==
  ASSUME FilesInv, NEW p \in Procs, NEW g \in GuestFds
  PROVE  /\ \A q \in Procs, k \in GuestFds :
              /\ fd[q][k] # None
              /\ ~(q = p /\ k = g)
              => fd[q][k] < Stdio \/ fd[q][k] # fd[p][g]
         /\ \A c \in CacheSlots : dircache[c] # NoDir => dircache[c].own # fd[p][g]
<1>1. ASSUME NEW q \in Procs, NEW k \in GuestFds, fd[q][k] # None,
             ~(q = p /\ k = g), fd[q][k] = fd[p][g]
      PROVE  fd[q][k] < Stdio
  <2>1. ~(fd[q][k] >= Stdio)
    BY <1>1, UnsharedAt, Parts
  <2>2. QED
    BY <2>1, Parts, PlaceFacts
<1>2. ASSUME NEW c \in CacheSlots, dircache[c] # NoDir
      PROVE  dircache[c].own # fd[p][g]
  <2>1. Stream(fd, host, dircache, c)
    BY <1>2, Parts DEF CacheOk
  <2>2. QED
    BY <2>1 DEF Stream
<1>3. QED
  BY <1>1, <1>2

\* The descriptor of a call that outlives its process is in no table and no
\* stream reads it, or it is the emulator's own.
LEMMA LooseFacts ==
  ASSUME FilesInv
  PROVE  \A q \in Procs : inflight[q] # None /\ Loose(fd, live, dircache, inflight, q) =>
           \/ inflight[q] < Stdio
           \/ /\ \A p \in Procs, g \in GuestFds : fd[p][g] # inflight[q]
              /\ \A c \in CacheSlots : dircache[c].own # inflight[q]
BY DEF Loose, Orphan

\* dup2: the target is closed, then a free descriptor is opened in its place.
\* If none is free the target was not closed, and nothing has changed.
LEMMA StepDup2 ==
  ASSUME FilesInv, NEW p \in Procs, NEW g \in GuestFds, NEW t \in GuestFds,
         Dup2(p, g, t)
  PROVE  FilesInv'
<1> DEFINE S == {fd[p][t]}
           F1 == [fd EXCEPT ![p][t] = None]
           H1 == Closed(host, S)
           h == Nth(FreeHost(H1), 0)
           file == host[fd[p][g]]
<1>1. /\ live' = live /\ dircache' = dircache /\ inflight' = inflight
      /\ Calls(p) /\ fd[p][g] # None /\ p \in live /\ inflight[p] = None
  BY DEF Dup2, Calls
<1>2. /\ F1 \in [Procs -> [GuestFds -> HostFds \cup {None}]]
      /\ \A q \in Procs, k \in GuestFds :
           F1[q][k] = IF q = p /\ k = t THEN None ELSE fd[q][k]
      /\ \A q \in Procs : q # p => F1[q] = fd[q]
  BY Parts
<1>3. Closes(fd, dircache, inflight, S, F1, dircache)
  <2>1. \A q \in Procs, k \in GuestFds :
          F1[q][k] # None => F1[q][k] = fd[q][k] /\ ~(q = p /\ k = t)
    BY <1>2
  <2>2. \A q \in Procs, k \in GuestFds :
          F1[q][k] # None => F1[q][k] < Stdio \/ F1[q][k] \notin S
    BY <2>1, OnlyHere
  <2>3. \A c \in CacheSlots : dircache[c] # NoDir => dircache[c].own \notin S
    BY OnlyHere
  <2>4. \A q \in Procs : inflight[q] # None => F1[q] = fd[q]
    BY <1>1, <1>2
  <2> HIDE DEF F1, S
  <2>5. QED
    BY <1>2, <2>1, <2>2, <2>3, <2>4, Parts DEF Closes
<1>4. DeadEmpty(F1, live)
  BY <1>1, <1>2, DeadKept, Parts
<1>5. Good(F1, H1, live, dircache, inflight)
  <2>1. \A q \in Procs : inflight[q] # None
                          /\ Loose(fd, live, dircache, inflight, q) =>
          inflight[q] < Stdio \/ inflight[q] \notin S
    BY LooseFacts
  <2> HIDE DEF F1, S
  <2>2. QED
    BY <1>3, <1>4, <2>1, GoodClose DEF FilesInv
<1>6. CASE FreeHost(H1) = {}
  <2>1. host' = H1 /\ fd' = fd
    BY <1>6 DEF Dup2
  <2>2. H1 = host
    <3>1. ASSUME NEW i \in HostFds, i \in S, i >= Stdio PROVE FALSE
      <4>1. H1[i] = Free
        BY <3>1 DEF Closed
      <4>2. QED
        BY <1>6, <4>1 DEF FreeHost
    <3>2. \A i \in HostFds : H1[i] = host[i]
      BY <3>1 DEF Closed
    <3>3. H1 = [i \in HostFds |-> host[i]]
      BY <3>2 DEF Closed
    <3>4. host = [i \in HostFds |-> host[i]]
      BY Parts
    <3>5. QED
      BY <3>3, <3>4
  <2>3. QED
    BY <1>1, <2>1, <2>2 DEF FilesInv
<1>7. CASE FreeHost(H1) # {}
  <2>1. host' = [H1 EXCEPT ![h] = file] /\ fd' = [fd EXCEPT ![p][t] = h]
    BY <1>7 DEF Dup2, Opened
  <2>2. file \in Files
    BY <1>1, OpenFile
  <2>3. fd' = [F1 EXCEPT ![p][t] = h]
    BY <2>1, Parts
  <2>4. F1[p][t] = None
    BY <1>2
  <2>5. \A q \in Procs : q # p => fd'[q] = fd[q]
    BY <2>1, Parts
  <2>6. DeadEmpty(fd', live)
    BY <1>1, <2>5, DeadKept, Parts
  <2> HIDE DEF F1, H1, file
  <2>7. h \in FreeHost(H1)
    BY <1>5, <1>7, LowestHost
  <2> HIDE DEF h
  <2>8. Opens(F1, H1, {h}, fd', host')
    <3>1. Opens(F1, H1, {h}, [F1 EXCEPT ![p][t] = h], [H1 EXCEPT ![h] = file])
      BY <1>5, <2>2, <2>4, <2>7, OpensOne
    <3>2. QED
      BY <2>1, <2>3, <3>1
  <2>9. Good(fd', host', live, dircache, inflight)
    BY <1>5, <2>6, <2>8, GoodOpen
  <2>10. QED
    BY <1>1, <2>9 DEF FilesInv
<1>8. QED
  BY <1>6, <1>7

\* close, with the streams cached for the descriptor.
LEMMA StepClose ==
  ASSUME FilesInv, NEW p \in Procs, NEW g \in GuestFds, Close(p, g)
  PROVE  FilesInv'
<1> DEFINE h == fd[p][g]
           C == Forgotten(h)
           S == {h} \cup DirFds(C)
<1>1. /\ live' = live /\ inflight' = inflight
      /\ p \in live /\ inflight[p] = None /\ h # None
      /\ fd' = [fd EXCEPT ![p][g] = None]
      /\ dircache' = [c \in CacheSlots |-> IF c \in C THEN NoDir ELSE dircache[c]]
      /\ host' = Closed(host, S)
  BY DEF Close, Calls
<1>2. /\ fd' \in [Procs -> [GuestFds -> HostFds \cup {None}]]
      /\ \A q \in Procs, k \in GuestFds :
           fd'[q][k] = IF q = p /\ k = g THEN None ELSE fd[q][k]
      /\ \A q \in Procs : q # p => fd'[q] = fd[q]
  BY <1>1, Parts
<1>3. /\ dircache' \in [CacheSlots -> Cached \cup {NoDir}]
      /\ \A c \in CacheSlots : dircache'[c] # NoDir =>
           c \notin C /\ dircache'[c] = dircache[c] /\ dircache[c] # NoDir
  BY <1>1, Parts
<1>4. \A c \in C : c \in CacheSlots /\ Stream(fd, host, dircache, c)
  <2>1. ASSUME NEW c \in C PROVE c \in CacheSlots /\ dircache[c] # NoDir
    BY <1>1 DEF Forgotten, NoDir
  <2>2. QED
    BY <2>1, Parts DEF CacheOk
<1> HIDE DEF C
<1>5. \A q \in Procs, k \in GuestFds : fd[q][k] \notin DirFds(C)
  BY <1>4 DEF DirFds, Stream
<1>6. \A c \in CacheSlots : dircache[c] # NoDir /\ c \notin C =>
        dircache[c].own \notin S
  <2>1. ASSUME NEW c \in CacheSlots, dircache[c] # NoDir, c \notin C,
               dircache[c].own \in DirFds(C)
        PROVE  FALSE
    <3>1. PICK b \in C : dircache[b].own = dircache[c].own
      BY <2>1 DEF DirFds
    <3>2. Stream(fd, host, dircache, c)
      BY <2>1, Parts DEF CacheOk
    <3>3. QED
      BY <1>4, <2>1, <3>1, <3>2 DEF Stream
  <2>2. QED
    BY <2>1, OnlyHere
<1>7. Closes(fd, dircache, inflight, S, fd', dircache')
  <2>1. \A q \in Procs, k \in GuestFds :
          fd'[q][k] # None => fd'[q][k] = fd[q][k] /\ ~(q = p /\ k = g)
    BY <1>2
  <2>2. \A q \in Procs, k \in GuestFds :
          fd'[q][k] # None => fd'[q][k] < Stdio \/ fd'[q][k] \notin S
    BY <1>5, <2>1, OnlyHere
  <2>3. \A c \in CacheSlots : dircache'[c] # NoDir =>
          dircache'[c] = dircache[c] /\ dircache[c].own \notin S
    BY <1>3, <1>6
  <2>4. \A q \in Procs : inflight[q] # None => fd'[q] = fd[q]
    BY <1>1, <1>2
  <2> HIDE DEF S
  <2>5. QED
    BY <1>2, <1>3, <2>1, <2>2, <2>3, <2>4 DEF Closes
<1>8. \A q \in Procs : inflight[q] # None
                        /\ Loose(fd, live, dircache, inflight, q) =>
        inflight[q] < Stdio \/ inflight[q] \notin S
  <2>1. \A c \in C : c \in CacheSlots
    BY <1>4
  <2>2. QED
    BY <2>1, LooseFacts DEF DirFds
<1> HIDE DEF S
<1>9. DeadEmpty(fd', live)
  BY <1>1, <1>2, DeadKept, Parts
<1>10. Good(fd', Closed(host, S), live, dircache', inflight)
  BY <1>7, <1>8, <1>9, GoodClose DEF FilesInv
<1>11. QED
  BY <1>1, <1>10 DEF FilesInv

\* A descriptor is opened that goes into no table.
LEMMA GoodLoose ==
  ASSUME FilesInv, NEW h \in FreeHost(host), NEW file \in Files,
         host' = [host EXCEPT ![h] = file]
  PROVE  /\ Good(fd, host', live, dircache, inflight)
         /\ h \in HostFds /\ host[h] = Free /\ host'[h] = file
         /\ \A q \in Procs, k \in GuestFds : fd[q][k] # h
<1>1. h \in HostFds /\ host[h] = Free
  BY DEF FreeHost
<1>2. /\ host' \in [HostFds -> Files \cup {Free}]
      /\ \A i \in HostFds : host'[i] = IF i = h THEN file ELSE host[i]
  BY <1>1, Parts
<1>3. \A q \in Procs, k \in GuestFds : fd[q][k] # h
  <2>1. \A q \in Procs, k \in GuestFds : fd[q][k] # None => host[fd[q][k]] # Free
    BY Parts DEF TablesOk
  <2>2. h # None
    BY <1>1, FileFacts
  <2>3. QED
    BY <1>1, <2>1, <2>2
<1>4. Opens(fd, host, {h}, fd, host')
  <2>1. \A i \in HostFds : (i \in {h} => host'[i] # Free)
                           /\ (i \notin {h} => host'[i] = host[i])
    BY <1>2, FileFacts
  <2>2. QED
    BY <1>2, <1>3, <2>1, Parts DEF Opens
<1>5. Good(fd, host', live, dircache, inflight)
  BY <1>4, GoodOpen, Parts DEF FilesInv
<1>6. QED
  BY <1>1, <1>2, <1>3, <1>5

\* getdents64: a descriptor that goes into no table gets a stream.
LEMMA StepGetDents ==
  ASSUME FilesInv, NEW p \in Procs, NEW g \in GuestFds, GetDents(p, g)
  PROVE  FilesInv'
<1> DEFINE h == Nth(FreeHost(host), 0)
           x == fd[p][g]
           file == host[x]
<1>1. /\ UNCHANGED <<fd, live, inflight>>
      /\ host' = [host EXCEPT ![h] = file]
      /\ file \in {Dir(d) : d \in Dirs} /\ x # None
  BY DEF GetDents, Opened
<1>2. h \in FreeHost(host)
  BY LowestHost DEF GetDents, FilesInv
<1>3. x \in HostFds /\ file \in Files
  BY <1>1, OpenFile
<1>4. PICK c \in CacheSlots :
        /\ dircache[c] = NoDir
        /\ dircache' = [dircache EXCEPT ![c] = [fd |-> x, own |-> h, file |-> file]]
  BY DEF GetDents
<1> HIDE DEF h, x, file
<1>5. /\ Good(fd, host', live, dircache, inflight)
      /\ h \in HostFds /\ host[h] = Free /\ host'[h] = file
      /\ \A q \in Procs, k \in GuestFds : fd[q][k] # h
  BY <1>1, <1>2, <1>3, GoodLoose
<1>6. \A b \in CacheSlots : dircache[b].own # h
  <2>1. ASSUME NEW b \in CacheSlots PROVE dircache[b].own # h
    <3>1. CASE dircache[b] = NoDir
      BY <1>5, <3>1, FileFacts DEF NoDir
    <3>2. CASE dircache[b] # NoDir
      BY <1>5, <3>2, StreamFacts, Parts
    <3>3. QED
      BY <3>1, <3>2
  <2>2. QED
    BY <2>1
<1>7. h >= Stdio
  BY <1>2, FreeFacts DEF FilesInv
<1>8. \A q \in Procs : inflight[q] # h
  <2>1. h # None
    BY <1>5, FileFacts
  <2>2. QED
    BY <1>5, <2>1, Parts DEF CallsOk
<1>9. Good(fd, host', live, dircache', inflight)
  BY <1>1, <1>3, <1>4, <1>5, <1>6, <1>7, <1>8, GoodCache
<1>10. QED
  BY <1>1, <1>9 DEF FilesInv

\* A read or write takes the descriptor it finds and gives it back.
LEMMA StepIO ==
  ASSUME FilesInv, NEW p \in Procs,
         (\E g \in GuestFds : BeginIO(p, g)) \/ EndIO(p)
  PROVE  FilesInv'
<1>1. fd' = fd /\ host' = host /\ live' = live /\ dircache' = dircache
  BY DEF BeginIO, EndIO
<1>2. PICK x \in HostFds \cup {None} :
        /\ inflight' = [inflight EXCEPT ![p] = x]
        /\ x # None => host[x] # Free /\ \E g \in GuestFds : fd[p][g] = x
  <2>1. CASE \E g \in GuestFds : BeginIO(p, g)
    <3>1. PICK g \in GuestFds : BeginIO(p, g)
      BY <2>1
    <3>2. fd[p][g] \in HostFds /\ host[fd[p][g]] # Free
      BY <3>1, Parts, PlaceFacts DEF BeginIO
    <3>3. QED
      BY <3>1, <3>2 DEF BeginIO
  <2>2. CASE EndIO(p)
    BY <2>2 DEF EndIO
  <2>3. QED
    BY <2>1, <2>2
<1>3. CallsOk(fd, host, live, dircache, inflight')
  <2>1. /\ inflight' \in [Procs -> HostFds \cup {None}]
        /\ \A q \in Procs : inflight'[q] = IF q = p THEN x ELSE inflight[q]
    BY <1>2, Parts
  <2>2. \A q \in Procs : q # p /\ Loose(fd, live, dircache, inflight, q)
                           => Loose(fd, live, dircache, inflight', q)
    BY <2>1 DEF Loose
  <2>3. QED
    BY <1>2, <2>1, <2>2, Parts DEF CallsOk
<1>4. QED
  BY <1>1, <1>3 DEF FilesInv, Good

-----------------------------------------------------------------------------
(* fork, exit and wait4                                                    *)

\* What fd_fork opens.
ForkFds(p) == {h \in HostFds : \E g \in Dupped(p) : ChildFd(p, g) = h}

\* A child's descriptor is its own or the emulator's, and those of its own are
\* given out one by one.
LEMMA ChildFacts ==
  ASSUME FilesInv, NEW p \in Procs
  PROVE  /\ ForkFds(p) \subseteq FreeHost(host)
         /\ \A g \in GuestFds :
              /\ ChildFd(p, g) \in HostFds \cup {None}
              /\ ChildFd(p, g) \in ForkFds(p) \/ ChildFd(p, g) < Stdio
         /\ \A g, k \in GuestFds :
              ChildFd(p, g) = ChildFd(p, k) /\ ChildFd(p, g) \in ForkFds(p) => g = k
<1> DEFINE D == Dupped(p)
           FH == FreeHost(host)
<1>1. /\ FH \subseteq Int /\ IsFiniteSet(FH) /\ FH \subseteq HostFds
      /\ \A h \in FH : h >= Stdio
  BY FreeFacts DEF FilesInv
<1>2. D \subseteq GuestFds /\ D \subseteq Int /\ IsFiniteSet(D)
  <2>1. D \subseteq GuestFds
    BY DEF Dupped
  <2>2. QED
    BY <2>1, FileFacts, FS_Subset
<1>3. /\ \A g \in D : Below(D, g) \in Nat
      /\ \A g, k \in D : g < k => Below(D, g) < Below(D, k)
  BY <1>2, BelowFacts
<1>4. Cardinality(FH) \in Nat
  BY <1>1, FS_CardinalityType
<1>5. \A g \in D : ChildFd(p, g) = IF Below(D, g) < Cardinality(FH)
                                     THEN Nth(FH, Below(D, g)) ELSE None
  BY DEF ChildFd, Below, Dupped
<1>6. \A g \in GuestFds \ D : ChildFd(p, g) = None \/ (ChildFd(p, g) = g /\ g < Stdio)
  BY DEF ChildFd, Dupped
<1> HIDE DEF D, FH
<1>7. \A g \in D : ChildFd(p, g) # None =>
        /\ ChildFd(p, g) \in FH
        /\ Below(FH, ChildFd(p, g)) = Below(D, g)
  <2>1. ASSUME NEW g \in D, ChildFd(p, g) # None
        PROVE  /\ ChildFd(p, g) \in FH
               /\ Below(FH, ChildFd(p, g)) = Below(D, g)
    <3>1. Below(D, g) \in 0..(Cardinality(FH) - 1) /\ ChildFd(p, g) = Nth(FH, Below(D, g))
      BY <1>3, <1>4, <1>5, <2>1
    <3>2. QED
      BY <1>1, <3>1, NthFacts
  <2>2. QED
    BY <2>1
<1>8. \A h \in HostFds : h # None
  BY FileFacts
<1>9. ForkFds(p) \subseteq FH
  BY <1>7, <1>8 DEF ForkFds, D
<1>10. ASSUME NEW g \in GuestFds
       PROVE  /\ ChildFd(p, g) \in HostFds \cup {None}
              /\ ChildFd(p, g) \in ForkFds(p) \/ ChildFd(p, g) < Stdio
  <2>1. CASE ChildFd(p, g) = None
    BY <2>1, FileFacts
  <2>2. CASE g \in D /\ ChildFd(p, g) # None
    BY <1>1, <1>7, <2>2 DEF ForkFds, D
  <2>3. CASE g \notin D /\ ChildFd(p, g) # None
    <3>1. ChildFd(p, g) = g /\ g < Stdio
      BY <1>6, <2>3
    <3>2. g \in HostFds
      BY <3>1, FilesAssumption DEF GuestFds, HostFds
    <3>3. QED
      BY <3>1, <3>2
  <2>4. QED
    BY <2>1, <2>2, <2>3
<1>11. ASSUME NEW g \in GuestFds, NEW k \in GuestFds,
              ChildFd(p, g) = ChildFd(p, k), ChildFd(p, g) \in ForkFds(p)
       PROVE  g = k
  <2>1. ChildFd(p, g) \in FH /\ ChildFd(p, g) # None
    BY <1>8, <1>9, <1>11 DEF ForkFds
  <2>2. \A l \in GuestFds : ChildFd(p, l) = ChildFd(p, g) => l \in D
    <3>1. ASSUME NEW l \in GuestFds, ChildFd(p, l) = ChildFd(p, g), l \notin D
          PROVE  FALSE
      <4>1. l < Stdio /\ l \in FH
        BY <1>6, <2>1, <3>1
      <4>2. l >= Stdio /\ l \in Int /\ Stdio \in Int
        BY <1>1, <4>1, FileFacts
      <4>3. QED
        BY <4>1, <4>2
    <3>2. QED
      BY <3>1
  <2>3. g \in D /\ k \in D
    BY <1>11, <2>2
  <2>4. Below(D, g) = Below(D, k)
    BY <1>7, <1>11, <2>1, <2>3
  <2>5. ~(g < k) /\ ~(k < g)
    <3>1. Below(D, g) \in Int
      BY <1>3, <2>3
    <3>2. QED
      BY <1>3, <2>3, <2>4, <3>1
  <2>6. g \in Int /\ k \in Int
    BY <1>2, <2>3
  <2>7. QED
    BY <2>5, <2>6
<1>12. QED
  BY <1>9, <1>10, <1>11 DEF FH

\* The host after fd_fork, whether or not a child comes of it.
LEMMA ForkedFacts ==
  ASSUME FilesInv, NEW p \in Procs
  PROVE  /\ HostForked(p) \in [HostFds -> Files \cup {Free}]
         /\ \A i \in HostFds :
              /\ i \in ForkFds(p) => HostForked(p)[i] # Free
              /\ i \notin ForkFds(p) => HostForked(p)[i] = host[i]
<1>1. ASSUME NEW i \in HostFds, i \in ForkFds(p)
      PROVE  HostForked(p)[i] \in Files
  <2> DEFINE g == CHOOSE k \in Dupped(p) : ChildFd(p, k) = i
  <2>1. \E k \in Dupped(p) : ChildFd(p, k) = i
    BY <1>1 DEF ForkFds
  <2>2. g \in Dupped(p)
    BY <2>1
  <2>3. HostForked(p)[i] = host[fd[p][g]]
    BY <2>1 DEF HostForked
  <2> HIDE DEF g
  <2>4. g \in GuestFds /\ fd[p][g] # None
    BY <2>2 DEF Dupped
  <2>5. QED
    BY <2>3, <2>4, OpenFile
<1>2. ASSUME NEW i \in HostFds, i \notin ForkFds(p)
      PROVE  HostForked(p)[i] = host[i]
  BY <1>2 DEF HostForked, ForkFds
<1>3. HostForked(p) \in [HostFds -> Files \cup {Free}]
  <2>1. \A i \in HostFds : HostForked(p)[i] \in Files \cup {Free}
    BY <1>1, <1>2, Parts
  <2>2. HostForked(p) = [i \in HostFds |-> HostForked(p)[i]]
    BY DEF HostForked
  <2>3. QED
    BY <2>1, <2>2
<1>4. QED
  BY <1>1, <1>2, <1>3, FileFacts

\* fork: what fd_fork opens is all the child's.
LEMMA StepFork ==
  ASSUME FilesInv, NEW p \in Procs, NEW c \in Procs, Fork(p, c)
  PROVE  FilesInv'
<1> DEFINE row == [g \in GuestFds |-> ChildFd(p, g)]
           N == ForkFds(p)
<1>1. /\ c \notin live /\ fd' = [fd EXCEPT ![c] = row] /\ host' = HostForked(p)
      /\ live' = live \cup {c} /\ dircache' = dircache /\ inflight' = inflight
      /\ inflight[c] = None
  BY DEF Fork
<1>2. row \in [GuestFds -> HostFds \cup {None}]
  BY ChildFacts
<1>3. /\ fd' \in [Procs -> [GuestFds -> HostFds \cup {None}]]
      /\ \A q \in Procs : q # c => fd'[q] = fd[q]
      /\ \A k \in GuestFds : fd'[c][k] = ChildFd(p, k)
  BY <1>1, <1>2, Parts
<1>4. \A k \in GuestFds : fd[c][k] = None
  BY <1>1, Parts DEF DeadEmpty, NoFds
<1>5. \A q \in Procs, k \in GuestFds : fd[q][k] \notin N
  <2>1. \A h \in N : h \in HostFds /\ host[h] = Free
    BY ChildFacts DEF FreeHost
  <2>2. \A h \in HostFds : h # None
    BY FileFacts
  <2>3. \A q \in Procs, k \in GuestFds : fd[q][k] # None => host[fd[q][k]] # Free
    BY Parts DEF TablesOk
  <2> HIDE DEF N
  <2>4. QED
    BY <2>1, <2>2, <2>3, Zenon
<1> HIDE DEF row
<1>6. Opens(fd, host, N, fd', host')
  <2>1. \A q \in Procs, k \in GuestFds :
          fd'[q][k] = fd[q][k] \/ fd'[q][k] \in N \/ fd'[q][k] < Stdio
    BY <1>3, ChildFacts
  <2>2. \A q \in Procs, k \in GuestFds : fd[q][k] # None => fd'[q][k] = fd[q][k]
    BY <1>3, <1>4
  <2>3. \A q, r \in Procs, k, l \in GuestFds :
          fd'[q][k] = fd'[r][l] /\ fd'[q][k] \in N => q = r /\ k = l
    <3>1. ASSUME NEW q \in Procs, NEW r \in Procs, NEW k \in GuestFds,
                 NEW l \in GuestFds, fd'[q][k] = fd'[r][l], fd'[q][k] \in N
          PROVE  q = r /\ k = l
      <4>1. q = c /\ r = c
        BY <1>3, <1>5, <3>1
      <4>2. ChildFd(p, k) = ChildFd(p, l) /\ ChildFd(p, k) \in ForkFds(p)
        BY <1>3, <3>1, <4>1
      <4>3. QED
        BY <4>1, <4>2, ChildFacts
    <3>2. QED
      BY <3>1
  <2>4. /\ N \subseteq FreeHost(host)
        /\ host' \in [HostFds -> Files \cup {Free}]
        /\ \A i \in HostFds : (i \in N => host'[i] # Free)
                              /\ (i \notin N => host'[i] = host[i])
    BY <1>1, ChildFacts, ForkedFacts
  <2> HIDE DEF N
  <2>5. QED
    BY <1>3, <2>1, <2>2, <2>3, <2>4 DEF Opens
<1>7. DeadEmpty(fd', live')
  BY <1>1, <1>3, Parts DEF DeadEmpty
<1>8. Good(fd', host', live', dircache, inflight)
  <2>1. \A q \in Procs : inflight[q] # None /\ q \notin live => q \notin live'
    BY <1>1
  <2>2. QED
    BY <1>6, <1>7, <2>1, GoodOpen DEF FilesInv
<1>9. QED
  BY <1>1, <1>8 DEF FilesInv

\* fcntl opens a host descriptor and enters it nowhere.
LEMMA StepFcntlRaw ==
  ASSUME FilesInv, NEW p \in Procs, NEW g \in GuestFds, FcntlRaw(p, g)
  PROVE  FilesInv'
<1> DEFINE h == Nth(FreeHost(host), 0)
           file == host[fd[p][g]]
<1>1. host' = [host EXCEPT ![h] = file] /\ UNCHANGED <<fd, live, dircache, inflight>>
  BY DEF FcntlRaw, Opened
<1>2. h \in FreeHost(host)
  BY LowestHost DEF FcntlRaw, FilesInv
<1>3. file \in Files
  BY OpenFile DEF FcntlRaw
<1> HIDE DEF h, file
<1>4. QED
  BY <1>1, <1>2, <1>3, GoodLoose DEF FilesInv

\* A fork refused after fd_fork: what it opened is nobody's.
LEMMA StepForkRefused ==
  ASSUME FilesInv, NEW p \in Procs, ForkRefused(p)
  PROVE  FilesInv'
<1> DEFINE N == ForkFds(p)
<1>1. host' = HostForked(p) /\ UNCHANGED <<fd, live, dircache, inflight>>
  BY DEF ForkRefused
<1>2. \A q \in Procs, k \in GuestFds : fd[q][k] \notin N
  <2>1. \A h \in N : h \in HostFds /\ host[h] = Free
    BY ChildFacts DEF FreeHost
  <2>2. \A h \in HostFds : h # None
    BY FileFacts
  <2>3. \A q \in Procs, k \in GuestFds : fd[q][k] # None => host[fd[q][k]] # Free
    BY Parts DEF TablesOk
  <2> HIDE DEF N
  <2>4. QED
    BY <2>1, <2>2, <2>3, Zenon
<1>3. Opens(fd, host, N, fd, host')
  <2>1. /\ N \subseteq FreeHost(host)
        /\ host' \in [HostFds -> Files \cup {Free}]
        /\ \A i \in HostFds : (i \in N => host'[i] # Free)
                              /\ (i \notin N => host'[i] = host[i])
    BY <1>1, ChildFacts, ForkedFacts
  <2> HIDE DEF N
  <2>2. QED
    BY <1>2, <2>1, Parts DEF Opens
<1>4. Good(fd, host', live, dircache, inflight)
  BY <1>3, GoodOpen, Parts DEF FilesInv
<1>5. QED
  BY <1>1, <1>4 DEF FilesInv

\* exit closes what is the process's, which is nobody else's.
LEMMA StepExit ==
  ASSUME FilesInv, NEW p \in Procs, Exit(p)
  PROVE  FilesInv'
<1> DEFINE S == {fd[p][g] : g \in GuestFds}
<1>1. /\ fd' = [fd EXCEPT ![p] = NoFds] /\ host' = Closed(host, S)
      /\ live' = live \ {p} /\ dircache' = dircache /\ inflight' = inflight
      /\ inflight[p] = None
  BY DEF Exit, Calls
<1>2. /\ fd' \in [Procs -> [GuestFds -> HostFds \cup {None}]]
      /\ \A q \in Procs : q # p => fd'[q] = fd[q]
      /\ fd'[p] = NoFds
      /\ \A k \in GuestFds : fd'[p][k] = None
  BY <1>1, Parts DEF NoFds
<1>3. Closes(fd, dircache, inflight, S, fd', dircache)
  <2>1. \A q \in Procs, k \in GuestFds :
          fd'[q][k] # None => fd'[q][k] = fd[q][k] /\ q # p
    BY <1>2
  <2>2. \A q \in Procs, k \in GuestFds :
          fd'[q][k] # None => fd'[q][k] < Stdio \/ fd'[q][k] \notin S
    BY <2>1, OnlyHere
  <2>3. \A c \in CacheSlots : dircache[c] # NoDir => dircache[c].own \notin S
    BY OnlyHere
  <2>4. \A q \in Procs : inflight[q] # None => fd'[q] = fd[q]
    BY <1>1, <1>2
  <2> HIDE DEF S
  <2>5. QED
    BY <1>2, <2>1, <2>2, <2>3, <2>4, Parts DEF Closes
<1>4. DeadEmpty(fd', live')
  BY <1>1, <1>2, Parts DEF DeadEmpty
<1>5. \A q \in Procs : inflight[q] # None
                        /\ Loose(fd, live, dircache, inflight, q) =>
        inflight[q] < Stdio \/ inflight[q] \notin S
  BY LooseFacts
<1> HIDE DEF S
<1>6. Good(fd', Closed(host, S), live', dircache, inflight)
  BY <1>1, <1>3, <1>4, <1>5, GoodClose DEF FilesInv
<1>7. QED
  BY <1>1, <1>6 DEF FilesInv

\* wait4 takes the table of a process that execve declared dead.  What that has
\* open is nobody's from then on, the descriptor of its read or write too.
LEMMA StepWait4 ==
  ASSUME FilesInv, NEW q \in Procs, NEW p \in Procs, Wait4(q, p)
  PROVE  FilesInv'
<1>1. /\ fd' = [fd EXCEPT ![p] = NoFds] /\ live' = live \ {p}
      /\ host' = host /\ dircache' = dircache /\ inflight' = inflight
  BY DEF Wait4
<1>2. /\ fd' \in [Procs -> [GuestFds -> HostFds \cup {None}]]
      /\ \A r \in Procs : r # p => fd'[r] = fd[r]
      /\ fd'[p] = NoFds
      /\ \A k \in GuestFds : fd'[p][k] = None
  BY <1>1, Parts DEF NoFds
<1>3. \A r \in Procs, k \in GuestFds : fd'[r][k] # None => r # p /\ fd'[r][k] = fd[r][k]
  BY <1>2
<1>4. TablesOk(fd', host)
  BY <1>2, <1>3, Parts DEF TablesOk
<1>5. Unshared(fd')
  <2>1. ASSUME NEW r \in Procs, NEW s \in Procs, NEW k \in GuestFds,
               NEW l \in GuestFds, fd'[r][k] = fd'[s][l], fd'[r][k] >= Stdio
        PROVE  r = s /\ k = l
    <3>1. fd'[r][k] # None
      BY <1>2, <2>1, PlaceTypes
    <3>2. fd'[r][k] = fd[r][k] /\ fd'[s][l] = fd[s][l]
      BY <1>3, <2>1, <3>1
    <3>3. fd[r][k] = fd[s][l] /\ fd[r][k] >= Stdio
      BY <2>1, <3>2
    <3>4. QED
      BY <3>3, UnsharedAt, Parts
  <2>2. QED
    BY <2>1 DEF Unshared
<1>6. CacheOk(fd', host, dircache)
  <2>1. ASSUME NEW c \in CacheSlots, dircache[c] # NoDir
        PROVE  \A r \in Procs, k \in GuestFds : fd'[r][k] # dircache[c].own
    <3>1. dircache[c].own # None
      BY <2>1, StreamFacts, Parts, FileFacts
    <3>2. Stream(fd, host, dircache, c)
      BY <2>1, Parts DEF CacheOk
    <3>3. QED
      BY <1>3, <3>1, <3>2 DEF Stream
  <2>2. QED
    BY <2>1, CacheUntouched, Parts
<1>7. DeadEmpty(fd', live')
  BY <1>1, <1>2, Parts DEF DeadEmpty
<1>8. CallsOk(fd', host, live', dircache, inflight)
  <2>1. ASSUME NEW r \in Procs, inflight[r] # None
        PROVE  \/ \E k \in GuestFds : fd'[r][k] = inflight[r]
               \/ Loose(fd', live', dircache, inflight, r)
    <3>1. CASE r # p /\ \E k \in GuestFds : fd[r][k] = inflight[r]
      BY <1>2, <3>1
    <3>2. CASE r = p /\ \E k \in GuestFds : fd[r][k] = inflight[r]
      <4>1. PICK k \in GuestFds : fd[p][k] = inflight[p]
        BY <3>2
      <4>2. inflight[p] \in HostFds
        BY <2>1, <3>2, Parts
      <4>3. CASE inflight[p] < Stdio
        BY <1>1, <3>2, <4>3 DEF Loose
      <4>4. CASE ~(inflight[p] < Stdio)
        <5>1. \A s \in Procs, l \in GuestFds : fd'[s][l] # inflight[p]
          <6>1. ASSUME NEW s \in Procs, NEW l \in GuestFds, fd'[s][l] = inflight[p]
                PROVE  FALSE
            <7>1. s # p /\ fd[s][l] = inflight[p] /\ fd[s][l] # None
              BY <1>3, <2>1, <3>2, <6>1
            <7>2. fd[s][l] < Stdio \/ fd[s][l] # fd[p][k]
              BY <7>1, OnlyHere
            <7>3. QED
              BY <4>1, <4>4, <7>1, <7>2
          <6>2. QED
            BY <6>1
        <5>2. \A c \in CacheSlots : dircache[c].own # inflight[p]
          BY <2>1, <3>2, <4>1, OnlyHere DEF NoDir
        <5>3. QED
          BY <1>1, <3>2, <5>1, <5>2 DEF Loose, Orphan
      <4>5. QED
        BY <4>3, <4>4
    <3>3. CASE Loose(fd, live, dircache, inflight, r)
      <4>1. CASE inflight[r] < Stdio
        BY <1>1, <3>3, <4>1 DEF Loose
      <4>2. CASE Orphan(fd, dircache, inflight[r])
        <5>1. \A s \in Procs, l \in GuestFds : fd'[s][l] # inflight[r]
          BY <1>3, <2>1, <4>2 DEF Orphan
        <5>2. QED
          BY <1>1, <3>3, <4>2, <5>1 DEF Loose, Orphan
      <4>3. QED
        BY <3>3, <4>1, <4>2 DEF Loose
    <3>4. QED
      BY <2>1, <3>1, <3>2, <3>3, Parts DEF CallsOk
  <2>2. QED
    BY <2>1, Parts DEF CallsOk
<1>9. Good(fd', host, live', dircache, inflight)
  BY <1>4, <1>5, <1>6, <1>7, <1>8, Parts DEF Good
<1>10. QED
  BY <1>1, <1>9 DEF FilesInv

-----------------------------------------------------------------------------
(* One process's calls and another's descriptors                           *)

\* What is open stays what it is when another descriptor is opened or closed.
LEMMA HostKeeps ==
  ASSUME NEW H \in [HostFds -> Files \cup {Free}], NEW x \in HostFds, H[x] # Free
  PROVE  /\ \A h \in FreeHost(H), file \in Files : [H EXCEPT ![h] = file][x] = H[x]
         /\ \A S : x < Stdio \/ x \notin S => Closed(H, S)[x] = H[x]
<1>1. ASSUME NEW h \in FreeHost(H), NEW file \in Files
      PROVE  [H EXCEPT ![h] = file][x] = H[x]
  <2>1. h # x
    BY DEF FreeHost
  <2>2. QED
    BY <2>1
<1>2. ASSUME NEW S, x < Stdio \/ x \notin S PROVE Closed(H, S)[x] = H[x]
  <2>1. x \in Int /\ Stdio \in Int
    BY FileFacts
  <2>2. ~(x \in S /\ x >= Stdio)
    BY <1>2, <2>1
  <2>3. QED
    BY <2>2, Zenon DEF Closed
<1>3. QED
  BY <1>1, <1>2

\* A call of p leaves the table of any other process alone that lives on.
LEMMA OthersTable ==
  ASSUME FilesInv, NEW p \in Procs, Step(p), NEW q \in live, q # p, q \in live'
  PROVE  fd'[q] = fd[q]
<1> q \in Procs
  BY Parts DEF DeadEmpty
<1> USE Parts
<1>1. CASE \E d \in Dirs : Open(p, d)
  BY <1>1 DEF Open, Alloc
<1>2. CASE \E k \in Pipes : Pipe(p, k)
  BY <1>2 DEF Pipe
<1>3. CASE \E g \in GuestFds : \/ Dup(p, g) \/ Close(p, g) \/ GetDents(p, g)
                               \/ BeginIO(p, g) \/ FcntlRaw(p, g)
  BY <1>3 DEF Dup, Alloc, Close, GetDents, BeginIO, FcntlRaw
<1>4. CASE \E g, t \in GuestFds : Dup2(p, g, t)
  BY <1>4 DEF Dup2
<1>5. CASE EndIO(p) \/ ForkRefused(p) \/ ExecBotched(p)
  BY <1>5 DEF EndIO, ForkRefused, ExecBotched
<1>6. CASE \E c \in Procs : Fork(p, c) \/ Wait4(p, c)
  BY <1>6 DEF Fork, Wait4
<1>7. CASE Exit(p)
  BY <1>7 DEF Exit
<1>8. QED
  BY <1>1, <1>2, <1>3, <1>4, <1>5, <1>6, <1>7 DEF Step

\* Nor does it open, close or replace what that process has open.
LEMMA OthersFiles ==
  ASSUME FilesInv, NEW p \in Procs, Step(p), NEW q \in live, q # p,
         NEW g \in GuestFds, fd[q][g] # None
  PROVE  host'[fd[q][g]] = host[fd[q][g]]
<1> DEFINE x == fd[q][g]
<1>1. q \in Procs
  BY Parts DEF DeadEmpty
<1>2. host \in [HostFds -> Files \cup {Free}]
  BY Parts
<1>3. x \in HostFds /\ host[x] \in Files /\ host[x] # Free
  BY <1>1, OpenFile, FileFacts
<1>4. \A t \in GuestFds : x < Stdio \/ x # fd[p][t]
  BY <1>1, OnlyHere
<1>5. \A c \in CacheSlots : dircache[c] # NoDir => dircache[c].own # x
  BY <1>1, OnlyHere
<1>6. \A h \in FreeHost(host), file \in Files : [host EXCEPT ![h] = file][x] = host[x]
  BY <1>2, <1>3, HostKeeps
<1>7. \A S : x < Stdio \/ x \notin S => Closed(host, S)[x] = host[x]
  BY <1>2, <1>3, HostKeeps
<1> HIDE DEF x
<1>8. ASSUME NEW file \in Files, FreeHost(host) # {}
      PROVE  Opened(host, file)[x] = host[x]
  <2>1. Nth(FreeHost(host), 0) \in FreeHost(host)
    BY <1>8, LowestHost DEF FilesInv
  <2>2. QED
    BY <1>6, <2>1 DEF Opened
<1>9. CASE \E d \in Dirs : Open(p, d)
  <2>1. PICK d \in Dirs : Open(p, d)
    BY <1>9
  <2>2. Dir(d) \in Files
    BY FileFacts
  <2>3. QED
    BY <1>8, <2>1, <2>2 DEF Open, Alloc, x
<1>10. CASE \E k \in Pipes : Pipe(p, k)
  <2>1. PICK k \in Pipes : Pipe(p, k)
    BY <1>10
  <2> DEFINE r == Nth(FreeHost(host), 0)
             w == Nth(FreeHost(host), 1)
  <2>2. x # r /\ x # w
    <3>1. FreeHost(host) \subseteq Int /\ IsFiniteSet(FreeHost(host))
      BY FreeFacts DEF FilesInv
    <3>2. Cardinality(FreeHost(host)) \in Nat /\ Cardinality(FreeHost(host)) >= 2
      BY <2>1, <3>1, FS_CardinalityType DEF Pipe
    <3>3. /\ 0 \in 0..(Cardinality(FreeHost(host)) - 1)
          /\ 1 \in 0..(Cardinality(FreeHost(host)) - 1)
      BY <3>2
    <3>4. r \in FreeHost(host) /\ w \in FreeHost(host)
      BY <3>1, <3>3, NthFacts
    <3>5. QED
      BY <1>3, <3>4 DEF FreeHost
  <2>3. \/ host' = [host EXCEPT ![r] = PipeEnd(k, "read")]
        \/ host' = [host EXCEPT ![r] = PipeEnd(k, "read"), ![w] = PipeEnd(k, "write")]
    BY <2>1 DEF Pipe
  <2> HIDE DEF r, w
  <2>4. QED
    BY <1>2, <1>3, <2>2, <2>3 DEF x
<1>11. CASE \E t \in GuestFds : Dup(p, t) \/ GetDents(p, t) \/ FcntlRaw(p, t)
  <2>1. PICK t \in GuestFds : Dup(p, t) \/ GetDents(p, t) \/ FcntlRaw(p, t)
    BY <1>11
  <2>2. host[fd[p][t]] \in Files /\ FreeHost(host) # {}
    BY <2>1, OpenFile DEF Dup, Alloc, GetDents, FcntlRaw
  <2>3. host' = Opened(host, host[fd[p][t]])
    BY <2>1 DEF Dup, Alloc, GetDents, FcntlRaw
  <2>4. QED
    BY <1>8, <2>2, <2>3 DEF x
<1>12. CASE \E t \in GuestFds : Close(p, t)
  <2>1. PICK t \in GuestFds : Close(p, t)
    BY <1>12
  <2> DEFINE h == fd[p][t]
             S == {h} \cup DirFds(Forgotten(h))
  <2>2. host' = Closed(host, S) /\ h # None
    BY <2>1 DEF Close
  <2>3. x \notin DirFds(Forgotten(h))
    <3>1. ASSUME NEW c \in Forgotten(h) PROVE c \in CacheSlots /\ dircache[c] # NoDir
      BY <2>2 DEF Forgotten, NoDir
    <3>2. QED
      BY <1>5, <3>1 DEF DirFds
  <2>4. x < Stdio \/ x \notin S
    BY <1>4, <2>3
  <2> HIDE DEF S, h
  <2>5. QED
    BY <1>7, <2>2, <2>4 DEF x
<1>13. CASE \E s, t \in GuestFds : Dup2(p, s, t)
  <2>1. PICK s \in GuestFds, t \in GuestFds : Dup2(p, s, t)
    BY <1>13
  <2> DEFINE H1 == Closed(host, {fd[p][t]})
             n == Nth(FreeHost(H1), 0)
  <2>2. H1[x] = host[x]
    BY <1>4, <1>7
  <2>3. \/ host' = H1
        \/ FreeHost(H1) # {} /\ host' = [H1 EXCEPT ![n] = host[fd[p][s]]]
    BY <2>1 DEF Dup2, Opened
  <2>4. FreeHost(H1) # {} => n \in FreeHost(H1)
    <3>1. FreeHost(H1) \subseteq HostFds
      BY DEF FreeHost
    <3>2. FreeHost(H1) \subseteq Int /\ IsFiniteSet(FreeHost(H1))
      BY <3>1, FileFacts, FS_Subset
    <3>3. QED
      BY <3>2, LowestFacts
  <2>5. H1 = [i \in HostFds |-> H1[i]]
    BY DEF Closed
  <2> HIDE DEF n, H1
  <2>6. FreeHost(H1) # {} => n # x
    BY <1>3, <2>2, <2>4 DEF FreeHost
  <2>7. QED
    BY <1>3, <2>2, <2>3, <2>5, <2>6 DEF x
<1>14. CASE \/ \E t \in GuestFds : BeginIO(p, t)
            \/ EndIO(p) \/ ExecBotched(p)
            \/ \E c \in Procs : Wait4(p, c)
  BY <1>14 DEF BeginIO, EndIO, ExecBotched, Wait4
<1>15. CASE (\E c \in Procs : Fork(p, c)) \/ ForkRefused(p)
  <2>1. host' = HostForked(p)
    BY <1>15 DEF Fork, ForkRefused
  <2>2. x \notin ForkFds(p)
    BY <1>3, ChildFacts DEF FreeHost
  <2>3. HostForked(p)[x] = host[x]
    BY <1>3, <2>2, ForkedFacts
  <2>4. QED
    BY <2>1, <2>3 DEF x
<1>16. CASE Exit(p)
  <2>1. host' = Closed(host, {fd[p][t] : t \in GuestFds})
    BY <1>16 DEF Exit
  <2>2. x < Stdio \/ x \notin {fd[p][t] : t \in GuestFds}
    BY <1>4
  <2>3. QED
    BY <1>7, <2>1, <2>2 DEF x
<1>17. QED
  BY <1>9, <1>10, <1>11, <1>12, <1>13, <1>14, <1>15, <1>16 DEF Step

-----------------------------------------------------------------------------
(* What is left open                                                       *)

\* A call that takes nothing out of the tables or the cache, and puts what it
\* opens into one of them, leaks nothing.
LEMMA LeakGrow ==
  ASSUME live \subseteq live',
         \A q \in live, g \in GuestFds : fd[q][g] # None => fd'[q][g] = fd[q][g],
         \A c \in CacheSlots : dircache[c] # NoDir => dircache'[c] = dircache[c],
         \A h \in HostFds : \/ host'[h] = host[h]
                            \/ \E q \in live', g \in GuestFds : fd'[q][g] = h
                            \/ \E c \in CacheSlots : dircache'[c].own = h
  PROVE  Leaked' \subseteq Leaked
<1> SUFFICES ASSUME NEW h \in Leaked' PROVE h \in Leaked
  OBVIOUS
<1>1. /\ h \in HostFds /\ h >= Stdio /\ host'[h] # Free
      /\ \A q \in live', g \in GuestFds : fd'[q][g] # h
      /\ \A c \in CacheSlots : dircache'[c].own # h
  BY DEF Leaked
<1>2. h # None
  BY <1>1, FileFacts
<1>3. host[h] # Free
  BY <1>1
<1>4. \A q \in live, g \in GuestFds : fd[q][g] # h
  BY <1>1, <1>2
<1>5. \A c \in CacheSlots : dircache[c].own # h
  BY <1>1, <1>2 DEF NoDir
<1>6. QED
  BY <1>1, <1>3, <1>4, <1>5 DEF Leaked

\* One that only closes closes everything it takes out of them.
LEMMA LeakShrink ==
  ASSUME FilesInv, NEW S, host' = Closed(host, S),
         \A q \in live, g \in GuestFds : fd[q][g] # None =>
            \/ fd[q][g] \in S
            \/ q \in live' /\ fd'[q][g] = fd[q][g],
         \A c \in CacheSlots : dircache[c] # NoDir =>
            dircache[c].own \in S \/ dircache'[c] = dircache[c]
  PROVE  Leaked' \subseteq Leaked
<1> SUFFICES ASSUME NEW h \in Leaked' PROVE h \in Leaked
  OBVIOUS
<1>1. /\ h \in HostFds /\ h >= Stdio /\ host'[h] # Free
      /\ \A q \in live', g \in GuestFds : fd'[q][g] # h
      /\ \A c \in CacheSlots : dircache'[c].own # h
  BY DEF Leaked
<1>2. h # None
  BY <1>1, FileFacts
<1>3. h \notin S /\ host[h] # Free
  BY <1>1 DEF Closed
<1>4. \A q \in live, g \in GuestFds : fd[q][g] # h
  BY <1>1, <1>2, <1>3
<1>5. \A c \in CacheSlots : dircache[c].own # h
  BY <1>1, <1>2, <1>3 DEF NoDir
<1>6. QED
  BY <1>1, <1>3, <1>4, <1>5 DEF Leaked

\* open, dup and F_DUPFD.
LEMMA LeakAlloc ==
  ASSUME FilesInv, NEW p \in live, NEW file, Alloc(p, file)
  PROVE  Leaked' \subseteq Leaked
<1> DEFINE h == Nth(FreeHost(host), 0)
           g == Nth(FreeGuest(p), 0)
<1>1. p \in Procs
  BY Parts DEF DeadEmpty
<1>2. g \in GuestFds /\ fd[p][g] = None
  BY <1>1, LowestGuest DEF Alloc
<1>3. /\ fd' = [fd EXCEPT ![p][g] = h] /\ host' = [host EXCEPT ![h] = file]
      /\ live' = live /\ dircache' = dircache
  BY DEF Alloc, Opened
<1> HIDE DEF h, g
<1>4. fd'[p][g] = h
  BY <1>1, <1>2, <1>3, Parts
<1>5. \A q \in live, k \in GuestFds : fd[q][k] # None => fd'[q][k] = fd[q][k]
  BY <1>1, <1>2, <1>3, Parts DEF DeadEmpty
<1>6. \A i \in HostFds : i # h => host'[i] = host[i]
  BY <1>3, Parts
<1>7. QED
  BY <1>2, <1>3, <1>4, <1>5, <1>6, LeakGrow

\* pipe, with room for one end or for both.
LEMMA LeakPipe ==
  ASSUME FilesInv, NEW p \in live, NEW k, Pipe(p, k)
  PROVE  Leaked' \subseteq Leaked
<1> DEFINE r == Nth(FreeHost(host), 0)
           w == Nth(FreeHost(host), 1)
           g == Nth(FreeGuest(p), 0)
           m == Nth(FreeGuest(p), 1)
           fr == PipeEnd(k, "read")
           fw == PipeEnd(k, "write")
<1>1. p \in Procs /\ live' = live /\ dircache' = dircache
  BY Parts DEF DeadEmpty, Pipe
<1>2. g \in GuestFds /\ fd[p][g] = None
  BY <1>1, LowestGuest DEF Pipe
<1>3. CASE Cardinality(FreeGuest(p)) = 1
  <2>1. fd' = [fd EXCEPT ![p][g] = r] /\ host' = [host EXCEPT ![r] = fr]
    BY <1>3 DEF Pipe
  <2> HIDE DEF r, g, fr
  <2>2. fd'[p][g] = r
    BY <1>1, <1>2, <2>1, Parts
  <2>3. \A q \in live, j \in GuestFds : fd[q][j] # None => fd'[q][j] = fd[q][j]
    BY <1>1, <1>2, <2>1, Parts DEF DeadEmpty
  <2>4. \A i \in HostFds : i # r => host'[i] = host[i]
    BY <2>1, Parts
  <2>5. QED
    BY <1>1, <1>2, <2>2, <2>3, <2>4, LeakGrow
<1>4. CASE Cardinality(FreeGuest(p)) # 1
  <2>1. /\ fd' = [fd EXCEPT ![p][g] = r, ![p][m] = w]
        /\ host' = [host EXCEPT ![r] = fr, ![w] = fw]
    BY <1>4 DEF Pipe
  <2>2. m \in GuestFds /\ fd[p][m] = None /\ m # g
    BY <1>1, <1>4, SecondGuest DEF Pipe
  <2> HIDE DEF r, w, g, m, fr, fw
  <2>3. fd'[p][g] = r /\ fd'[p][m] = w
    BY <1>1, <1>2, <2>1, <2>2, Parts
  <2>4. \A q \in live, j \in GuestFds : fd[q][j] # None => fd'[q][j] = fd[q][j]
    BY <1>1, <1>2, <2>1, <2>2, Parts DEF DeadEmpty
  <2>5. \A i \in HostFds : i # r /\ i # w => host'[i] = host[i]
    BY <2>1, Parts
  <2>6. QED
    BY <1>1, <1>2, <2>2, <2>3, <2>4, <2>5, LeakGrow
<1>5. QED
  BY <1>3, <1>4

\* dup2, whether the dup() in it works or not.
LEMMA LeakDup2 ==
  ASSUME FilesInv, NEW p \in live, NEW s \in GuestFds, NEW t \in GuestFds,
         Dup2(p, s, t)
  PROVE  Leaked' \subseteq Leaked
<1> DEFINE H1 == Closed(host, {fd[p][t]})
           n == Nth(FreeHost(H1), 0)
           file == host[fd[p][s]]
<1> SUFFICES ASSUME NEW h \in Leaked' PROVE h \in Leaked
  OBVIOUS
<1>1. /\ h \in HostFds /\ h >= Stdio /\ host'[h] # Free
      /\ \A q \in live', g \in GuestFds : fd'[q][g] # h
      /\ \A c \in CacheSlots : dircache'[c].own # h
  BY DEF Leaked
<1>2. p \in Procs /\ live' = live /\ dircache' = dircache
  BY Parts DEF DeadEmpty, Dup2
<1>3. CASE FreeHost(H1) = {}
  <2>1. host' = H1 /\ fd' = fd
    BY <1>3 DEF Dup2
  <2>2. host[h] # Free
    BY <1>1, <2>1 DEF Closed
  <2>3. QED
    BY <1>1, <1>2, <2>1, <2>2 DEF Leaked
<1>4. CASE FreeHost(H1) # {}
  <2>1. host' = [H1 EXCEPT ![n] = file] /\ fd' = [fd EXCEPT ![p][t] = n]
    BY <1>4 DEF Dup2, Opened
  <2> HIDE DEF n, file
  <2>2. h # n
    BY <1>1, <1>2, <2>1, Parts
  <2>3. H1[h] # Free
    BY <1>1, <2>1, <2>2 DEF Closed
  <2>4. host[h] # Free /\ h # fd[p][t]
    BY <1>1, <2>3 DEF Closed
  <2>5. \A q \in live, g \in GuestFds : fd[q][g] # h
    BY <1>1, <1>2, <2>1, <2>4, Parts DEF DeadEmpty
  <2>6. QED
    BY <1>1, <1>2, <2>4, <2>5 DEF Leaked
<1>5. QED
  BY <1>3, <1>4

\* close, with the streams cached for the descriptor.
LEMMA LeakClose ==
  ASSUME FilesInv, NEW p \in live, NEW g \in GuestFds, Close(p, g)
  PROVE  Leaked' \subseteq Leaked
<1> DEFINE h == fd[p][g]
           S == {h} \cup DirFds(Forgotten(h))
<1>1. /\ p \in Procs /\ live' = live
      /\ host' = Closed(host, S) /\ fd' = [fd EXCEPT ![p][g] = None]
      /\ dircache' = [c \in CacheSlots |-> IF c \in Forgotten(h) THEN NoDir
                                                                 ELSE dircache[c]]
  BY Parts DEF DeadEmpty, Close
<1>2. \A q \in live, k \in GuestFds :
        fd[q][k] # None => fd[q][k] \in S \/ (q \in live' /\ fd'[q][k] = fd[q][k])
  BY <1>1, Parts DEF DeadEmpty
<1>3. \A c \in CacheSlots : dircache[c].own \in S \/ dircache'[c] = dircache[c]
  BY <1>1 DEF DirFds
<1> HIDE DEF S, h
<1>4. QED
  BY <1>1, <1>2, <1>3, LeakShrink

\* exit.
LEMMA LeakExit ==
  ASSUME FilesInv, NEW p \in live, Exit(p)
  PROVE  Leaked' \subseteq Leaked
<1> DEFINE S == {fd[p][g] : g \in GuestFds}
<1>1. /\ p \in Procs /\ live' = live \ {p} /\ dircache' = dircache
      /\ host' = Closed(host, S) /\ fd' = [fd EXCEPT ![p] = NoFds]
  BY Parts DEF DeadEmpty, Exit
<1>2. \A q \in live, k \in GuestFds :
        fd[q][k] # None => fd[q][k] \in S \/ (q \in live' /\ fd'[q][k] = fd[q][k])
  BY <1>1, Parts DEF DeadEmpty
<1> HIDE DEF S
<1>3. QED
  BY <1>1, <1>2, LeakShrink

\* getdents64.
LEMMA LeakGetDents ==
  ASSUME FilesInv, NEW p \in live, NEW g \in GuestFds, GetDents(p, g)
  PROVE  Leaked' \subseteq Leaked
<1> DEFINE h == Nth(FreeHost(host), 0)
           file == host[fd[p][g]]
<1>1. host' = [host EXCEPT ![h] = file] /\ fd' = fd /\ live' = live
  BY DEF GetDents, Opened
<1>2. PICK c \in CacheSlots :
        /\ dircache[c] = NoDir
        /\ dircache' = [dircache EXCEPT ![c] =
                          [fd |-> fd[p][g], own |-> h, file |-> file]]
  BY DEF GetDents
<1> HIDE DEF h, file
<1>3. dircache'[c].own = h
  BY <1>2, Parts
<1>4. \A b \in CacheSlots : dircache[b] # NoDir => dircache'[b] = dircache[b]
  BY <1>2, Parts
<1>5. \A i \in HostFds : i # h => host'[i] = host[i]
  BY <1>1, Parts
<1>6. QED
  BY <1>1, <1>3, <1>4, <1>5, LeakGrow

\* fork, at the host's limit too.
LEMMA LeakFork ==
  ASSUME FilesInv, NEW p \in live, NEW c \in Procs, Fork(p, c)
  PROVE  Leaked' \subseteq Leaked
<1>1. /\ c \notin live /\ fd' = [fd EXCEPT ![c] = [g \in GuestFds |-> ChildFd(p, g)]]
      /\ host' = HostForked(p) /\ live' = live \cup {c} /\ dircache' = dircache
      /\ p \in Procs
  BY Parts DEF Fork, DeadEmpty
<1>2. \A q \in live : fd'[q] = fd[q]
  BY <1>1, Parts DEF DeadEmpty
<1>3. \A g \in GuestFds : fd'[c][g] = ChildFd(p, g)
  BY <1>1, Parts
<1>4. \A i \in HostFds : i \in ForkFds(p) => \E g \in GuestFds : fd'[c][g] = i
  BY <1>3 DEF ForkFds, Dupped
<1>5. \A i \in HostFds : i \notin ForkFds(p) => host'[i] = host[i]
  BY <1>1, ForkedFacts
<1>6. QED
  BY <1>1, <1>2, <1>4, <1>5, LeakGrow

-----------------------------------------------------------------------------
(* Stranded streams                                                        *)

\* A stream keeps an owner if those who have its descriptor keep it, or if it is
\* opened for a descriptor somebody has.
LEMMA StrandKeep ==
  ASSUME \A c \in CacheSlots : dircache'[c] # NoDir =>
           \/ /\ dircache'[c] = dircache[c]
              /\ \A q \in live, k \in GuestFds :
                   fd[q][k] = dircache[c].fd => q \in live' /\ fd'[q][k] = fd[q][k]
           \/ \E q \in live', k \in GuestFds : fd'[q][k] = dircache'[c].fd
  PROVE  Stranded' \subseteq Stranded
BY DEF Stranded

\* A stream is cached for a descriptor of the host.
LEMMA StreamFd ==
  ASSUME FilesInv, NEW c \in CacheSlots, dircache[c] # NoDir
  PROVE  dircache[c].fd # None
BY Parts DEF CacheOk, Cached, HostFds, None

\* Calls that only add to the tables of those who live leave each its owner.
LEMMA StrandAdd ==
  ASSUME FilesInv, UNCHANGED dircache, live \subseteq live',
         \A q \in live, k \in GuestFds : fd[q][k] # None => fd'[q][k] = fd[q][k]
  PROVE  Stranded' \subseteq Stranded
<1>1. \A c \in CacheSlots, q \in live, k \in GuestFds :
        dircache[c] # NoDir /\ fd[q][k] = dircache[c].fd
          => q \in live' /\ fd'[q][k] = fd[q][k]
  BY StreamFd
<1>2. QED
  BY <1>1, StrandKeep

\* open, dup.
LEMMA StrandAlloc ==
  ASSUME FilesInv, NEW p \in live, NEW file, Alloc(p, file)
  PROVE  Stranded' \subseteq Stranded
<1> DEFINE g == Nth(FreeGuest(p), 0)
<1>1. p \in Procs
  BY Parts DEF DeadEmpty
<1>2. g \in GuestFds /\ fd[p][g] = None
  BY <1>1, LowestGuest DEF Alloc
<1>3. /\ fd' = [fd EXCEPT ![p][g] = Nth(FreeHost(host), 0)]
      /\ live' = live /\ UNCHANGED dircache
  BY DEF Alloc
<1> HIDE DEF g
<1>4. \A q \in live, k \in GuestFds : fd[q][k] # None => fd'[q][k] = fd[q][k]
  BY <1>1, <1>2, <1>3, Parts DEF DeadEmpty
<1>5. QED
  BY <1>3, <1>4, StrandAdd

\* pipe.
LEMMA StrandPipe ==
  ASSUME FilesInv, NEW p \in live, NEW k \in Pipes, Pipe(p, k)
  PROVE  Stranded' \subseteq Stranded
<1> DEFINE g == Nth(FreeGuest(p), 0)
           h == Nth(FreeGuest(p), 1)
<1>1. p \in Procs /\ live' = live /\ UNCHANGED dircache
  BY Parts DEF DeadEmpty, Pipe
<1>2. g \in GuestFds /\ fd[p][g] = None
  BY <1>1, LowestGuest DEF Pipe
<1>3. CASE Cardinality(FreeGuest(p)) = 1
  <2>1. fd' = [fd EXCEPT ![p][g] = Nth(FreeHost(host), 0)]
    BY <1>3 DEF Pipe
  <2> HIDE DEF g
  <2>2. \A q \in live, i \in GuestFds : fd[q][i] # None => fd'[q][i] = fd[q][i]
    BY <1>1, <1>2, <2>1, Parts DEF DeadEmpty
  <2>3. QED
    BY <1>1, <2>2, StrandAdd
<1>4. CASE Cardinality(FreeGuest(p)) # 1
  <2>1. h \in GuestFds /\ fd[p][h] = None
    BY <1>1, <1>4, SecondGuest DEF Pipe
  <2>2. fd' = [fd EXCEPT ![p][g] = Nth(FreeHost(host), 0),
                         ![p][h] = Nth(FreeHost(host), 1)]
    BY <1>4 DEF Pipe
  <2> HIDE DEF g, h
  <2>3. \A q \in live, i \in GuestFds : fd[q][i] # None => fd'[q][i] = fd[q][i]
    BY <1>1, <1>2, <2>1, <2>2, Parts DEF DeadEmpty
  <2>4. QED
    BY <1>1, <2>3, StrandAdd
<1>5. QED
  BY <1>3, <1>4

\* close forgets every stream of the descriptor it closes.
LEMMA StrandClose ==
  ASSUME FilesInv, NEW p \in live, NEW g \in GuestFds, Close(p, g)
  PROVE  Stranded' \subseteq Stranded
<1>1. /\ p \in Procs /\ live' = live /\ fd' = [fd EXCEPT ![p][g] = None]
      /\ dircache' = [c \in CacheSlots |-> IF c \in Forgotten(fd[p][g]) THEN NoDir
                                                                        ELSE dircache[c]]
  BY Parts DEF DeadEmpty, Close
<1>2. ASSUME NEW c \in CacheSlots, dircache'[c] # NoDir
      PROVE  /\ dircache'[c] = dircache[c]
             /\ dircache[c].fd # fd[p][g]
  BY <1>1, <1>2 DEF Forgotten
<1>3. \A q \in live, k \in GuestFds :
        fd[q][k] # fd[p][g] => fd'[q][k] = fd[q][k]
  BY <1>1, Parts DEF DeadEmpty
<1>4. QED
  BY <1>1, <1>2, <1>3, StrandKeep

\* getdents64 opens its stream for a descriptor the caller has.
LEMMA StrandGetDents ==
  ASSUME FilesInv, NEW p \in live, NEW g \in GuestFds, GetDents(p, g)
  PROVE  Stranded' \subseteq Stranded
<1>1. fd' = fd /\ live' = live
  BY DEF GetDents
<1>2. PICK c \in CacheSlots :
        dircache' = [dircache EXCEPT ![c] =
                       [fd |-> fd[p][g], own |-> Nth(FreeHost(host), 0),
                        file |-> host[fd[p][g]]]]
  BY DEF GetDents
<1>3. dircache'[c].fd = fd[p][g]
  BY <1>2, Parts DEF CacheOk
<1>4. \A b \in CacheSlots : b # c => dircache'[b] = dircache[b]
  BY <1>2, Parts DEF CacheOk
<1>5. QED
  BY <1>1, <1>3, <1>4, StrandKeep

\* fork writes the table of a process that has none yet.
LEMMA StrandFork ==
  ASSUME FilesInv, NEW p \in live, NEW c \in Procs, Fork(p, c)
  PROVE  Stranded' \subseteq Stranded
<1>1. /\ c \notin live /\ fd' = [fd EXCEPT ![c] = [g \in GuestFds |-> ChildFd(p, g)]]
      /\ live' = live \cup {c} /\ UNCHANGED dircache
  BY DEF Fork
<1>2. \A q \in live : fd'[q] = fd[q]
  BY <1>1, Parts DEF DeadEmpty
<1>3. QED
  BY <1>1, <1>2, StrandAdd

-----------------------------------------------------------------------------
(* The theorems                                                            *)

\* The first state is good.
LEMMA InitInv == Init => FilesInv
<1> SUFFICES ASSUME Init PROVE FilesInv
  OBVIOUS
<1>1. /\ \A p \in Procs, g \in GuestFds :
           fd[p][g] = IF p = Root /\ g < Stdio THEN g ELSE None
      /\ \A h \in HostFds : host[h] = IF h < Stdio THEN Std ELSE Free
      /\ \A g \in GuestFds : g < Stdio => g \in HostFds
  BY FilesAssumption DEF Init, NoFds, GuestFds, HostFds
<1>2. TablesOk(fd, host)
  <2>1. fd \in [Procs -> [GuestFds -> HostFds \cup {None}]]
    BY <1>1 DEF Init, NoFds
  <2>2. host \in [HostFds -> Files \cup {Free}]
    BY FileFacts DEF Init
  <2>3. \A p \in Procs, g \in GuestFds : fd[p][g] # None => host[fd[p][g]] # Free
    BY <1>1, FileFacts
  <2>4. QED
    BY <2>1, <2>2, <2>3 DEF TablesOk
<1>3. Unshared(fd)
  <2>1. ASSUME NEW p \in Procs, NEW g \in GuestFds PROVE ~(fd[p][g] >= Stdio)
    <3>1. g \in Int /\ Stdio \in Int /\ None < Stdio /\ None \in Int
      BY FileFacts
    <3>2. QED
      BY <1>1, <3>1
  <2>2. QED
    BY <2>1 DEF Unshared
<1>4. CacheOk(fd, host, dircache)
  BY DEF Init, CacheOk
<1>5. StdioOpen(host)
  BY <1>1 DEF StdioOpen
<1>6. CallsOk(fd, host, live, dircache, inflight)
  BY DEF Init, CallsOk
<1>7. DeadEmpty(fd, live)
  BY FilesAssumption DEF Init, DeadEmpty
<1>8. QED
  BY <1>2, <1>3, <1>4, <1>5, <1>6, <1>7 DEF FilesInv, Good

\* Every step keeps it so.
LEMMA StepInv == FilesInv /\ [Next]_vars => FilesInv'
<1> SUFFICES ASSUME FilesInv, [Next]_vars PROVE FilesInv'
  OBVIOUS
<1>1. CASE UNCHANGED vars
  BY <1>1 DEF vars, FilesInv
<1>2. ASSUME NEW p \in Procs, Step(p) PROVE FilesInv'
  <2>1. ASSUME NEW d \in Dirs, Open(p, d) PROVE FilesInv'
    BY <2>1, FileFacts, StepAlloc DEF Open
  <2>2. ASSUME NEW g \in GuestFds, Dup(p, g) PROVE FilesInv'
    <3>1. host[fd[p][g]] \in Files
      BY <2>2, OpenFile DEF Dup
    <3>2. QED
      BY <2>2, <3>1, StepAlloc DEF Dup
  <2>3. ASSUME ExecBotched(p) PROVE FilesInv'
    BY <2>3 DEF ExecBotched, FilesInv
  <2>4. QED
    BY <1>2, <2>1, <2>2, <2>3, StepPipe, StepDup2, StepClose, StepGetDents, StepIO,
       StepFork, StepForkRefused, StepFcntlRaw, StepExit, StepWait4 DEF Step
<1>3. QED
  BY <1>1, <1>2 DEF Next

\* Only a process that has a table is declared dead, and it loses both together.
LEMMA StepDoomed == DoomedLive /\ [Next]_vars => DoomedLive'
<1> SUFFICES ASSUME doomed \in SUBSET live, [Next]_vars PROVE doomed' \in SUBSET live'
  BY DEF DoomedLive
<1>1. CASE UNCHANGED vars
  BY <1>1 DEF vars
<1>2. ASSUME NEW p \in Procs, Step(p) PROVE doomed' \in SUBSET live'
  <2>1. CASE \/ \E d \in Dirs : Open(p, d)
             \/ \E k \in Pipes : Pipe(p, k)
             \/ \E g \in GuestFds : \/ Dup(p, g) \/ Close(p, g) \/ GetDents(p, g)
                                     \/ BeginIO(p, g) \/ FcntlRaw(p, g)
             \/ \E g, t \in GuestFds : Dup2(p, g, t)
             \/ EndIO(p) \/ ForkRefused(p)
    BY <2>1 DEF Open, Dup, Alloc, Pipe, Close, GetDents, BeginIO, FcntlRaw, Dup2,
       EndIO, ForkRefused
  <2>2. CASE (\E c \in Procs : Fork(p, c)) \/ ExecBotched(p)
    BY <2>2 DEF Fork, ExecBotched, Calls
  <2>3. CASE (\E c \in Procs : Wait4(p, c)) \/ Exit(p)
    BY <2>3 DEF Wait4, Exit
  <2>4. QED
    BY <1>2, <2>1, <2>2, <2>3 DEF Step
<1>3. QED
  BY <1>1, <1>2 DEF Next

\* The inductive invariant, for every value of the constants.
THEOREM TablesKept == Spec => []FilesInv
<1>1. Init => FilesInv
  BY InitInv
<1>2. FilesInv /\ [Next]_vars => FilesInv'
  BY StepInv
<1>3. QED
  BY <1>1, <1>2, PTL DEF Spec

\* The tables, the host's descriptors and the cache have their types.
THEOREM TypeCorrect == Spec => []TypeOK
<1>1. Init => DoomedLive
  BY DEF Init, DoomedLive
<1>2. Spec => []DoomedLive
  BY <1>1, StepDoomed, PTL DEF Spec
<1>3. QED
  BY <1>2, TablesKept, InvTypes, PTL

\* No two places of the tables and no stream share a descriptor that the
\* emulator may close, and all of them are open, however the calls of all the
\* processes interleave: gfd_alloc, the dup2 handler, fd_fork, fd_closeall and
\* dir_forget need not count who else uses a host descriptor.
THEOREM ExclusiveHolds == Spec => []Exclusive
BY TablesKept, InvParts, PTL

\* No sequence of closes, dup2s and exits closes the emulator's own stdio.
THEOREM StdioKeptHolds == Spec => []StdioKept
BY TablesKept, InvParts, PTL

\* The descriptor that a read or write took before it gave the mutex up is open
\* until the host call returns, and still its process's while that has a table:
\* even after wait4 has taken the table of a process declared dead, nobody closes
\* it and no other file takes its number.
THEOREM InFlightKeptHolds == Spec => []InFlightKept
BY TablesKept, InvParts, PTL

\* What a live process has open, in its table and on the host, changes only by
\* its own calls: "a close in the child must not disturb the parent", whatever
\* close, dup2, fork, exit or getdents64 of another process comes in between.  A
\* wait4 takes the table of one that execve declared dead, and closes nothing.
THEOREM IsolationHolds == Spec => Isolation
<1> DEFINE A == \A p \in Procs : Step(p) =>
                  \A q \in live \ {p}, g \in GuestFds :
                    /\ q \in live' => fd'[q][g] = fd[q][g]
                    /\ fd[q][g] # None => host'[fd[q][g]] = host[fd[q][g]]
<1>1. FilesInv => [A]_vars
  <2>1. ASSUME FilesInv, NEW p \in Procs, Step(p), NEW q \in live \ {p},
               NEW g \in GuestFds
        PROVE  /\ q \in live' => fd'[q][g] = fd[q][g]
               /\ fd[q][g] # None => host'[fd[q][g]] = host[fd[q][g]]
    BY <2>1, OthersTable, OthersFiles
  <2>2. QED
    BY <2>1
<1>2. QED
  BY <1>1, TablesKept, PTL DEF Isolation

\* No call but a refused fork, an unread fcntl and a wait4 for a process that
\* execve declared dead leaves a host descriptor open that no table and no stream
\* has: not even a dup2 that fails, a pipe that half fails or a fork at the host's
\* limit.
THEOREM OnlyTheseLeakHolds == Spec => OnlyTheseLeak
<1> DEFINE A == \/ Leaked' \subseteq Leaked
                \/ \E p \in Procs : \/ ForkRefused(p)
                                    \/ \E g \in GuestFds : FcntlRaw(p, g)
                                    \/ \E c \in Procs : Wait4(p, c)
<1>1. FilesInv /\ [Next]_vars => [A]_vars
  <2>1. ASSUME FilesInv, NEW p \in Procs, Step(p) PROVE A
    <3>1. CASE \E d \in Dirs : Open(p, d)
      BY <2>1, <3>1, LeakAlloc DEF Open, Calls
    <3>2. CASE \E k \in Pipes : Pipe(p, k)
      BY <2>1, <3>2, LeakPipe DEF Pipe, Calls
    <3>3. CASE \E g \in GuestFds : Dup(p, g)
      BY <2>1, <3>3, LeakAlloc DEF Dup, Calls
    <3>4. CASE \E g \in GuestFds : Close(p, g)
      BY <2>1, <3>4, LeakClose DEF Close, Calls
    <3>5. CASE \E g \in GuestFds : GetDents(p, g)
      BY <2>1, <3>5, LeakGetDents DEF GetDents, Calls
    <3>6. CASE (\E g \in GuestFds : BeginIO(p, g)) \/ EndIO(p) \/ ExecBotched(p)
      BY <3>6 DEF BeginIO, EndIO, ExecBotched, Leaked
    <3>7. CASE \E g, t \in GuestFds : Dup2(p, g, t)
      BY <2>1, <3>7, LeakDup2 DEF Dup2, Calls
    <3>8. CASE \E c \in Procs : Fork(p, c)
      BY <2>1, <3>8, LeakFork DEF Fork, Calls
    <3>9. CASE Exit(p)
      BY <2>1, <3>9, LeakExit DEF Exit, Calls
    <3>10. QED
      BY <2>1, <3>1, <3>2, <3>3, <3>4, <3>5, <3>6, <3>7, <3>8, <3>9 DEF Step
  <2>2. QED
    BY <2>1 DEF Next
<1>2. QED
  BY <1>1, TablesKept, PTL DEF Spec, OnlyTheseLeak

\* No call but dup2, exit and a wait4 for a process that execve declared dead
\* leaves a cached stream that no close will forget.
THEOREM OnlyTheseStrandHolds == Spec => OnlyTheseStrand
<1> DEFINE A == \/ Stranded' \subseteq Stranded
                \/ \E p \in Procs : \/ Exit(p)
                                    \/ \E g, t \in GuestFds : Dup2(p, g, t)
                                    \/ \E c \in Procs : Wait4(p, c)
<1>1. FilesInv /\ [Next]_vars => [A]_vars
  <2>1. ASSUME FilesInv, NEW p \in Procs, Step(p) PROVE A
    <3>1. CASE \E d \in Dirs : Open(p, d)
      BY <2>1, <3>1, StrandAlloc DEF Open, Calls
    <3>2. CASE \E k \in Pipes : Pipe(p, k)
      BY <2>1, <3>2, StrandPipe DEF Pipe, Calls
    <3>3. CASE \E g \in GuestFds : Dup(p, g)
      BY <2>1, <3>3, StrandAlloc DEF Dup, Calls
    <3>4. CASE \E g \in GuestFds : Close(p, g)
      BY <2>1, <3>4, StrandClose DEF Close, Calls
    <3>5. CASE \E g \in GuestFds : GetDents(p, g)
      BY <2>1, <3>5, StrandGetDents DEF GetDents, Calls
    <3>6. CASE \/ \E g \in GuestFds : BeginIO(p, g) \/ FcntlRaw(p, g)
               \/ EndIO(p) \/ ForkRefused(p) \/ ExecBotched(p)
      BY <3>6 DEF BeginIO, EndIO, FcntlRaw, ForkRefused, ExecBotched, Stranded
    <3>7. CASE \E c \in Procs : Fork(p, c)
      BY <2>1, <3>7, StrandFork DEF Fork, Calls
    <3>8. QED
      BY <2>1, <3>1, <3>2, <3>3, <3>4, <3>5, <3>6, <3>7 DEF Step
  <2>2. QED
    BY <2>1 DEF Next
<1>2. QED
  BY <1>1, TablesKept, PTL DEF Spec, OnlyTheseStrand
=============================================================================
