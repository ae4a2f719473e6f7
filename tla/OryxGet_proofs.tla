--------------------------- MODULE OryxGet_proofs ---------------------------
(***************************************************************************)
(* Proofs about OryxGet, for any index, any [oryx] repository, any         *)
(* protected list and any command lines.                                   *)
(*                                                                         *)
(* First what the recursive definitions compute: Those keeps the members   *)
(* of a sequence that are in a set, and Visited, whatever a candidate's    *)
(* path cuts, ends with a set that is closed under dependencies, since a   *)
(* dependency is cut only where the walk has been already.  Then the       *)
(* invariant of install_candidate's activations, conjunct by conjunct.     *)
(***************************************************************************)
EXTENDS OryxGet, TLAPS, SequenceTheorems, FiniteSetTheorems,
        WellFoundedInduction

-----------------------------------------------------------------------------
(* Recursion                                                               *)

\* A set of naturals has a least element.
LEMMA LeastNat ==
  ASSUME NEW S, S \subseteq Nat, S # {}
  PROVE  \E s \in S : \A t \in S : s <= t
<1> DEFINE Less == {ss \in Nat \X Nat : ss[1] < ss[2]}
<1>1. IsWellFoundedOn(Less, Nat)
  BY NatLessThanWellFounded DEF OpToRel
<1>2. PICK s \in S : \A t \in S : ~(<<t, s>> \in Less)
  BY <1>1, WFMin, Zenon
<1>3. ASSUME NEW t \in S PROVE s <= t
  <2>1. ~(t < s)
    BY <1>2
  <2>2. QED
    BY <2>1
<1>4. QED
  BY <1>3

\* One step of Those on the first members of a sequence.
Keeps(s, S, f, i) ==
  f[i] = IF i = 0 THEN <<>>
         ELSE IF s[i] \in S THEN Append(f[i - 1], s[i]) ELSE f[i - 1]

\* What Those has of the first members of a sequence.
Picks(s, S, i, r) ==
  /\ \A k \in 1..Len(r) : r[k] \in S /\ \E j \in 1..i : r[k] = s[j]
  /\ \A j \in 1..i : s[j] \in S => \E k \in 1..Len(r) : r[k] = s[j]

\* A member more.
LEMMA PickMore ==
  ASSUME NEW T, NEW s \in Seq(T), NEW S, NEW i \in 1..Len(s), NEW r \in Seq(T),
         Picks(s, S, i - 1, r)
  PROVE  LET t == IF s[i] \in S THEN Append(r, s[i]) ELSE r
         IN  t \in Seq(T) /\ Picks(s, S, i, t)
<1>1. s[i] \in T
  BY ElementOfSeq
<1>2. CASE s[i] \in S
  <2>1. /\ Append(r, s[i]) \in Seq(T)
        /\ Len(Append(r, s[i])) = Len(r) + 1
        /\ \A k \in 1..Len(r) : Append(r, s[i])[k] = r[k]
        /\ Append(r, s[i])[Len(r) + 1] = s[i]
        /\ Len(r) \in Nat
    BY <1>1
  <2> DEFINE t == Append(r, s[i])
  <2> HIDE DEF t
  <2>2. ASSUME NEW k \in 1..Len(t)
        PROVE  t[k] \in S /\ \E j \in 1..i : t[k] = s[j]
    <3>1. CASE k \in 1..Len(r)
      <4>1. r[k] \in S /\ \E j \in 1..(i - 1) : r[k] = s[j]
        BY <3>1 DEF Picks
      <4>2. QED
        BY <2>1, <3>1, <4>1 DEF t
    <3>2. CASE k = Len(r) + 1
      BY <1>2, <2>1, <3>2 DEF t
    <3>3. QED
      BY <2>1, <3>1, <3>2 DEF t
  <2>3. ASSUME NEW j \in 1..i, s[j] \in S PROVE \E k \in 1..Len(t) : t[k] = s[j]
    <3>1. CASE j = i
      BY <2>1, <3>1 DEF t
    <3>2. CASE j # i
      <4>1. PICK k \in 1..Len(r) : r[k] = s[j]
        BY <2>3, <3>2 DEF Picks
      <4>2. k \in 1..Len(t) /\ t[k] = s[j]
        BY <2>1, <4>1 DEF t
      <4>3. QED
        BY <4>2
    <3>3. QED
      BY <3>1, <3>2
  <2>4. QED
    BY <1>2, <2>1, <2>2, <2>3 DEF t, Picks
<1>3. CASE s[i] \notin S
  <2>1. ASSUME NEW k \in 1..Len(r)
        PROVE  r[k] \in S /\ \E j \in 1..i : r[k] = s[j]
    <3>1. r[k] \in S /\ \E j \in 1..(i - 1) : r[k] = s[j]
      BY DEF Picks
    <3>2. QED
      BY <3>1
  <2>2. ASSUME NEW j \in 1..i, s[j] \in S PROVE \E k \in 1..Len(r) : r[k] = s[j]
    <3>1. j \in 1..(i - 1)
      BY <1>3, <2>2
    <3>2. QED
      BY <2>2, <3>1 DEF Picks
  <2>3. QED
    BY <1>3, <2>1, <2>2 DEF Picks
<1>4. QED
  BY <1>2, <1>3

\* Those is defined on the first n members, for every n.
LEMMA KeepsExists ==
  ASSUME NEW T, NEW s \in Seq(T), NEW S
  PROVE  \A n \in 0..Len(s) :
           \E f \in [0..n -> Seq(T)] : \A i \in 0..n : Keeps(s, S, f, i)
<1> DEFINE Bad == {n \in 0..Len(s) :
                     ~\E f \in [0..n -> Seq(T)] : \A i \in 0..n : Keeps(s, S, f, i)}
<1> SUFFICES ASSUME Bad # {} PROVE FALSE
  OBVIOUS
<1>1. Bad \subseteq Nat /\ Len(s) \in Nat
  OBVIOUS
<1>2. PICK n \in Bad : \A m \in Bad : n <= m
  BY <1>1, LeastNat
<1>3. n # 0
  <2>1. ASSUME n = 0 PROVE FALSE
    <3> DEFINE f == [i \in 0..n |-> <<>>]
    <3>1. f \in [0..n -> Seq(T)] /\ \A i \in 0..n : Keeps(s, S, f, i)
      BY <2>1 DEF Keeps
    <3>2. QED
      BY <3>1
  <2>2. QED
    BY <2>1
<1>4. n \in 1..Len(s) /\ n - 1 \in 0..Len(s) /\ n - 1 \notin Bad
  <2>1. n \in 0..Len(s)
    OBVIOUS
  <2>2. n \in 1..Len(s) /\ n - 1 \in 0..Len(s) /\ ~(n <= n - 1)
    BY <1>1, <1>3, <2>1
  <2>3. QED
    BY <1>2, <2>2
<1>5. PICK f \in [0..(n - 1) -> Seq(T)] : \A i \in 0..(n - 1) : Keeps(s, S, f, i)
  BY <1>4
<1> DEFINE last == IF s[n] \in S THEN Append(f[n - 1], s[n]) ELSE f[n - 1]
           g == [i \in 0..n |-> IF i = n THEN last ELSE f[i]]
<1>6. last \in Seq(T)
  <2>1. s[n] \in T /\ f[n - 1] \in Seq(T)
    BY <1>4, <1>5, ElementOfSeq
  <2>2. QED
    BY <2>1
<1>7. g \in [0..n -> Seq(T)]
  BY <1>4, <1>5, <1>6
<1>8. ASSUME NEW i \in 0..n PROVE Keeps(s, S, g, i)
  <2>1. CASE i = n
    BY <1>4, <2>1 DEF Keeps
  <2>2. CASE i # n
    <3>1. i \in 0..(n - 1) /\ Keeps(s, S, f, i)
      BY <1>4, <1>5, <2>2
    <3>2. g[i] = f[i] /\ (i # 0 => g[i - 1] = f[i - 1])
      BY <1>4, <2>2, <3>1
    <3>3. QED
      BY <3>1, <3>2 DEF Keeps
  <2>3. QED
    BY <2>1, <2>2
<1>9. QED
  BY <1>2, <1>7, <1>8

\* Those keeps the members of a sequence that are in the set, and nothing else.
LEMMA ThoseKeeps ==
  ASSUME NEW T, NEW s \in Seq(T), NEW S
  PROVE  Those(s, S) \in Seq(T) /\ Picks(s, S, Len(s), Those(s, S))
<1> DEFINE those == CHOOSE f : f = [i \in 0..Len(s) |->
                      IF i = 0 THEN <<>>
                      ELSE IF s[i] \in S THEN Append(f[i - 1], s[i]) ELSE f[i - 1]]
           Bad == {n \in 0..Len(s) :
                     ~(those[n] \in Seq(T) /\ Picks(s, S, n, those[n]))}
<1>1. Len(s) \in Nat
  OBVIOUS
<1>2. \E f : f = [i \in 0..Len(s) |->
                   IF i = 0 THEN <<>>
                   ELSE IF s[i] \in S THEN Append(f[i - 1], s[i]) ELSE f[i - 1]]
  <2>1. PICK f \in [0..Len(s) -> Seq(T)] : \A i \in 0..Len(s) : Keeps(s, S, f, i)
    <3>1. Len(s) \in 0..Len(s)
      BY <1>1
    <3>2. QED
      BY <3>1, KeepsExists
  <2>2. f = [i \in 0..Len(s) |->
              IF i = 0 THEN <<>>
              ELSE IF s[i] \in S THEN Append(f[i - 1], s[i]) ELSE f[i - 1]]
    BY <2>1 DEF Keeps
  <2>3. QED
    BY <2>2
<1>3. those = [i \in 0..Len(s) |->
                IF i = 0 THEN <<>>
                ELSE IF s[i] \in S THEN Append(those[i - 1], s[i]) ELSE those[i - 1]]
  BY <1>2
<1>4. Those(s, S) = those[Len(s)]
  BY DEF Those
<1> HIDE DEF those
<1>5. Bad = {}
  <2> SUFFICES ASSUME Bad # {} PROVE FALSE
    OBVIOUS
  <2>1. PICK n \in Bad : \A m \in Bad : n <= m
    <3>1. Bad \subseteq Nat
      BY <1>1
    <3>2. QED
      BY <3>1, LeastNat
  <2>2. n # 0
    <3>1. those[0] = <<>>
      BY <1>1, <1>3
    <3>2. <<>> \in Seq(T) /\ Picks(s, S, 0, <<>>)
      BY DEF Picks
    <3>3. QED
      BY <3>1, <3>2
  <2>3. n \in 1..Len(s) /\ n - 1 \in 0..Len(s) /\ n - 1 \notin Bad
    <3>1. n \in 0..Len(s)
      OBVIOUS
    <3>2. n \in 1..Len(s) /\ n - 1 \in 0..Len(s) /\ ~(n <= n - 1)
      BY <1>1, <2>2, <3>1
    <3>3. QED
      BY <2>1, <3>2
  <2>4. those[n - 1] \in Seq(T) /\ Picks(s, S, n - 1, those[n - 1])
    BY <2>3
  <2>5. those[n] = IF s[n] \in S THEN Append(those[n - 1], s[n]) ELSE those[n - 1]
    <3>1. n \in 0..Len(s) /\ n # 0
      BY <1>1, <2>3
    <3>2. QED
      BY <1>3, <3>1, Zenon
  <2>6. those[n] \in Seq(T) /\ Picks(s, S, n, those[n])
    BY <2>3, <2>4, <2>5, PickMore
  <2>7. QED
    BY <2>6
<1>6. QED
  BY <1>1, <1>4, <1>5

-----------------------------------------------------------------------------
(* Candidates and what they need                                           *)

\* The two lists are the lists of what can be had.
LEMMA NameFacts ==
  /\ Available \subseteq Names /\ Repo \subseteq Available /\ Index \subseteq Available
  /\ \A n \in Index : Deps[n] \in Seq(STRING)
  /\ \A c \in Candidates : /\ c.name \in Available /\ c.seen \subseteq Available
                           /\ c.repo \in BOOLEAN /\ (c.repo <=> c.name \in Repo)
                           /\ ~c.repo => c.name \in Index
BY GetAssumption DEF Available, Names, Candidates

\* What is kept of a Debian package's dependencies: what pacman has, and what
\* Debian has and the path does not.
LEMMA KeptFacts ==
  ASSUME NEW c \in Candidates
  PROVE  /\ Kept(c) \in Seq(STRING)
         /\ c.repo => Kept(c) = <<>>
         /\ \A k \in 1..Len(Kept(c)) :
              /\ Kept(c)[k] \in known \cup Available
              /\ Kept(c)[k] \in known \/ Kept(c)[k] \in Repo
                   \/ Kept(c)[k] \notin c.seen \cup {c.name}
         /\ ~c.repo => \A j \in 1..Len(Deps[c.name]) :
              LET d == Deps[c.name][j]
              IN  \/ d \notin known \cup Available
                  \/ d \in c.seen \cup {c.name}
                  \/ \E k \in 1..Len(Kept(c)) : Kept(c)[k] = d
<1>1. CASE c.repo
  BY <1>1 DEF Kept
<1>2. CASE ~c.repo
  <2> DEFINE deps == Deps[c.name]
             P == (known \cup Repo) \ {c.name}
             D == {d \in Index : Debian(d) /\ ~Cut(c, d)}
             p == Those(deps, P)
             q == Those(deps, D)
  <2>1. deps \in Seq(STRING)
    BY <1>2, NameFacts
  <2>2. Kept(c) = p \o q
    BY <1>2 DEF Kept
  <2> HIDE DEF P, D
  <2>3. /\ p \in Seq(STRING) /\ Picks(deps, P, Len(deps), p)
        /\ q \in Seq(STRING) /\ Picks(deps, D, Len(deps), q)
    BY <2>1, ThoseKeeps
  <2> HIDE DEF deps, p, q
  <2>4. /\ p \o q \in Seq(STRING)
        /\ Len(p \o q) = Len(p) + Len(q) /\ Len(p) \in Nat /\ Len(q) \in Nat
        /\ \A k \in 1..(Len(p) + Len(q)) :
             (p \o q)[k] = IF k <= Len(p) THEN p[k] ELSE q[k - Len(p)]
    BY <2>3, ConcatProperties
  <2>5. ASSUME NEW k \in 1..Len(p \o q) PROVE (p \o q)[k] \in P \cup D
    <3>1. CASE k <= Len(p)
      <4>1. k \in 1..Len(p) /\ (p \o q)[k] = p[k]
        BY <2>4, <3>1
      <4>2. QED
        BY <2>3, <4>1 DEF Picks
    <3>2. CASE ~(k <= Len(p))
      <4>1. k - Len(p) \in 1..Len(q) /\ (p \o q)[k] = q[k - Len(p)]
        BY <2>4, <3>2
      <4>2. QED
        BY <2>3, <4>1 DEF Picks
    <3>3. QED
      BY <3>1, <3>2
  <2>6. ASSUME NEW j \in 1..Len(deps), deps[j] \in P \cup D
        PROVE  \E k \in 1..Len(p \o q) : (p \o q)[k] = deps[j]
    <3>1. CASE deps[j] \in P
      <4>1. PICK k \in 1..Len(p) : p[k] = deps[j]
        BY <2>3, <3>1 DEF Picks
      <4>2. k \in 1..Len(p \o q) /\ (p \o q)[k] = deps[j]
        BY <2>4, <4>1
      <4>3. QED
        BY <4>2
    <3>2. CASE deps[j] \in D
      <4>1. PICK k \in 1..Len(q) : q[k] = deps[j]
        BY <2>3, <3>2 DEF Picks
      <4>2. Len(p) + k \in 1..Len(p \o q) /\ (p \o q)[Len(p) + k] = deps[j]
        BY <2>4, <4>1
      <4>3. QED
        BY <4>2
    <3>3. QED
      BY <2>6, <3>1, <3>2
  <2>7. \A d \in P \cup D : /\ d \in known \cup Available
                            /\ d \in known \/ d \in Repo \/ d \notin c.seen \cup {c.name}
    BY DEF P, D, Cut, Available
  <2>8. ASSUME NEW d
        PROVE  d \notin known \cup Available \/ d \in c.seen \cup {c.name} \/ d \in P \cup D
    BY DEF P, D, Cut, Debian, Available
  <2>9. ASSUME NEW k \in 1..Len(p \o q)
        PROVE  /\ (p \o q)[k] \in known \cup Available
               /\ (p \o q)[k] \in known \/ (p \o q)[k] \in Repo
                    \/ (p \o q)[k] \notin c.seen \cup {c.name}
    BY <2>5, <2>7, Zenon
  <2>10. \A j \in 1..Len(deps) :
            \/ deps[j] \notin known \cup Available
            \/ deps[j] \in c.seen \cup {c.name}
            \/ \E k \in 1..Len(p \o q) : (p \o q)[k] = deps[j]
    BY <2>6, <2>8
  <2>11. QED
    BY <1>2, <2>2, <2>4, <2>9, <2>10 DEF deps
<1>3. QED
  BY <1>1, <1>2, NameFacts

\* What a candidate needs are candidates, each with the path that leads to it:
\* Debian's are not on that path, and all of Kept is there that is not installed.
LEMMA NeedsFacts ==
  ASSUME NEW c \in Candidates
  PROVE  /\ Needs(c) \in Seq(Candidates)
         /\ c.repo => Needs(c) = <<>>
         /\ \A k \in 1..Len(Needs(c)) :
              /\ Needs(c)[k].seen = c.seen \cup {c.name}
              /\ Needs(c)[k].name \notin known
              /\ Needs(c)[k].repo \/ Needs(c)[k].name \notin c.seen \cup {c.name}
         /\ \A i \in 1..Len(Kept(c)) :
              \/ Kept(c)[i] \in known
              \/ \E k \in 1..Len(Needs(c)) : Needs(c)[k].name = Kept(c)[i]
<1> DEFINE kept == Kept(c)
           A == Available \ known
           new == Those(kept, A)
           seen == c.seen \cup {c.name}
           needs == [i \in DOMAIN new |-> Cand(new[i], seen, new[i] \in Repo)]
<1>1. /\ kept \in Seq(STRING)
      /\ c.repo => kept = <<>>
      /\ \A k \in 1..Len(kept) : /\ kept[k] \in known \cup Available
                                 /\ kept[k] \in known \/ kept[k] \in Repo \/ kept[k] \notin seen
  BY KeptFacts
<1>2. Needs(c) = needs
  BY DEF Needs
<1> HIDE DEF kept
<1>3. new \in Seq(STRING) /\ Picks(kept, A, Len(kept), new)
  BY <1>1, ThoseKeeps
<1> HIDE DEF new, A
<1>4. Len(new) \in Nat /\ DOMAIN new = 1..Len(new)
  BY <1>3
<1>5. \A k \in 1..Len(new) : /\ new[k] \in Available /\ new[k] \notin known
                             /\ new[k] \in Repo \/ new[k] \notin seen
  BY <1>1, <1>3 DEF Picks, A
<1>6. seen \subseteq Available
  BY NameFacts
<1> HIDE DEF seen
<1>7. \A k \in 1..Len(new) : Cand(new[k], seen, new[k] \in Repo) \in Candidates
  <2> SUFFICES ASSUME NEW k \in 1..Len(new)
               PROVE  Cand(new[k], seen, new[k] \in Repo) \in Candidates
    OBVIOUS
  <2>1. new[k] \in Available
    BY <1>5
  <2>2. CASE new[k] \in Repo
    BY <1>6, <2>2 DEF Cand, Candidates
  <2>3. CASE new[k] \notin Repo
    <3>1. (new[k] \in Repo) = FALSE
      BY <2>3
    <3>2. Cand(new[k], seen, new[k] \in Repo)
            = [name |-> new[k], seen |-> seen, repo |-> FALSE]
      BY <3>1, Zenon DEF Cand
    <3>3. QED
      <4>1. new[k] \in Index \ Repo
        BY <2>1, <2>3 DEF Available
      <4>2. [name |-> new[k], seen |-> seen, repo |-> FALSE]
              \in [name: Index \ Repo, seen: SUBSET Available, repo: {FALSE}]
        BY <1>6, <4>1
      <4>3. QED
        BY <3>2, <4>2, Zenon DEF Candidates
  <2>4. QED
    BY <2>2, <2>3
<1>8. needs \in Seq(Candidates) /\ Len(needs) = Len(new)
  BY <1>4, <1>7
<1>9. \A k \in 1..Len(needs) : needs[k] = Cand(new[k], seen, new[k] \in Repo)
  BY <1>4, <1>8
<1>10. ASSUME NEW k \in 1..Len(needs)
       PROVE  /\ needs[k].seen = seen
              /\ needs[k].name \notin known
              /\ needs[k].repo \/ needs[k].name \notin seen
  <2>1. needs[k] = [name |-> new[k], seen |-> seen, repo |-> new[k] \in Repo]
    BY <1>9 DEF Cand
  <2>2. new[k] \notin known /\ (new[k] \in Repo \/ new[k] \notin seen)
    BY <1>5, <1>8
  <2> HIDE DEF needs
  <2>3. needs[k].seen = seen /\ needs[k].name = new[k]
    BY <2>1
  <2>4. needs[k].repo = (new[k] \in Repo)
    BY <2>1
  <2>5. QED
    BY <2>2, <2>3, <2>4, Zenon
<1>11. ASSUME NEW i \in 1..Len(kept), kept[i] \notin known
       PROVE  \E k \in 1..Len(needs) : needs[k].name = kept[i]
  <2>1. kept[i] \in A
    <3>1. kept[i] \in known \cup Available
      BY <1>1
    <3>2. QED
      BY <1>11, <3>1 DEF A
  <2>2. PICK k \in 1..Len(new) : new[k] = kept[i]
    BY <1>3, <2>1 DEF Picks
  <2>3. k \in 1..Len(needs) /\ needs[k].name = kept[i]
    BY <1>8, <1>9, <2>2 DEF Cand
  <2>4. QED
    BY <2>3
<1>12. c.repo => needs = <<>>
  <2>1. ASSUME c.repo PROVE Len(new) = 0
    <3>1. Len(kept) = 0
      BY <1>1, <2>1
    <3>2. ~\E k \in 1..Len(new) : TRUE
      BY <1>3, <3>1 DEF Picks
    <3>3. QED
      BY <1>4, <3>2
  <2>2. QED
    BY <1>8, <2>1
<1>13. QED
  BY <1>2, <1>8, <1>10, <1>11, <1>12 DEF kept, seen

-----------------------------------------------------------------------------
(* The walk of find_protected                                              *)

\* f is computed by following g until E is reached.
Follow(D, E, g, out, f) == f = [x \in D |-> IF x \in E THEN out[x] ELSE f[g[x]]]

\* Such a function exists, whether E is always reached or not.
LEMMA TailRecursion ==
  ASSUME NEW D, NEW E, NEW g \in [D -> D], NEW out
  PROVE  \E f : Follow(D, E, g, out, f)
<1> DEFINE StaysIn(S) == \A x \in S \ E : g[x] \in S
           Orbit(x) == {y \in D : \A S \in SUBSET D : x \in S /\ StaysIn(S) => y \in S}
           f == [x \in D |-> out[CHOOSE y : y \in E \cap Orbit(x)]]
<1>1. ASSUME NEW x \in D PROVE x \in Orbit(x) /\ StaysIn(Orbit(x)) /\ Orbit(x) \subseteq D
  OBVIOUS
<1>2. ASSUME NEW x \in D, x \in E PROVE f[x] = out[x]
  <2>1. {x} \in SUBSET D /\ x \in {x} /\ StaysIn({x})
    BY <1>2
  <2>2. Orbit(x) \subseteq {x} /\ x \in Orbit(x)
    BY <1>1, <2>1
  <2> HIDE DEF Orbit
  <2>3. (CHOOSE y : y \in E \cap Orbit(x)) = x
    BY <1>2, <2>2
  <2>4. QED
    BY <2>3
<1>3. ASSUME NEW x \in D, x \notin E PROVE f[x] = f[g[x]]
  <2>1. g[x] \in D
    OBVIOUS
  <2> DEFINE O == {x} \cup Orbit(g[x])
  <2>2. O \in SUBSET D /\ x \in O /\ StaysIn(O)
    BY <1>1, <2>1
  <2>3. Orbit(x) \subseteq O
    BY <2>2
  <2>4. g[x] \in Orbit(x) /\ Orbit(x) \in SUBSET D /\ StaysIn(Orbit(x))
    BY <1>1, <1>3
  <2>5. Orbit(g[x]) \subseteq Orbit(x)
    BY <2>4
  <2> HIDE DEF Orbit
  <2>6. E \cap Orbit(x) = E \cap Orbit(g[x])
    BY <1>3, <2>3, <2>5
  <2>7. /\ f[x] = out[CHOOSE y : y \in E \cap Orbit(x)]
        /\ f[g[x]] = out[CHOOSE y : y \in E \cap Orbit(g[x])]
    BY <2>1
  <2>8. (CHOOSE y : y \in E \cap Orbit(x)) = (CHOOSE y : y \in E \cap Orbit(g[x]))
    BY <2>6, Zenon
  <2>9. QED
    BY <2>7, <2>8, Zenon
<1>4. f = [x \in D |-> IF x \in E THEN out[x] ELSE f[g[x]]]
  <2> HIDE DEF Orbit
  <2>1. f = [x \in D |-> f[x]]
    OBVIOUS
  <2> HIDE DEF f
  <2>2. ASSUME NEW x \in D PROVE f[x] = IF x \in E THEN out[x] ELSE f[g[x]]
    BY <1>2, <1>3
  <2>3. QED
    BY <2>1, <2>2
<1> HIDE DEF f
<1>5. QED
  BY <1>4 DEF Follow

\* The walks find_protected may be in the middle of, and its next step.
Walks == [work: Seq(Candidates), seen: SUBSET Available]
WalkStep(x) ==
  IF Head(x.work).name \in x.seen
    THEN [work |-> Tail(x.work), seen |-> x.seen]
    ELSE [work |-> Needs(Head(x.work)) \o Tail(x.work),
          seen |-> x.seen \cup {Head(x.work).name}]

\* A step either leaves a name that was seen, or sees one more.
LEMMA StepFacts ==
  ASSUME NEW x \in Walks, x.work # <<>>
  PROVE  /\ Head(x.work) \in Candidates /\ Tail(x.work) \in Seq(Candidates)
         /\ WalkStep(x) \in Walks
         /\ Head(x.work).name \in x.seen =>
              /\ WalkStep(x).work = Tail(x.work) /\ WalkStep(x).seen = x.seen
              /\ Len(WalkStep(x).work) < Len(x.work)
         /\ Head(x.work).name \notin x.seen =>
              /\ WalkStep(x).work = Needs(Head(x.work)) \o Tail(x.work)
              /\ WalkStep(x).seen = x.seen \cup {Head(x.work).name}
<1> DEFINE c == Head(x.work)
<1>1. x.work \in Seq(Candidates) /\ x.seen \subseteq Available
  BY DEF Walks
<1>2. /\ c \in Candidates /\ Tail(x.work) \in Seq(Candidates)
      /\ Len(Tail(x.work)) = Len(x.work) - 1 /\ Len(x.work) \in Nat
  BY <1>1, HeadTailProperties
<1> HIDE DEF c
<1>3. CASE c.name \in x.seen
  <2>1. WalkStep(x) = [work |-> Tail(x.work), seen |-> x.seen]
    BY <1>3 DEF WalkStep, c
  <2>2. QED
    BY <1>1, <1>2, <1>3, <2>1 DEF Walks, c
<1>4. CASE c.name \notin x.seen
  <2>1. WalkStep(x) = [work |-> Needs(c) \o Tail(x.work), seen |-> x.seen \cup {c.name}]
    BY <1>4 DEF WalkStep, c
  <2>2. Needs(c) \o Tail(x.work) \in Seq(Candidates)
    BY <1>2, NeedsFacts, ConcatProperties
  <2>3. x.seen \cup {c.name} \subseteq Available
    BY <1>1, <1>2, NameFacts
  <2>4. QED
    BY <1>2, <1>4, <2>1, <2>2, <2>3 DEF Walks, c
<1>5. QED
  BY <1>3, <1>4

\* Visited is what its definition says.
LEMMA VisitedStep ==
  ASSUME NEW x \in Walks
  PROVE  Visited[x] = IF x.work = <<>> THEN x.seen ELSE Visited[WalkStep(x)]
<1> DEFINE E == {y \in Walks : y.work = <<>>}
           g == [y \in Walks |-> IF y \in E THEN y ELSE WalkStep(y)]
           out == [y \in Walks |-> y.seen]
<1>1. g \in [Walks -> Walks]
  <2>1. ASSUME NEW y \in Walks PROVE (IF y \in E THEN y ELSE WalkStep(y)) \in Walks
    BY StepFacts
  <2>2. QED
    BY <2>1
<1> HIDE DEF g, out, E
<1>2. PICK f : Follow(Walks, E, g, out, f)
  BY <1>1, TailRecursion
<1>3. f = [y \in Walks |-> IF y.work = <<>> THEN y.seen ELSE f[WalkStep(y)]]
  BY <1>2 DEF Follow, g, out, E
<1>4. f = [y \in [work: Seq(Candidates), seen: SUBSET Available] |->
            IF y.work = <<>> THEN y.seen
            ELSE IF Head(y.work).name \in y.seen
              THEN f[[work |-> Tail(y.work), seen |-> y.seen]]
              ELSE f[[work |-> Needs(Head(y.work)) \o Tail(y.work),
                      seen |-> y.seen \cup {Head(y.work).name}]]]
  BY <1>3 DEF Walks, WalkStep
<1>5. Visited = [y \in [work: Seq(Candidates), seen: SUBSET Available] |->
                  IF y.work = <<>> THEN y.seen
                  ELSE IF Head(y.work).name \in y.seen
                    THEN Visited[[work |-> Tail(y.work), seen |-> y.seen]]
                    ELSE Visited[[work |-> Needs(Head(y.work)) \o Tail(y.work),
                                  seen |-> y.seen \cup {Head(y.work).name}]]]
  BY <1>4 DEF Visited
<1>6. QED
  BY <1>5 DEF Walks, WalkStep

\* What holds at the end of every walk, and before a step when it holds after
\* it, holds of every walk: each step sees a name more, of which there are
\* finitely many, or has less work left.
LEMMA WalkInduction ==
  ASSUME NEW G,
         \A x \in Walks : x.work = <<>> => x \in G,
         \A x \in Walks : x.work # <<>> /\ WalkStep(x) \in G => x \in G
  PROVE  Walks \subseteq G
<1> DEFINE Bad == Walks \ G
           Unseen(x) == Cardinality(Available \ x.seen)
           Counts == {Unseen(x) : x \in Bad}
<1> SUFFICES ASSUME Bad # {} PROVE FALSE
  OBVIOUS
<1>1. ASSUME NEW x \in Walks
      PROVE  IsFiniteSet(Available \ x.seen) /\ Unseen(x) \in Nat /\ Len(x.work) \in Nat
  <2>1. IsFiniteSet(Available \ x.seen)
    BY GetAssumption, FS_Subset
  <2>2. QED
    BY <2>1, FS_CardinalityType DEF Walks
<1> HIDE DEF Unseen
<1>2. PICK n \in Counts : \A m \in Counts : n <= m
  <2>1. Counts \subseteq Nat /\ Counts # {}
    BY <1>1
  <2> HIDE DEF Counts
  <2>2. QED
    BY <2>1, LeastNat
<1> DEFINE Few == {x \in Bad : Unseen(x) = n}
           Lengths == {Len(x.work) : x \in Few}
<1>3. PICK l \in Lengths : \A m \in Lengths : l <= m
  <2>1. Lengths \subseteq Nat /\ Lengths # {}
    BY <1>1
  <2> HIDE DEF Lengths
  <2>2. QED
    BY <2>1, LeastNat
<1>4. PICK x \in Few : Len(x.work) = l
  OBVIOUS
<1>5. x \in Walks /\ x \notin G /\ x.work # <<>> /\ Unseen(x) = n
  OBVIOUS
<1> DEFINE y == WalkStep(x)
<1>6. y \in Walks /\ y \in Bad
  BY <1>5, StepFacts
<1>7. Unseen(y) \in Nat /\ n <= Unseen(y) /\ n \in Nat
  BY <1>1, <1>2, <1>5, <1>6
<1>8. CASE Head(x.work).name \in x.seen
  <2>1. y.seen = x.seen /\ Len(y.work) < Len(x.work)
    BY <1>5, <1>8, StepFacts
  <2>2. y \in Few
    BY <1>5, <1>6, <2>1 DEF Unseen
  <2>3. Len(x.work) <= Len(y.work)
    BY <1>3, <1>4, <2>2
  <2>4. QED
    BY <1>1, <1>5, <1>6, <2>1, <2>3
<1>9. CASE Head(x.work).name \notin x.seen
  <2>1. y.seen = x.seen \cup {Head(x.work).name} /\ Head(x.work) \in Candidates
    BY <1>5, <1>9, StepFacts
  <2>2. Head(x.work).name \in Available \ x.seen
    BY <1>9, <2>1, NameFacts
  <2>3. Available \ y.seen = (Available \ x.seen) \ {Head(x.work).name}
    BY <2>1
  <2>4. Unseen(y) = Unseen(x) - 1
    <3>1. IsFiniteSet(Available \ x.seen)
      BY <1>1, <1>5
    <3> DEFINE U == Available \ x.seen
               h == Head(x.work).name
    <3> HIDE DEF U, h
    <3>2. IsFiniteSet(U) /\ h \in U
      BY <2>2, <3>1 DEF U, h
    <3>3. Cardinality(U \ {h}) = Cardinality(U) - 1
      BY <3>2, FS_RemoveElement
    <3>4. QED
      BY <2>3, <3>3 DEF Unseen, U, h
  <2>5. QED
    BY <1>5, <1>7, <2>4
<1>10. QED
  BY <1>8, <1>9

\* What was seen stays seen.
LEMMA SeenKept == \A x \in Walks : x.seen \subseteq Visited[x]
<1> DEFINE G == {x \in Walks : x.seen \subseteq Visited[x]}
<1>1. ASSUME NEW x \in Walks, x.work = <<>> PROVE x \in G
  BY <1>1, VisitedStep
<1>2. ASSUME NEW x \in Walks, x.work # <<>>, WalkStep(x) \in G PROVE x \in G
  <2>1. Visited[x] = Visited[WalkStep(x)]
    BY <1>2, VisitedStep
  <2>2. x.seen \subseteq WalkStep(x).seen
    BY <1>2, StepFacts
  <2>3. QED
    BY <1>2, <2>1, <2>2
<1> HIDE DEF G
<1>3. Walks \subseteq G
  BY <1>1, <1>2, WalkInduction
<1>4. QED
  BY <1>3 DEF G

\* A walk that starts with one candidate.
Alone(c) == [work |-> <<c>>, seen |-> {}]

\* The package itself is looked up in the list.
LEMMA OwnName ==
  ASSUME NEW c \in Candidates
  PROVE  {c.name} \cap Protected \subseteq find_protected(c)
<1> DEFINE x == Alone(c)
<1>1. /\ x \in Walks /\ x.work = <<c>> /\ x.work # <<>> /\ x.seen = {}
      /\ Head(x.work) = c
  BY DEF Alone, Walks
<1> HIDE DEF x
<1>2. WalkStep(x) \in Walks /\ c.name \in WalkStep(x).seen
  BY <1>1, StepFacts
<1>3. Visited[x] = Visited[WalkStep(x)]
  BY <1>1, VisitedStep
<1>4. c.name \in Visited[x]
  BY <1>2, <1>3, SeenKept
<1>5. QED
  BY <1>4 DEF find_protected, x, Alone

\* The names of the candidates that are still to be visited.
Waiting(x) == {x.work[k].name : k \in 1..Len(x.work)}

\* What a walk from n keeps to: the path of what waits has been seen, and so has
\* what a package that was seen depends on, unless it waits.
Covers(n, x) ==
  /\ \A k \in 1..Len(x.work) : x.work[k].seen \subseteq x.seen
  /\ n \in x.seen \cup Waiting(x)
  /\ \A m \in x.seen \cap Index : n = m \/ Debian(m) =>
       (ToSet(Deps[m]) \cap Available) \ known \subseteq x.seen \cup Waiting(x)

\* What a package depends on is cut where it is on the path, and waits where it
\* is not.
LEMMA DepsWait ==
  ASSUME NEW c \in Candidates, ~c.repo,
         NEW d \in (ToSet(Deps[c.name]) \cap Available) \ known
  PROVE  d \in c.seen \cup {c.name} \/ \E k \in 1..Len(Needs(c)) : Needs(c)[k].name = d
<1>1. Deps[c.name] \in Seq(STRING)
  BY NameFacts
<1>2. PICK j \in 1..Len(Deps[c.name]) : d = Deps[c.name][j]
  BY <1>1 DEF ToSet
<1>3. CASE d \in c.seen \cup {c.name}
  BY <1>3
<1>4. CASE d \notin c.seen \cup {c.name}
  <2>1. PICK i \in 1..Len(Kept(c)) : Kept(c)[i] = d
    BY <1>2, <1>4, KeptFacts
  <2>2. QED
    <3>1. Kept(c)[i] \in known \/ \E k \in 1..Len(Needs(c)) : Needs(c)[k].name = Kept(c)[i]
      BY NeedsFacts
    <3>2. QED
      BY <2>1, <3>1
<1>5. QED
  BY <1>3, <1>4

\* A name that was seen is not visited again: it leaves what waits.
LEMMA CoversSkip ==
  ASSUME NEW n, NEW x \in Walks, x.work # <<>>, Covers(n, x),
         Head(x.work).name \in x.seen
  PROVE  Covers(n, WalkStep(x))
<1> DEFINE y == WalkStep(x)
<1>1. /\ x.work \in Seq(Candidates) /\ y.work = Tail(x.work) /\ y.seen = x.seen
  BY StepFacts DEF Walks
<1> HIDE DEF y
<1>2. /\ Len(y.work) = Len(x.work) - 1 /\ Len(x.work) \in Nat \ {0}
      /\ \A k \in 1..Len(y.work) : y.work[k] = x.work[k + 1]
      /\ Head(x.work) = x.work[1]
  BY <1>1, HeadTailProperties, EmptySeq
<1>3. ASSUME NEW k \in 1..Len(y.work)
      PROVE  k + 1 \in 1..Len(x.work) /\ y.work[k] = x.work[k + 1]
  BY <1>2
<1>4. ASSUME NEW k \in 1..Len(x.work)
      PROVE  x.work[k].name \in y.seen \cup Waiting(y)
  <2>1. CASE k = 1
    BY <1>1, <1>2, <2>1
  <2>2. CASE k # 1
    <3>1. k - 1 \in 1..Len(y.work) /\ y.work[k - 1] = x.work[k]
      BY <1>2, <2>2
    <3>2. QED
      BY <3>1 DEF Waiting
  <2>3. QED
    BY <2>1, <2>2
<1>5. x.seen \cup Waiting(x) \subseteq y.seen \cup Waiting(y)
  BY <1>1, <1>4 DEF Waiting
<1>6. \A k \in 1..Len(y.work) : y.work[k].seen \subseteq y.seen
  BY <1>1, <1>3 DEF Covers
<1>7. QED
  BY <1>1, <1>5, <1>6 DEF Covers, y

\* A name that is visited puts what its package needs before what waits.
LEMMA CoversVisit ==
  ASSUME NEW n, n \notin Repo, NEW x \in Walks, x.work # <<>>, Covers(n, x),
         Head(x.work).name \notin x.seen
  PROVE  Covers(n, WalkStep(x))
<1> DEFINE y == WalkStep(x)
           c == Head(x.work)
           needs == Needs(c)
           rest == Tail(x.work)
<1>1. /\ x.work \in Seq(Candidates) /\ c \in Candidates /\ rest \in Seq(Candidates)
      /\ y.work = needs \o rest /\ y.seen = x.seen \cup {c.name}
  BY StepFacts DEF Walks
<1>2. /\ Len(rest) = Len(x.work) - 1 /\ Len(x.work) \in Nat \ {0}
      /\ \A k \in 1..Len(rest) : rest[k] = x.work[k + 1]
      /\ c = x.work[1]
  BY <1>1, HeadTailProperties, EmptySeq
<1>3. /\ needs \in Seq(Candidates)
      /\ \A k \in 1..Len(needs) : needs[k].seen = c.seen \cup {c.name}
  BY <1>1, NeedsFacts
<1> HIDE DEF needs, rest, y, c
<1>4. /\ Len(y.work) = Len(needs) + Len(rest) /\ Len(needs) \in Nat /\ Len(rest) \in Nat
      /\ \A k \in 1..(Len(needs) + Len(rest)) :
           y.work[k] = IF k <= Len(needs) THEN needs[k] ELSE rest[k - Len(needs)]
  BY <1>1, <1>3, ConcatProperties
<1>5. ASSUME NEW k \in 1..Len(needs) PROVE needs[k].name \in Waiting(y)
  <2>1. k \in 1..Len(y.work) /\ y.work[k] = needs[k]
    BY <1>4
  <2>2. QED
    BY <2>1 DEF Waiting
<1>6. ASSUME NEW k \in 1..Len(x.work)
      PROVE  x.work[k].name \in y.seen \cup Waiting(y)
  <2>1. CASE k = 1
    BY <1>1, <1>2, <2>1
  <2>2. CASE k # 1
    <3> DEFINE l == Len(needs) + k - 1
    <3>1. l \in 1..Len(y.work) /\ l > Len(needs) /\ l - Len(needs) = k - 1
      BY <1>2, <1>4, <2>2
    <3>2. y.work[l] = rest[k - 1] /\ rest[k - 1] = x.work[k]
      BY <1>2, <1>4, <2>2, <3>1
    <3>3. QED
      BY <3>1, <3>2 DEF Waiting
  <2>3. QED
    BY <2>1, <2>2
<1>7. x.seen \cup Waiting(x) \subseteq y.seen \cup Waiting(y)
  BY <1>1, <1>6 DEF Waiting
<1>8. ASSUME NEW k \in 1..Len(x.work) PROVE x.work[k].seen \subseteq x.seen
  BY DEF Covers
<1>9. ASSUME NEW k \in 1..Len(y.work) PROVE y.work[k].seen \subseteq y.seen
  <2>1. CASE k <= Len(needs)
    <3>1. k \in 1..Len(needs) /\ y.work[k] = needs[k]
      BY <1>4, <2>1
    <3>2. needs[k].seen = c.seen \cup {c.name}
      BY <1>3, <3>1
    <3>3. c.seen \subseteq x.seen
      BY <1>2, <1>8
    <3>4. QED
      BY <1>1, <3>1, <3>2, <3>3
  <2>2. CASE ~(k <= Len(needs))
    <3>1. /\ y.work[k] = rest[k - Len(needs)] /\ k - Len(needs) \in 1..Len(rest)
          /\ k - Len(needs) + 1 \in 1..Len(x.work)
      BY <1>2, <1>4, <2>2
    <3>2. y.work[k] = x.work[k - Len(needs) + 1]
      BY <1>2, <3>1
    <3>3. QED
      BY <1>1, <1>8, <3>1, <3>2
  <2>3. QED
    BY <2>1, <2>2
<1>10. ASSUME NEW m \in y.seen \cap Index, n = m \/ Debian(m)
       PROVE  (ToSet(Deps[m]) \cap Available) \ known \subseteq y.seen \cup Waiting(y)
  <2>1. CASE m \in x.seen
    BY <1>7, <1>10, <2>1 DEF Covers
  <2>2. CASE m \notin x.seen
    <3>1. m = c.name /\ ~c.repo
      BY <1>1, <1>10, <2>2, NameFacts DEF Debian
    <3>2. c.seen \subseteq x.seen
      BY <1>2, <1>8
    <3>3. ASSUME NEW d \in (ToSet(Deps[m]) \cap Available) \ known
          PROVE  d \in y.seen \cup Waiting(y)
      <4>1. d \in c.seen \cup {c.name} \/ \E k \in 1..Len(needs) : needs[k].name = d
        BY <1>1, <3>1, DepsWait DEF needs
      <4>2. QED
        BY <1>1, <1>5, <3>2, <4>1
    <3>4. QED
      BY <3>3
  <2>3. QED
    BY <2>1, <2>2
<1>11. n \in y.seen \cup Waiting(y)
  BY <1>7 DEF Covers
<1>12. QED
  BY <1>9, <1>10, <1>11 DEF Covers, y

\* The walk from a Debian package ends with all that the package brings along.
LEMMA VisitedClosed ==
  ASSUME NEW n, n \notin Repo
  PROVE  \A x \in Walks : Covers(n, x) =>
           /\ Visited[x] \subseteq Available /\ n \in Visited[x]
           /\ Closed(n, Visited[x])
<1> DEFINE Ok(x) == /\ Visited[x] \subseteq Available /\ n \in Visited[x]
                    /\ Closed(n, Visited[x])
           G == {x \in Walks : Covers(n, x) => Ok(x)}
<1>1. ASSUME NEW x \in Walks, x.work = <<>> PROVE x \in G
  <2>1. Visited[x] = x.seen /\ x.seen \subseteq Available
    BY <1>1, VisitedStep DEF Walks
  <2>2. Waiting(x) = {}
    BY <1>1 DEF Waiting
  <2>3. Covers(n, x) => Ok(x)
    BY <2>1, <2>2 DEF Covers, Closed
  <2>4. QED
    BY <2>3
<1>2. ASSUME NEW x \in Walks, x.work # <<>>, WalkStep(x) \in G PROVE x \in G
  <2>1. Visited[x] = Visited[WalkStep(x)]
    BY <1>2, VisitedStep
  <2>2. Covers(n, x) => Covers(n, WalkStep(x))
    BY <1>2, CoversSkip, CoversVisit
  <2>3. Covers(n, x) => Ok(x)
    BY <1>2, <2>1, <2>2
  <2>4. QED
    BY <2>3
<1> HIDE DEF G
<1>3. Walks \subseteq G
  BY <1>1, <1>2, WalkInduction
<1>4. QED
  BY <1>3 DEF G

\* When find_protected has nothing to say of a Debian package looked up by main,
\* no protected package can be reached from it, however the tree was cut.
LEMMA NothingProtected ==
  ASSUME NEW n \in Index \ Repo, find_protected(Cand(n, {}, FALSE)) = {}
  PROVE  Reachable(n) \cap Protected = {}
<1> DEFINE c == Cand(n, {}, FALSE)
           x == Alone(c)
<1>1. c \in Candidates /\ c.name = n /\ c.seen = {}
  BY DEF Cand, Candidates
<1> HIDE DEF c
<1>2. x \in Walks /\ x.work = <<c>> /\ x.seen = {}
  BY <1>1 DEF Alone, Walks
<1> HIDE DEF x
<1>3. Len(x.work) = 1 /\ x.work[1] = c
  BY <1>2
<1>4. n \in Waiting(x)
  BY <1>1, <1>3 DEF Waiting
<1>5. \A k \in 1..Len(x.work) : x.work[k].seen \subseteq x.seen
  BY <1>1, <1>2, <1>3
<1>6. Covers(n, x)
  BY <1>2, <1>4, <1>5 DEF Covers
<1>7. Visited[x] \subseteq Available /\ n \in Visited[x] /\ Closed(n, Visited[x])
  BY <1>2, <1>6, VisitedClosed
<1>8. Reachable(n) \subseteq Visited[x]
  BY <1>7 DEF Reachable
<1>9. Visited[x] \cap Protected = {}
  BY DEF find_protected, x, Alone, c
<1>10. QED
  BY <1>8, <1>9

-----------------------------------------------------------------------------
(* The invariant                                                           *)

\* An activation below the innermost one is at one of its needs, which the
\* activation above it is of, and nothing it needs has failed.
Waits(i) ==
  /\ stack[i].at = "needs" /\ (stack[i].rc = 0 \/ run.dry)
  /\ stack[i].next <= Len(Needs(stack[i].cand))
  /\ stack[i + 1].cand = Needs(stack[i].cand)[stack[i].next]

\* The activations of a run, and what it holds.
StackInv ==
  /\ ~run.on => stack = <<>> /\ todo = <<>>
  /\ stack # <<>> => /\ todo # <<>>
                     /\ stack[1].cand.name = Head(todo) /\ stack[1].cand.seen = {}
  /\ \A i \in 1..Len(stack) :
       /\ stack[i].at = "check" => stack[i].next = 1 /\ stack[i].rc = 0
       /\ ~stack[i].cand.repo => index # NONE
  /\ \A i \in 1..(Len(stack) - 1) : Waits(i)

\* The index a run holds is the verified one, and known is what was installed
\* when it was read.
HeldInv ==
  /\ index # NONE => index = packages /\ index = inrelease
  /\ known \subseteq installed

\* What has come of the names and of the dependencies already tried.
OutcomeInv ==
  run.on /\ ~run.dry =>
    /\ done \subseteq installed \cup ghost.failed
    /\ rc = 0 => ToSet(run.names) \subseteq installed \cup ToSet(todo)
    /\ stack = <<>> => ghost.failed = {} \/ rc # 0
    /\ stack # <<>> => /\ ghost.lost = {} \/ rc # 0
                       /\ ghost.failed = ghost.lost \/ stack[Len(stack)].rc # 0
    /\ \A i \in 1..Len(stack) : stack[i].rc = 0 =>
         \A k \in 1..Len(Needs(stack[i].cand)) : k < stack[i].next =>
           Needs(stack[i].cand)[k].name \in installed \cup ghost.lost

\* What find_protected was asked before anything of a package was begun.
ProtectedInv ==
  /\ run.on /\ ~run.dry => \A i \in 1..Len(stack) : stack[i].at = "needs" =>
       {stack[i].cand.name} \cap Protected \subseteq ghost.confirmed
  /\ stack # <<>> => IF stack[1].at = "check" THEN installed = ghost.before
                     ELSE run.allow \/ Brings(stack[1].cand) \cap Protected = {}

IInv == TypeOK /\ StackInv /\ HeldInv /\ OutcomeInv /\ ProtectedInv

-----------------------------------------------------------------------------
(* The types                                                               *)

\* The innermost activation.
LEMMA TopFacts ==
  ASSUME TypeOK, stack # <<>>
  PROVE  /\ Len(stack) \in Nat /\ Len(stack) >= 1 /\ Depth = Len(stack)
         /\ Frame = stack[Len(stack)]
         /\ \A i \in 1..Len(stack) :
              /\ stack[i] \in Frames /\ stack[i].cand \in Candidates
              /\ stack[i].at \in {"check", "needs"}
              /\ stack[i].next \in Nat \ {0} /\ stack[i].rc \in {0, 1}
<1>1. stack \in Seq(Frames)
  BY DEF TypeOK
<1>2. Len(stack) \in Nat /\ Len(stack) >= 1 /\ Len(stack) \in 1..Len(stack)
  BY <1>1, EmptySeq
<1>3. \A i \in 1..Len(stack) : stack[i] \in Frames
  BY <1>1, ElementOfSeq
<1>4. \A f \in Frames : /\ f.cand \in Candidates /\ f.at \in {"check", "needs"}
                        /\ f.next \in Nat \ {0} /\ f.rc \in {0, 1}
  BY DEF Frames
<1>5. QED
  BY <1>2, <1>3, <1>4 DEF Depth, Frame

\* The innermost one, as it is used.
LEMMA FrameFacts ==
  ASSUME TypeOK, stack # <<>>
  PROVE  /\ Frame \in Frames /\ Frame.cand \in Candidates /\ Frame.rc \in {0, 1}
         /\ Frame.at \in {"check", "needs"} /\ Frame.next \in Nat \ {0}
         /\ Frame.cand.name \in Names
         /\ Frame.cand.repo \in BOOLEAN
         /\ Frame.cand.repo <=> Frame.cand.name \in Repo
         /\ ~Frame.cand.repo => Frame.cand.name \in Index \ Repo
<1>1. Len(stack) \in 1..Len(stack)
  BY TopFacts
<1>2. /\ Frame \in Frames /\ Frame.cand \in Candidates /\ Frame.rc \in {0, 1}
      /\ Frame.at \in {"check", "needs"} /\ Frame.next \in Nat \ {0}
  BY <1>1, TopFacts
<1>3. QED
  BY <1>2, NameFacts

\* The innermost activation returns: to main, or to the activation below it.
Popped(r) ==
  /\ stack' \in Seq(Frames)
  /\ \/ /\ Len(stack) = 1 /\ stack' = <<>>
        /\ todo' = Tail(todo) /\ rc' = IF r # 0 THEN r ELSE rc
     \/ /\ Len(stack) > 1 /\ todo' = todo /\ rc' = rc
        /\ Len(stack') = Len(stack) - 1
        /\ \A i \in 1..(Len(stack) - 2) : stack'[i] = stack[i]
        /\ \E f \in Frames :
             /\ stack'[Len(stack) - 1] = f
             /\ f.cand = stack[Len(stack) - 1].cand
             /\ f.at = stack[Len(stack) - 1].at
             /\ f.next = stack[Len(stack) - 1].next + 1
             /\ f.rc = IF r # 0 THEN r ELSE stack[Len(stack) - 1].rc

\* Returns does that.
LEMMA ReturnPops ==
  ASSUME TypeOK, stack # <<>>, NEW r \in {0, 1}, Returns(r)
  PROVE  Popped(r)
<1>1. /\ Len(stack) \in Nat /\ Len(stack) >= 1 /\ Depth = Len(stack)
      /\ \A i \in 1..Len(stack) : stack[i] \in Frames
  BY TopFacts
<1>2. CASE Len(stack) = 1
  BY <1>1, <1>2 DEF Returns, Popped
<1>3. CASE Len(stack) # 1
  <2> DEFINE n == Len(stack)
             low == SubSeq(stack, 1, n - 2)
             f == [Caller EXCEPT !.rc = IF r # 0 THEN r ELSE @]
  <2>1. n \in Nat /\ n > 1 /\ n - 1 \in 1..n
    BY <1>1, <1>3
  <2>2. stack' = Append(low, f) /\ todo' = todo /\ rc' = rc
    BY <1>1, <1>3 DEF Returns
  <2>3. stack[n - 1] \in Frames
    BY <1>1, <2>1
  <2>4. /\ Caller = [stack[n - 1] EXCEPT !.next = @ + 1]
    BY <1>1 DEF Caller
  <2>5. /\ f \in Frames /\ f.cand = stack[n - 1].cand /\ f.at = stack[n - 1].at
        /\ f.next = stack[n - 1].next + 1
        /\ f.rc = IF r # 0 THEN r ELSE stack[n - 1].rc
    <3>1. /\ Caller \in Frames /\ Caller.cand = stack[n - 1].cand
          /\ Caller.at = stack[n - 1].at /\ Caller.rc = stack[n - 1].rc
          /\ Caller.next = stack[n - 1].next + 1
      BY <2>3, <2>4 DEF Frames
    <3>2. /\ f \in Frames /\ f.cand = Caller.cand /\ f.at = Caller.at
          /\ f.next = Caller.next /\ f.rc = IF r # 0 THEN r ELSE Caller.rc
      BY <3>1 DEF Frames
    <3>3. QED
      BY <3>1, <3>2
  <2> HIDE DEF f
  <2>6. /\ low \in Seq(Frames) /\ Len(low) = n - 2
        /\ \A i \in 1..(n - 2) : low[i] = stack[i]
    <3>1. \A i \in 1..(n - 2) : stack[i] \in Frames
      BY <1>1, <2>1
    <3>2. /\ low \in Seq(Frames)
          /\ Len(low) = IF 1 <= n - 2 THEN n - 2 - 1 + 1 ELSE 0
          /\ \A i \in 1..(n - 2 - 1 + 1) : low[i] = stack[1 + i - 1]
      BY <2>1, <3>1, SubSeqProperties
    <3> HIDE DEF low, n
    <3>3. ASSUME NEW i \in 1..(n - 2) PROVE low[i] = stack[i]
      <4>1. i \in 1..(n - 2 - 1 + 1) /\ 1 + i - 1 = i
        BY <2>1
      <4>2. QED
        BY <3>2, <4>1
    <3>4. Len(low) = n - 2
      BY <2>1, <3>2
    <3>5. QED
      BY <3>2, <3>3, <3>4
  <2> HIDE DEF low
  <2>7. /\ Append(low, f) \in Seq(Frames) /\ Len(Append(low, f)) = n - 1
        /\ \A i \in 1..(n - 2) : Append(low, f)[i] = low[i]
        /\ Append(low, f)[n - 1] = f
    BY <2>1, <2>5, <2>6
  <2>8. QED
    BY <2>1, <2>2, <2>5, <2>6, <2>7 DEF Popped
<1>4. QED
  BY <1>2, <1>3

\* What a return leaves has its types.
LEMMA PopTypes ==
  ASSUME TypeOK, NEW r \in {0, 1}, Popped(r), todo # <<>>
  PROVE  stack' \in Seq(Frames) /\ todo' \in Seq(STRING) /\ rc' \in {0, 1}
<1>1. todo \in Seq(STRING) /\ rc \in {0, 1}
  BY DEF TypeOK
<1>2. Tail(todo) \in Seq(STRING)
  BY <1>1, HeadTailProperties
<1>3. QED
  BY <1>1, <1>2 DEF Popped

\* The types of a run's history.
Ghosts == [confirmed: SUBSET Names, failed: SUBSET Names, pulled: SUBSET Names,
           before: SUBSET Names, lost: SUBSET Names]

\* A file that is fetched is of a version or bad.
LEMMA CacheTypes ==
  ASSUME TypeOK
  PROVE  /\ \A f \in {inrelease, packages} : InCache(f) \subseteq Version \cup {BAD}
         /\ \A n \in Index : Fetched(n) \subseteq Version \cup {BAD}
         /\ NONE \notin Version /\ BAD \notin Version /\ BAD # NONE
BY GetAssumption DEF TypeOK, InCache, Fetched, Version, NONE, BAD

\* A walk sees only what can be had.
LEMMA VisitedTypes ==
  ASSUME NEW c \in Candidates
  PROVE  Visited[Alone(c)] \subseteq Available
<1> DEFINE G == {x \in Walks : Visited[x] \subseteq Available}
<1>1. ASSUME NEW x \in Walks, x.work = <<>> PROVE x \in G
  BY <1>1, VisitedStep DEF Walks
<1>2. ASSUME NEW x \in Walks, x.work # <<>>, WalkStep(x) \in G PROVE x \in G
  <2>1. Visited[x] = Visited[WalkStep(x)]
    BY <1>2, VisitedStep
  <2>2. QED
    BY <1>2, <2>1
<1>3. Alone(c) \in Walks
  BY DEF Alone, Walks
<1> HIDE DEF G
<1>4. Walks \subseteq G
  BY <1>1, <1>2, WalkInduction
<1>5. QED
  BY <1>3, <1>4 DEF G

\* The types at first.
LEMMA TypeInit == Init => TypeOK
<1> SUFFICES ASSUME Init PROVE TypeOK
  OBVIOUS
<1>1. 1 \in Version /\ MaxRuns \in 0..MaxRuns
  BY GetAssumption DEF Version
<1>2. debs \in [Index -> Version \cup {NONE, BAD}]
  BY DEF Init
<1>3. stack \in Seq(Frames) /\ todo \in Seq(STRING)
  BY DEF Init
<1>4. Initially \subseteq Names
  BY DEF Names
<1>5. run \in [on: BOOLEAN, names: Seq(STRING), allow: BOOLEAN, dry: BOOLEAN]
  BY DEF Init, NoRun
<1>6. ghost \in Ghosts
  BY <1>4 DEF Init, Ghost, Ghosts
<1>7. QED
  BY <1>1, <1>2, <1>3, <1>4, <1>5, <1>6 DEF Init, TypeOK, Ghosts, NONE

\* A run starts.
LEMMA StartTypes ==
  ASSUME TypeOK, NEW names \in Targets, NEW allow \in BOOLEAN, NEW dry \in BOOLEAN,
         Start(names, allow, dry)
  PROVE  TypeOK'
<1>1. runs' \in 0..MaxRuns
  BY GetAssumption DEF TypeOK, Start
<1>2. names \in Seq(STRING)
  BY GetAssumption
<1>3. run' \in [on: BOOLEAN, names: Seq(STRING), allow: BOOLEAN, dry: BOOLEAN]
  BY <1>2 DEF Start
<1>4. ghost' \in Ghosts
  BY DEF TypeOK, Start, Ghost, Ghosts
<1>5. stack' \in Seq(Frames) /\ todo' \in Seq(STRING)
  BY <1>2 DEF Start
<1>6. QED
  BY <1>1, <1>3, <1>4, <1>5 DEF TypeOK, Start, Ghosts, cache

\* Main calls install_candidate.
LEMMA BeginTypes ==
  ASSUME TypeOK, NEW c \in Candidates, Begins(c)
  PROVE  stack' \in Seq(Frames) /\ ghost' \in Ghosts
<1>1. Activation(c) \in Frames
  BY DEF Activation, Frames
<1>2. ghost' \in Ghosts
  BY DEF Begins, TypeOK, Ghosts
<1>3. QED
  BY <1>1, <1>2 DEF Begins

\* Main looks a name up.
LEMMA LookupTypes ==
  ASSUME TypeOK, LookupRepo \/ LookupDebian
  PROVE  TypeOK'
<1>1. Head(todo) \in STRING /\ Tail(todo) \in Seq(STRING)
  BY HeadTailProperties DEF TypeOK, Looking, LookupRepo, LookupDebian
<1>2. CASE LookupRepo
  <2>1. Cand(Head(todo), {}, TRUE) \in Candidates
    BY <1>2 DEF LookupRepo, Cand, Candidates
  <2>2. stack' \in Seq(Frames) /\ ghost' \in Ghosts
    BY <1>2, <2>1, BeginTypes DEF LookupRepo
  <2>3. QED
    BY <1>2, <2>2 DEF LookupRepo, TypeOK, Ghosts, cache
<1>3. CASE LookupDebian /\ Head(todo) \in Index
  <2>1. Cand(Head(todo), {}, FALSE) \in Candidates
    BY <1>3 DEF LookupDebian, Cand, Candidates
  <2>2. stack' \in Seq(Frames) /\ ghost' \in Ghosts
    BY <1>3, <2>1, BeginTypes DEF LookupDebian
  <2>3. QED
    BY <1>3, <2>2 DEF LookupDebian, TypeOK, Ghosts, cache
<1>4. CASE LookupDebian /\ Head(todo) \notin Index
  BY <1>1, <1>4 DEF LookupDebian, NotFound, TypeOK, cache
<1>5. QED
  BY <1>2, <1>3, <1>4

\* The index is fetched.
LEMMA IndexTypes ==
  ASSUME TypeOK, GetIndex \/ GetIndexKilled
  PROVE  TypeOK'
<1>1. Tail(todo) \in Seq(STRING)
  BY HeadTailProperties DEF TypeOK, Looking, GetIndex, GetIndexKilled
<1>2. /\ InCache(inrelease) \subseteq Version \cup {BAD}
      /\ InCache(packages) \subseteq Version \cup {BAD}
  BY CacheTypes
<1>3. CASE GetIndex
  <2>1. PICK ir \in InCache(inrelease), pk \in InCache(packages) :
          /\ inrelease' = ir
          /\ \/ /\ VerifiedIndex(ir, pk)
                /\ packages' = pk /\ index' = pk
                /\ UNCHANGED <<todo, rc>>
             \/ /\ ~VerifiedIndex(ir, pk)
                /\ packages' = IF ir = BAD THEN packages ELSE NONE
                /\ NotFound
                /\ UNCHANGED index
    BY <1>3 DEF GetIndex
  <2>2. /\ server' = server /\ debs' = debs /\ installed' = installed /\ runs' = runs
        /\ run' = run /\ known' = known /\ stack' = stack /\ done' = done
        /\ ghost' = ghost
    BY <1>3 DEF GetIndex
  <2>3. /\ {inrelease', packages'} \subseteq Version \cup {NONE, BAD}
        /\ index' \in Version \cup {NONE}
    BY <1>2, <2>1 DEF TypeOK, VerifiedIndex
  <2>4. todo' \in Seq(STRING) /\ rc' \in {0, 1}
    BY <1>1, <2>1 DEF TypeOK, NotFound
  <2>5. QED
    BY <2>2, <2>3, <2>4 DEF TypeOK
<1>4. CASE GetIndexKilled
  <2>1. {inrelease', packages'} \subseteq Version \cup {NONE, BAD}
    BY <1>2, <1>4 DEF GetIndexKilled, TypeOK
  <2>2. /\ run' \in [on: BOOLEAN, names: Seq(STRING), allow: BOOLEAN, dry: BOOLEAN]
        /\ stack' \in Seq(Frames) /\ todo' \in Seq(STRING) /\ rc' \in {0, 1}
    BY <1>4 DEF GetIndexKilled, Ends, NoRun
  <2>3. QED
    BY <1>4, <2>1, <2>2 DEF GetIndexKilled, TypeOK
<1>5. QED
  BY <1>3, <1>4

\* The run ends, by itself or not.
LEMMA EndTypes ==
  ASSUME TypeOK, Ends, runs' = runs, index' = index, known' = known, done' = done,
         ghost' = ghost, installed' = installed, server' = server,
         inrelease' = inrelease, packages' = packages,
         debs' \in [Index -> Version \cup {NONE, BAD}], rc' \in {0, 1}
  PROVE  TypeOK'
<1>1. /\ run' \in [on: BOOLEAN, names: Seq(STRING), allow: BOOLEAN, dry: BOOLEAN]
      /\ stack' \in Seq(Frames) /\ todo' \in Seq(STRING)
  BY DEF Ends, NoRun
<1>2. QED
  BY <1>1 DEF TypeOK

\* The end of install_candidate.
LEMMA AttemptTypes ==
  ASSUME TypeOK, StackInv, Ready, NEW got \in SUBSET Names, NEW r \in {0, 1},
         Attempted(got, r), debs' \in [Index -> Version \cup {NONE, BAD}]
  PROVE  TypeOK'
<1>1. stack # <<>> /\ todo # <<>>
  BY DEF Ready, InNeeds, StackInv
<1>2. Frame.rc \in {0, 1} /\ Frame.cand.name \in Names
  BY <1>1, FrameFacts
<1>3. (IF r # 0 THEN r ELSE Frame.rc) \in {0, 1}
  BY <1>2
<1>4. stack' \in Seq(Frames) /\ todo' \in Seq(STRING) /\ rc' \in {0, 1}
  BY <1>1, <1>3, ReturnPops, PopTypes DEF Attempted
<1>5. installed' \subseteq Names /\ done' \subseteq Names
  BY <1>2 DEF Attempted, TypeOK
<1>6. ghost' \in Ghosts
  BY <1>2 DEF Attempted, TypeOK, Ghosts
<1>7. QED
  BY <1>4, <1>5, <1>6 DEF Attempted, TypeOK, Ghosts

\* pacman is called, or would be.
LEMMA InstallTypes ==
  ASSUME TypeOK, StackInv, DryInstall \/ InstallRepo \/ InstallConverted
  PROVE  TypeOK'
<1>1. Ready /\ stack # <<>>
  BY DEF DryInstall, InstallRepo, InstallConverted, Converting, Ready, InNeeds
<1>2. /\ Frame.cand.name \in Names
      /\ Frame.cand.repo => Frame.cand.name \in Repo
      /\ ~Frame.cand.repo => Frame.cand.name \in Index
  BY <1>1, FrameFacts
<1>3. CASE DryInstall
  BY <1>1, <1>3, AttemptTypes DEF DryInstall, TypeOK
<1>4. CASE InstallRepo
  <2>1. {Frame.cand.name} \cup RepoDeps[Frame.cand.name] \subseteq Names
    BY <1>2, <1>4, GetAssumption, NameFacts DEF InstallRepo
  <2>2. QED
    BY <1>1, <1>4, <2>1, AttemptTypes DEF InstallRepo, TypeOK
<1>5. CASE InstallConverted
  <2>1. PICK deb \in Fetched(Frame.cand.name) :
          /\ debs' = [debs EXCEPT ![Frame.cand.name] = deb]
          /\ \/ Attempted({Frame.cand.name}, 0)
             \/ Attempted({}, 1)
    BY <1>5 DEF InstallConverted
  <2>2. Frame.cand.name \in Index
    BY <1>2, <1>5 DEF InstallConverted, Converting
  <2>3. deb \in Version \cup {BAD}
    BY <2>2, CacheTypes
  <2>4. debs' \in [Index -> Version \cup {NONE, BAD}]
    BY <2>1, <2>2, <2>3 DEF TypeOK
  <2>5. QED
    BY <1>1, <1>2, <2>1, <2>4, AttemptTypes
<1>6. QED
  BY <1>3, <1>4, <1>5

\* Nothing is attempted.
LEMMA ReturnTypes ==
  ASSUME TypeOK, StackInv, Done \/ Refuse \/ NeedFailed
  PROVE  TypeOK'
<1>1. stack # <<>> /\ todo # <<>>
  BY DEF Done, Refuse, NeedFailed, InCheck, InNeeds, StackInv
<1>2. \E r \in {0, 1} : Returns(r)
  BY <1>1, FrameFacts DEF Done, Refuse, NeedFailed
<1>3. stack' \in Seq(Frames) /\ todo' \in Seq(STRING) /\ rc' \in {0, 1}
  BY <1>1, <1>2, ReturnPops, PopTypes
<1>4. QED
  BY <1>3 DEF Done, Refuse, NeedFailed, TypeOK, cache

\* The package may be installed.
LEMMA CheckTypes ==
  ASSUME TypeOK, Check
  PROVE  TypeOK'
<1>1. stack # <<>>
  BY DEF Check, InCheck
<1>2. Depth \in 1..Len(stack) /\ stack \in Seq(Frames) /\ stack[Depth] \in Frames
  BY <1>1, TopFacts DEF TypeOK
<1>3. [stack[Depth] EXCEPT !.at = "needs"] \in Frames
  BY <1>2 DEF Frames
<1>4. stack' \in Seq(Frames)
  BY <1>2, <1>3, ExceptSeq DEF Check
<1>5. Visited[Alone(Frame.cand)] \subseteq Available
  BY <1>1, FrameFacts, VisitedTypes
<1>6. Confirmed \subseteq Names
  BY <1>5, NameFacts DEF Confirmed, Hits, find_protected, Alone
<1>7. ghost' \in Ghosts
  BY <1>6 DEF Check, TypeOK, Ghosts
<1>8. QED
  BY <1>4, <1>7 DEF Check, TypeOK, Ghosts, cache

\* A dependency is tried.
LEMMA NeedTypes ==
  ASSUME TypeOK, Need
  PROVE  TypeOK'
<1>1. stack # <<>> /\ stack \in Seq(Frames)
  BY DEF Need, InNeeds, TypeOK
<1>2. Frame.cand \in Candidates /\ Frame.next \in Nat \ {0}
  BY <1>1, FrameFacts
<1>3. Needs(Frame.cand) \in Seq(Candidates)
  BY <1>2, NeedsFacts
<1>4. Frame.next \in 1..Len(Needs(Frame.cand))
  BY <1>2, <1>3 DEF Need
<1>5. Needs(Frame.cand)[Frame.next] \in Candidates
  BY <1>3, <1>4, ElementOfSeq
<1>6. Activation(Needs(Frame.cand)[Frame.next]) \in Frames
  BY <1>5 DEF Activation, Frames
<1>7. stack' \in Seq(Frames)
  BY <1>1, <1>6 DEF Need
<1>8. QED
  BY <1>7 DEF Need, TypeOK, cache

\* Every step keeps the types.
LEMMA TypeStep ==
  ASSUME TypeOK, StackInv, [Next]_vars
  PROVE  TypeOK'
<1>1. ASSUME End \/ Killed PROVE TypeOK'
  BY <1>1, EndTypes DEF End, Killed, cache, TypeOK
<1>2. ASSUME Publish PROVE TypeOK'
  <2>1. server' \in Version
    BY <1>2, GetAssumption DEF Publish, TypeOK, Version
  <2>2. QED
    BY <1>2, <2>1 DEF Publish, TypeOK, cache
<1>3. ASSUME FetchRefused \/ FetchKilled PROVE TypeOK'
  <2>1. debs' \in [Index -> Version \cup {NONE, BAD}]
    BY <1>3 DEF FetchRefused, FetchKilled, TypeOK
  <2>2. QED
    BY <1>3, <2>1, EndTypes DEF FetchRefused, FetchKilled
<1>4. ASSUME UNCHANGED vars PROVE TypeOK'
  BY <1>4 DEF vars, cache, TypeOK
<1>5. QED
  BY <1>1, <1>2, <1>3, <1>4, StartTypes, LookupTypes, IndexTypes, InstallTypes,
     ReturnTypes, CheckTypes, NeedTypes DEF Next

-----------------------------------------------------------------------------
(* The index a run holds, and its activations                              *)

\* While known is kept, a candidate's needs are.
LEMMA SameKnown ==
  ASSUME known' = known
  PROVE  \A c : Needs(c)' = Needs(c) /\ Kept(c)' = Kept(c)
BY DEF Needs, Kept, Cut, Debian

\* The index is the verified one: the cached files change only while there is
\* none, and it is taken from them.
LEMMA HeldStep ==
  ASSUME TypeOK, HeldInv, [Next]_vars
  PROVE  HeldInv'
<1>1. ASSUME NEW names \in Targets, NEW allow \in BOOLEAN, NEW dry \in BOOLEAN,
             Start(names, allow, dry)
      PROVE  HeldInv'
  BY <1>1 DEF Start, HeldInv
<1>2. ASSUME LookupRepo \/ End \/ Killed \/ Publish PROVE HeldInv'
  BY <1>2 DEF LookupRepo, End, Killed, Publish, HeldInv, cache
<1>3. ASSUME GetIndex PROVE HeldInv'
  <2>1. index = NONE /\ known' = known /\ installed' = installed
    BY <1>3 DEF GetIndex
  <2>2. index' # NONE => index' = packages' /\ index' = inrelease'
    BY <1>3 DEF GetIndex, VerifiedIndex
  <2>3. QED
    BY <2>1, <2>2 DEF HeldInv
<1>4. ASSUME GetIndexKilled PROVE HeldInv'
  BY <1>4 DEF GetIndexKilled, HeldInv
<1>5. ASSUME LookupDebian PROVE HeldInv'
  BY <1>5 DEF LookupDebian, HeldInv, cache
<1>6. ASSUME Done \/ Check \/ Refuse \/ Need \/ NeedFailed PROVE HeldInv'
  BY <1>6 DEF Done, Check, Refuse, Need, NeedFailed, HeldInv, cache
<1>7. ASSUME DryInstall \/ InstallRepo \/ InstallConverted PROVE HeldInv'
  BY <1>7 DEF DryInstall, InstallRepo, InstallConverted, Attempted, HeldInv
<1>8. ASSUME FetchRefused \/ FetchKilled PROVE HeldInv'
  BY <1>8 DEF FetchRefused, FetchKilled, HeldInv
<1>9. ASSUME UNCHANGED vars PROVE HeldInv'
  BY <1>9 DEF vars, cache, HeldInv
<1>10. QED
  BY <1>1, <1>2, <1>3, <1>4, <1>5, <1>6, <1>7, <1>8, <1>9 DEF Next

\* There are no activations: nothing to keep to.
LEMMA StackEmpty ==
  ASSUME stack' = <<>>, run'.on \/ todo' = <<>>
  PROVE  StackInv'
BY DEF StackInv

\* Main calls install_candidate.
LEMMA StackBegin ==
  ASSUME TypeOK, NEW c \in Candidates, Begins(c), run'.on, todo' # <<>>,
         c.name = Head(todo'), c.seen = {}, c.repo \/ index' # NONE
  PROVE  StackInv'
<1>1. /\ Len(stack') = 1 /\ stack'[1].cand = c /\ stack'[1].next = 1 /\ stack'[1].rc = 0
      /\ stack' # <<>>
  BY DEF Begins, Activation
<1>2. QED
  BY <1>1 DEF StackInv

\* The innermost activation returns.
LEMMA StackPop ==
  ASSUME TypeOK, StackInv, stack # <<>>, NEW r \in {0, 1}, Popped(r),
         known' = known, run' = run, index' = index
  PROVE  StackInv'
<1>1. run.on /\ todo # <<>>
  BY DEF StackInv
<1>2. CASE Len(stack) = 1
  BY <1>1, <1>2, StackEmpty DEF Popped
<1>3. CASE Len(stack) # 1
  <2> DEFINE n == Len(stack)
  <2>1. n \in Nat /\ n > 1 /\ n - 1 \in 1..(Len(stack) - 1) /\ 1 \in 1..(n - 1)
    BY <1>3, TopFacts
  <2>2. /\ todo' = todo /\ Len(stack') = n - 1 /\ stack' # <<>>
        /\ \A i \in 1..(n - 2) : stack'[i] = stack[i]
        /\ stack'[n - 1].cand = stack[n - 1].cand
        /\ stack'[n - 1].at = stack[n - 1].at
    BY <1>3, <2>1 DEF Popped
  <2> HIDE DEF n
  <2>3. ASSUME NEW i \in 1..(n - 1)
        PROVE  /\ stack'[i].cand = stack[i].cand /\ stack'[i].at = stack[i].at
               /\ i # n - 1 => stack'[i] = stack[i]
    <3>1. i = n - 1 \/ i \in 1..(n - 2)
      BY <2>1
    <3>2. QED
      BY <2>1, <2>2, <3>1
  <2>4. ASSUME NEW i \in 1..(n - 1)
        PROVE  i \in 1..Len(stack) /\ i \in 1..(Len(stack) - 1)
    BY <2>1 DEF n
  <2>5. ASSUME NEW i \in 1..(n - 1) PROVE stack'[i].at = "needs"
    BY <2>3, <2>4 DEF StackInv, Waits
  <2>6. ASSUME NEW i \in 1..(n - 1) PROVE ~stack'[i].cand.repo => index' # NONE
    BY <2>3, <2>4 DEF StackInv
  <2>7. ASSUME NEW i \in 1..(n - 2) PROVE Waits(i)'
    <3>1. i \in 1..(n - 1) /\ i + 1 \in 1..(n - 1) /\ i # n - 1
      BY <2>1
    <3>2. stack'[i] = stack[i] /\ stack'[i + 1].cand = stack[i + 1].cand
      BY <2>3, <3>1
    <3>3. Waits(i)
      BY <2>4, <3>1 DEF StackInv
    <3>4. PICK c : c = stack[i].cand
      OBVIOUS
    <3>5. Needs(c)' = Needs(c)
      BY SameKnown
    <3>6. QED
      BY <3>2, <3>3, <3>4, <3>5 DEF Waits
  <2>8. stack'[1].cand.name = Head(todo') /\ stack'[1].cand.seen = {}
    BY <1>1, <2>1, <2>2, <2>3 DEF StackInv
  <2>9. n - 1 - 1 = n - 2
    BY <2>1
  <2>10. QED
    BY <1>1, <2>2, <2>5, <2>6, <2>7, <2>8, <2>9 DEF StackInv
<1>4. QED
  BY <1>2, <1>3

\* The package of the innermost activation may be installed.
LEMMA StackCheck ==
  ASSUME TypeOK, StackInv, Check
  PROVE  StackInv'
<1> DEFINE n == Len(stack)
<1>1. /\ stack # <<>> /\ run.on /\ run' = run /\ todo' = todo /\ index' = index
      /\ known' = known
  BY DEF Check, InCheck
<1>2. /\ n \in Nat /\ n >= 1 /\ Depth = n /\ stack \in Seq(Frames)
      /\ \A i \in 1..n : stack[i] \in Frames
  BY <1>1, TopFacts DEF TypeOK
<1>3. [stack[n] EXCEPT !.at = "needs"] \in Frames
  BY <1>2 DEF Frames
<1>4. /\ Len(stack') = n
      /\ \A i \in 1..n : stack'[i] = IF i = n THEN [stack[n] EXCEPT !.at = "needs"]
                                     ELSE stack[i]
  BY <1>2, <1>3, ExceptSeq DEF Check
<1> HIDE DEF n
<1>5. ASSUME NEW i \in 1..n
      PROVE  /\ stack'[i].cand = stack[i].cand
             /\ stack'[i].at = "check" => stack[i].at = "check" /\ i # n
             /\ i # n => stack'[i] = stack[i]
  BY <1>2, <1>4 DEF Frames
<1>6. ASSUME NEW i \in 1..n
      PROVE  /\ stack'[i].at = "check" => stack'[i].next = 1 /\ stack'[i].rc = 0
             /\ ~stack'[i].cand.repo => index' # NONE
  BY <1>1, <1>5 DEF StackInv, n
<1>7. ASSUME NEW i \in 1..(n - 1) PROVE Waits(i)'
  <2>1. i \in 1..n /\ i + 1 \in 1..n /\ i # n
    BY <1>2
  <2>2. stack'[i] = stack[i] /\ stack'[i + 1].cand = stack[i + 1].cand
    BY <1>5, <2>1
  <2>3. Waits(i)
    BY DEF StackInv, n
  <2>4. PICK c : c = stack[i].cand
    OBVIOUS
  <2>5. Needs(c)' = Needs(c)
    BY <1>1, SameKnown
  <2>6. QED
    BY <1>1, <2>2, <2>3, <2>4, <2>5 DEF Waits
<1>8. 1 \in 1..n /\ stack'[1].cand = stack[1].cand
  BY <1>2, <1>5
<1>9. QED
  BY <1>1, <1>4, <1>6, <1>7, <1>8 DEF StackInv

\* A dependency of the innermost activation's package is tried.
LEMMA StackNeed ==
  ASSUME TypeOK, StackInv, Need
  PROVE  StackInv'
<1> DEFINE n == Len(stack)
           c == Frame.cand
           d == Needs(c)[Frame.next]
<1>1. /\ stack # <<>> /\ run.on /\ run' = run /\ todo' = todo /\ index' = index
      /\ known' = known /\ Frame.at = "needs" /\ ~Failed
      /\ Frame.next <= Len(Needs(c))
      /\ stack' = Append(stack, Activation(d))
  BY DEF Need, InNeeds
<1>2. /\ n \in Nat /\ n >= 1 /\ Frame = stack[n] /\ stack \in Seq(Frames)
      /\ \A i \in 1..n : stack[i] \in Frames
  BY <1>1, TopFacts DEF TypeOK
<1>3. c \in Candidates /\ Frame.next \in Nat \ {0}
  BY <1>1, FrameFacts
<1>4. Needs(c) \in Seq(Candidates) /\ Needs(c) # <<>> => ~c.repo
  BY <1>3, NeedsFacts
<1>5. d \in Candidates /\ ~c.repo
  <2>1. Frame.next \in 1..Len(Needs(c))
    BY <1>1, <1>3, <1>4
  <2>2. Needs(c) # <<>>
    BY <2>1
  <2>3. QED
    BY <1>3, <1>4, <2>1, <2>2, NeedsFacts, ElementOfSeq
<1> HIDE DEF d
<1>6. Activation(d) \in Frames
  BY <1>5 DEF Activation, Frames
<1> DEFINE top == Activation(d)
<1>7. top.cand = d /\ top.at = "check" /\ top.next = 1 /\ top.rc = 0
  BY DEF Activation
<1> HIDE DEF top
<1>8. /\ Len(stack') = n + 1 /\ stack' # <<>>
      /\ \A i \in 1..n : stack'[i] = stack[i]
      /\ stack'[n + 1] = top
  BY <1>1, <1>2, <1>6 DEF top
<1> HIDE DEF n
<1>9. index # NONE
  BY <1>2, <1>5 DEF StackInv, n
<1>10. ASSUME NEW i \in 1..(n + 1)
       PROVE  /\ stack'[i].at = "check" => stack'[i].next = 1 /\ stack'[i].rc = 0
              /\ ~stack'[i].cand.repo => index' # NONE
  <2>1. CASE i = n + 1
    BY <1>1, <1>7, <1>8, <1>9, <2>1
  <2>2. CASE i # n + 1
    <3>1. i \in 1..n
      BY <1>2, <2>2
    <3>2. QED
      BY <1>1, <1>8, <3>1 DEF StackInv, n
  <2>3. QED
    BY <2>1, <2>2
<1>11. ASSUME NEW i \in 1..n PROVE Waits(i)'
  <2>1. PICK e : e = stack[i].cand
    OBVIOUS
  <2>2. Needs(e)' = Needs(e)
    BY <1>1, SameKnown
  <2>3. stack'[i] = stack[i]
    BY <1>8
  <2>4. CASE i = n
    <3>1. stack'[i + 1].cand = Needs(e)[stack[i].next]
      BY <1>2, <1>7, <1>8, <2>1, <2>4 DEF d
    <3>2. /\ stack[i].at = "needs" /\ (stack[i].rc = 0 \/ run.dry)
          /\ stack[i].next <= Len(Needs(e))
      BY <1>1, <1>2, <2>1, <2>4 DEF Failed
    <3>3. QED
      BY <1>1, <2>1, <2>2, <2>3, <3>1, <3>2 DEF Waits
  <2>5. CASE i # n
    <3>1. i + 1 \in 1..n /\ i \in 1..(n - 1)
      BY <1>2, <2>5
    <3>2. Waits(i) /\ stack'[i + 1] = stack[i + 1]
      BY <1>8, <3>1 DEF StackInv, n
    <3>3. QED
      BY <1>1, <2>1, <2>2, <2>3, <3>2 DEF Waits
  <2>6. QED
    BY <2>4, <2>5
<1>12. 1 \in 1..n /\ stack'[1] = stack[1] /\ n + 1 - 1 = n
  BY <1>2, <1>8
<1>13. /\ todo # <<>> /\ stack[1].cand.name = Head(todo)
       /\ stack[1].cand.seen = {}
  BY <1>1 DEF StackInv
<1>14. ASSUME NEW i \in 1..(Len(stack') - 1) PROVE Waits(i)'
  <2>1. Len(stack') - 1 = n
    BY <1>2, <1>8
  <2>2. i \in 1..n
    BY <2>1
  <2>3. QED
    BY <1>11, <2>2
<1>15. QED
  BY <1>1, <1>8, <1>10, <1>12, <1>13, <1>14 DEF StackInv

\* Every step keeps the activations as they must be.
LEMMA StackStep ==
  ASSUME TypeOK, StackInv, [Next]_vars
  PROVE  StackInv'
<1>1. ASSUME NEW names \in Targets, NEW allow \in BOOLEAN, NEW dry \in BOOLEAN,
             Start(names, allow, dry)
      PROVE  StackInv'
  BY <1>1, StackEmpty DEF Start
<1>2. ASSUME LookupRepo PROVE StackInv'
  <2> DEFINE c == Cand(Head(todo), {}, TRUE)
  <2>1. c \in Candidates /\ c.name = Head(todo) /\ c.seen = {} /\ c.repo
    BY <1>2 DEF LookupRepo, Cand, Candidates
  <2>2. Begins(c) /\ run'.on /\ todo' # <<>> /\ todo' = todo
    BY <1>2 DEF LookupRepo, Looking
  <2> HIDE DEF c
  <2>3. QED
    BY <2>1, <2>2, StackBegin
<1>3. ASSUME GetIndex \/ GetIndexKilled PROVE StackInv'
  BY <1>3, StackEmpty DEF GetIndex, GetIndexKilled, Looking, Ends
<1>4. ASSUME LookupDebian PROVE StackInv'
  <2>1. CASE Head(todo) \in Index
    <3> DEFINE c == Cand(Head(todo), {}, FALSE)
    <3>1. c \in Candidates /\ c.name = Head(todo) /\ c.seen = {}
      BY <1>4, <2>1 DEF LookupDebian, Cand, Candidates
    <3>2. Begins(c) /\ run'.on /\ todo' # <<>> /\ todo' = todo /\ index' # NONE
      BY <1>4, <2>1 DEF LookupDebian, Looking
    <3> HIDE DEF c
    <3>3. QED
      BY <3>1, <3>2, StackBegin
  <2>2. CASE Head(todo) \notin Index
    BY <1>4, <2>2, StackEmpty DEF LookupDebian, Looking
  <2>3. QED
    BY <2>1, <2>2
<1>5. ASSUME End \/ Killed \/ FetchRefused \/ FetchKilled PROVE StackInv'
  BY <1>5, StackEmpty DEF End, Killed, FetchRefused, FetchKilled, Ends
<1>6. ASSUME Publish \/ UNCHANGED vars PROVE StackInv'
  <2>1. run' = run /\ todo' = todo /\ stack' = stack /\ index' = index /\ known' = known
    BY <1>6 DEF Publish, vars
  <2>2. ASSUME NEW i \in 1..(Len(stack) - 1) PROVE Waits(i)'
    <3>1. PICK c : c = stack[i].cand
      OBVIOUS
    <3>2. Needs(c)' = Needs(c)
      BY <2>1, SameKnown
    <3>3. QED
      BY <2>1, <3>1, <3>2 DEF Waits, StackInv
  <2>3. QED
    BY <2>1, <2>2 DEF StackInv
<1>7. ASSUME Done \/ Refuse \/ NeedFailed PROVE StackInv'
  <2>1. /\ stack # <<>> /\ known' = known /\ run' = run /\ index' = index
        /\ \E r \in {0, 1} : Returns(r)
    BY <1>7, FrameFacts DEF Done, Refuse, NeedFailed, InCheck, InNeeds
  <2>2. QED
    BY <2>1, ReturnPops, StackPop
<1>8. ASSUME DryInstall \/ InstallRepo \/ InstallConverted PROVE StackInv'
  <2>1. stack # <<>> /\ Frame.rc \in {0, 1}
    BY <1>8, FrameFacts
       DEF DryInstall, InstallRepo, InstallConverted, Converting, Ready, InNeeds
  <2>2. \E got, r : r \in {0, 1} /\ Attempted(got, r)
    BY <1>8 DEF DryInstall, InstallRepo, InstallConverted
  <2>3. /\ known' = known /\ run' = run /\ index' = index
        /\ \E r \in {0, 1} : Returns(r)
    BY <2>1, <2>2 DEF Attempted
  <2>4. QED
    BY <2>1, <2>3, ReturnPops, StackPop
<1>9. QED
  BY <1>1, <1>2, <1>3, <1>4, <1>5, <1>6, <1>7, <1>8, StackCheck, StackNeed DEF Next

\* The names below an activation are on its candidate's path.
LEMMA PathBelow ==
  ASSUME TypeOK, StackInv
  PROVE  \A i \in 1..Len(stack) : \A j \in 1..(i - 1) :
           stack[j].cand.name \in stack[i].cand.seen
<1> DEFINE Below(i) == \A j \in 1..(i - 1) : stack[j].cand.name \in stack[i].cand.seen
           Bad == {i \in 1..Len(stack) : ~Below(i)}
<1> SUFFICES ASSUME Bad # {} PROVE FALSE
  OBVIOUS
<1>1. stack \in Seq(Frames) /\ Bad \subseteq Nat /\ Len(stack) \in Nat
  BY DEF TypeOK
<1>2. PICK i \in Bad : \A m \in Bad : i <= m
  BY <1>1, LeastNat
<1>3. i \in 1..Len(stack) /\ ~Below(i)
  OBVIOUS
<1> HIDE DEF Bad
<1>4. i # 1
  BY <1>3
<1>5. i - 1 \in 1..(Len(stack) - 1) /\ i - 1 \in 1..Len(stack) /\ ~(i <= i - 1)
  BY <1>1, <1>3, <1>4
<1>6. Below(i - 1)
  BY <1>2, <1>5 DEF Bad
<1> DEFINE c == stack[i - 1].cand
<1>7. stack # <<>>
  BY <1>3
<1>8. c \in Candidates /\ stack[i - 1].next \in Nat \ {0}
  BY <1>5, <1>7, TopFacts
<1>9. Waits(i - 1) /\ i - 1 + 1 = i
  BY <1>3, <1>5 DEF StackInv
<1>10. stack[i].cand.seen = c.seen \cup {c.name}
  BY <1>8, <1>9, NeedsFacts DEF Waits
<1>11. ASSUME NEW j \in 1..(i - 1) PROVE stack[j].cand.name \in stack[i].cand.seen
  <2>1. j = i - 1 \/ j \in 1..(i - 1 - 1)
    BY <1>3
  <2>2. QED
    BY <1>6, <1>10, <2>1
<1>12. QED
  BY <1>3, <1>11

\* No package is under way twice.
LEMMA InvNeverReentered ==
  ASSUME TypeOK, StackInv
  PROVE  NeverReentered
<1>1. stack \in Seq(Frames) /\ Len(stack) \in Nat /\ DOMAIN stack = 1..Len(stack)
  BY DEF TypeOK
<1>2. ASSUME NEW i \in 1..Len(stack), NEW j \in 1..(i - 1)
      PROVE  stack[j].cand.name # stack[i].cand.name
  <2>1. /\ i - 1 \in 1..(Len(stack) - 1) /\ j \in 1..(Len(stack) - 1)
        /\ i - 1 \in 1..Len(stack) /\ j \in 1..Len(stack) /\ i - 1 + 1 = i
        /\ stack # <<>>
    BY <1>1
  <2>2. Waits(j) /\ Waits(i - 1)
    BY <2>1 DEF StackInv
  <2>3. /\ stack[j].cand \in Candidates /\ stack[j].next \in Nat \ {0}
        /\ stack[i - 1].cand \in Candidates /\ stack[i - 1].next \in Nat \ {0}
        /\ stack[i].cand \in Candidates
    BY <2>1, TopFacts
  <2>4. ~stack[j].cand.repo
    <3>1. Len(Needs(stack[j].cand)) # 0
      BY <2>2, <2>3, NeedsFacts DEF Waits
    <3>2. QED
      BY <2>3, <3>1, NeedsFacts
  <2>5. stack[j].cand.name \notin Repo
    BY <2>3, <2>4, NameFacts
  <2>6. stack[j].cand.name \in stack[i].cand.seen
    BY PathBelow
  <2> DEFINE needs == Needs(stack[i - 1].cand)
             k == stack[i - 1].next
  <2>7. k \in 1..Len(needs) /\ stack[i].cand = needs[k]
    BY <2>1, <2>2, <2>3, NeedsFacts DEF Waits
  <2>8. /\ needs[k].seen = stack[i - 1].cand.seen \cup {stack[i - 1].cand.name}
        /\ \/ needs[k].repo
           \/ needs[k].name \notin stack[i - 1].cand.seen \cup {stack[i - 1].cand.name}
    <3>1. PICK c : c = stack[i - 1].cand
      OBVIOUS
    <3>2. c \in Candidates /\ needs = Needs(c) /\ k \in 1..Len(Needs(c))
      BY <2>3, <2>7, <3>1
    <3> HIDE DEF needs, k
    <3>3. /\ Needs(c)[k].seen = c.seen \cup {c.name}
          /\ Needs(c)[k].repo \/ Needs(c)[k].name \notin c.seen \cup {c.name}
      BY <3>2, NeedsFacts
    <3>4. QED
      BY <3>1, <3>2, <3>3
  <2>9. stack[i].cand.repo \/ stack[i].cand.name \notin stack[i].cand.seen
    BY <2>7, <2>8
  <2>10. QED
    BY <2>3, <2>5, <2>6, <2>9, NameFacts
<1>3. ASSUME NEW i \in DOMAIN stack, NEW j \in DOMAIN stack,
             stack[i].cand.name = stack[j].cand.name
      PROVE  i = j
  <2>1. i = j \/ j \in 1..(i - 1) \/ i \in 1..(j - 1)
    BY <1>1
  <2>2. QED
    BY <1>1, <1>2, <1>3, <2>1
<1>4. QED
  BY <1>3 DEF NeverReentered

-----------------------------------------------------------------------------
(* What has come of the names                                              *)

\* The names still to be looked up are the next one and the rest.
LEMMA TodoFacts ==
  ASSUME TypeOK, todo # <<>>
  PROVE  ToSet(todo) \subseteq {Head(todo)} \cup ToSet(Tail(todo))
<1>1. todo \in Seq(STRING) /\ Len(todo) \in Nat \ {0}
  BY EmptySeq DEF TypeOK
<1>2. /\ Tail(todo) \in Seq(STRING) /\ Len(Tail(todo)) = Len(todo) - 1
      /\ \A i \in 1..Len(Tail(todo)) : Tail(todo)[i] = todo[i + 1]
      /\ Head(todo) = todo[1]
  BY <1>1, HeadTailProperties
<1>3. DOMAIN todo = 1..Len(todo) /\ DOMAIN Tail(todo) = 1..Len(Tail(todo))
  BY <1>1, <1>2
<1>4. ASSUME NEW i \in DOMAIN todo PROVE todo[i] \in {Head(todo)} \cup ToSet(Tail(todo))
  <2>1. CASE i = 1
    BY <1>2, <2>1
  <2>2. CASE i # 1
    <3>1. i - 1 \in DOMAIN Tail(todo) /\ Tail(todo)[i - 1] = todo[i]
      BY <1>1, <1>2, <1>3, <2>2
    <3>2. QED
      BY <3>1 DEF ToSet
  <2>3. QED
    BY <2>1, <2>2
<1>5. QED
  BY <1>4 DEF ToSet

\* The dependencies of the activation i that were tried are installed, unless
\* they had failed for an earlier name.
Tried(i) ==
  stack[i].rc = 0 =>
    \A k \in 1..Len(Needs(stack[i].cand)) : k < stack[i].next =>
      Needs(stack[i].cand)[k].name \in installed \cup ghost.lost

\* An activation that is left alone has tried what it had.
LEMMA TriedKept ==
  ASSUME OutcomeInv, run.on, ~run.dry, known' = known,
         NEW i \in 1..Len(stack), NEW j, stack'[j] = stack[i],
         installed \subseteq installed', ghost'.lost = ghost.lost
  PROVE  Tried(j)'
<1>1. Tried(i)
  BY DEF OutcomeInv, Tried
<1>2. PICK c : c = stack[i].cand
  OBVIOUS
<1>3. Needs(c)' = Needs(c)
  BY SameKnown
<1>4. QED
  BY <1>1, <1>2, <1>3 DEF Tried

\* A package that was tried is installed when install_candidate returns 0, and
\* nothing has failed since main began its name; otherwise its caller is told.
LEMMA OutcomePop ==
  ASSUME TypeOK, StackInv, OutcomeInv, stack # <<>>, NEW r \in {0, 1}, Popped(r),
         known' = known, run' = run, run.on, ~run.dry,
         done' \subseteq installed' \cup ghost'.failed, installed \subseteq installed',
         ghost'.lost = ghost.lost,
         r = 0 => /\ ghost'.failed = ghost.lost
                  /\ Frame.cand.name \in installed' \cup ghost.lost
  PROVE  OutcomeInv'
<1>1. /\ Len(stack) \in Nat /\ Len(stack) >= 1 /\ Frame = stack[Len(stack)]
      /\ rc \in {0, 1}
  BY TopFacts DEF TypeOK
<1>2. /\ ghost.lost = {} \/ rc # 0
      /\ rc = 0 => ToSet(run.names) \subseteq installed \cup ToSet(todo)
  BY DEF OutcomeInv
<1>3. CASE Len(stack) = 1
  <2>1. /\ stack' = <<>> /\ todo' = Tail(todo) /\ rc' = IF r # 0 THEN r ELSE rc
    BY <1>3 DEF Popped
  <2>2. todo # <<>> /\ Frame.cand.name = Head(todo)
    BY <1>1, <1>3 DEF StackInv
  <2>3. ASSUME rc' = 0
        PROVE  /\ ghost'.failed = {}
               /\ ToSet(run.names) \subseteq installed' \cup ToSet(todo')
    <3>1. r = 0 /\ rc = 0 /\ ghost.lost = {}
      BY <1>2, <2>1, <2>3
    <3>2. Head(todo) \in installed' /\ ghost'.failed = {}
      BY <2>2, <3>1
    <3>3. ToSet(todo) \subseteq installed' \cup ToSet(todo')
      BY <2>1, <2>2, <3>2, TodoFacts
    <3>4. QED
      BY <1>2, <3>1, <3>2, <3>3
  <2>4. Len(stack') = 0
    BY <2>1
  <2>5. QED
    BY <2>1, <2>3, <2>4 DEF OutcomeInv
<1>4. CASE Len(stack) # 1
  <2> DEFINE n == Len(stack)
  <2>1. /\ n \in Nat /\ n # 1 /\ n - 1 \in 1..(Len(stack) - 1)
        /\ n - 1 \in 1..Len(stack)
    <3>1. n \in Nat /\ n >= 1 /\ n # 1 /\ n = Len(stack)
      BY <1>1, <1>4
    <3> HIDE DEF n
    <3>2. QED
      BY <3>1
  <2>2. PICK f \in Frames :
          /\ stack'[n - 1] = f
          /\ f.cand = stack[n - 1].cand
          /\ f.next = stack[n - 1].next + 1
          /\ f.rc = IF r # 0 THEN r ELSE stack[n - 1].rc
    BY <1>4 DEF Popped
  <2>3. /\ todo' = todo /\ rc' = rc /\ Len(stack') = n - 1 /\ stack' # <<>>
        /\ \A i \in 1..(n - 2) : stack'[i] = stack[i]
    BY <1>4, <2>1 DEF Popped
  <2>4. Waits(n - 1) /\ n - 1 + 1 = n
    BY <2>1 DEF StackInv
  <2>5. /\ stack[n - 1].cand \in Candidates /\ stack[n - 1].next \in Nat \ {0}
        /\ stack[n - 1].rc \in {0, 1}
    BY <2>1, TopFacts
  <2>6. Tried(n - 1)
    BY <2>1 DEF OutcomeInv, Tried
  <2>7. PICK c : c = stack[n - 1].cand
    OBVIOUS
  <2>8. Needs(c)' = Needs(c)
    BY SameKnown
  <2>9. Needs(c)[stack[n - 1].next].name = Frame.cand.name
    BY <1>1, <2>4, <2>7 DEF Waits
  <2> HIDE DEF n
  <2>10. ASSUME f.rc = 0, NEW k \in 1..Len(Needs(c)), k < f.next
         PROVE  Needs(c)[k].name \in installed' \cup ghost.lost
    <3>1. r = 0 /\ stack[n - 1].rc = 0
      BY <2>2, <2>10
    <3>2. CASE k < stack[n - 1].next
      BY <2>6, <2>7, <3>1, <3>2 DEF Tried
    <3>3. CASE k = stack[n - 1].next
      BY <2>9, <3>1, <3>3
    <3>4. QED
      BY <2>2, <2>5, <2>10, <3>2, <3>3
  <2> DEFINE low == n - 1
  <2> HIDE DEF low
  <2>11. /\ stack'[low].cand = c /\ stack'[low].next = f.next /\ stack'[low].rc = f.rc
    BY <2>2, <2>7 DEF low
  <2>12. ASSUME NEW i \in 1..(n - 1) PROVE Tried(i)'
    <3>1. CASE i = n - 1
      <4>1. /\ stack'[i].cand = c /\ stack'[i].next = f.next /\ stack'[i].rc = f.rc
        BY <2>11, <3>1 DEF low
      <4>2. QED
        BY <2>8, <2>10, <4>1 DEF Tried
    <3>2. CASE i # n - 1
      <4>1. i \in 1..(n - 2) /\ i \in 1..Len(stack)
        BY <2>1, <3>2 DEF n
      <4>2. QED
        BY <2>3, <4>1, TriedKept
    <3>3. QED
      BY <3>1, <3>2
  <2>13. ghost'.failed = ghost'.lost \/ stack'[Len(stack')].rc # 0
    BY <2>2, <2>3
  <2>14. rc' = 0 => ToSet(run'.names) \subseteq installed' \cup ToSet(todo')
    BY <1>2, <2>3
  <2>15. QED
    BY <1>2, <2>3, <2>12, <2>13, <2>14 DEF OutcomeInv, Tried
<1>5. QED
  BY <1>3, <1>4

\* Nothing is attempted: the name was tried before, or its caller is told.
LEMMA OutcomeReturn ==
  ASSUME TypeOK, StackInv, OutcomeInv, Done \/ Refuse \/ NeedFailed,
         run.on, ~run.dry
  PROVE  OutcomeInv'
<1>1. /\ stack # <<>> /\ known' = known /\ run' = run /\ done' = done
      /\ installed' = installed /\ ghost' = ghost
  BY DEF Done, Refuse, NeedFailed, InCheck, InNeeds
<1>2. done \subseteq installed \cup ghost.failed
  BY DEF OutcomeInv
<1>3. Len(stack) \in 1..Len(stack) /\ Frame = stack[Len(stack)] /\ Frame.rc \in {0, 1}
  BY <1>1, TopFacts, FrameFacts
<1>4. CASE Done
  <2>1. Frame.rc = 0
    BY <1>3, <1>4 DEF Done, InCheck, StackInv
  <2>2. ghost.failed = ghost.lost /\ Frame.cand.name \in installed \cup ghost.lost
    BY <1>1, <1>2, <1>3, <1>4, <2>1 DEF Done, OutcomeInv
  <2>3. Popped(0)
    BY <1>1, <1>4, ReturnPops DEF Done
  <2>4. QED
    BY <1>1, <1>2, <2>2, <2>3, OutcomePop
<1>5. CASE Refuse \/ NeedFailed
  <2>1. Returns(1)
    BY <1>3, <1>5 DEF Refuse, NeedFailed, Failed
  <2>2. Popped(1)
    BY <1>1, <2>1, ReturnPops
  <2>3. QED
    BY <1>1, <1>2, <2>2, OutcomePop
<1>6. QED
  BY <1>4, <1>5

\* A package is attempted: it is installed, or it has failed and its caller is told.
LEMMA OutcomeAttempt ==
  ASSUME TypeOK, StackInv, OutcomeInv, Ready, ~run.dry, NEW got, NEW r \in {0, 1},
         Attempted(got, r), r = 0 => Frame.cand.name \in got
  PROVE  OutcomeInv'
<1>1. /\ stack # <<>> /\ run.on /\ known' = known /\ run' = run
      /\ installed' = installed \cup got
      /\ done' = done \cup {Frame.cand.name}
  BY DEF Ready, InNeeds, Attempted
<1>2. /\ ghost'.lost = ghost.lost
      /\ ghost'.failed = IF r # 0 THEN ghost.failed \cup {Frame.cand.name}
                         ELSE ghost.failed
  BY DEF Attempted, TypeOK
<1>3. Frame = stack[Len(stack)] /\ Frame.rc = 0
  BY <1>1, TopFacts, FrameFacts DEF Ready, Failed
<1>4. ghost.failed = ghost.lost /\ done \subseteq installed \cup ghost.failed
  BY <1>1, <1>3 DEF OutcomeInv
<1>5. Popped(r)
  BY <1>1, <1>3, ReturnPops DEF Attempted
<1>6. QED
  BY <1>1, <1>2, <1>4, <1>5, OutcomePop

\* The package may be installed: nothing has come of it yet.
LEMMA OutcomeCheck ==
  ASSUME TypeOK, StackInv, OutcomeInv, Check, run.on, ~run.dry
  PROVE  OutcomeInv'
<1> DEFINE n == Len(stack)
<1>1. /\ stack # <<>> /\ run' = run /\ todo' = todo /\ installed' = installed
      /\ known' = known /\ done' = done /\ rc' = rc
  BY DEF Check, InCheck
<1>2. ghost'.lost = ghost.lost /\ ghost'.failed = ghost.failed
  BY DEF Check, TypeOK
<1>3. /\ n \in Nat /\ n >= 1 /\ Depth = n /\ stack \in Seq(Frames)
      /\ \A i \in 1..n : stack[i] \in Frames
  BY <1>1, TopFacts DEF TypeOK
<1>4. [stack[n] EXCEPT !.at = "needs"] \in Frames
  BY <1>3 DEF Frames
<1>5. /\ Len(stack') = n /\ stack' # <<>>
      /\ \A i \in 1..n : stack'[i] = IF i = n THEN [stack[n] EXCEPT !.at = "needs"]
                                     ELSE stack[i]
  BY <1>3, <1>4, ExceptSeq, EmptySeq DEF Check
<1> HIDE DEF n
<1>6. ASSUME NEW i \in 1..n
      PROVE  /\ stack'[i].cand = stack[i].cand /\ stack'[i].rc = stack[i].rc
             /\ stack'[i].next = stack[i].next
  BY <1>3, <1>5 DEF Frames
<1>7. ASSUME NEW i \in 1..n PROVE Tried(i)'
  <2>1. Tried(i)
    BY DEF OutcomeInv, Tried, n
  <2>2. PICK c : c = stack[i].cand
    OBVIOUS
  <2>3. Needs(c)' = Needs(c)
    BY <1>1, SameKnown
  <2>4. QED
    BY <1>1, <1>2, <1>6, <2>1, <2>2, <2>3 DEF Tried
<1>8. n \in 1..n
  BY <1>3
<1>9. QED
  BY <1>1, <1>2, <1>5, <1>6, <1>7, <1>8 DEF OutcomeInv, Tried, n

\* A dependency is tried: nothing the package needs has failed.
LEMMA OutcomeNeed ==
  ASSUME TypeOK, StackInv, OutcomeInv, Need, run.on, ~run.dry
  PROVE  OutcomeInv'
<1> DEFINE n == Len(stack)
           top == Activation(Needs(Frame.cand)[Frame.next])
<1>1. /\ stack # <<>> /\ run' = run /\ todo' = todo /\ installed' = installed
      /\ known' = known /\ done' = done /\ rc' = rc /\ ghost' = ghost
      /\ ~Failed /\ stack' = Append(stack, top)
  BY DEF Need, InNeeds
<1>2. /\ n \in Nat /\ n >= 1 /\ Frame = stack[n] /\ stack \in Seq(Frames)
  BY <1>1, TopFacts DEF TypeOK
<1>3. stack' \in Seq(Frames)
  BY NeedTypes DEF TypeOK
<1>4. top.next = 1 /\ top.rc = 0
  BY DEF Activation
<1> HIDE DEF top
<1>5. /\ Len(stack') = n + 1 /\ stack' # <<>>
      /\ \A i \in 1..n : stack'[i] = stack[i]
      /\ stack'[n + 1] = top
  BY <1>1, <1>2
<1>6. Frame.rc = 0
  BY <1>1 DEF Failed
<1>7. ghost.failed = ghost.lost
  BY <1>1, <1>2, <1>6 DEF OutcomeInv
<1> HIDE DEF n
<1>8. ASSUME NEW i \in 1..(n + 1) PROVE Tried(i)'
  <2>1. CASE i = n + 1
    BY <1>4, <1>5, <2>1 DEF Tried
  <2>2. CASE i # n + 1
    <3>1. i \in 1..Len(stack) /\ stack'[i] = stack[i]
      BY <1>2, <1>5, <2>2 DEF n
    <3>2. QED
      BY <1>1, <3>1, TriedKept
  <2>3. QED
    BY <2>1, <2>2
<1>9. QED
  BY <1>1, <1>5, <1>7, <1>8 DEF OutcomeInv, Tried

\* Main calls install_candidate: what failed before is lost for it.
LEMMA OutcomeBegin ==
  ASSUME TypeOK, OutcomeInv, run.on, ~run.dry, stack = <<>>, NEW c, Begins(c),
         run' = run, done' = done, installed' = installed, rc' = rc, todo' = todo
  PROVE  OutcomeInv'
<1>1. ghost'.lost = ghost.failed /\ ghost'.failed = ghost.failed
  BY DEF Begins, TypeOK
<1>2. /\ Len(stack') = 1 /\ stack' # <<>> /\ stack'[1].next = 1
  BY DEF Begins, Activation
<1>3. ASSUME NEW i \in 1..1 PROVE Tried(i)'
  BY <1>2 DEF Tried
<1>4. QED
  BY <1>1, <1>2, <1>3 DEF OutcomeInv, Tried

\* Every step keeps account of what has come of the names.
LEMMA OutcomeStep ==
  ASSUME TypeOK, StackInv, OutcomeInv, [Next]_vars
  PROVE  OutcomeInv'
<1>1. ASSUME NEW names \in Targets, NEW allow \in BOOLEAN, NEW dry \in BOOLEAN,
             Start(names, allow, dry)
      PROVE  OutcomeInv'
  BY <1>1 DEF Start, Ghost, OutcomeInv
<1>2. ASSUME End \/ Killed \/ GetIndexKilled \/ FetchRefused \/ FetchKilled
      PROVE  OutcomeInv'
  <2>1. ~run'.on
    BY <1>2 DEF End, Killed, GetIndexKilled, FetchRefused, FetchKilled, Ends, NoRun
  <2>2. QED
    BY <2>1 DEF OutcomeInv
<1>3. ASSUME run' = run, ~(run.on /\ ~run.dry) PROVE OutcomeInv'
  BY <1>3 DEF OutcomeInv
<1>4. ASSUME LookupRepo \/ LookupDebian \/ GetIndex PROVE OutcomeInv'
  <2>1. run' = run /\ run.on /\ stack = <<>> /\ done' = done /\ installed' = installed
    BY <1>4 DEF LookupRepo, LookupDebian, GetIndex, Looking
  <2>2. CASE ~run.dry /\ (\E c : Begins(c)) /\ rc' = rc /\ todo' = todo
    BY <2>1, <2>2, OutcomeBegin
  <2>3. CASE stack' = stack /\ ghost' = ghost /\ rc' = 1
    BY <2>1, <2>3 DEF OutcomeInv
  <2>4. CASE stack' = stack /\ ghost' = ghost /\ rc' = rc /\ todo' = todo
    BY <2>1, <2>4 DEF OutcomeInv
  <2>5. \/ (\E c : Begins(c)) /\ rc' = rc /\ todo' = todo
        \/ stack' = stack /\ ghost' = ghost /\ rc' = 1
        \/ stack' = stack /\ ghost' = ghost /\ rc' = rc /\ todo' = todo
    BY <1>4 DEF LookupRepo, LookupDebian, GetIndex, NotFound
  <2>6. QED
    BY <1>3, <2>1, <2>2, <2>3, <2>4, <2>5
<1>5. ASSUME Publish \/ UNCHANGED vars PROVE OutcomeInv'
  <2>1. /\ run' = run /\ todo' = todo /\ stack' = stack /\ done' = done /\ rc' = rc
        /\ ghost' = ghost /\ installed' = installed /\ known' = known
    BY <1>5 DEF Publish, vars
  <2>2. ASSUME run.on, ~run.dry, NEW i \in 1..Len(stack) PROVE Tried(i)'
    BY <2>1, <2>2, TriedKept
  <2>3. QED
    BY <2>1, <2>2 DEF OutcomeInv, Tried
<1>6. ASSUME Done \/ Refuse \/ NeedFailed \/ Check \/ Need PROVE OutcomeInv'
  <2>1. run' = run
    BY <1>6 DEF Done, Refuse, NeedFailed, Check, Need
  <2>2. QED
    BY <1>3, <1>6, <2>1, OutcomeReturn, OutcomeCheck, OutcomeNeed
<1>7. ASSUME DryInstall PROVE OutcomeInv'
  BY <1>3, <1>7 DEF DryInstall, Attempted
<1>8. ASSUME InstallRepo \/ InstallConverted PROVE OutcomeInv'
  <2>1. Ready /\ ~run.dry
    BY <1>8 DEF InstallRepo, InstallConverted, Converting
  <2>2. \E got, r : /\ r \in {0, 1} /\ Attempted(got, r)
                    /\ r = 0 => Frame.cand.name \in got
    BY <1>8 DEF InstallRepo, InstallConverted
  <2>3. QED
    BY <2>1, <2>2, OutcomeAttempt
<1>9. QED
  BY <1>1, <1>2, <1>4, <1>5, <1>6, <1>7, <1>8 DEF Next

\* When a package is converted, what it declares is installed.
LEMMA InvInOrder ==
  ASSUME TypeOK, StackInv, HeldInv, OutcomeInv
  PROVE  InOrder
<1> SUFFICES ASSUME Converting PROVE Declared(Frame.cand) \subseteq installed \cup ghost.lost
  BY DEF InOrder
<1> DEFINE c == Frame.cand
<1>1. /\ stack # <<>> /\ run.on /\ ~run.dry /\ ~Failed
      /\ Frame.next > Len(Needs(c))
  BY DEF Converting, Ready, InNeeds
<1>2. /\ Len(stack) \in 1..Len(stack) /\ Frame = stack[Len(stack)]
      /\ c \in Candidates /\ Frame.rc = 0 /\ Frame.next \in Nat \ {0}
  BY <1>1, TopFacts, FrameFacts DEF Failed
<1>3. Tried(Len(stack))
  BY <1>1, <1>2 DEF OutcomeInv, Tried
<1>4. Needs(c) \in Seq(Candidates) /\ Len(Needs(c)) \in Nat
  BY <1>2, NeedsFacts
<1>5. \A k \in 1..Len(Needs(c)) : Needs(c)[k].name \in installed \cup ghost.lost
  BY <1>1, <1>2, <1>3, <1>4 DEF Tried
<1>6. Kept(c) \in Seq(STRING)
  BY <1>2, KeptFacts
<1>7. ASSUME NEW i \in 1..Len(Kept(c)) PROVE Kept(c)[i] \in installed \cup ghost.lost
  <2>1. \/ Kept(c)[i] \in known
        \/ \E k \in 1..Len(Needs(c)) : Needs(c)[k].name = Kept(c)[i]
    BY <1>2, NeedsFacts
  <2>2. QED
    BY <1>5, <2>1 DEF HeldInv
<1>8. QED
  BY <1>6, <1>7 DEF Declared, ToSet

-----------------------------------------------------------------------------
(* What was asked before anything was begun                                *)

\* While known is kept, what a package can bring along is.
LEMMA SameReach ==
  ASSUME known' = known
  PROVE  \A c : Brings(c)' = Brings(c)
<1>1. \A n : Reachable(n)' = Reachable(n)
  BY DEF Reachable, Closed, Debian
<1>2. QED
  BY <1>1 DEF Brings

\* Activations that stay are those that were asked about.
LEMMA ProtectedKept ==
  ASSUME ProtectedInv, stack # <<>>, run' = run, known' = known,
         ghost.confirmed \subseteq ghost'.confirmed,
         \A i \in 1..Len(stack') : stack'[i].at = "needs" =>
           i \in 1..Len(stack) /\ stack'[i].cand = stack[i].cand /\ stack[i].at = "needs",
         stack' # <<>> => /\ stack'[1].at = stack[1].at /\ stack'[1].cand = stack[1].cand
                          /\ stack[1].at = "check" => installed' = installed
                          /\ ghost'.before = ghost.before
  PROVE  ProtectedInv'
<1>1. ASSUME run.on, ~run.dry, NEW i \in 1..Len(stack'), stack'[i].at = "needs"
      PROVE  {stack'[i].cand.name} \cap Protected \subseteq ghost'.confirmed
  BY <1>1 DEF ProtectedInv
<1>2. PICK c : c = stack[1].cand
  OBVIOUS
<1>3. Brings(c)' = Brings(c)
  BY SameReach
<1>4. ASSUME stack' # <<>>
      PROVE  IF stack'[1].at = "check" THEN installed' = ghost'.before
             ELSE run'.allow \/ Brings(c)' \cap Protected = {}
  BY <1>2, <1>3, <1>4 DEF ProtectedInv
<1>5. stack' # <<>> => stack'[1].cand = c
  BY <1>2
<1>6. QED
  BY <1>1, <1>4, <1>5 DEF ProtectedInv

\* The innermost activation returns.
LEMMA ProtectedPop ==
  ASSUME TypeOK, StackInv, ProtectedInv, stack # <<>>, NEW r \in {0, 1}, Popped(r),
         run' = run, known' = known, ghost'.confirmed = ghost.confirmed,
         ghost'.before = ghost.before
  PROVE  ProtectedInv'
<1> DEFINE n == Len(stack)
<1>1. n \in Nat /\ n >= 1
  BY TopFacts
<1>2. CASE n = 1
  <2>1. stack' = <<>> /\ Len(stack') = 0
    BY <1>2 DEF Popped
  <2>2. QED
    BY <2>1 DEF ProtectedInv
<1>3. CASE n # 1
  <2>1. /\ Len(stack') = n - 1 /\ stack' # <<>>
        /\ \A i \in 1..(n - 2) : stack'[i] = stack[i]
        /\ stack'[n - 1].cand = stack[n - 1].cand
        /\ stack'[n - 1].at = stack[n - 1].at
    <3>1. /\ Len(stack') = n - 1
          /\ \A i \in 1..(n - 2) : stack'[i] = stack[i]
          /\ \E f \in Frames : /\ stack'[n - 1] = f
                               /\ f.cand = stack[n - 1].cand
                               /\ f.at = stack[n - 1].at
      BY <1>3 DEF Popped
    <3> HIDE DEF n
    <3>2. Len(stack') # 0
      BY <1>1, <1>3, <3>1
    <3>3. stack' # <<>>
      BY <3>2
    <3>4. QED
      BY <3>1, <3>3
  <2>2. Waits(1)
    <3>1. n = Len(stack)
      OBVIOUS
    <3> HIDE DEF n
    <3>2. 1 \in 1..(n - 1)
      BY <1>1, <1>3
    <3>3. QED
      BY <3>1, <3>2 DEF StackInv
  <2>3. stack[1].at # "check"
    BY <2>2 DEF Waits
  <2>4. ASSUME NEW i \in 1..(n - 1)
        PROVE  i \in 1..n /\ stack'[i].cand = stack[i].cand /\ stack'[i].at = stack[i].at
    <3> HIDE DEF n
    <3>1. CASE i = n - 1
      BY <1>1, <2>1, <3>1
    <3>2. CASE i # n - 1
      <4>1. i \in 1..(n - 2) /\ i \in 1..n
        BY <1>1, <3>2
      <4>2. QED
        BY <2>1, <4>1
    <3>3. QED
      BY <3>1, <3>2
  <2>5. stack'[1].at = stack[1].at /\ stack'[1].cand = stack[1].cand
    <3> HIDE DEF n
    <3>1. 1 \in 1..(n - 1)
      BY <1>1, <1>3
    <3>2. QED
      BY <2>4, <3>1
  <2>6. ASSUME NEW i \in 1..Len(stack'), stack'[i].at = "needs"
        PROVE  /\ i \in 1..Len(stack) /\ stack'[i].cand = stack[i].cand
               /\ stack[i].at = "needs"
    BY <2>1, <2>4, <2>6
  <2>7. QED
    BY <2>3, <2>5, <2>6, ProtectedKept
<1>4. QED
  BY <1>2, <1>3

\* The package may be installed: the list has nothing to say, or the user has
\* confirmed what it says.
LEMMA ProtectedCheck ==
  ASSUME TypeOK, StackInv, ProtectedInv, Check
  PROVE  ProtectedInv'
<1> DEFINE n == Len(stack)
<1>1. /\ stack # <<>> /\ run.on /\ run' = run /\ known' = known /\ Depth = n
      /\ Hits = {} \/ run.allow
  BY DEF Check, InCheck, Depth
<1>2. ghost'.confirmed = ghost.confirmed \cup Confirmed /\ ghost'.before = ghost.before
  BY DEF Check, TypeOK
<1>3. /\ n \in Nat /\ n >= 1 /\ stack \in Seq(Frames) /\ n \in 1..n
      /\ Frame = stack[n] /\ Frame.cand \in Candidates
      /\ \A i \in 1..n : stack[i] \in Frames
  BY <1>1, TopFacts DEF TypeOK
<1>4. [stack[n] EXCEPT !.at = "needs"] \in Frames
  BY <1>3 DEF Frames
<1>5. /\ Len(stack') = n
      /\ \A i \in 1..n : stack'[i] = IF i = n THEN [stack[n] EXCEPT !.at = "needs"]
                                     ELSE stack[i]
  BY <1>1, <1>3, <1>4, ExceptSeq DEF Check
<1> HIDE DEF n
<1>6. ASSUME NEW i \in 1..n
      PROVE  /\ stack'[i].cand = stack[i].cand
             /\ stack'[i].at = IF i = n THEN "needs" ELSE stack[i].at
  BY <1>3, <1>5 DEF Frames
<1>7. ASSUME run.on, ~run.dry, NEW i \in 1..Len(stack'), stack'[i].at = "needs"
      PROVE  {stack'[i].cand.name} \cap Protected \subseteq ghost'.confirmed
  <2>1. i \in 1..n /\ i \in 1..Len(stack)
    BY <1>5 DEF n
  <2>2. CASE i = n
    <3>1. {Frame.cand.name} \cap Protected \subseteq Hits
      BY <1>3, OwnName DEF Hits
    <3>2. Confirmed = Hits
      BY <1>7 DEF Confirmed
    <3>3. QED
      BY <1>2, <1>3, <1>6, <2>1, <2>2, <3>1, <3>2
  <2>3. CASE i # n
    <3>1. stack[i].at = "needs" /\ stack'[i].cand = stack[i].cand
      BY <1>6, <1>7, <2>1, <2>3
    <3>2. {stack[i].cand.name} \cap Protected \subseteq ghost.confirmed
      BY <1>7, <2>1, <3>1 DEF ProtectedInv
    <3>3. QED
      BY <1>2, <3>1, <3>2
  <2>4. QED
    BY <2>2, <2>3
<1>8. 1 \in 1..n /\ stack'[1].cand = stack[1].cand
  BY <1>3, <1>6
<1>9. PICK c : c = stack[1].cand
  OBVIOUS
<1>10. Brings(c)' = Brings(c)
  BY <1>1, SameReach
<1>11. stack'[1].at # "check" /\ (run.allow \/ Brings(c) \cap Protected = {})
  <2>1. CASE n = 1
    <3>1. stack'[1].at = "needs"
      BY <1>6, <1>8, <2>1
    <3>2. ASSUME ~run.allow PROVE Brings(c) \cap Protected = {}
      <4>1. c \in Candidates /\ c.seen = {} /\ find_protected(c) = {}
        BY <1>1, <1>3, <1>9, <2>1, <3>2 DEF StackInv, Hits
      <4>2. CASE c.repo
        BY <4>1, <4>2, OwnName DEF Brings
      <4>3. CASE ~c.repo
        <5>1. c.name \in Index \ Repo
          BY <4>1, <4>3, NameFacts
        <5>2. c = Cand(c.name, {}, FALSE)
          BY <4>1, <4>3 DEF Cand, Candidates
        <5>3. QED
          BY <4>1, <4>3, <5>1, <5>2, NothingProtected DEF Brings
      <4>4. QED
        BY <4>2, <4>3
    <3>3. QED
      BY <3>1, <3>2
  <2>2. CASE n # 1
    <3>1. 1 \in 1..(n - 1)
      BY <1>3, <2>2
    <3>2. Waits(1)
      BY <3>1 DEF StackInv, n
    <3>3. stack[1].at # "check" /\ stack'[1].at = stack[1].at
      BY <1>6, <1>8, <2>2, <3>2 DEF Waits
    <3>4. QED
      BY <1>1, <1>9, <3>3 DEF ProtectedInv
  <2>3. QED
    BY <2>1, <2>2
<1>12. QED
  BY <1>1, <1>7, <1>8, <1>9, <1>10, <1>11 DEF ProtectedInv

\* A dependency is tried: what it brings along is asked about next.
LEMMA ProtectedNeed ==
  ASSUME TypeOK, StackInv, ProtectedInv, Need
  PROVE  ProtectedInv'
<1> DEFINE n == Len(stack)
           top == Activation(Needs(Frame.cand)[Frame.next])
<1>1. /\ stack # <<>> /\ run' = run /\ installed' = installed /\ known' = known
      /\ ghost' = ghost /\ stack' = Append(stack, top)
  BY DEF Need, InNeeds
<1>2. n \in Nat /\ n >= 1 /\ stack \in Seq(Frames)
  BY <1>1, TopFacts DEF TypeOK
<1>3. top.at = "check"
  BY DEF Activation
<1> HIDE DEF top
<1>4. /\ Len(stack') = n + 1 /\ stack'[n + 1] = top
      /\ \A i \in 1..n : stack'[i] = stack[i]
  BY <1>1, <1>2
<1>5. ASSUME NEW i \in 1..Len(stack'), stack'[i].at = "needs"
      PROVE  /\ i \in 1..Len(stack) /\ stack'[i].cand = stack[i].cand
             /\ stack[i].at = "needs"
  <2>1. n = Len(stack)
    OBVIOUS
  <2> HIDE DEF n
  <2>2. i # n + 1
    BY <1>3, <1>4, <1>5
  <2>3. i \in 1..n
    BY <1>2, <1>4, <2>2
  <2>4. QED
    BY <1>4, <1>5, <2>1, <2>3
<1>6. stack'[1] = stack[1]
  BY <1>2, <1>4
<1>7. QED
  BY <1>1, <1>5, <1>6, ProtectedKept

\* Main calls install_candidate: nothing of the name has been installed.
LEMMA ProtectedBegin ==
  ASSUME TypeOK, NEW c, Begins(c), installed' = installed
  PROVE  ProtectedInv'
<1>1. ghost'.before = installed
  BY DEF Begins, TypeOK
<1>2. Len(stack') = 1 /\ stack'[1].at = "check"
  BY DEF Begins, Activation
<1>3. \A i \in 1..1 : i = 1
  OBVIOUS
<1>4. QED
  BY <1>1, <1>2, <1>3 DEF ProtectedInv

\* Every step keeps to what was asked.
LEMMA ProtectedStep ==
  ASSUME TypeOK, StackInv, ProtectedInv, [Next]_vars
  PROVE  ProtectedInv'
<1>1. ASSUME stack' = <<>> PROVE ProtectedInv'
  <2>1. Len(stack') = 0
    BY <1>1
  <2>2. QED
    BY <1>1, <2>1 DEF ProtectedInv
<1>2. ASSUME NEW names \in Targets, NEW allow \in BOOLEAN, NEW dry \in BOOLEAN,
             Start(names, allow, dry)
      PROVE  ProtectedInv'
  BY <1>1, <1>2 DEF Start
<1>3. ASSUME End \/ Killed \/ GetIndexKilled \/ FetchRefused \/ FetchKilled
      PROVE  ProtectedInv'
  BY <1>1, <1>3 DEF End, Killed, GetIndexKilled, FetchRefused, FetchKilled, Ends
<1>4. ASSUME LookupRepo \/ LookupDebian \/ GetIndex PROVE ProtectedInv'
  <2>1. stack = <<>> /\ installed' = installed
    BY <1>4 DEF LookupRepo, LookupDebian, GetIndex, Looking
  <2>2. stack' = stack \/ \E c : Begins(c)
    BY <1>4 DEF LookupRepo, LookupDebian, GetIndex
  <2>3. QED
    BY <1>1, <2>1, <2>2, ProtectedBegin
<1>5. ASSUME Publish \/ UNCHANGED vars PROVE ProtectedInv'
  <2>1. /\ run' = run /\ stack' = stack /\ ghost' = ghost /\ installed' = installed
        /\ known' = known
    BY <1>5 DEF Publish, vars
  <2>2. QED
    BY <1>1, <2>1, ProtectedKept
<1>6. ASSUME Done \/ Refuse \/ NeedFailed PROVE ProtectedInv'
  <2>1. /\ stack # <<>> /\ known' = known /\ run' = run /\ ghost' = ghost
        /\ \E r \in {0, 1} : Returns(r)
    BY <1>6, FrameFacts DEF Done, Refuse, NeedFailed, InCheck, InNeeds
  <2>2. QED
    BY <2>1, ReturnPops, ProtectedPop
<1>7. ASSUME DryInstall \/ InstallRepo \/ InstallConverted PROVE ProtectedInv'
  <2>1. stack # <<>> /\ Frame.rc \in {0, 1}
    BY <1>7, FrameFacts
       DEF DryInstall, InstallRepo, InstallConverted, Converting, Ready, InNeeds
  <2>2. \E got, r : r \in {0, 1} /\ Attempted(got, r)
    BY <1>7 DEF DryInstall, InstallRepo, InstallConverted
  <2>3. /\ known' = known /\ run' = run
        /\ ghost'.confirmed = ghost.confirmed /\ ghost'.before = ghost.before
    BY <2>2 DEF Attempted, TypeOK
  <2>4. \E r \in {0, 1} : Returns(r)
    BY <2>1, <2>2 DEF Attempted
  <2>5. QED
    BY <2>1, <2>3, <2>4, ReturnPops, ProtectedPop
<1>8. QED
  BY <1>2, <1>3, <1>4, <1>5, <1>6, <1>7, ProtectedCheck, ProtectedNeed DEF Next

-----------------------------------------------------------------------------
(* The theorems                                                            *)

\* The invariant holds at first.
LEMMA InvInit == Init => IInv
<1> SUFFICES ASSUME Init PROVE IInv
  OBVIOUS
<1>1. TypeOK
  BY TypeInit
<1>2. /\ stack = <<>> /\ Len(stack) = 0 /\ todo = <<>> /\ index = NONE /\ known = {}
      /\ ~run.on
  BY DEF Init, NoRun
<1>3. StackInv
  BY <1>2 DEF StackInv
<1>4. HeldInv /\ OutcomeInv /\ ProtectedInv
  BY <1>2 DEF HeldInv, OutcomeInv, ProtectedInv
<1>5. QED
  BY <1>1, <1>3, <1>4 DEF IInv

\* Every step keeps the invariant.
LEMMA InvStep == IInv /\ [Next]_vars => IInv'
BY TypeStep, StackStep, HeldStep, OutcomeStep, ProtectedStep DEF IInv

\* The invariant holds in every state of every behaviour, whatever the index, the
\* repository, the protected list and the command lines are.
THEOREM Inductive == Spec => []IInv
<1>1. QED
  BY InvInit, InvStep, PTL DEF Spec

\* The variables keep their types: what install_candidate calls itself with is a
\* candidate of a package that can be had.
THEOREM TypeCorrect == Spec => []TypeOK
<1>1. IInv => TypeOK
  BY DEF IInv
<1>2. QED
  BY <1>1, Inductive, PTL

\* Whatever circles the index contains, install_candidate is never under way
\* twice for one package.
THEOREM NeverReenteredHolds == Spec => []NeverReentered
<1>1. IInv => NeverReentered
  BY InvNeverReentered DEF IInv
<1>2. QED
  BY <1>1, Inductive, PTL

\* Everything written into a package as a dependency is installed when pacman
\* is given it, unless it had failed for an earlier name.
THEOREM InOrderHolds == Spec => []InOrder
<1>1. IInv => InOrder
  BY InvInOrder DEF IInv
<1>2. QED
  BY <1>1, Inductive, PTL

\* Nothing is installed for a name from Debian from which the index leads to a
\* protected package, nor for a protected name of [oryx], unless the user allowed
\* it.  What pacman -S brings along with a name of [oryx] is not looked at.
THEOREM RefusedUntouchedHolds == Spec => []RefusedUntouched
<1>1. IInv => RefusedUntouched
  BY DEF IInv, ProtectedInv, RefusedUntouched
<1>2. QED
  BY <1>1, Inductive, PTL

\* Only the installs change what is installed: the package itself, and what
\* pacman -S brings along.
LEMMA InstallSteps ==
  ASSUME IInv, [Next]_vars, installed' # installed
  PROVE  \/ /\ InstallRepo
            /\ Attempted({Frame.cand.name} \cup RepoDeps[Frame.cand.name], 0)
         \/ InstallConverted /\ Attempted({Frame.cand.name}, 0)
<1>1. ASSUME NEW names \in Targets, NEW allow \in BOOLEAN, NEW dry \in BOOLEAN,
             Start(names, allow, dry)
      PROVE  FALSE
  BY <1>1 DEF Start
<1>2. ASSUME \/ LookupRepo \/ GetIndex \/ GetIndexKilled \/ LookupDebian
             \/ End \/ Killed \/ Publish
      PROVE  FALSE
  BY <1>2 DEF LookupRepo, GetIndex, GetIndexKilled, LookupDebian, End, Killed, Publish
<1>3. ASSUME \/ Done \/ Check \/ Refuse \/ Need \/ NeedFailed
             \/ FetchRefused \/ FetchKilled
      PROVE  FALSE
  BY <1>3 DEF Done, Check, Refuse, Need, NeedFailed, FetchRefused, FetchKilled
<1>4. ~UNCHANGED vars
  BY DEF vars
<1>5. ASSUME NEW r, Attempted({}, r) PROVE FALSE
  BY <1>5 DEF Attempted
<1>6. ~DryInstall
  BY <1>5 DEF DryInstall
<1>7. CASE InstallRepo
  BY <1>5, <1>7 DEF InstallRepo
<1>8. CASE InstallConverted
  BY <1>5, <1>8 DEF InstallConverted
<1>9. QED
  BY <1>1, <1>2, <1>3, <1>4, <1>6, <1>7, <1>8 DEF Next

\* The package that is installed was asked about when it is a protected one.
LEMMA ReadyConfirmed ==
  ASSUME IInv, Ready, ~run.dry
  PROVE  {Frame.cand.name} \cap Protected \subseteq ghost.confirmed
<1>1. TypeOK /\ ProtectedInv /\ run.on /\ stack # <<>> /\ Frame.at = "needs"
  BY DEF IInv, Ready, InNeeds
<1>2. Len(stack) \in 1..Len(stack) /\ Frame = stack[Len(stack)]
  BY <1>1, TopFacts
<1>3. QED
  BY <1>1, <1>2 DEF ProtectedInv

\* A protected package is installed only after the user typed a name, unless
\* pacman -S brought it along.
THEOREM ProtectedConfirmedHolds == Spec => ProtectedConfirmed
<1>1. ASSUME IInv, [Next]_vars
      PROVE  (installed' \ installed) \cap Protected
                \subseteq ghost'.confirmed \cup ghost'.pulled
  <2>1. CASE installed' = installed
    BY <2>1
  <2>2. CASE installed' # installed
    <3>1. Ready /\ ~run.dry /\ \E got : Attempted(got, 0)
      BY <1>1, <2>2, InstallSteps DEF InstallRepo, InstallConverted, Converting
    <3>2. PICK got : Attempted(got, 0)
      BY <3>1
    <3>3. /\ installed' = installed \cup got
          /\ ghost'.confirmed = ghost.confirmed
          /\ ghost'.pulled = ghost.pulled \cup (got \ {Frame.cand.name})
      BY <1>1, <3>2 DEF Attempted, IInv, TypeOK
    <3>4. {Frame.cand.name} \cap Protected \subseteq ghost.confirmed
      BY <1>1, <3>1, ReadyConfirmed
    <3>5. QED
      BY <3>3, <3>4
  <2>3. QED
    BY <2>1, <2>2
<1>2. IInv /\ [Next]_vars =>
        [(installed' \ installed) \cap Protected
            \subseteq ghost'.confirmed \cup ghost'.pulled]_vars
  BY <1>1
<1>3. QED
  BY <1>2, Inductive, PTL DEF ProtectedConfirmed, Spec

\* A package that is not [oryx]'s own is installed only from the very file that
\* the verified index names.
THEOREM OnlyVerifiedHolds == Spec => OnlyVerified
<1>1. ASSUME IInv, [Next]_vars, NEW n \in installed' \ (installed \cup Repo)
      PROVE  /\ debs'[n] = index /\ index = packages /\ index = inrelease
             /\ index \in Version
  <2>1. CASE InstallRepo /\ Attempted({Frame.cand.name} \cup RepoDeps[Frame.cand.name], 0)
    <3>1. stack # <<>> /\ Frame.cand.repo
      BY <2>1 DEF InstallRepo, Ready, InNeeds
    <3>2. Frame.cand.name \in Repo
      BY <1>1, <3>1, FrameFacts DEF IInv
    <3>3. RepoDeps[Frame.cand.name] \subseteq Repo
      BY <3>2, GetAssumption
    <3>4. QED
      BY <2>1, <3>2, <3>3 DEF Attempted
  <2>2. CASE InstallConverted /\ Attempted({Frame.cand.name}, 0)
    <3>1. stack # <<>> /\ ~Frame.cand.repo
      BY <2>2 DEF InstallConverted, Converting, Ready, InNeeds
    <3>2. TypeOK /\ StackInv /\ HeldInv
      BY <1>1 DEF IInv
    <3>3. index # NONE
      <4>1. Len(stack) \in 1..Len(stack) /\ Frame = stack[Len(stack)]
        BY <3>1, <3>2, TopFacts
      <4>2. QED
        BY <3>1, <3>2, <4>1 DEF StackInv
    <3>4. index = packages /\ index = inrelease /\ index \in Version
      BY <3>2, <3>3 DEF HeldInv, TypeOK
    <3>5. n = Frame.cand.name
      BY <2>2 DEF Attempted
    <3>6. Frame.cand.name \in Index
      BY <3>1, <3>2, FrameFacts
    <3>7. debs' = [debs EXCEPT ![Frame.cand.name] = index]
      BY <2>2 DEF InstallConverted
    <3>8. debs'[n] = index
      BY <3>2, <3>5, <3>6, <3>7 DEF TypeOK
    <3>9. QED
      BY <3>4, <3>8
  <2>3. QED
    BY <1>1, <2>1, <2>2, InstallSteps
<1>2. IInv /\ [Next]_vars =>
        [\A n \in installed' \ (installed \cup Repo) :
           /\ debs'[n] = index /\ index = packages /\ index = inrelease
           /\ index \in Version]_vars
  BY <1>1
<1>3. QED
  BY <1>2, Inductive, PTL DEF OnlyVerified, Spec

\* A run that ends with status 0 has every name it was given installed.
THEOREM ExitHonestHolds == Spec => ExitHonest
<1>1. ASSUME IInv, End, ~run.dry, rc = 0
      PROVE  ToSet(run.names) \subseteq installed
  <2>1. run.on /\ todo = <<>>
    BY <1>1 DEF End
  <2>2. ToSet(run.names) \subseteq installed \cup ToSet(todo)
    BY <1>1, <2>1 DEF IInv, OutcomeInv
  <2>3. ToSet(todo) = {}
    BY <2>1 DEF ToSet
  <2>4. QED
    BY <2>2, <2>3
<1>2. QED
  BY <1>1, Inductive, PTL DEF ExitHonest

=============================================================================
