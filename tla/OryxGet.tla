------------------------------ MODULE OryxGet -------------------------------
(***************************************************************************)
(* oryx-get (bin/oryx-get): runs that look packages up in the [oryx]       *)
(* repository and then in Debian's index, and install them depth first,    *)
(* dependencies before what needs them; the protected list; and the cache  *)
(* of downloads, which outlives a run, in front of a mirror that moves on. *)
(*                                                                         *)
(* pacman is external: -U refuses a package whose declared dependencies    *)
(* are not installed, -S brings a package's own dependencies along.        *)
(***************************************************************************)
EXTENDS Integers, Sequences, FiniteSets, SequencesExt

CONSTANTS
  Deps,       \* Debian's index: a name's dependencies, in order
  RepoDeps,   \* [oryx]: what pacman -S brings along with each of its names
  Initially,  \* what is installed at first
  Protected,  \* the [protected] list
  Targets,    \* the command lines: sequences of names
  MaxRuns,    \* bound: how often oryx-get is run
  MaxVersion  \* bound: how often the mirror moves on

Index == DOMAIN Deps
Repo == DOMAIN RepoDeps
Available == Index \cup Repo
Names == Available \cup Initially

ASSUME GetAssumption ==
  /\ IsFiniteSet(Available)
  /\ Deps \in [Index -> Seq(STRING)]
  /\ \A n \in Repo : RepoDeps[n] \subseteq Repo
  /\ \A names \in Targets : names \in Seq(STRING)
  /\ MaxRuns \in Nat /\ MaxVersion \in Nat \ {0}

NONE == 0
BAD == -1
Version == 1..MaxVersion

VARIABLES
  server,     \* the version the mirror serves
  inrelease, packages,   \* the cached index files: absent, of a version, or bad
  debs,       \* the cached packages
  installed,  \* pacman's
  runs,       \* runs left
  run,        \* the flags of the run under way, or NoRun
  index,      \* the version of the index the run holds, verified
  known,      \* DebianSource._installed, read once a run
  todo,       \* the names still to be looked up
  stack,      \* install_candidate's activations, the innermost last
  done,       \* its set
  rc,         \* main's
  ghost       \* of the run: names confirmed, installs that failed, names that
              \* pacman -S brought along; what was installed, and what had failed,
              \* when the name being worked on was begun

cache == <<inrelease, packages, debs>>
vars == <<server, cache, installed, runs, run, index, known, todo, stack, done,
          rc, ghost>>

NoRun == [on |-> FALSE, names |-> <<>>, allow |-> FALSE, dry |-> FALSE]
Ghost(before) == [confirmed |-> {}, failed |-> {}, pulled |-> {},
                  before |-> before, lost |-> {}]

Cand(name, seen, repo) == [name |-> name, seen |-> seen, repo |-> repo]
Candidates == [name: Repo, seen: SUBSET Available, repo: {TRUE}]
          \cup [name: Index \ Repo, seen: SUBSET Available, repo: {FALSE}]

Init ==
  /\ server = 1
  /\ inrelease = NONE /\ packages = NONE
  /\ debs = [n \in Index |-> NONE]
  /\ installed = Initially
  /\ runs = MaxRuns
  /\ run = NoRun /\ index = NONE /\ known = {}
  /\ todo = <<>> /\ stack = <<>> /\ done = {} /\ rc = 0
  /\ ghost = Ghost(Initially)

-----------------------------------------------------------------------------
(* Candidates: _build_candidate and find_protected                         *)

Debian(d) == d \notin known /\ d \notin Repo

\* Mutant: the path is not looked at.
CutUnknown(c, d) == Debian(d) /\ d \notin Index

\* The cycle guard drops a dependency that is on the path already.
Cut(c, d) == Debian(d) /\ (d \notin Index \/ d \in c.seen \cup {c.name})

\* The members of a sequence that are in S, in their order.
Those(s, S) ==
  LET those[i \in 0..Len(s)] ==
        IF i = 0 THEN <<>>
        ELSE IF s[i] \in S THEN Append(those[i - 1], s[i]) ELSE those[i - 1]
  IN  those[Len(s)]

\* A candidate's dependencies: what pacman has comes before what Debian has.
Kept(c) ==
  IF c.repo THEN <<>>
  ELSE Those(Deps[c.name], (known \cup Repo) \ {c.name})
         \o Those(Deps[c.name], {d \in Index : Debian(d) /\ ~Cut(c, d)})

\* Those to be installed first, and all of them, as written into the package.
Needs(c) ==
  LET new == Those(Kept(c), Available \ known)
  IN  [i \in DOMAIN new |-> Cand(new[i], c.seen \cup {c.name}, new[i] \in Repo)]
Declared(c) == ToSet(Kept(c))

\* protected.py's walk: the names seen once the candidates in work, and all
\* they need, are visited; a name is visited once.
Visited[x \in [work: Seq(Candidates), seen: SUBSET Available]] ==
  IF x.work = <<>> THEN x.seen
  ELSE IF Head(x.work).name \in x.seen
    THEN Visited[[work |-> Tail(x.work), seen |-> x.seen]]
    ELSE Visited[[work |-> Needs(Head(x.work)) \o Tail(x.work),
                  seen |-> x.seen \cup {Head(x.work).name}]]

\* Mutant: the package and what it needs directly are looked up in the list.
find_protected_near(c) == ({c.name} \cup {d.name : d \in ToSet(Needs(c))}) \cap Protected

\* The protected names in a candidate's tree.
find_protected(c) == Visited[[work |-> <<c>>, seen |-> {}]] \cap Protected

-----------------------------------------------------------------------------
(* main                                                                    *)

Start(names, allow, dry) ==
  /\ ~run.on /\ runs > 0
  /\ runs' = runs - 1
  /\ run' = [on |-> TRUE, names |-> names, allow |-> allow, dry |-> dry]
  /\ todo' = names
  /\ index' = NONE /\ known' = {} /\ stack' = <<>> /\ done' = {} /\ rc' = 0
  /\ ghost' = Ghost(installed)
  /\ UNCHANGED <<server, cache, installed>>

Looking == run.on /\ stack = <<>> /\ todo # <<>>
Activation(c) == [cand |-> c, at |-> "check", next |-> 1, rc |-> 0]

Begins(c) ==
  /\ stack' = <<Activation(c)>>
  /\ ghost' = [ghost EXCEPT !.before = installed, !.lost = ghost.failed]

LookupRepo ==
  /\ Looking /\ Head(todo) \in Repo
  /\ Begins(Cand(Head(todo), {}, TRUE))
  /\ UNCHANGED <<server, cache, installed, runs, run, index, known, todo, done, rc>>

NotFound == todo' = Tail(todo) /\ rc' = 1

\* Mutant: what the signed file says of the Packages file is not compared.
UnverifiedIndex(ir, pk) == ir # BAD

\* Packages is checked against the hash in the signed InRelease.
VerifiedIndex(ir, pk) == ir # BAD /\ pk = ir

\* The end, an exception nobody catches, or a kill: what is on disk stays.
Ends == run' = NoRun /\ stack' = <<>> /\ todo' = <<>>

\* What a file is once fetched: one in the cache is not asked for again.
InCache(file) == IF file = NONE THEN {server, BAD} ELSE {file}

\* _get_index.  A Packages file that does not match is removed, an InRelease
\* file never is.
GetIndex ==
  /\ Looking /\ Head(todo) \notin Repo /\ index = NONE
  /\ \E ir \in InCache(inrelease), pk \in InCache(packages) :
       /\ inrelease' = ir
       /\ \/ /\ VerifiedIndex(ir, pk)
             /\ packages' = pk /\ index' = pk
             /\ UNCHANGED <<todo, rc>>
          \/ /\ ~VerifiedIndex(ir, pk)
             /\ packages' = IF ir = BAD THEN packages ELSE NONE
             /\ NotFound
             /\ UNCHANGED index
  /\ UNCHANGED <<server, debs, installed, runs, run, known, stack, done, ghost>>

\* Killed with the files on disk and not verified.
GetIndexKilled ==
  /\ Looking /\ Head(todo) \notin Repo /\ index = NONE
  /\ inrelease' \in InCache(inrelease)
  /\ packages' \in {packages} \cup InCache(packages)
  /\ Ends /\ rc' = 1
  /\ UNCHANGED <<server, debs, installed, runs, index, known, done, ghost>>

LookupDebian ==
  /\ Looking /\ Head(todo) \notin Repo /\ index # NONE
  /\ IF Head(todo) \in Index
       THEN /\ known' = IF known = {} THEN installed ELSE known
            /\ Begins(Cand(Head(todo), {}, FALSE))
            /\ UNCHANGED <<todo, rc>>
       ELSE NotFound /\ UNCHANGED <<known, stack, ghost>>
  /\ UNCHANGED <<server, cache, installed, runs, run, index, done>>

End ==
  /\ run.on /\ stack = <<>> /\ todo = <<>>
  /\ Ends
  /\ UNCHANGED <<server, cache, installed, runs, index, known, done, rc, ghost>>

Killed ==
  /\ run.on
  /\ Ends /\ rc' = 1
  /\ UNCHANGED <<server, cache, installed, runs, index, known, done, ghost>>

Publish ==
  /\ server < MaxVersion
  /\ server' = server + 1
  /\ UNCHANGED <<cache, installed, runs, run, index, known, todo, stack, done, rc,
                 ghost>>

-----------------------------------------------------------------------------
(* install_candidate                                                       *)

Depth == Len(stack)
Frame == stack[Depth]
Caller == [stack[Depth - 1] EXCEPT !.next = @ + 1]

\* Mutant: main keeps the last result only.
ReturnsLast(r) ==
  IF Depth = 1
    THEN stack' = <<>> /\ todo' = Tail(todo) /\ rc' = r
    ELSE /\ stack' = Append(SubSeq(stack, 1, Depth - 2),
                            [Caller EXCEPT !.rc = IF r # 0 THEN r ELSE @])
         /\ UNCHANGED <<todo, rc>>

\* rc = install_candidate(...) or rc, in a caller and in main.
Returns(r) ==
  IF Depth = 1
    THEN stack' = <<>> /\ todo' = Tail(todo) /\ rc' = (IF r # 0 THEN r ELSE rc)
    ELSE /\ stack' = Append(SubSeq(stack, 1, Depth - 2),
                            [Caller EXCEPT !.rc = IF r # 0 THEN r ELSE @])
         /\ UNCHANGED <<todo, rc>>

InCheck == run.on /\ stack # <<>> /\ Frame.at = "check"

\* Already attempted in this run.
Done ==
  /\ InCheck /\ Frame.cand.name \in done
  /\ Returns(0)
  /\ UNCHANGED <<server, cache, installed, runs, run, index, known, done, ghost>>

Hits == find_protected(Frame.cand)

\* Mutant: --allow-protected is as good as an answer.
AllowedUnasked == {}

\* What the user confirms when asked; a dry run does not ask.
Confirmed == IF run.dry THEN {} ELSE Hits

Check ==
  /\ InCheck /\ Frame.cand.name \notin done
  /\ Hits = {} \/ run.allow
  /\ stack' = [stack EXCEPT ![Depth].at = "needs"]
  /\ ghost' = [ghost EXCEPT !.confirmed = @ \cup Confirmed]
  /\ UNCHANGED <<server, cache, installed, runs, run, index, known, todo, done, rc>>

\* Not allowed, or not confirmed.
Refuse ==
  /\ InCheck /\ Frame.cand.name \notin done
  /\ Hits # {} /\ ~(run.allow /\ run.dry)
  /\ Returns(1)
  /\ UNCHANGED <<server, cache, installed, runs, run, index, known, done, ghost>>

InNeeds == run.on /\ stack # <<>> /\ Frame.at = "needs"

\* Mutant: the next dependency is tried although one has failed.
FailedIgnored == FALSE

Failed == Frame.rc # 0 /\ ~run.dry

Need ==
  /\ InNeeds /\ ~Failed /\ Frame.next <= Len(Needs(Frame.cand))
  /\ stack' = Append(stack, Activation(Needs(Frame.cand)[Frame.next]))
  /\ UNCHANGED <<server, cache, installed, runs, run, index, known, todo, done, rc,
                 ghost>>

NeedFailed ==
  /\ InNeeds /\ Failed
  /\ Returns(Frame.rc)
  /\ UNCHANGED <<server, cache, installed, runs, run, index, known, done, ghost>>

Ready == InNeeds /\ ~Failed /\ Frame.next > Len(Needs(Frame.cand))

\* cmd_install_*: got is what pacman installed, nothing when it refused or the
\* run is dry.  The name is done either way.
Attempted(got, r) ==
  /\ installed' = installed \cup got
  /\ done' = done \cup {Frame.cand.name}
  /\ ghost' = [ghost EXCEPT !.failed = IF r # 0 THEN @ \cup {Frame.cand.name} ELSE @,
                            !.pulled = @ \cup (got \ {Frame.cand.name})]
  /\ Returns(IF r # 0 THEN r ELSE Frame.rc)
  /\ UNCHANGED <<server, inrelease, packages, runs, run, index, known>>

DryInstall ==
  /\ Ready /\ run.dry
  /\ Attempted({}, 0)
  /\ UNCHANGED debs

InstallRepo ==
  /\ Ready /\ ~run.dry /\ Frame.cand.repo
  /\ \/ Attempted({Frame.cand.name} \cup RepoDeps[Frame.cand.name], 0)
     \/ Attempted({}, 1)
  /\ UNCHANGED debs

Converting == Ready /\ ~run.dry /\ ~Frame.cand.repo

\* The package as it is in the cache once fetched.  The mirror has it only in
\* the version it serves.
Fetched(n) == IF debs[n] # NONE THEN {debs[n]}
              ELSE {BAD} \cup ({server} \cap {index})

InstallConverted ==
  /\ Converting
  /\ \E deb \in Fetched(Frame.cand.name) :
       /\ deb = index
       /\ debs' = [debs EXCEPT ![Frame.cand.name] = deb]
       /\ \/ /\ Declared(Frame.cand) \subseteq installed
             /\ Attempted({Frame.cand.name}, 0)
          \/ Attempted({}, 1)

\* A hash that does not match: the file is removed and the exception ends the
\* run.
FetchRefused ==
  /\ Converting
  /\ \E deb \in Fetched(Frame.cand.name) : deb # index
  /\ debs' = [debs EXCEPT ![Frame.cand.name] = NONE]
  /\ Ends /\ rc' = 1
  /\ UNCHANGED <<server, inrelease, packages, installed, runs, index, known, done,
                 ghost>>

\* urlretrieve writes under the final name: a kill leaves part of the file.
FetchKilled ==
  /\ Converting /\ debs[Frame.cand.name] = NONE
  /\ debs' = [debs EXCEPT ![Frame.cand.name] = BAD]
  /\ Ends /\ rc' = 1
  /\ UNCHANGED <<server, inrelease, packages, installed, runs, index, known, done,
                 ghost>>

Next ==
  \/ \E names \in Targets, allow, dry \in BOOLEAN : Start(names, allow, dry)
  \/ LookupRepo \/ GetIndex \/ GetIndexKilled \/ LookupDebian
  \/ End \/ Killed \/ Publish
  \/ Done \/ Check \/ Refuse \/ Need \/ NeedFailed
  \/ DryInstall \/ InstallRepo \/ InstallConverted \/ FetchRefused \/ FetchKilled

Spec == Init /\ [][Next]_vars

-----------------------------------------------------------------------------
(* Properties                                                              *)

Frames ==
  [cand: Candidates, at: {"check", "needs"}, next: Nat \ {0}, rc: {0, 1}]

\* The types of the variables.
TypeOK ==
  /\ server \in Version
  /\ {inrelease, packages} \subseteq Version \cup {NONE, BAD}
  /\ debs \in [Index -> Version \cup {NONE, BAD}]
  /\ installed \subseteq Names /\ known \subseteq Names /\ done \subseteq Names
  /\ runs \in 0..MaxRuns /\ rc \in {0, 1} /\ index \in Version \cup {NONE}
  /\ run \in [on: BOOLEAN, names: Seq(STRING), allow: BOOLEAN, dry: BOOLEAN]
  /\ todo \in Seq(STRING)
  /\ stack \in Seq(Frames)
  /\ ghost \in [confirmed: SUBSET Names, failed: SUBSET Names, pulled: SUBSET Names,
               before: SUBSET Names, lost: SUBSET Names]

\* However Debian's dependencies turn in circles, install_candidate is never
\* under way twice for one package: _build_candidate cut the tree on every
\* path, so the recursion ends.
NeverReentered ==
  \A i, j \in DOMAIN stack : stack[i].cand.name = stack[j].cand.name => i = j

\* A set of names that holds, with n and with each Debian package in it, what
\* that one depends on, can be had and is not installed.
Closed(n, S) ==
  \A m \in S \cap Index : n = m \/ Debian(m) =>
    (ToSet(Deps[m]) \cap Available) \ known \subseteq S

\* What the index says a package brings along when nothing is cut: what is in
\* every set that is closed and holds the package.
Reachable(n) ==
  {m \in Available : \A S \in SUBSET Available : n \in S /\ Closed(n, S) => m \in S}

\* And a candidate of either kind, as far as oryx-get can tell.
Brings(c) == IF c.repo THEN {c.name} ELSE Reachable(c.name)

\* Refused means untouched, one whole tree at a time: without --allow-protected,
\* a name from Debian from which the index leads to a protected package, however
\* many packages lie between and wherever the tree was cut, ends with nothing of it
\* installed, not even the dependencies that come before the protected one; a
\* name from [oryx] only if it is protected itself.  What pacman -S brings along
\* with a name of [oryx] is in no tree, and nothing refuses it.
RefusedUntouched ==
  run.on /\ ~run.allow /\ stack # <<>> /\ installed # ghost.before
  => Brings(stack[1].cand) \cap Protected = {}

\* A protected package appears on the machine only after the user typed a
\* name: --allow-protected alone is not enough.  What pacman -S brings along
\* by itself escapes oryx-get's check and is the exception.
ProtectedConfirmed ==
  [][(installed' \ installed) \cap Protected
       \subseteq ghost'.confirmed \cup ghost'.pulled]_vars

\* Dependencies land first: when a converted package is handed to pacman -U,
\* everything written into it as a dependency is installed, whatever was
\* skipped as done on another path; unless it failed for an earlier name of
\* this run, which install_candidate's done set does not tell apart.
InOrder ==
  Converting => Declared(Frame.cand) \subseteq installed \cup ghost.lost

\* A run that ends by itself with status 0, and is not a dry one, has every
\* name it was given installed, the ones before the last too.
ExitHonest ==
  [][End /\ ~run.dry /\ rc = 0 => ToSet(run.names) \subseteq installed]_vars

\* The chain of trust over runs, kills and a mirror that moves on: a package
\* converted and installed is the very file named by the index, which is the
\* one named by the signed InRelease file in the cache.
OnlyVerified ==
  [][\A n \in installed' \ (installed \cup Repo) :
       /\ debs'[n] = index /\ index = packages /\ index = inrelease
       /\ index \in Version]_vars
=============================================================================
