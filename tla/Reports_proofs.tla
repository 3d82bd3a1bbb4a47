---------------------------- MODULE Reports_proofs ----------------------------
(***************************************************************************)
(* Proofs about the two tools whose reports others take as evidence:       *)
(* ProductTerms and Supervisor.  Neither says more than was so.            *)
(*                                                                         *)
(* ProductTerms, for any set of sources, packages and wordings, and        *)
(* however often the sources change: a capture resolves only to reviewed   *)
(* terms that the venue showed during all of it.  A retained revision v of *)
(* a source is the last one that began before the response, so revisions   *)
(* up to v began by the completion of the observation and later ones not   *)
(* before its start (Seen).  Between the completion of the opening and the *)
(* start of the closing observation both say v, so exactly the revisions   *)
(* 1..v have begun (BracketHolds).                                         *)
(*                                                                         *)
(* Supervisor, for any group of descendants, any graces and any number of  *)
(* failed calls: what a published report says is so.  Each step of the     *)
(* teardown leaves a record through Go (GoEffect), and the record only     *)
(* ever claims what is so and stays so: a quiescent group cannot fork, a   *)
(* reaped child stays gone, a member is only ended by itself or by a       *)
(* signal the record calls attempted.  Settled then makes the claim        *)
(* complete before the report is written.                                  *)
(***************************************************************************)
EXTENDS ProductTerms, Supervisor, FiniteSetTheorems, TLAPS

-----------------------------------------------------------------------------
(* ProductTerms: the inductive invariant, in named parts.                  *)

\* The revisions of a source, numbered from 1, each with when it began.
Revised(h, t) == \E k \in Nat : h \in [1..k -> 0..t]

\* Revision v of a source: those up to v began by `until', the others not
\* before `from'.
Seen(h, v, from, until) ==
    /\ v \in Nat
    /\ 1..v \subseteq DOMAIN h
    /\ \A i \in 1..v : h[i] <= until
    /\ \A i \in DOMAIN h \ (1..v) : h[i] >= from

SourcesOK ==
    /\ now \in Nat
    /\ began = [s \in Sources |-> began[s]]
    /\ \A s \in Sources : Revised(began[s], now)

\* The fields of a running fetch that steps replace.
IsFetch(f) == {"started", "asked", "retained", "source", "response"} \subseteq DOMAIN f

FetchOK ==
    (fetch # Absent) =>
        /\ IsFetch(fetch)
        /\ fetch.started \in 0..now
        /\ fetch.asked \subseteq Sources
        /\ \A s \in DOMAIN fetch.retained :
              s \in Sources /\ Seen(began[s], fetch.retained[s], fetch.started, now)
        /\ (fetch.source # NoSource) =>
              /\ fetch.source \in Sources
              /\ Seen(began[fetch.source], fetch.response, fetch.started, now)

\* An observation that was published.
Sound(obs) ==
    /\ obs.started \in 0..now
    /\ obs.completed \in 0..now
    /\ \A s \in DOMAIN obs.sources :
          s \in Sources /\ Seen(began[s], obs.sources[s], obs.started, obs.completed)

ObservedOK == \A obs \in observed : Sound(obs)

\* A package directory has a place for each document.
IsPackage(d) == {"manifest", "terms", "map", "review"} \subseteq DOMAIN d

\* A manifest is made of two published observations.
ManifestOK(d) ==
    (d.manifest # Absent) => d.manifest.opening \in observed /\ d.manifest.closing \in observed

Sealed(d) == [manifest |-> d.manifest, terms |-> d.terms, map |-> d.map]

\* A review that can be read seals what a review command was given.
ReviewOK(d) == Present(d.review) => Sealed(d.review) \in sealed

PackagesOK ==
    /\ package = [p \in Packages |-> package[p]]
    /\ \A p \in Packages :
          IsPackage(package[p]) /\ ManifestOK(package[p]) /\ ReviewOK(package[p])

CatalogOK == \A e \in catalog : e.package \in Packages

TermsInv == SourcesOK /\ FetchOK /\ ObservedOK /\ PackagesOK /\ CatalogOK

-----------------------------------------------------------------------------
(* Lemmas about the history of one source.                                 *)

LEMMA CountTo ==
    ASSUME NEW k \in Nat
    PROVE  Cardinality(1..k) = k
<1>1. 1 \in Int /\ k \in Int
  OBVIOUS
<1>2. Cardinality(1..k) = IF 1 > k THEN 0 ELSE k - 1 + 1
  BY <1>1, FS_Interval
<1> QED
  BY <1>2

\* What a source serves is the latest of its revisions, all of them begun.
LEMMA ServesSeen ==
    ASSUME SourcesOK, NEW s \in Sources, NEW from \in 0..now
    PROVE  Seen(began[s], Serves(s), from, now)
<1>1. PICK k \in Nat : began[s] \in [1..k -> 0..now]
  BY DEF SourcesOK, Revised
<1>2. DOMAIN began[s] = 1..k
  BY <1>1
<1>3. Serves(s) = k
  BY <1>1, <1>2, CountTo DEF Serves
<1>4. now \in Nat
  BY DEF SourcesOK
<1> QED
  BY <1>1, <1>2, <1>3, <1>4 DEF Seen

\* What was seen stays seen when time passes.
LEMMA SeenLater ==
    ASSUME NEW n \in Nat, NEW h, Revised(h, n), NEW v, NEW from,
           NEW t \in Nat, NEW u \in Nat, t <= u, Seen(h, v, from, t)
    PROVE  Seen(h, v, from, u)
<1>1. \A i \in DOMAIN h : h[i] \in Int
  BY DEF Revised
<1> QED
  BY <1>1 DEF Seen

\* A revision that begins now is after everything that was seen.
LEMMA SeenBeforeNew ==
    ASSUME NEW n \in Nat, NEW k \in Nat, NEW h \in [1..k -> 0..n], NEW v,
           NEW from \in 0..n, NEW until, Seen(h, v, from, until)
    PROVE  Seen([r \in 1..(k + 1) |-> IF r = k + 1 THEN n ELSE h[r]], v, from, until)
<1> DEFINE g == [r \in 1..(k + 1) |-> IF r = k + 1 THEN n ELSE h[r]]
<1>1. v \in Nat /\ v <= k
  BY DEF Seen
<1>2. \A i \in 1..v : g[i] = h[i]
  BY <1>1
<1>3. \A i \in DOMAIN g \ (1..v) : g[i] >= from
  <2>1. ASSUME NEW i \in 1..(k + 1), i \notin 1..v PROVE g[i] >= from
    <3>1. CASE i = k + 1
      BY <3>1
    <3>2. CASE i # k + 1
      <4>1. i \in 1..k /\ g[i] = h[i]
        BY <3>2
      <4> QED
        BY <2>1, <4>1 DEF Seen
    <3> QED
      BY <3>1, <3>2
  <2> QED
    BY <2>1
<1>4. 1..v \subseteq DOMAIN g
  BY <1>1
<1> QED
  BY <1>1, <1>2, <1>3, <1>4 DEF Seen

\* Between the end of one observation and the start of a later one that retain
\* the same revision, the source said that revision and nothing else.
LEMMA BracketHolds ==
    ASSUME SourcesOK, NEW s \in Sources, NEW v, NEW f1, NEW u1 \in Nat,
           NEW f2 \in Nat, NEW u2, NEW t \in Nat,
           Seen(began[s], v, f1, u1), Seen(began[s], v, f2, u2), u1 <= t, t < f2
    PROVE  Said(s, t) = v
<1>1. PICK k \in Nat : began[s] \in [1..k -> 0..now]
  BY DEF SourcesOK, Revised
<1>2. \A i \in DOMAIN began[s] : began[s][i] \in Int
  BY <1>1 DEF SourcesOK
<1>3. v \in Nat /\ 1..v \subseteq DOMAIN began[s]
  BY DEF Seen
<1>4. {r \in DOMAIN began[s] : began[s][r] <= t} = 1..v
  <2>1. ASSUME NEW r \in DOMAIN began[s], began[s][r] <= t PROVE r \in 1..v
    BY <1>2, <2>1 DEF Seen
  <2>2. ASSUME NEW r \in 1..v PROVE began[s][r] <= t
    BY <1>2, <1>3 DEF Seen
  <2> QED
    BY <1>3, <2>1, <2>2
<1> QED
  BY Zenon, <1>3, <1>4, CountTo DEF Said

-----------------------------------------------------------------------------
(* The steps.                                                              *)

\* Time passes, or a source changes, or neither.
LEMMA MovesOfSources ==
    ASSUME [TermsNext]_termsVars
    PROVE  \/ ClockTicks
           \/ \E s \in Sources : SourceChanges(s)
           \/ UNCHANGED <<now, began>>
<1>1. CASE UNCHANGED termsVars
  BY <1>1 DEF termsVars
<1>2. CASE TermsNext
  BY ZenonT(30), <1>2 DEF TermsNext, Responds, FetchStarts, Retains, FetchPublishes, FetchFails,
              Assemble, BuildTerms, BuildMap, ReviewTerms, Build, Removed, Catalogued
<1> QED
  BY <1>1, <1>2

\* The history of the sources stays well-formed, and what was seen stays seen.
LEMMA SourcesStep ==
    ASSUME SourcesOK, [TermsNext]_termsVars
    PROVE  /\ SourcesOK'
           /\ now <= now'
           /\ \A s \in Sources : \A v, until : \A from \in 0..now :
                 Seen(began[s], v, from, until) => Seen(began'[s], v, from, until)
<1>0. now \in Nat
  BY DEF SourcesOK
<1>1. CASE ClockTicks
  <2>1. now' = now + 1 /\ began' = began
    BY <1>1 DEF ClockTicks
  <2>2. \A s \in Sources : Revised(began[s], now + 1)
    <3>1. 0..now \subseteq 0..(now + 1)
      BY <1>0
    <3> QED
      BY <3>1 DEF SourcesOK, Revised
  <2> QED
    BY <1>0, <2>1, <2>2 DEF SourcesOK
<1>2. ASSUME NEW s0 \in Sources, SourceChanges(s0)
      PROVE  /\ SourcesOK'
             /\ now' = now
             /\ \A s \in Sources : \A v, until : \A from \in 0..now :
                   Seen(began[s], v, from, until) => Seen(began'[s], v, from, until)
  <2>1. PICK k \in Nat : began[s0] \in [1..k -> 0..now]
    BY DEF SourcesOK, Revised
  <2>2. Serves(s0) = k
    BY <2>1, CountTo DEF Serves
  <2> DEFINE g == [r \in 1..(k + 1) |-> IF r = k + 1 THEN now ELSE began[s0][r]]
  <2>3. now' = now /\ began' = [began EXCEPT ![s0] = g]
    BY <1>2, <2>2 DEF SourceChanges
  <2>4. g \in [1..(k + 1) -> 0..now]
    BY <1>0, <2>1
  <2>5. Revised(g, now)
    BY <2>4 DEF Revised
  <2> HIDE DEF g
  <2>6. /\ began' = [s \in Sources |-> began'[s]]
        /\ \A s \in Sources : began'[s] = IF s = s0 THEN g ELSE began[s]
    BY <2>3 DEF SourcesOK
  <2>7. SourcesOK'
    BY <1>0, <2>3, <2>5, <2>6 DEF SourcesOK
  <2>8. ASSUME NEW v, NEW until, NEW from \in 0..now, Seen(began[s0], v, from, until)
        PROVE  Seen(g, v, from, until)
    BY <1>0, <2>1, <2>8, SeenBeforeNew DEF g
  <2> QED
    BY <2>3, <2>6, <2>7, <2>8
<1>3. CASE UNCHANGED <<now, began>>
  BY <1>0, <1>3 DEF SourcesOK
<1> QED
  BY <1>0, <1>1, <1>2, <1>3, MovesOfSources

\* A fetch starts, retains, ends, or goes on.
LEMMA MovesOfFetch ==
    ASSUME [TermsNext]_termsVars
    PROVE  \/ \E o \in Observations, asked \in SUBSET Sources : FetchStarts(o, asked)
           \/ \E s \in Sources : Responds(s)
           \/ Retains
           \/ fetch' = Absent
           \/ UNCHANGED fetch
<1>1. CASE UNCHANGED termsVars
  BY <1>1 DEF termsVars
<1>2. CASE TermsNext
  BY Zenon, <1>2 DEF TermsNext, ClockTicks, SourceChanges, FetchPublishes, FetchFails,
              Assemble, BuildTerms, BuildMap, ReviewTerms, Build, Removed, Catalogued
<1> QED
  BY <1>1, <1>2

\* What was seen by now was seen by the next step's now.
LEMMA SeenKept ==
    ASSUME SourcesOK, [TermsNext]_termsVars, NEW s \in Sources, NEW v, NEW from \in 0..now,
           Seen(began[s], v, from, now)
    PROVE  Seen(began'[s], v, from, now')
<1>1. Seen(began'[s], v, from, now) /\ SourcesOK' /\ now <= now'
  BY SourcesStep
<1>2. now \in Nat /\ now' \in Nat /\ Revised(began'[s], now')
  BY <1>1 DEF SourcesOK
<1> QED
  BY <1>1, <1>2, SeenLater

\* Whatever a fetch retains was served since it started.
LEMMA FetchStep ==
    ASSUME SourcesOK, FetchOK, [TermsNext]_termsVars
    PROVE  FetchOK'
<1>0. now \in Nat /\ now' \in Nat /\ now <= now'
  BY SourcesStep DEF SourcesOK
<1>1. ASSUME NEW o \in Observations, NEW asked \in SUBSET Sources, FetchStarts(o, asked)
      PROVE  FetchOK'
  <2>1. /\ fetch' = [kind |-> "fetch", observation |-> o, asked |-> asked,
                     started |-> now, retained |-> <<>>, source |-> NoSource, response |-> 0]
        /\ now' = now
    BY <1>1 DEF FetchStarts
  <2>2. IsFetch(fetch')
    BY <2>1 DEF IsFetch
  <2>3. DOMAIN fetch'.retained = {}
    BY <2>1
  <2> QED
    BY <1>0, <2>1, <2>2, <2>3 DEF FetchOK
<1>2. ASSUME NEW s \in Sources, Responds(s)
      PROVE  FetchOK'
  <2>1. /\ fetch # Absent
        /\ fetch' = [fetch EXCEPT !.source = s, !.response = Serves(s)]
        /\ now' = now /\ began' = began
    BY <1>2 DEF Responds
  <2>2. IsFetch(fetch) /\ fetch.started \in 0..now
    BY <2>1 DEF FetchOK
  <2>3. /\ fetch'.asked = fetch.asked /\ fetch'.started = fetch.started
        /\ fetch'.retained = fetch.retained
        /\ fetch'.source = s /\ fetch'.response = Serves(s)
        /\ DOMAIN fetch' = DOMAIN fetch
    BY <2>1, <2>2 DEF IsFetch
  <2>4. IsFetch(fetch')
    BY <2>2, <2>3 DEF IsFetch
  <2>5. Seen(began[s], Serves(s), fetch.started, now)
    BY <2>2, ServesSeen
  <2> QED
    BY <2>1, <2>3, <2>4, <2>5 DEF FetchOK
<1>3. CASE Retains
  <2> DEFINE kept == [s \in DOMAIN fetch.retained \cup {fetch.source} |->
                         IF s = fetch.source THEN fetch.response ELSE fetch.retained[s]]
  <2>1. /\ fetch # Absent /\ fetch.source # NoSource
        /\ fetch' = [fetch EXCEPT !.source = NoSource, !.response = 0, !.retained = kept]
        /\ now' = now /\ began' = began
    BY <1>3 DEF Retains
  <2>2. IsFetch(fetch)
    BY <2>1 DEF FetchOK
  <2>3. \A s \in DOMAIN kept :
           s \in Sources /\ Seen(began[s], kept[s], fetch.started, now)
    BY <2>1 DEF FetchOK
  <2> HIDE DEF kept
  <2>4. /\ fetch'.asked = fetch.asked /\ fetch'.started = fetch.started
        /\ fetch'.retained = kept /\ fetch'.source = NoSource
        /\ DOMAIN fetch' = DOMAIN fetch
    BY <2>1, <2>2 DEF IsFetch
  <2>5. IsFetch(fetch')
    BY <2>2, <2>4 DEF IsFetch
  <2> QED
    BY <2>1, <2>3, <2>4, <2>5 DEF FetchOK
<1>4. CASE fetch' = Absent
  BY <1>4 DEF FetchOK
<1>5. CASE UNCHANGED fetch
  <2>1. ASSUME fetch # Absent
        PROVE  /\ fetch.started \in 0..now'
               /\ \A s \in DOMAIN fetch.retained :
                     s \in Sources /\ Seen(began'[s], fetch.retained[s], fetch.started, now')
               /\ (fetch.source # NoSource) =>
                     /\ fetch.source \in Sources
                     /\ Seen(began'[fetch.source], fetch.response, fetch.started, now')
    <3>1. fetch.started \in 0..now /\ fetch.started \in 0..now'
      BY <1>0, <2>1 DEF FetchOK
    <3>2. ASSUME NEW s \in DOMAIN fetch.retained
          PROVE  s \in Sources /\ Seen(began'[s], fetch.retained[s], fetch.started, now')
      BY <2>1, <3>1, SeenKept DEF FetchOK
    <3>3. ASSUME fetch.source # NoSource
          PROVE  /\ fetch.source \in Sources
                 /\ Seen(began'[fetch.source], fetch.response, fetch.started, now')
      BY <2>1, <3>1, <3>3, SeenKept DEF FetchOK
    <3> QED
      BY <3>1, <3>2, <3>3
  <2> QED
    BY <1>5, <2>1 DEF FetchOK
<1> QED
  BY <1>1, <1>2, <1>3, <1>4, <1>5, MovesOfFetch

\* Published observations stay sound.
LEMMA ObservedStep ==
    ASSUME SourcesOK, FetchOK, ObservedOK, [TermsNext]_termsVars
    PROVE  ObservedOK' /\ observed \subseteq observed'
<1>0. now \in Nat /\ now' \in Nat /\ now <= now'
  BY SourcesStep DEF SourcesOK
<1>1. ASSUME NEW obs \in observed
      PROVE  Sound(obs)'
  <2>1. /\ obs.started \in 0..now /\ obs.completed \in 0..now
        /\ \A s \in DOMAIN obs.sources :
              s \in Sources /\ Seen(began[s], obs.sources[s], obs.started, obs.completed)
    BY DEF ObservedOK, Sound
  <2>2. \A s \in DOMAIN obs.sources :
           s \in Sources /\ Seen(began'[s], obs.sources[s], obs.started, obs.completed)
    BY <2>1, SourcesStep
  <2> QED
    BY <1>0, <2>1, <2>2 DEF Sound
<1>2. CASE FetchPublishes
  <2> DEFINE obs == [observation |-> fetch.observation, started |-> fetch.started,
                     completed |-> now, sources |-> fetch.retained]
  <2>1. fetch # Absent /\ observed' = observed \cup {obs} /\ now' = now /\ began' = began
    BY <1>2 DEF FetchPublishes
  <2>2. /\ fetch.started \in 0..now
        /\ \A s \in DOMAIN fetch.retained :
              s \in Sources /\ Seen(began[s], fetch.retained[s], fetch.started, now)
    BY <2>1 DEF FetchOK
  <2>3. Sound(obs)
    BY <1>0, <2>2 DEF Sound
  <2>4. \A x \in observed : Sound(x)
    BY DEF ObservedOK
  <2> HIDE DEF obs
  <2>5. \A x \in observed' : Sound(x)
    BY <2>1, <2>3, <2>4
  <2> QED
    BY <2>1, <2>5 DEF ObservedOK, Sound
<1>3. CASE UNCHANGED observed
  BY <1>1, <1>3 DEF ObservedOK
<1>4. FetchPublishes \/ UNCHANGED observed
  <2>1. CASE UNCHANGED termsVars
    BY <2>1 DEF termsVars
  <2>2. CASE TermsNext
    BY Zenon, <2>2 DEF TermsNext, ClockTicks, SourceChanges, FetchStarts, Responds, Retains, FetchFails,
                Assemble, BuildTerms, BuildMap, ReviewTerms, Build, Removed, Catalogued
  <2> QED
    BY <2>1, <2>2
<1> QED
  BY <1>2, <1>3, <1>4

-----------------------------------------------------------------------------
(* Packages.                                                               *)

\* Replacing a package by one that keeps the invariant keeps it for all.
LEMMA PackageReplaced ==
    ASSUME PackagesOK, observed \subseteq observed', sealed \subseteq sealed',
           NEW p \in Packages, NEW d, package' = [package EXCEPT ![p] = d],
           IsPackage(d),
           d.manifest # Absent =>
              d.manifest.opening \in observed' /\ d.manifest.closing \in observed',
           Present(d.review) => Sealed(d.review) \in sealed'
    PROVE  PackagesOK'
<1>1. /\ package' = [q \in Packages |-> package'[q]]
      /\ \A q \in Packages : package'[q] = IF q = p THEN d ELSE package[q]
  BY DEF PackagesOK
<1>2. ASSUME NEW q \in Packages
      PROVE  (IsPackage(package[q]) /\ ManifestOK(package[q]) /\ ReviewOK(package[q]))'
  <2>1. CASE q = p
    <3>1. package'[q] = d
      BY <1>1, <2>1
    <3> QED
      BY <3>1 DEF ManifestOK, ReviewOK
  <2>2. CASE q # p
    <3>1. package'[q] = package[q]
      BY <1>1, <2>2
    <3>2. IsPackage(package[q]) /\ ManifestOK(package[q]) /\ ReviewOK(package[q])
      BY DEF PackagesOK
    <3> QED
      BY <3>1, <3>2 DEF ManifestOK, ReviewOK
  <2> QED
    BY <2>1, <2>2
<1> QED
  BY <1>1, <1>2 DEF PackagesOK

\* Writing or removing a document other than the manifest.
LEMMA DocumentReplaced ==
    ASSUME PackagesOK, observed \subseteq observed', sealed \subseteq sealed',
           NEW p \in Packages, NEW name \in Documents, NEW v,
           package' = [package EXCEPT ![p] = [package[p] EXCEPT ![name] = v]],
           (name = "review" /\ Present(v)) => Sealed(v) \in sealed'
    PROVE  PackagesOK'
<1> DEFINE d == [package[p] EXCEPT ![name] = v]
<1>1. IsPackage(package[p]) /\ ManifestOK(package[p]) /\ ReviewOK(package[p])
  BY DEF PackagesOK
<1>2. DOMAIN d = DOMAIN package[p]
  OBVIOUS
<1>3. IsPackage(d)
  BY <1>1, <1>2 DEF IsPackage
<1>4. d.manifest = package[p].manifest
  BY <1>1 DEF IsPackage, Documents
<1>5. d.review = IF name = "review" THEN v ELSE package[p].review
  BY <1>1 DEF IsPackage, Documents
<1> HIDE DEF d
<1>6. d.manifest # Absent =>
         d.manifest.opening \in observed' /\ d.manifest.closing \in observed'
  BY <1>1, <1>4 DEF ManifestOK
<1>7. Present(d.review) => Sealed(d.review) \in sealed'
  BY <1>1, <1>5 DEF ReviewOK
<1>8. package' = [package EXCEPT ![p] = d]
  BY DEF d
<1> QED
  BY <1>3, <1>6, <1>7, <1>8, PackageReplaced

LEMMA MovesOfPackages ==
    ASSUME [TermsNext]_termsVars
    PROVE  \/ \E p \in Packages, x, y \in observed : Assemble(p, x, y)
           \/ \E p \in Packages : BuildTerms(p) \/ BuildMap(p) \/ ReviewTerms(p)
           \/ Removed
           \/ UNCHANGED <<package, sealed>>
<1>1. CASE UNCHANGED termsVars
  BY <1>1 DEF termsVars
<1>2. CASE TermsNext
  BY Zenon, <1>2 DEF TermsNext, ClockTicks, SourceChanges, FetchStarts, Responds, Retains,
              FetchPublishes, FetchFails, Catalogued
<1> QED
  BY <1>1, <1>2

\* Every manifest is made of published observations, every review sealed.
LEMMA PackagesStep ==
    ASSUME PackagesOK, observed \subseteq observed', [TermsNext]_termsVars
    PROVE  PackagesOK'
<1>1. ASSUME NEW p \in Packages, NEW x \in observed, NEW y \in observed, Assemble(p, x, y)
      PROVE  PackagesOK'
  <2> DEFINE m == [kind |-> "manifest", opening |-> x, closing |-> y]
             d == [EmptyPackage EXCEPT !.manifest = m]
  <2>1. package' = [package EXCEPT ![p] = d] /\ sealed' = sealed
    BY <1>1 DEF Assemble
  <2>2. IsPackage(d) /\ d.manifest = m /\ d.review = Absent
    BY DEF EmptyPackage, IsPackage
  <2>3. m.opening \in observed' /\ m.closing \in observed'
    OBVIOUS
  <2> HIDE DEF d, m
  <2> QED
    BY <2>1, <2>2, <2>3, PackageReplaced DEF Present
<1>2. ASSUME NEW p \in Packages, BuildTerms(p)
      PROVE  PackagesOK'
  <2>1. /\ \E v : package' = [package EXCEPT ![p] = [package[p] EXCEPT !["terms"] = v]]
        /\ sealed' = sealed
    BY <1>2 DEF BuildTerms, Build
  <2> QED
    BY <2>1, DocumentReplaced DEF Documents
<1>3. ASSUME NEW p \in Packages, BuildMap(p)
      PROVE  PackagesOK'
  <2>1. /\ \E v : package' = [package EXCEPT ![p] = [package[p] EXCEPT !["map"] = v]]
        /\ sealed' = sealed
    BY <1>3 DEF BuildMap, Build
  <2> QED
    BY <2>1, DocumentReplaced DEF Documents
<1>4. ASSUME NEW p \in Packages, ReviewTerms(p)
      PROVE  PackagesOK'
  <2> DEFINE d == package[p]
             doc == [kind |-> "review", terms |-> d.terms, manifest |-> d.manifest,
                     map |-> d.map, from |-> d.terms.from, until |-> d.terms.until]
  <2>1. /\ \E v \in {doc, Torn} :
              package' = [package EXCEPT ![p] = [package[p] EXCEPT !["review"] = v]]
        /\ sealed' = sealed \cup {Sealed(d)}
    BY <1>4 DEF ReviewTerms, Build, Sealed
  <2>2. Sealed(doc) = Sealed(d)
    BY DEF Sealed
  <2>3. ~Present(Torn)
    BY DEF Present
  <2> HIDE DEF doc, d
  <2>4. \A v \in {doc, Torn} : Present(v) => Sealed(v) \in sealed'
    BY <2>1, <2>2, <2>3
  <2> QED
    BY <2>1, <2>4, DocumentReplaced DEF Documents
<1>5. CASE Removed
  <2>1. PICK p \in Packages, name \in Documents :
           package' = [package EXCEPT ![p][name] = Absent]
    BY <1>5 DEF Removed
  <2>2. sealed' = sealed
    BY <1>5 DEF Removed
  <2> QED
    BY <2>1, <2>2, DocumentReplaced DEF Present
<1>6. CASE UNCHANGED <<package, sealed>>
  BY <1>6 DEF PackagesOK, ManifestOK, ReviewOK
<1> QED
  BY <1>1, <1>2, <1>3, <1>4, <1>5, <1>6, MovesOfPackages

\* A catalogue lists packages.
LEMMA CatalogStep ==
    ASSUME CatalogOK, [TermsNext]_termsVars
    PROVE  CatalogOK'
<1>1. (\E chosen \in SUBSET Packages : Catalogued(chosen)) \/ UNCHANGED catalog
  <2>1. CASE UNCHANGED termsVars
    BY <2>1 DEF termsVars
  <2>2. CASE TermsNext
    BY Zenon, <2>2 DEF TermsNext, ClockTicks, SourceChanges, FetchStarts,
      Responds, Retains, FetchPublishes,
                FetchFails, Assemble, BuildTerms, BuildMap, ReviewTerms, Build, Removed
  <2> QED
    BY <2>1, <2>2
<1>2. ASSUME NEW chosen \in SUBSET Packages, Catalogued(chosen)
      PROVE  CatalogOK'
  <2>1. catalog' = {Entry(p) : p \in chosen}
    BY <1>2 DEF Catalogued
  <2>2. \A p \in chosen : Entry(p).package = p
    BY DEF Entry
  <2> QED
    BY <2>1, <2>2 DEF CatalogOK
<1> QED
  BY <1>1, <1>2 DEF CatalogOK

-----------------------------------------------------------------------------
(* The invariant, and what it implies.                                     *)

LEMMA InvariantHolds == TermsSpec => []TermsInv
<1>1. TermsInit => TermsInv
  <2> SUFFICES ASSUME TermsInit PROVE TermsInv
    OBVIOUS
  <2>1. SourcesOK
    <3>1. began = [s \in Sources |-> [r \in {1} |-> 0]] /\ now = 0
      BY DEF TermsInit
    <3>2. [r \in {1} |-> 0] \in [1..1 -> 0..0]
      OBVIOUS
    <3> QED
      BY <3>1, <3>2 DEF SourcesOK, Revised
  <2>2. FetchOK /\ ObservedOK
    BY DEF TermsInit, FetchOK, ObservedOK
  <2>3. PackagesOK
    <3>1. package = [p \in Packages |-> EmptyPackage]
      BY DEF TermsInit
    <3>2. IsPackage(EmptyPackage) /\ EmptyPackage.manifest = Absent /\ EmptyPackage.review = Absent
      BY DEF EmptyPackage, IsPackage
    <3> QED
      BY <3>1, <3>2 DEF PackagesOK, ManifestOK, ReviewOK, Present
  <2>4. CatalogOK
    BY DEF TermsInit, CatalogOK
  <2> QED
    BY <2>1, <2>2, <2>3, <2>4 DEF TermsInv
<1>2. TermsInv /\ [TermsNext]_termsVars => TermsInv'
  BY SourcesStep, FetchStep, ObservedStep, PackagesStep, CatalogStep DEF TermsInv
<1> QED
  BY <1>1, <1>2, PTL DEF TermsSpec

\* What is known of the package a capture resolves to.
LEMMA ResolvedPackage ==
    ASSUME TermsInv, NEW a, NEW b, NEW e \in Resolved(a, b)
    PROVE  LET d == package[e.package] IN
           /\ ReviewLoads(d)
           /\ Sealed(d.review) \in sealed
           /\ Sound(d.manifest.opening) /\ Sound(d.manifest.closing)
           /\ e.from = d.manifest.opening.completed
           /\ e.until = d.manifest.closing.started
           /\ Covers(e, a, b)
<1> DEFINE d == package[e.package]
<1>1. e \in catalog /\ Covers(e, a, b) /\ EntryLoads(e)
  BY DEF Resolved, Matches, CatalogLoads
<1>2. ManifestOK(d) /\ ReviewOK(d)
  BY <1>1 DEF TermsInv, CatalogOK, PackagesOK
<1>3. ReviewLoads(d) /\ e.from = d.terms.from /\ e.until = d.terms.until
  BY <1>1 DEF EntryLoads
<1>4. d.manifest # Absent /\ Present(d.review)
  BY <1>3 DEF ReviewLoads, MapLoads, TermsLoad, EvidenceLoads
<1>5. Sealed(d.review) \in sealed
  BY <1>2, <1>4 DEF ReviewOK
<1>6. Sound(d.manifest.opening) /\ Sound(d.manifest.closing)
  BY <1>2, <1>4 DEF ManifestOK, TermsInv, ObservedOK
<1>7. e.from = d.manifest.opening.completed /\ e.until = d.manifest.closing.started
  BY <1>3 DEF ReviewLoads
<1> QED
  BY <1>1, <1>3, <1>5, <1>6, <1>7

\* Revisions of a source retained at both ends of a bracket are one and the
\* same, so nothing else was said in between.
LEMMA SaidThroughout ==
    ASSUME TermsInv, NEW a \in Instants, NEW b \in Instants, NEW e \in Resolved(a, b),
           NEW t \in a..b, NEW s \in DOMAIN package[e.package].manifest.opening.sources
    PROVE  Said(s, t) = package[e.package].manifest.opening.sources[s]
<1> DEFINE d == package[e.package]
           m == d.manifest
           v == m.opening.sources[s]
<1>1. /\ ReviewLoads(d) /\ Sound(m.opening) /\ Sound(m.closing)
      /\ e.from = m.opening.completed /\ e.until = m.closing.started
      /\ Covers(e, a, b)
  BY ResolvedPackage
<1>2. TermsLoad(d) /\ EvidenceLoads(m)
  BY <1>1 DEF ReviewLoads, MapLoads, TermsLoad
<1>3. s \in DOMAIN m.closing.sources /\ m.closing.sources[s] = v
  <2>1. s \in Sources
    BY <1>1 DEF Sound
  <2>2. CASE s \in Records
    BY <1>2, <2>2 DEF TermsLoad
  <2>3. CASE s \notin Records
    <3>1. s \in DOMAIN m.closing.sources
      BY <1>2, <2>1 DEF EvidenceLoads, ObservationLoads, Symmetric, Sources
    <3> QED
      BY <1>2, <2>1, <2>3, <3>1 DEF EvidenceLoads, StaticUnchanged, Static
  <2> QED
    BY <2>2, <2>3
<1>4. s \in Sources /\ Seen(began[s], v, m.opening.started, m.opening.completed)
  BY <1>1 DEF Sound
<1>5. Seen(began[s], v, m.closing.started, m.closing.completed)
  BY <1>1, <1>3 DEF Sound
<1>6. m.opening.completed \in Nat /\ m.closing.started \in Nat
  BY <1>1 DEF Sound, TermsInv, SourcesOK
<1>7. t \in Nat /\ m.opening.completed <= t /\ t < m.closing.started
  BY <1>1, <1>6, TimeAssumption DEF Covers, Instants
<1>8. SourcesOK
  BY DEF TermsInv
<1> HIDE DEF m, v
<1>9. Said(s, t) = v
  BY <1>4, <1>5, <1>6, <1>7, <1>8, BracketHolds
<1> QED
  BY <1>9 DEF m, v

\* For every number of sources and changes, a capture resolves only to terms
\* that the venue showed at every instant of it (ProductReview.load,
\* ProductCatalog.resolve: the bracket of the two observations is enough).
THEOREM ObservedSafe == TermsSpec => []ObservedThroughout
<1>1. TermsInv => ObservedThroughout
  <2> SUFFICES ASSUME TermsInv, NEW a \in Instants, NEW b \in Instants, NEW e \in Resolved(a, b),
                      NEW t \in a..b
               PROVE  LET d == package[e.package] IN
                      /\ \A s \in Records : Said(s, t) = d.terms.values[s]
                      /\ \A s \in DOMAIN d.manifest.opening.sources :
                            Said(s, t) = d.manifest.opening.sources[s]
    BY DEF ObservedThroughout
  <2> DEFINE d == package[e.package]
  <2>1. \A s \in DOMAIN d.manifest.opening.sources :
           Said(s, t) = d.manifest.opening.sources[s]
    BY SaidThroughout
  <2>2. \A s \in Records : /\ s \in DOMAIN d.manifest.opening.sources
                           /\ d.manifest.opening.sources[s] = d.terms.values[s]
    BY ResolvedPackage DEF ReviewLoads, MapLoads, TermsLoad
  <2> QED
    BY <2>1, <2>2
<1> QED
  BY <1>1, InvariantHolds, PTL

\* Whatever is removed, rebuilt or cut short, a capture resolves to documents
\* one review command was given together, and to one package at most
\* (ProductCatalog.resolve cannot meet two).
THEOREM ResolutionSafe == TermsSpec => []ResolutionIsSound
<1>1. TermsInv => ResolvedIsReviewed
  <2> SUFFICES ASSUME TermsInv, NEW a \in Instants, NEW b \in Instants, NEW e \in Resolved(a, b)
               PROVE  LET d == package[e.package] IN
                      [manifest |-> d.manifest, terms |-> d.terms, map |-> d.map] \in sealed
    BY DEF ResolvedIsReviewed
  <2> DEFINE d == package[e.package]
  <2>1. ReviewLoads(d) /\ Sealed(d.review) \in sealed
    BY ResolvedPackage
  <2>2. d.review.terms = d.terms /\ d.review.manifest = d.manifest /\ d.review.map = d.map
    BY <2>1 DEF ReviewLoads
  <2> QED
    BY <2>1, <2>2 DEF Sealed
<1>2. TermsInv => NeverAmbiguous
  <2> SUFFICES ASSUME TermsInv, CatalogLoads, NEW a \in Instants, NEW b \in Instants, a <= b
               PROVE  Cardinality(Matches(a, b)) <= 1
    BY DEF NeverAmbiguous
  <2>1. a \in Int /\ b \in Int
    BY TimeAssumption DEF Instants
  <2>2. ASSUME NEW e \in Matches(a, b)
        PROVE  e.from \in Int /\ e.until \in Int
    <3> DEFINE d == package[e.package]
    <3>1. e \in catalog /\ EntryLoads(e)
      BY DEF Matches, CatalogLoads
    <3>2. ReviewLoads(d) /\ e.from = d.terms.from /\ e.until = d.terms.until
      BY <3>1 DEF EntryLoads
    <3>3. e.from = d.manifest.opening.completed /\ e.until = d.manifest.closing.started
      BY <3>2 DEF ReviewLoads
    <3>4. d.manifest # Absent
      BY <3>2 DEF ReviewLoads, MapLoads, TermsLoad, EvidenceLoads
    <3>5. Sound(d.manifest.opening) /\ Sound(d.manifest.closing)
      BY <3>1, <3>4 DEF TermsInv, CatalogOK, PackagesOK, ManifestOK, ObservedOK
    <3> HIDE DEF d
    <3>6. d.manifest.opening.completed \in 0..now /\ d.manifest.closing.started \in 0..now
      BY <3>5, Zenon DEF Sound
    <3>7. now \in Nat
      BY DEF TermsInv, SourcesOK
    <3> QED
      BY <3>3, <3>6, <3>7
  <2>3. ASSUME NEW e \in Matches(a, b), NEW f \in Matches(a, b), e # f
        PROVE  FALSE
    <3>1. e \in catalog /\ f \in catalog /\ Covers(e, a, b) /\ Covers(f, a, b)
      BY DEF Matches
    <3>2. ~Overlap(e, f)
      BY <2>3, <3>1 DEF CatalogLoads
    <3> QED
      BY <2>1, <2>2, <3>1, <3>2 DEF Overlap, Covers
  <2>4. CASE Matches(a, b) = {}
    BY <2>4, FS_EmptySet
  <2>5. CASE Matches(a, b) # {}
    <3>1. PICK e : Matches(a, b) = {e}
      BY <2>3, <2>5
    <3>2. Cardinality({e}) = 1
      BY FS_Singleton
    <3> QED
      BY <3>1, <3>2
  <2> QED
    BY <2>4, <2>5
<1> QED
  BY <1>1, <1>2, InvariantHolds, PTL DEF ResolutionIsSound


-----------------------------------------------------------------------------
(* Supervisor: the inductive invariant, in named parts.                    *)

StateFields == {"attempted", "expiries", "failure", "quiescent", "reaped"}

IsState(st) ==
  /\ DOMAIN st = StateFields
  /\ st.attempted \subseteq Signals /\ st.expiries \subseteq Graces
  /\ st.quiescent \in BOOLEAN /\ st.reaped \in BOOLEAN

\* The teardown's claims hold.
ClaimsOK ==
  /\ IsState(state)
  /\ pc \in {"preflight", "popen"} => state = NoState
  /\ state.quiescent => \A m \in Members : member[m] # "live"
  /\ state.reaped => member[Leader] = "gone"

\* What ended a member, or is about to, was attempted: as long as no
\* KeyboardInterrupt can separate a signal from its record.
Early == {"preflight", "popen", "starting"}
CausesOK ==
  handler \/ pc \in Early =>
    \A m \in Members :
      /\ hit[m] \subseteq state.attempted
      /\ endedBy[m] \in {None, "itself"} \union state.attempted

Complete(st) == st.failure # None \/ (st.quiescent /\ st.reaped)

\* The verdict is in before the collectors are joined; without one the reason says
\* that there was no group, or an interrupt before it was owned.  A run that counts
\* as completed was not interrupted in time.
VerdictOK ==
  /\ pc \in {"drain", "closing"} => Complete(state)
  /\ pc = "closing" => reason # "completed"
  /\ pc \in {"restore", "report"} =>
       /\ \/ Complete(state)
          \/ reason = "wrapper_failure"
          \/ reason = "operator_interrupted" /\ ~state.reaped
       /\ reason = "completed" => (requested => late)

\* What a published report claims.
ReportOK ==
  /\ result # None => pc = "done"
  /\ StatusIsEarned /\ NoOrphans /\ CooperativeIsTrue

IInv == TypeOK /\ ClaimsOK /\ CausesOK /\ VerdictOK /\ ReportOK

-----------------------------------------------------------------------------
(* The operations on the teardown's record.                                *)

LEMMA RecordOperations ==
  ASSUME NEW st, IsState(st), NEW s \in SUBSET Signals, NEW w \in Graces
  PROVE  /\ IsState(Denied(st)) /\ Denied(st).attempted = st.attempted
         /\ Denied(st).quiescent = st.quiescent /\ Denied(st).reaped = st.reaped
         /\ IsState(Unobserved(st)) /\ Unobserved(st).attempted = st.attempted
         /\ Unobserved(st).quiescent = st.quiescent /\ Unobserved(st).reaped = st.reaped
         /\ IsState(Quiet(st)) /\ Quiet(st).attempted = st.attempted
         /\ Quiet(st).reaped = st.reaped
         /\ LET x == [st EXCEPT !.attempted = @ \union s] IN
              /\ IsState(x) /\ x.attempted = st.attempted \union s
              /\ x.quiescent = st.quiescent /\ x.reaped = st.reaped
         /\ LET x == [st EXCEPT !.expiries = @ \union {w}] IN
              /\ IsState(x) /\ x.attempted = st.attempted
              /\ x.quiescent = st.quiescent /\ x.reaped = st.reaped
         /\ LET x == [st EXCEPT !.reaped = TRUE] IN
              /\ IsState(x) /\ x.attempted = st.attempted /\ x.quiescent = st.quiescent
<1>1. /\ IsState(Denied(st)) /\ Denied(st).attempted = st.attempted
      /\ Denied(st).quiescent = st.quiescent /\ Denied(st).reaped = st.reaped
  BY DEF IsState, Denied, StateFields
<1>2. /\ IsState(Unobserved(st)) /\ Unobserved(st).attempted = st.attempted
      /\ Unobserved(st).quiescent = st.quiescent /\ Unobserved(st).reaped = st.reaped
  BY DEF IsState, Unobserved, StateFields
<1>3. /\ IsState(Quiet(st)) /\ Quiet(st).attempted = st.attempted
      /\ Quiet(st).reaped = st.reaped
  BY DEF IsState, Quiet, StateFields
<1>4. LET x == [st EXCEPT !.attempted = @ \union s] IN
        /\ IsState(x) /\ x.attempted = st.attempted \union s
        /\ x.quiescent = st.quiescent /\ x.reaped = st.reaped
  BY DEF IsState, StateFields
<1>5. LET x == [st EXCEPT !.expiries = @ \union {w}] IN
        /\ IsState(x) /\ x.attempted = st.attempted
        /\ x.quiescent = st.quiescent /\ x.reaped = st.reaped
  BY DEF IsState, StateFields
<1>6. LET x == [st EXCEPT !.reaped = TRUE] IN
        /\ IsState(x) /\ x.attempted = st.attempted /\ x.quiescent = st.quiescent
  BY DEF IsState, StateFields
<1> QED
  BY <1>1, <1>2, <1>3, <1>4, <1>5, <1>6

\* Going somewhere records what it is given, and the verdict before "drain".
LEMMA GoEffect ==
  ASSUME NEW where, NEW st, IsState(st), Go(where, st)
  PROVE  /\ pc' = where /\ left' = Ticks(where)
         /\ IsState(state') /\ state'.attempted = st.attempted
         /\ state'.quiescent = st.quiescent /\ state'.reaped = st.reaped
         /\ where = "drain" => Complete(state')
<1>1. pc' = where /\ left' = Ticks(where)
  BY DEF Go, Enter
<1>2. CASE where # "drain"
  BY <1>1, <1>2 DEF Go
<1>3. CASE where = "drain"
  <2>1. state' = Settled(st)
    BY <1>3 DEF Go
  <2>2. CASE st.failure = None /\ ~(st.reaped /\ st.quiescent)
    <3>1. state' = [st EXCEPT !.failure = "MeasurementTeardownIncomplete"]
      BY <2>1, <2>2 DEF Settled
    <3>2. state'.failure = "MeasurementTeardownIncomplete"
      BY <3>1 DEF IsState, StateFields
    <3>3. None # "MeasurementTeardownIncomplete"
      BY SupervisorAssumption
    <3> QED
      BY <1>1, <3>1, <3>2, <3>3 DEF IsState, StateFields, Complete
  <2>3. CASE ~(st.failure = None /\ ~(st.reaped /\ st.quiescent))
    BY <1>1, <2>1, <2>3 DEF Settled, Complete, IsState
  <2> QED
    BY <2>2, <2>3
<1> QED
  BY <1>2, <1>3

-----------------------------------------------------------------------------
(* The steps of the teardown, as one kind of step.                         *)

Places == Signals \union Graces \union {"reap", "reapKilled", "drain"}

\* A step either goes on or, in process.wait, stays.
Lands(where, st) ==
  \/ Go(where, st)
  \/ pc = "reap" /\ where = pc /\ UNCHANGED <<pc, left>> /\ state' = st

LEMMA LandEffect ==
  ASSUME TypeOK, NEW where, NEW st, IsState(st), Lands(where, st)
  PROVE  /\ pc' = where
         /\ left' = Ticks(where) \/ (pc = where /\ left' = left)
         /\ IsState(state') /\ state'.attempted = st.attempted
         /\ state'.quiescent = st.quiescent /\ state'.reaped = st.reaped
         /\ where = "drain" => Complete(state')
<1>1. CASE Go(where, st)
  BY <1>1, GoEffect
<1>2. CASE pc = "reap" /\ where = pc /\ UNCHANGED <<pc, left>> /\ state' = st
  BY <1>2
<1> QED
  BY <1>1, <1>2 DEF Lands

\* Landing at `where' with the record st, which claims what the step makes true.
TeardownMove(where, st) ==
  /\ IsState(st) /\ Lands(where, st)
  /\ state.attempted \subseteq st.attempted
  /\ st.quiescent => state.quiescent \/ Live = {}
  /\ st.reaped => state.reaped \/ member'[Leader] = "gone"
  /\ hit' \in [Members -> SUBSET Signals]
  /\ handler => \A m \in Members : hit'[m] \subseteq hit[m] \union st.attempted
  /\ member' = member \/ member' = [member EXCEPT ![Leader] = "gone"]
  /\ faults' \in 0..MaxFaults
  /\ pc \in Teardown
  /\ expedite' \in BOOLEAN
  /\ UNCHANGED <<endedBy, heeds, code, over, changed, handler, requested, late, escaped,
                 report, result>>

\* killpg keeps what had reached the members and adds the signals.
LEMMA ReachesMore ==
  ASSUME TypeOK, NEW S \in SUBSET Signals, Reaches(S)
  PROVE  /\ hit' \in [Members -> SUBSET Signals]
         /\ \A m \in Members : hit'[m] \subseteq hit[m] \union S
BY DEF TypeOK, Reaches

LEMMA FailsOnce ==
  ASSUME TypeOK, Fails \/ faults' = faults
  PROVE  faults' \in 0..MaxFaults
BY SupervisorAssumption DEF TypeOK, Fails

\* Attempting signals, and being denied them, only adds to the attempts.
LEMMA AttemptedMore ==
  ASSUME ClaimsOK, NEW S \in SUBSET Signals
  PROVE  /\ IsState(Attempted(S)) /\ Attempted(S).attempted = state.attempted \union S
         /\ Attempted(S).quiescent = state.quiescent /\ Attempted(S).reaped = state.reaped
         /\ IsState(Denied(Attempted(S)))
         /\ Denied(Attempted(S)).attempted = state.attempted \union S
         /\ Denied(Attempted(S)).quiescent = state.quiescent
         /\ Denied(Attempted(S)).reaped = state.reaped
<1>0. IsState(state) /\ "sigint" \in Graces
  BY DEF ClaimsOK, Graces
<1>1. /\ IsState(Attempted(S)) /\ Attempted(S).attempted = state.attempted \union S
      /\ Attempted(S).quiescent = state.quiescent /\ Attempted(S).reaped = state.reaped
  BY <1>0, RecordOperations DEF Attempted
<1> HIDE DEF Attempted
<1> QED
  BY <1>0, <1>1, RecordOperations

\* Where the next signal, the next wait and the verdict can be.
LEMMA Goals ==
  /\ \A s \in Signals : \A st : AfterSignal(s, st) => \E where \in Places : Go(where, st)
  /\ \A st : AfterReap(st) => \E where \in Places : Go(where, st)
  /\ pc \in Graces => WhenQuiet \in Places /\ \A h \in BOOLEAN : WhenNot(h) \in Places
<1>1. ASSUME NEW s \in Signals, NEW st, AfterSignal(s, st)
      PROVE  \E where \in Places : Go(where, st)
  <2>1. /\ {"sigint", "sigterm", "quiescence", "reap"} \subseteq Places
        /\ s \in {"SIGINT", "SIGTERM", "SIGKILL"}
    BY DEF Places, Graces, Signals
  <2>2. \/ Go("sigint", st) \/ Go("sigterm", st) \/ Go("quiescence", st) \/ Go("reap", st)
    BY <1>1, <2>1 DEF AfterSignal
  <2> QED
    BY <2>1, <2>2
<1>2. ASSUME NEW st, AfterReap(st)
      PROVE  \E where \in Places : Go(where, st)
  BY <1>2 DEF AfterReap, Graces, Places
<1>3. pc \in Graces => WhenQuiet \in Places /\ \A h \in BOOLEAN : WhenNot(h) \in Places
  BY DEF Graces, WhenQuiet, WhenNot, Signals, Places
<1> QED
  BY <1>1, <1>2, <1>3

LEMMA ObservationMoves ==
  ASSUME TypeOK, ClaimsOK, FirstObservation \/ Observe
  PROVE  \E where \in Places : \E st : TeardownMove(where, st)
<1> USE DEF Places
<1>0. IsState(state)
  BY DEF ClaimsOK
<1>1. /\ hit' \in [Members -> SUBSET Signals] /\ hit' = hit
      /\ member' = member /\ faults' \in 0..MaxFaults
      /\ pc \in Teardown /\ expedite' \in BOOLEAN
      /\ UNCHANGED <<endedBy, heeds, code, over, changed, handler, requested, late, escaped,
                     report, result>>
  BY FailsOnce DEF FirstObservation, Observe, Graces, Teardown, external, group, operator, TypeOK
<1>2. ASSUME NEW where \in Places, NEW st, Go(where, st),
             st \in {state, Unobserved(state)} \/ (Live = {} /\ st = Quiet(state))
               \/ \E w \in Graces : st = [state EXCEPT !.expiries = @ \union {w}]
      PROVE  TeardownMove(where, st)
  <2>1. /\ IsState(st) /\ st.attempted = state.attempted /\ st.reaped = state.reaped
        /\ st.quiescent => state.quiescent \/ Live = {}
    <3>1. {"SIGINT"} \in SUBSET Signals /\ "sigint" \in Graces
      BY DEF Signals, Graces
    <3>2. CASE st \in {state, Unobserved(state)}
      BY <1>0, <3>1, <3>2, RecordOperations
    <3>3. CASE Live = {} /\ st = Quiet(state)
      BY <1>0, <3>1, <3>3, RecordOperations
    <3>4. ASSUME NEW w \in Graces, st = [state EXCEPT !.expiries = @ \union {w}]
          PROVE  /\ IsState(st) /\ st.attempted = state.attempted
                 /\ st.quiescent = state.quiescent /\ st.reaped = state.reaped
      BY <1>0, <3>1, <3>4, RecordOperations
    <3> QED
      BY <1>2, <3>2, <3>3, <3>4
  <2> QED
    BY <1>1, <1>2, <2>1 DEF TeardownMove, Lands
<1>3. CASE FirstObservation
  <2>1. \/ Live = {} /\ Go("reap", Quiet(state))
        \/ Go("SIGINT", state)
        \/ Go("SIGINT", Unobserved(state))
    BY <1>3 DEF FirstObservation
  <2> QED
    BY <1>2, <2>1 DEF Signals
<1>4. CASE Observe
  <2>1. pc \in Graces /\ expedite \in BOOLEAN
    BY <1>4 DEF Observe, TypeOK
  <2>2. WhenQuiet \in Places /\ WhenNot(expedite) \in Places
    BY <2>1, Goals
  <2>3. \/ Live = {} /\ Go(WhenQuiet, Quiet(state))
        \/ Go(WhenNot(expedite), GaveUp)
        \/ Go(WhenNot(expedite), Unobserved(state))
    BY <1>4 DEF Observe
  <2>4. GaveUp = state \/ \E w \in Graces : GaveUp = [state EXCEPT !.expiries = @ \union {w}]
    BY <2>1 DEF GaveUp
  <2> QED
    BY <1>2, <2>2, <2>3, <2>4
<1> QED
  BY <1>3, <1>4

LEMMA SignalMoves ==
  ASSUME TypeOK, ClaimsOK, Signal
  PROVE  \E where \in Places : \E st : TeardownMove(where, st)
<1>0. pc \in Signals /\ {pc} \in SUBSET Signals
  BY DEF Signal
<1> DEFINE tried == Attempted({pc})
<1>1. /\ IsState(tried) /\ tried.attempted = state.attempted \union {pc}
      /\ tried.quiescent = state.quiescent /\ tried.reaped = state.reaped
      /\ IsState(Denied(tried)) /\ Denied(tried).attempted = state.attempted \union {pc}
      /\ Denied(tried).quiescent = state.quiescent /\ Denied(tried).reaped = state.reaped
  BY <1>0, AttemptedMore
<1>3. /\ member' = member /\ faults' \in 0..MaxFaults
      /\ pc \in Teardown /\ expedite' \in BOOLEAN
      /\ UNCHANGED <<endedBy, heeds, code, over, changed, handler, requested, late, escaped,
                     report, result>>
  BY <1>0, FailsOnce DEF Signal, Teardown, operator, TypeOK
<1>4. /\ hit' \in [Members -> SUBSET Signals]
      /\ \A m \in Members : hit'[m] \subseteq hit[m] \union {pc}
  BY <1>0, ReachesMore DEF Signal, TypeOK
<1>5. \/ AfterSignal(pc, tried)
      \/ Go("reap", Denied(tried))
  BY DEF Signal
<1> HIDE DEF tried
<1>6. CASE Go("reap", Denied(tried))
  <2>1. TeardownMove("reap", Denied(tried))
    BY <1>1, <1>3, <1>4, <1>6 DEF TeardownMove, Lands
  <2> QED
    BY <2>1 DEF Places
<1>7. CASE AfterSignal(pc, tried)
  <2>1. PICK where \in Places : Go(where, tried)
    BY <1>0, <1>7, Goals
  <2>2. TeardownMove(where, tried)
    BY <1>1, <1>3, <1>4, <2>1 DEF TeardownMove, Lands
  <2> QED
    BY <2>2
<1> QED
  BY <1>5, <1>6, <1>7

LEMMA ReapMoves ==
  ASSUME TypeOK, ClaimsOK, Reap \/ ReapTimesOut
  PROVE  \E where \in Places : \E st : TeardownMove(where, st)
<1>0. IsState(state) /\ {"SIGKILL"} \in SUBSET Signals /\ "sigint" \in Graces
  BY DEF ClaimsOK, Signals, Graces
<1> DEFINE killed == Attempted({"SIGKILL"})
<1>1. /\ IsState(killed) /\ killed.attempted = state.attempted \union {"SIGKILL"}
      /\ killed.quiescent = state.quiescent /\ killed.reaped = state.reaped
      /\ IsState(Denied(killed)) /\ Denied(killed).attempted = state.attempted \union {"SIGKILL"}
      /\ Denied(killed).quiescent = state.quiescent /\ Denied(killed).reaped = state.reaped
  BY <1>0, AttemptedMore
<1>3. ASSUME NEW st, AfterReap(st)
      PROVE  \E where \in Places : Go(where, st)
  BY <1>3, Goals
<1>4. /\ faults' \in 0..MaxFaults
      /\ pc \in Teardown /\ expedite' \in BOOLEAN
      /\ UNCHANGED <<endedBy, heeds, code, over, changed, handler, requested, late, escaped,
                     report, result>>
  BY FailsOnce DEF Reap, ReapTimesOut, Teardown, operator, TypeOK
<1>5. CASE Reap
  <2> DEFINE st == [state EXCEPT !.reaped = TRUE]
  <2>1. /\ IsState(st) /\ st.attempted = state.attempted /\ st.quiescent = state.quiescent
    BY <1>0, RecordOperations
  <2>2. /\ member' = [member EXCEPT ![Leader] = "gone"] /\ hit' = hit
        /\ AfterReap(st)
    BY <1>5 DEF Reap
  <2>3. member'[Leader] = "gone" /\ hit' \in [Members -> SUBSET Signals]
    BY <2>2 DEF TypeOK, Members
  <2>4. PICK where \in Places : Go(where, st)
    BY <1>3, <2>2
  <2> HIDE DEF st
  <2>5. TeardownMove(where, st)
    BY <1>4, <2>1, <2>2, <2>3, <2>4 DEF TeardownMove, Lands
  <2> QED
    BY <2>5
<1>6. CASE ReapTimesOut
  <2>1. member' = member
    BY <1>6 DEF ReapTimesOut
  <2>2. (hit' = hit /\ hit' \in [Members -> SUBSET Signals]) \/ Reaches({"SIGKILL"})
    BY <1>6 DEF ReapTimesOut, TypeOK
  <2>3. /\ hit' \in [Members -> SUBSET Signals]
        /\ \A m \in Members : hit'[m] \subseteq hit[m] \union {"SIGKILL"}
    BY <1>0, <2>2, ReachesMore
  <2>4. \/ Go("reapKilled", killed)
        \/ AfterReap(Denied(killed))
        \/ AfterReap(state) /\ hit' = hit
    BY <1>6 DEF ReapTimesOut
  <2> HIDE DEF killed
  <2>5. CASE Go("reapKilled", killed)
    <3>1. TeardownMove("reapKilled", killed)
      BY <1>1, <1>4, <2>1, <2>3, <2>5 DEF TeardownMove, Lands
    <3> QED
      BY <3>1 DEF Places
  <2>6. CASE AfterReap(Denied(killed))
    BY <1>1, <1>3, <1>4, <2>1, <2>3, <2>6 DEF TeardownMove, Lands
  <2>7. CASE AfterReap(state) /\ hit' = hit
    BY <1>0, <1>3, <1>4, <2>1, <2>3, <2>7 DEF TeardownMove, Lands
  <2> QED
    BY <2>4, <2>5, <2>6, <2>7
<1> QED
  BY <1>5, <1>6

\* A KeyboardInterrupt inside the teardown's own try blocks is a step of it too.
LEMMA CutMoves ==
  ASSUME TypeOK, ClaimsOK, Cut
  PROVE  \E where \in Places : \E st : TeardownMove(where, st)
<1>0. /\ member' = member /\ ~handler /\ expedite' \in BOOLEAN
      /\ UNCHANGED <<endedBy, heeds, code, over, changed, handler, requested, late, escaped,
                     report, result>>
  BY Zenon DEF Cut
<1>1. ASSUME NEW where \in Places, NEW st, Lands(where, st), IsState(st), pc \in Teardown,
             state.attempted \subseteq st.attempted,
             st.quiescent = state.quiescent, st.reaped = state.reaped,
             faults' \in 0..MaxFaults, hit' \in [Members -> SUBSET Signals]
      PROVE  TeardownMove(where, st)
  BY <1>0, <1>1 DEF TeardownMove
<1>2. CASE CutObservation
  <2>1. /\ hit' \in [Members -> SUBSET Signals] /\ faults' \in 0..MaxFaults
        /\ pc \in Teardown /\ IsState(state)
    BY <1>2 DEF CutObservation, TypeOK, Teardown, ClaimsOK
  <2>2. \E where \in Places : Go(where, state)
    <3>1. "SIGINT" \in Places
      BY DEF Places, Signals
    <3>2. pc \in Graces => WhenNot(TRUE) \in Places
      BY Goals
    <3> QED
      BY <1>2, <3>1, <3>2 DEF CutObservation
  <2> QED
    BY <1>1, <2>1, <2>2 DEF Lands
<1>3. CASE CutSignal
  <2>1. pc \in Signals /\ pc \in Teardown
    BY <1>3 DEF CutSignal, Teardown
  <2>2. PICK sent \in SUBSET {pc} : \E noted \in SUBSET sent :
          IF pc = "SIGKILL" THEN Reaches(sent) /\ UNCHANGED faults /\ AfterSignal(pc, Attempted(noted))
          ELSE \/ /\ Reaches(sent \union {"SIGKILL"}) /\ UNCHANGED faults
                  /\ AfterSignal(pc, Attempted(noted \union {"SIGKILL"}))
               \/ /\ Fails /\ Reaches(sent)
                  /\ Go("reap", Denied(Attempted(noted \union {"SIGKILL"})))
    BY <1>3 DEF CutSignal
  <2>3. PICK noted \in SUBSET sent :
          IF pc = "SIGKILL" THEN Reaches(sent) /\ UNCHANGED faults /\ AfterSignal(pc, Attempted(noted))
          ELSE \/ /\ Reaches(sent \union {"SIGKILL"}) /\ UNCHANGED faults
                  /\ AfterSignal(pc, Attempted(noted \union {"SIGKILL"}))
               \/ /\ Fails /\ Reaches(sent)
                  /\ Go("reap", Denied(Attempted(noted \union {"SIGKILL"})))
    BY <2>2
  <2>4. /\ sent \in SUBSET Signals /\ sent \union {"SIGKILL"} \in SUBSET Signals
        /\ noted \in SUBSET Signals /\ noted \union {"SIGKILL"} \in SUBSET Signals
    BY <2>1 DEF Signals
  <2>5. /\ faults' \in 0..MaxFaults
        /\ Reaches(sent) \/ Reaches(sent \union {"SIGKILL"})
    BY <2>3, FailsOnce
  <2>6. hit' \in [Members -> SUBSET Signals]
    BY <2>4, <2>5, ReachesMore
  <2>7. \E S \in SUBSET Signals :
          AfterSignal(pc, Attempted(S)) \/ Go("reap", Denied(Attempted(S)))
    BY <2>3, <2>4
  <2>8. PICK S \in SUBSET Signals :
          AfterSignal(pc, Attempted(S)) \/ Go("reap", Denied(Attempted(S)))
    BY <2>7
  <2>9. CASE AfterSignal(pc, Attempted(S))
    <3>1. PICK where \in Places : Go(where, Attempted(S))
      BY <2>1, <2>9, Goals
    <3>2. TeardownMove(where, Attempted(S))
      BY <1>1, <2>1, <2>5, <2>6, <3>1, AttemptedMore DEF Lands
    <3> QED
      BY <3>2
  <2>10. CASE Go("reap", Denied(Attempted(S)))
    <3>1. "reap" \in Places
      BY DEF Places
    <3>2. TeardownMove("reap", Denied(Attempted(S)))
      BY <1>1, <2>1, <2>5, <2>6, <2>10, <3>1, AttemptedMore DEF Lands
    <3> QED
      BY <3>1, <3>2
  <2> QED
    BY <2>8, <2>9, <2>10
<1>4. CASE CutReap
  <2>0. pc = "reap" /\ pc \in Teardown /\ "reap" \in Places /\ {"SIGKILL"} \in SUBSET Signals
    BY <1>4 DEF CutReap, Teardown, Places, Signals
  <2>1. PICK sent \in SUBSET {"SIGKILL"}, noted \in SUBSET {"SIGKILL"} :
          \/ /\ Reaches(sent) /\ UNCHANGED <<faults, pc, left>>
             /\ state' = Attempted(noted)
          \/ /\ Fails /\ UNCHANGED <<hit, pc, left>>
             /\ state' = Denied(Attempted({"SIGKILL"}))
          \/ /\ left = 0 /\ member[Leader] = "live"
             /\ Reaches(sent) /\ UNCHANGED faults /\ AfterReap(Attempted(noted))
    BY <1>4 DEF CutReap
  <2>2. sent \in SUBSET Signals /\ noted \in SUBSET Signals
    BY <2>0
  <2>3. faults' \in 0..MaxFaults
    BY <2>1, FailsOnce
  <2>4. hit' \in [Members -> SUBSET Signals]
    BY <2>1, <2>2, ReachesMore DEF TypeOK
  <2>5. CASE UNCHANGED <<pc, left>> /\ state' = Attempted(noted)
    <3>1. Lands("reap", Attempted(noted))
      BY <2>0, <2>5 DEF Lands
    <3> QED
      BY <1>1, <2>0, <2>2, <2>3, <2>4, <3>1, AttemptedMore
  <2>6. CASE UNCHANGED <<pc, left>> /\ state' = Denied(Attempted({"SIGKILL"}))
    <3>1. Lands("reap", Denied(Attempted({"SIGKILL"})))
      BY <2>0, <2>6 DEF Lands
    <3> QED
      BY <1>1, <2>0, <2>2, <2>3, <2>4, <3>1, AttemptedMore
  <2>7. CASE AfterReap(Attempted(noted))
    <3>1. PICK where \in Places : Go(where, Attempted(noted))
      BY <2>7, Goals
    <3>2. TeardownMove(where, Attempted(noted))
      BY <1>1, <2>0, <2>2, <2>3, <2>4, <3>1, AttemptedMore DEF Lands
    <3> QED
      BY <3>2
  <2> QED
    BY <2>1, <2>5, <2>6, <2>7
<1> QED
  BY <1>2, <1>3, <1>4 DEF Cut

-----------------------------------------------------------------------------
(* Type correctness.                                                       *)

Resting == Signals \union {"preflight", "popen", "starting", "running", "stopping", "drain",
                           "closing", "restore", "report", "done"}

LEMMA TicksOf ==
  /\ \A p \in Resting : Ticks(p) = 0
  /\ \A p \in Graces \union {"reap", "reapKilled"} : Ticks(p) \in Nat
BY SupervisorAssumption DEF Ticks, Resting, Graces, Signals

\* The steps of the sampling loop, and those that only go on.
Loop == Started \/ ChildExited \/ OperatorStop \/ PollFails \/ Sample
Onward == Accept \/ Own \/ Close \/ Released

LEMMA Cases ==
  ASSUME TypeOK, ClaimsOK, [Next]_vars
  PROVE  \/ Refuse \/ Spawn \/ Onward \/ Loop
         \/ \E where \in Places : \E st : TeardownMove(where, st)
         \/ Drain \/ Restore \/ Report \/ Group \/ Kernel \/ Writes
         \/ Noted \/ CutSpawn \/ Escapes \/ Tick \/ UNCHANGED vars
BY ObservationMoves, SignalMoves, ReapMoves, CutMoves
   DEF Next, Supervise, Interrupt, Loop, Onward

\* What the kernel does to a member is one of the ways it can end.
LEMMA GroupCases ==
  ASSUME Group \/ Kernel
  PROVE  /\ Aside /\ result = None
         /\ \E m \in Members :
              \/ Fork(m)
              \/ /\ member[m] = "live"
                 /\ \E cause \in {"itself"} \union hit[m] : Ends(m, cause)
BY DEF Group, Kernel, Exits, Killed

LEMMA TypeStep ==
  ASSUME TypeOK, ClaimsOK, [Next]_vars
  PROVE  TypeOK'
<1> USE DEF external, group, operator, report
<1>0. IsState(state)
  BY DEF ClaimsOK
<1>1. CASE Refuse
  BY <1>1, TicksOf DEF Refuse, TypeOK, Resting
<1>2. CASE Spawn
  <2>1. faults' \in 0..MaxFaults
    BY <1>2, FailsOnce DEF Spawn
  <2>2. member' \in [Members -> {"unborn", "live", "zombie", "gone"}]
    BY <1>2 DEF Spawn, TypeOK
  <2>3. pc' \in {"popen", "restore"} /\ left' \in 0..Ticks(pc')
    BY <1>2, TicksOf DEF Spawn, TypeOK, Resting
  <2>4. error' \in BOOLEAN
    BY <1>2 DEF Spawn, TypeOK
  <2> QED
    BY <1>2, <2>1, <2>2, <2>3, <2>4 DEF Spawn, TypeOK
<1>13. CASE Onward
  <2>1. /\ pc \in {"preflight", "popen", "closing"} /\ pc' \in {"popen", "starting", "restore"}
        /\ UNCHANGED <<external, faults, left, operator, report, state, result>>
    BY <1>13 DEF Onward, Accept, Own, Close, Released
  <2>2. left' \in 0..Ticks(pc')
    BY <2>1, TicksOf DEF TypeOK, Resting
  <2> QED
    BY <2>1, <2>2 DEF TypeOK
<1>3. CASE Loop
  <2>1. faults' \in 0..MaxFaults
    BY <1>3, FailsOnce DEF Loop, Started, ChildExited, OperatorStop, PollFails, Sample
  <2>2. /\ pc \in {"starting", "running"} /\ pc' \in {"running", "stopping"}
        /\ left' \in 0..Ticks(pc')
    BY <1>3, TicksOf
       DEF Loop, Started, ChildExited, OperatorStop, PollFails, Sample, Stop, TypeOK, Resting
  <2>3. /\ error' = error \/ error' = TRUE
        /\ handler' = handler \/ handler' = TRUE
        /\ samples' = samples \/ samples' = 1
    BY <1>3, Zenon DEF Loop, Started, ChildExited, OperatorStop, PollFails, Sample
  <2>5. error' \in BOOLEAN /\ handler' \in BOOLEAN
    BY <2>3 DEF TypeOK
  <2>6. samples' \in 0..1
    BY <2>3 DEF TypeOK
  <2>4. UNCHANGED <<external, requested, expedite, late, escaped, state>>
    BY <1>3 DEF Loop, Started, ChildExited, OperatorStop, PollFails, Sample
  <2> QED
    BY <2>1, <2>2, <2>4, <2>5, <2>6 DEF TypeOK, Teardown
<1>4. ASSUME NEW where \in Places, NEW st, TeardownMove(where, st)
      PROVE  TypeOK'
  <2>1. /\ pc' = where /\ IsState(state')
        /\ left' = Ticks(where) \/ (pc = where /\ left' = left)
    BY <1>4, LandEffect DEF TeardownMove
  <2>2. left' \in 0..Ticks(pc')
    <3>1. Ticks(where) \in Nat
      BY TicksOf DEF Places, Resting
    <3> QED
      BY <2>1, <3>1 DEF TypeOK
  <2>3. member' \in [Members -> {"unborn", "live", "zombie", "gone"}]
    BY <1>4 DEF TeardownMove, TypeOK
  <2> QED
    BY <1>4, <2>1, <2>2, <2>3 DEF TeardownMove, TypeOK, IsState, Places, Teardown
<1>5. CASE Drain
  <2>1. faults' \in 0..MaxFaults
    BY <1>5, FailsOnce DEF Drain
  <2>2. pc' \in {"closing", "restore"} /\ left' \in 0..Ticks(pc')
    BY <1>5, TicksOf DEF Drain, TypeOK, Resting
  <2>3. error' \in BOOLEAN
    BY <1>5 DEF Drain, TypeOK
  <2> QED
    BY <1>5, <2>1, <2>2, <2>3 DEF Drain, TypeOK
<1>6. CASE Restore \/ Report
  <2>1. faults' \in 0..MaxFaults
    BY <1>6, FailsOnce DEF Restore, Report
  <2>2. pc' \in {"report", "done"} /\ left' \in 0..Ticks(pc')
    BY <1>6, TicksOf DEF Restore, Report, TypeOK, Resting
  <2>3. error' \in BOOLEAN
    BY <1>6 DEF Restore, Report, TypeOK
  <2>4. UNCHANGED <<external, operator, samples, state>>
    BY <1>6 DEF Restore, Report
  <2> QED
    BY <2>1, <2>2, <2>3, <2>4 DEF TypeOK
<1>7. CASE Group \/ Kernel
  <2>1. UNCHANGED <<heeds, over, changed, faults, pc, left, operator, report, state, result>>
    BY <1>7, GroupCases DEF Aside
  <2>2. PICK m \in Members :
          \/ Fork(m)
          \/ /\ member[m] = "live"
             /\ \E cause \in {"itself"} \union hit[m] : Ends(m, cause)
    BY <1>7, GroupCases
  <2>3. CASE Fork(m)
    BY <2>1, <2>3 DEF Fork, TypeOK
  <2>4. ASSUME NEW cause \in {"itself"} \union hit[m], Ends(m, cause)
        PROVE  TypeOK'
    <3>1. cause \in {"itself"} \union Signals
      BY DEF TypeOK
    <3>2. member' \in [Members -> {"unborn", "live", "zombie", "gone"}]
      BY <2>4 DEF Ends, TypeOK
    <3>3. endedBy' \in [Members -> {None, "itself"} \union Signals]
      BY <2>4, <3>1 DEF Ends, TypeOK
    <3>4. hit' \in [Members -> SUBSET Signals]
      BY <2>4 DEF Ends, TypeOK
    <3>5. code' \in {None, -1} \union ExitCodes
      BY <2>4 DEF Ends, TypeOK
    <3> QED
      BY <2>1, <3>2, <3>3, <3>4, <3>5 DEF TypeOK
  <2> QED
    BY <2>2, <2>3, <2>4
<1>8. CASE Writes
  <2>1. over' \subseteq Budgets /\ changed' \in BOOLEAN
    BY <1>8 DEF Writes, TypeOK
  <2> QED
    BY <1>8, <2>1 DEF Writes, TypeOK
<1>9. CASE Noted
  <2>1. /\ requested' \in BOOLEAN /\ expedite' \in BOOLEAN /\ late' \in BOOLEAN
    BY <1>9 DEF Noted, TypeOK
  <2> QED
    BY <1>9, <2>1 DEF Noted, TypeOK
<1>12. CASE CutSpawn
  <2>1. /\ pc \in {"popen", "starting"} /\ pc' \in {"restore", "stopping"} /\ left' = left
    BY <1>12 DEF CutSpawn, Stop
  <2>2. left' \in 0..Ticks(pc')
    BY <2>1, TicksOf DEF TypeOK, Resting
  <2> QED
    BY <1>12, <2>1, <2>2 DEF CutSpawn, TypeOK, Teardown
<1>14. CASE Escapes
  <2>1. pc' \in {"done", "stopping"} /\ left' \in 0..Ticks(pc')
    BY <1>14, TicksOf DEF Escapes, Resting
  <2>2. state' \in {state, NoState} /\ escaped' \in BOOLEAN
    BY <1>14 DEF Escapes, TypeOK
  <2>3. IsState(state')
    <3>1. IsState(NoState)
      BY DEF IsState, NoState, StateFields
    <3> QED
      BY <1>0, <2>2, <3>1
  <2> QED
    BY <1>14, <2>1, <2>2, <2>3 DEF Escapes, TypeOK, Teardown, IsState
<1>10. CASE Tick
  <2>1. Ticks(pc) \in Nat
    BY TicksOf DEF TypeOK, Resting, Graces, Signals, Teardown
  <2>2. left' \in 0..Ticks(pc')
    BY <1>10, <2>1 DEF Tick, TypeOK
  <2> QED
    BY <1>10, <2>2 DEF Tick, TypeOK
<1>11. CASE UNCHANGED vars
  BY <1>11 DEF vars, TypeOK
<1> QED
  BY <1>1, <1>2, <1>3, <1>4, <1>5, <1>6, <1>7, <1>8, <1>9, <1>10, <1>11, <1>12, <1>13, <1>14,
     Cases

-----------------------------------------------------------------------------
(* The teardown's claims.                                                  *)

\* No live member can be born of a group without one, and the reaped child
\* stays gone.
LEMMA GroupKeepsClaims ==
  ASSUME TypeOK, ClaimsOK, Group \/ Kernel
  PROVE  ClaimsOK'
<1>1. /\ pc' = pc /\ state' = state
  BY GroupCases DEF Aside
<1>2. PICK m \in Members :
        \/ Fork(m)
        \/ /\ member[m] = "live"
           /\ \E cause \in {"itself"} \union hit[m] : Ends(m, cause)
  BY GroupCases
<1>3. CASE Fork(m)
  <2>1. member[m] = "unborn" /\ ~state.quiescent
    BY <1>3 DEF Fork, Live, ClaimsOK
  <2>2. m # Leader => member'[Leader] = member[Leader]
    BY <1>3 DEF Fork, TypeOK, Members
  <2>3. state.reaped => m # Leader
    BY <2>1 DEF ClaimsOK
  <2> QED
    BY <1>1, <2>1, <2>2, <2>3 DEF ClaimsOK
<1>4. ASSUME member[m] = "live", NEW cause, Ends(m, cause)
      PROVE  ClaimsOK'
  <2>2. member' = [member EXCEPT ![m] = IF m = Leader THEN "zombie" ELSE "gone"]
    BY <1>4 DEF Ends
  <2>3. \A n \in Members : member[n] # "live" => member'[n] # "live"
    BY <2>2 DEF TypeOK
  <2>4. state.reaped => m # Leader
    BY <1>4 DEF ClaimsOK
  <2>5. m # Leader => member'[Leader] = member[Leader]
    BY <2>2 DEF TypeOK, Members
  <2> QED
    BY <1>1, <2>3, <2>4, <2>5 DEF ClaimsOK
<1> QED
  BY <1>2, <1>3, <1>4

LEMMA TeardownKeepsClaims ==
  ASSUME TypeOK, ClaimsOK, NEW where \in Places, NEW st, TeardownMove(where, st)
  PROVE  ClaimsOK'
<1>1. /\ pc' = where /\ IsState(state')
      /\ state'.quiescent = st.quiescent /\ state'.reaped = st.reaped
  BY LandEffect DEF TeardownMove
<1>2. pc' \notin {"preflight", "popen"}
  BY <1>1 DEF Places, Signals, Graces
<1>3. \A m \in Members : member[m] # "live" => member'[m] # "live"
  BY DEF TeardownMove, TypeOK
<1>4. st.quiescent => \A m \in Members : member[m] # "live"
  BY DEF TeardownMove, ClaimsOK, Live
<1>5. member[Leader] = "gone" => member'[Leader] = "gone"
  BY DEF TeardownMove, TypeOK, Members
<1>6. st.reaped => member'[Leader] = "gone"
  BY <1>5 DEF TeardownMove, ClaimsOK
<1> QED
  BY <1>1, <1>2, <1>3, <1>4, <1>6 DEF ClaimsOK

LEMMA ClaimsStep ==
  ASSUME TypeOK, ClaimsOK, [Next]_vars
  PROVE  ClaimsOK'
<1> USE DEF external, group, operator, report
<1>1. CASE Refuse
  BY <1>1 DEF Refuse, ClaimsOK
<1>2. CASE Spawn
  <2>1. state = NoState /\ state' = state
    BY <1>2 DEF Spawn, ClaimsOK
  <2>2. ~state'.quiescent /\ ~state'.reaped
    BY <2>1 DEF NoState
  <2> QED
    BY <2>1, <2>2 DEF ClaimsOK
<1>9. CASE Onward
  <2>1. state' = state /\ member' = member /\ (pc' \in {"preflight", "popen"} => pc = "preflight")
    BY <1>9 DEF Onward, Accept, Own, Close, Released
  <2> QED
    BY <2>1 DEF ClaimsOK
<1>3. CASE Loop
  <2>1. state' = state /\ member' = member /\ pc' \notin {"preflight", "popen"}
    BY <1>3 DEF Loop, Started, ChildExited, OperatorStop, PollFails, Sample, Stop
  <2> QED
    BY <2>1 DEF ClaimsOK
<1>4. CASE \E where \in Places : \E st : TeardownMove(where, st)
  BY <1>4, TeardownKeepsClaims
<1>5. CASE Drain \/ Restore \/ Report \/ CutSpawn
  <2>1. state' = state /\ member' = member /\ pc' \notin {"preflight", "popen"}
    BY <1>5 DEF Drain, Restore, Report, CutSpawn, Stop
  <2> QED
    BY <2>1 DEF ClaimsOK
<1>6. CASE Group \/ Kernel
  BY <1>6, GroupKeepsClaims
<1>7. CASE Writes \/ Tick \/ Noted \/ UNCHANGED vars
  BY <1>7 DEF Writes, Tick, Noted, vars, ClaimsOK
<1>8. CASE Escapes
  <2>1. state' \in {state, NoState} /\ member' = member /\ pc' \notin {"preflight", "popen"}
    BY <1>8 DEF Escapes
  <2>2. IsState(NoState) /\ ~NoState.quiescent /\ ~NoState.reaped
    BY DEF IsState, NoState, StateFields
  <2> QED
    BY <2>1, <2>2 DEF ClaimsOK
<1> QED
  BY <1>1, <1>2, <1>3, <1>4, <1>5, <1>6, <1>7, <1>8, <1>9, Cases

-----------------------------------------------------------------------------
(* What ends a member was attempted.                                       *)

LEMMA CausesStep ==
  ASSUME TypeOK, ClaimsOK, CausesOK, [Next]_vars
  PROVE  CausesOK'
<1> USE DEF external, group, operator, report
<1>1. CASE \/ Refuse \/ Spawn \/ Onward \/ Drain \/ Restore \/ Report \/ Writes \/ Tick
           \/ Noted \/ CutSpawn \/ UNCHANGED vars
  <2>1. /\ UNCHANGED <<hit, endedBy, state, handler>>
        /\ pc' \in Early => pc \in Early
    BY <1>1 DEF Refuse, Spawn, Onward, Accept, Own, Close, Released, Drain, Restore, Report,
                Writes, Tick, Noted, CutSpawn, Stop, Early, vars
  <2> QED
    BY <2>1 DEF CausesOK
<1>2. CASE Loop
  <2>1. UNCHANGED <<hit, endedBy, state>>
    BY <1>2 DEF Loop, Started, ChildExited, OperatorStop, PollFails, Sample
  <2>2. pc' \notin Early /\ (handler' => handler \/ pc \in Early)
    BY <1>2 DEF Loop, Started, ChildExited, OperatorStop, PollFails, Sample, Stop, Early
  <2> QED
    BY <2>1, <2>2 DEF CausesOK
<1>3. ASSUME NEW where \in Places, NEW st, TeardownMove(where, st)
      PROVE  CausesOK'
  <2>1. state'.attempted = st.attempted /\ pc' = where
    BY <1>3, LandEffect DEF TeardownMove
  <2>2. /\ endedBy' = endedBy /\ handler' = handler /\ state.attempted \subseteq st.attempted
        /\ handler => \A m \in Members : hit'[m] \subseteq hit[m] \union st.attempted
    BY <1>3 DEF TeardownMove
  <2>3. pc' \notin Early
    BY <2>1 DEF Early, Places, Signals, Graces
  <2> QED
    BY <2>1, <2>2, <2>3 DEF CausesOK
<1>4. CASE Group \/ Kernel
  <2>1. state' = state /\ handler' = handler /\ pc' = pc
    BY <1>4, GroupCases DEF Aside
  <2>2. PICK m \in Members :
          \/ Fork(m)
          \/ /\ member[m] = "live"
             /\ \E cause \in {"itself"} \union hit[m] : Ends(m, cause)
    BY <1>4, GroupCases
  <2>3. CASE Fork(m)
    BY <2>1, <2>3 DEF Fork, CausesOK
  <2>4. ASSUME NEW cause \in {"itself"} \union hit[m], Ends(m, cause)
        PROVE  CausesOK'
    <3>0. SUFFICES ASSUME handler \/ pc \in Early
                   PROVE  \A n \in Members :
                            /\ hit'[n] \subseteq state'.attempted
                            /\ endedBy'[n] \in {None, "itself"} \union state'.attempted
      BY <2>1 DEF CausesOK
    <3>1. cause \in {"itself"} \union state.attempted
      BY <3>0 DEF CausesOK
    <3>2. /\ \A n \in Members : hit'[n] \subseteq hit[n]
          /\ \A n \in Members : endedBy'[n] \in {endedBy[n], cause}
      BY <2>4 DEF Ends, TypeOK
    <3> QED
      BY <2>1, <3>0, <3>1, <3>2 DEF CausesOK
  <2> QED
    BY <2>2, <2>3, <2>4
<1>5. CASE Escapes
  <2>1. ~handler' /\ pc' \notin Early
    BY <1>5 DEF Escapes, Early
  <2> QED
    BY <2>1 DEF CausesOK
<1> QED
  BY <1>1, <1>2, <1>3, <1>4, <1>5, Cases

-----------------------------------------------------------------------------
(* The verdict, the report and the theorems.                               *)

LEMMA VerdictStep ==
  ASSUME TypeOK, ClaimsOK, VerdictOK, [Next]_vars
  PROVE  VerdictOK'
<1> USE DEF external, group, operator, report
<1>1. CASE Refuse \/ Report \/ Escapes
  <2>1. pc' \in {"done", "stopping"}
    BY <1>1 DEF Refuse, Report, Escapes
  <2> QED
    BY <2>1 DEF VerdictOK
<1>2. CASE Spawn
  <2>1. pc' = "popen" \/ (pc' = "restore" /\ reason' = "wrapper_failure")
    BY <1>2 DEF Spawn
  <2> QED
    BY <2>1 DEF VerdictOK
<1>3. CASE Loop
  <2>1. pc' \in {"running", "stopping"}
    BY <1>3 DEF Loop, Started, ChildExited, OperatorStop, PollFails, Sample, Stop
  <2> QED
    BY <2>1 DEF VerdictOK
<1>8. CASE Onward
  <2>1. /\ UNCHANGED <<reason, state, requested, late>>
        /\ pc' \in {"popen", "starting"} \/ (pc = "closing" /\ pc' = "restore")
    BY <1>8 DEF Onward, Accept, Own, Close, Released
  <2> QED
    BY <2>1 DEF VerdictOK, Complete
<1>4. ASSUME NEW where \in Places, NEW st, TeardownMove(where, st)
      PROVE  VerdictOK'
  <2>1. pc' = where /\ (where = "drain" => Complete(state'))
    BY <1>4, LandEffect DEF TeardownMove
  <2>2. where \notin {"closing", "restore", "report"}
    BY DEF Places, Signals, Graces
  <2> QED
    BY <2>1, <2>2 DEF VerdictOK
<1>5. CASE Drain
  <2>1. /\ Complete(state) /\ state' = state /\ UNCHANGED <<requested, late>>
        /\ pc' \in {"closing", "restore"}
    BY <1>5 DEF Drain, VerdictOK
  <2>2. \/ pc' = "restore" /\ reason' = Looked(reason)
        \/ reason' \in {"sampler_failure", "wrapper_failure"}
    BY <1>5 DEF Drain
  <2>3. Looked(reason) = "completed" => ~requested
    BY DEF Looked
  <2>4. Complete(state)'
    BY <2>1 DEF Complete
  <2>5. reason' = "completed" => pc' = "restore" /\ ~requested'
    BY <2>1, <2>2, <2>3
  <2> QED
    BY <2>1, <2>4, <2>5 DEF VerdictOK
<1>9. CASE Restore
  <2>1. /\ pc = "restore" /\ pc' \in {"report", "done"}
        /\ UNCHANGED <<state, requested, late>>
        /\ reason' = reason \/ reason' = "wrapper_failure"
    BY <1>9 DEF Restore
  <2> QED
    BY <2>1 DEF VerdictOK, Complete
<1>6. CASE Group \/ Kernel \/ Writes \/ Tick \/ UNCHANGED vars
  <2>1. UNCHANGED <<pc, state, reason, requested, late>>
    BY <1>6, GroupCases DEF Aside, Writes, Tick, vars
  <2> QED
    BY <2>1 DEF VerdictOK, Complete
<1>7. CASE Noted
  <2>1. /\ UNCHANGED <<pc, state, reason>> /\ pc # "report"
        /\ late' = (late \/ (pc = "restore" /\ ~requested))
    BY <1>7 DEF Noted, Teardown, Signals, Graces
  <2>2. pc = "restore" /\ reason = "completed" => late'
    BY <2>1 DEF VerdictOK, TypeOK
  <2> QED
    BY <2>1, <2>2 DEF VerdictOK, Complete
<1>10. CASE CutSpawn
  <2>1. pc' = "stopping" \/ (pc = "popen" /\ pc' = "restore" /\ reason' = "operator_interrupted")
    BY <1>10 DEF CutSpawn, Stop
  <2>2. state' = state /\ (pc = "popen" => ~state.reaped)
    BY <1>10 DEF CutSpawn, ClaimsOK, NoState
  <2> QED
    BY <2>1, <2>2 DEF VerdictOK
<1> QED
  BY <1>1, <1>2, <1>3, <1>4, <1>5, <1>6, <1>7, <1>8, <1>9, <1>10, Cases

\* The reasons a report may end with.
LEMMA EarnedStatus ==
  ASSUME TypeOK, VerdictOK, pc = "report", ExitStatus \in {0, 2}
  PROVE  /\ code = ExitStatus
         /\ samples = 1 /\ ~changed /\ (requested => late)
         /\ over \intersect {"raw", "aggregate"} = {}
<1>1. FinalReason = "completed" /\ code \in {0, 2} /\ code = ExitStatus
  BY DEF ExitStatus
<1>2. TornDown = "completed" /\ ~FinalError
  BY <1>1 DEF FinalReason
<1>3. Judged = "completed" /\ state.failure = None
  BY <1>2 DEF TornDown
<1>4. Budgeted = "completed"
  BY <1>3 DEF Judged
<1>5. ~changed /\ ~error /\ samples = 1
  BY <1>2 DEF FinalError, TypeOK
<1>6. Identified = "completed"
  BY <1>4 DEF Budgeted
<1>7. reason = "completed"
  BY <1>5, <1>6 DEF Identified
<1>8. requested => late
  BY <1>7 DEF VerdictOK
<1>9. Eligible
  BY <1>1, <1>3, <1>5, <1>6 DEF Eligible
<1>10. "raw" \notin over /\ "aggregate" \notin over
  BY <1>4, <1>9 DEF Budgeted
<1> QED
  BY <1>1, <1>5, <1>8, <1>10

LEMMA HonestFailure ==
  ASSUME FinalReason \notin Failures
  PROVE  /\ state.failure = None /\ reason # "wrapper_failure"
         /\ reason = "operator_interrupted" => FinalReason = "operator_interrupted"
<1>1. TornDown \notin Failures
  BY DEF FinalReason, Failures
<1>2. state.failure = None /\ Judged \notin Failures
  BY <1>1 DEF TornDown, Failures
<1>3. Budgeted \notin Failures
  BY <1>2 DEF Judged, Failures
<1>4. Identified \notin Failures
  BY <1>3 DEF Budgeted, Eligible, Failures
<1>5. ~changed /\ Identified = reason /\ reason \notin Failures
  BY <1>4 DEF Identified, Failures
<1>6. ASSUME reason = "operator_interrupted"
      PROVE  FinalReason = "operator_interrupted"
  <2>1. Budgeted = "operator_interrupted"
    BY <1>5, <1>6 DEF Budgeted, Eligible
  <2>2. TornDown = "operator_interrupted"
    BY <1>2, <2>1 DEF Judged, TornDown
  <2> QED
    BY <2>2 DEF FinalReason
<1> QED
  BY <1>2, <1>5, <1>6 DEF Failures

LEMMA ReportStep ==
  ASSUME IInv, [Next]_vars
  PROVE  ReportOK'
<1> USE DEF external, group, operator, report
<1>0. TypeOK /\ ClaimsOK /\ CausesOK /\ VerdictOK /\ ReportOK
  BY DEF IInv
<1>1. CASE Report
  <2>1. /\ pc = "report" /\ pc' = "done"
        /\ UNCHANGED <<member, endedBy, code, over, changed, handler, requested, late, samples, state>>
    BY <1>1 DEF Report
  <2>2. CASE result' = [exit |-> ExitStatus, diagnostic |-> FinalReason, published |-> TRUE,
                        reaped |-> state.reaped, finalization |-> Finalization]
    <3>1. /\ result'.exit = ExitStatus /\ result'.diagnostic = FinalReason
          /\ result'.reaped = state.reaped /\ result'.finalization = Finalization
      BY <2>2
    <3>2. StatusIsEarned'
      BY <1>0, <2>1, <3>1, EarnedStatus DEF StatusIsEarned
    <3>3. NoOrphans'
      <4>1. SUFFICES ASSUME FinalReason \notin Failures
                     PROVE  IF state.reaped THEN Live' = {} /\ member'[Leader] = "gone"
                            ELSE /\ FinalReason = "operator_interrupted"
                                 /\ Finalization = "unknown"
        BY <3>1 DEF NoOrphans, Failures
      <4>2. CASE state.reaped
        <5>1. state.quiescent
          BY <1>0, <2>1, <4>1, <4>2, HonestFailure DEF VerdictOK, Complete
        <5> QED
          BY <1>0, <2>1, <4>2, <5>1 DEF ClaimsOK, Live
      <4>3. CASE ~state.reaped
        <5>1. reason = "operator_interrupted"
          BY <1>0, <2>1, <4>1, <4>3, HonestFailure DEF VerdictOK, Complete
        <5>2. Finalization = "unknown"
          BY <4>3 DEF Finalization
        <5> QED
          BY <4>1, <4>3, <5>1, <5>2, HonestFailure
      <4> QED
        BY <4>2, <4>3
    <3>4. CooperativeIsTrue'
      <4>1. SUFFICES ASSUME handler, Finalization = "cooperative"
                     PROVE  \A m \in Members : endedBy[m] \notin {"SIGTERM", "SIGKILL"}
        BY <2>1, <3>1 DEF CooperativeIsTrue
      <4>2. "SIGKILL" \notin state.attempted /\ "SIGTERM" \notin state.attempted
        BY <4>1 DEF Finalization
      <4>3. None \notin {"SIGTERM", "SIGKILL"}
        BY SupervisorAssumption DEF Signals
      <4> QED
        BY <1>0, <4>1, <4>2, <4>3 DEF CausesOK
    <3> QED
      BY <2>1, <3>2, <3>3, <3>4 DEF ReportOK
  <2>3. CASE ~result'.published
    BY <2>1, <2>3 DEF ReportOK, StatusIsEarned, NoOrphans, CooperativeIsTrue, Published
  <2> QED
    BY <1>1, <2>2, <2>3 DEF Report
<1>2. CASE pc' = "done" /\ ~result'.published
  BY <1>2 DEF ReportOK, StatusIsEarned, NoOrphans, CooperativeIsTrue, Published
<1>3. CASE pc # "done" /\ result' = result
  <2>1. result = None
    BY <1>0, <1>3 DEF ReportOK
  <2> QED
    BY <1>3, <2>1 DEF ReportOK, StatusIsEarned, NoOrphans, CooperativeIsTrue, Published
<1>4. CASE pc = "done" /\ UNCHANGED <<member, endedBy, code, over, changed, handler, requested,
                                      late, samples, pc, result>>
  BY <1>0, <1>4 DEF ReportOK, StatusIsEarned, NoOrphans, CooperativeIsTrue, Published, Live
<1>5. CASE Spawn \/ Onward \/ Loop \/ Drain \/ Writes \/ Noted \/ CutSpawn
  <2>1. pc # "done" /\ result' = result
    BY <1>5 DEF Spawn, Onward, Accept, Own, Close, Released, Loop, Started, ChildExited,
                OperatorStop, PollFails, Sample, Drain, Writes, Noted, CutSpawn, Teardown,
                Signals, Graces
  <2> QED
    BY <1>3, <2>1
<1>6. CASE \E where \in Places : \E st : TeardownMove(where, st)
  <2>1. pc # "done" /\ result' = result
    BY <1>6 DEF TeardownMove, Teardown, Signals, Graces
  <2> QED
    BY <1>3, <2>1
<1>7. CASE Group \/ Kernel
  <2>1. result = None /\ result' = result /\ pc' = pc
    BY <1>7, GroupCases DEF Aside
  <2> QED
    BY <2>1 DEF ReportOK, StatusIsEarned, NoOrphans, CooperativeIsTrue, Published
<1>8. CASE Tick \/ UNCHANGED vars
  <2>1. UNCHANGED <<member, endedBy, code, over, changed, handler, requested, late, samples, pc,
                    result>>
    BY <1>8 DEF Tick, vars
  <2> QED
    BY <1>3, <1>4, <2>1
<1>9. CASE Refuse \/ Restore \/ Escapes
  <2>1. ~Raised.published
    BY DEF Raised
  <2>2. \/ pc' = "done" /\ ~result'.published
        \/ pc # "done" /\ result' = result
    BY <1>9, <2>1 DEF Refuse, Restore, Escapes, Teardown, Signals, Graces
  <2> QED
    BY <1>2, <1>3, <2>2
<1> QED
  BY <1>0, <1>1, <1>5, <1>6, <1>7, <1>8, <1>9, Cases

LEMMA InitInvariant == Init => IInv
<1> SUFFICES ASSUME Init PROVE IInv
  OBVIOUS
<1>1. TypeOK
  <2>1. left \in 0..Ticks(pc)
    BY TicksOf DEF Init, Resting
  <2>2. faults \in 0..MaxFaults
    BY SupervisorAssumption DEF Init
  <2>3. /\ member \in [Members -> {"unborn", "live", "zombie", "gone"}]
        /\ endedBy \in [Members -> {None, "itself"} \union Signals]
        /\ hit \in [Members -> SUBSET Signals]
    BY DEF Init
  <2>4. /\ state.attempted \subseteq Signals /\ state.expiries \subseteq Graces
        /\ state.quiescent \in BOOLEAN /\ state.reaped \in BOOLEAN
    BY DEF Init, NoState
  <2>5. /\ changed \in BOOLEAN /\ handler \in BOOLEAN /\ requested \in BOOLEAN
        /\ expedite \in BOOLEAN /\ error \in BOOLEAN /\ late \in BOOLEAN /\ escaped \in BOOLEAN
    BY Zenon DEF Init
  <2>6. code \in {None, -1} \union ExitCodes /\ over \subseteq Budgets /\ samples \in 0..1
    BY DEF Init
  <2>7. pc = "preflight"
    BY DEF Init
  <2> QED
    BY <2>1, <2>2, <2>3, <2>4, <2>5, <2>6, <2>7 DEF TypeOK
<1>2. ClaimsOK /\ CausesOK
  BY DEF Init, ClaimsOK, CausesOK, IsState, NoState, StateFields
<1>3. VerdictOK /\ ReportOK
  BY DEF Init, VerdictOK, ReportOK, StatusIsEarned, NoOrphans, CooperativeIsTrue, Published
<1> QED
  BY <1>1, <1>2, <1>3 DEF IInv

LEMMA Invariance == Spec => []IInv
<1>1. IInv /\ [Next]_vars => IInv'
  BY TypeStep, ClaimsStep, CausesStep, VerdictStep, ReportStep DEF IInv
<1> QED
  BY <1>1, InitInvariant, PTL DEF Spec

\* Teardown is truthful (see TeardownIsTruthful, for run_measurement_v2 from the
\* fork to the report and the interrupts in between): for any group, graces and
\* number of failures, a report that names no failure leaves nothing of a group the
\* wrapper owned, owns to the one child it may have left behind, and calls a
\* finalization cooperative only if nothing forced it while its handler stood.
THEOREM TeardownSafe == Spec => []TeardownIsTruthful
<1>1. IInv => TeardownIsTruthful
  BY DEF IInv, ReportOK, TeardownIsTruthful
<1> QED
  BY <1>1, Invariance, PTL

\* Status is earned (see StatusIsEarned, for the corrections of the reason after
\* the loop): the wrapper's status 0 or 2 is the child's own, in a run that was
\* sampled, within its raw and aggregate budgets at the end, with its identity files
\* intact, and not interrupted before the last look at the operator's request.
THEOREM StatusSafe == Spec => []StatusIsEarned
<1>1. IInv => StatusIsEarned
  BY DEF IInv, ReportOK
<1> QED
  BY <1>1, Invariance, PTL

=============================================================================
