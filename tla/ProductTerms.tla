---------------------------- MODULE ProductTerms ----------------------------
(***************************************************************************)
(* Reviewed product terms (src/python/pmm_product_terms.py): what the      *)
(* venue said about a product is fetched once before and once after a      *)
(* capture, the two observations are assembled into one package, terms,    *)
(* an evidence map and a review are built in it, and a catalogue resolves  *)
(* a capture to the one package whose review covers it.                    *)
(*                                                                         *)
(* A document's hash is the document itself.  The content of a source is   *)
(* its revision number.  Sizes, media types and address checks are one     *)
(* refusal, which ends a fetch like any other failure.  One operator runs  *)
(* one command at a time; a fetch is the one command that takes steps.     *)
(***************************************************************************)
EXTENDS Integers, FiniteSets

CONSTANTS
    Required,         \* sources the evidence profile requires
    Optional,         \* sources it allows
    Records,          \* JSON records the terms are compared with; the others
                      \* are static documents
    Packages,         \* package directories under the catalogue's root
    Labels,           \* wordings an operator may give an evidence map
    PackageDeadline,  \* PACKAGE_DEADLINE_SECONDS, in ticks
    MaxTime,          \* bound: ticks of the clock
    MaxChanges,       \* bound: changes of the sources
    MaxObservations,  \* bound: observations published
    MaxMishaps        \* bound: killed commands and documents removed by hand

ASSUME TimeAssumption == MaxTime \in Nat

VARIABLES
    now,       \* the clock
    began,     \* when each revision of each source began
    fetch,     \* the running `fetch' command, or Absent
    observed,  \* published observations, each in a directory of its own
    package,   \* the documents of each package directory
    catalog,   \* the entries of the catalogue's manifest
    sealed,    \* what review commands were given (history)
    mishaps

termsVars == <<now, began, fetch, observed, package, catalog, sealed, mishaps>>

Sources == Required \cup Optional
Static == Sources \ Records
Observations == {"opening", "closing"}
Documents == {"terms", "map", "review"}
Instants == 0..MaxTime
Revisions == 1..(MaxChanges + 1)

Absent == [kind |-> "none"]
Torn == [kind |-> "torn"]
NoSource == "none"

EmptyPackage == [manifest |-> Absent, terms |-> Absent, map |-> Absent, review |-> Absent]

(***************************************************************************)
(* What the venue serves.                                                  *)
(***************************************************************************)

Serves(s) == Cardinality(DOMAIN began[s])

\* What source s said when tick t ended.
Said(s, t) == Cardinality({r \in DOMAIN began[s] : began[s][r] <= t})

ClockTicks ==
    /\ now < MaxTime
    /\ now' = now + 1
    /\ UNCHANGED <<began, fetch, observed, package, catalog, sealed, mishaps>>

SourceChanges(s) ==
    /\ Cardinality({x \in Sources \X Revisions : x[2] \in DOMAIN began[x[1]]})
         < Cardinality(Sources) + MaxChanges
    /\ began' = [began EXCEPT ![s] =
                    [r \in 1..(Serves(s) + 1) |->
                        IF r = Serves(s) + 1 THEN now ELSE began[s][r]]]
    /\ UNCHANGED <<now, fetch, observed, package, catalog, sealed, mishaps>>

(***************************************************************************)
(* fetch_sources and _request_source.                                      *)
(***************************************************************************)

\* EvidenceProfile.verify_spec_sources.  Every fetch has an output of its own:
\* one that exists is refused.
FetchStarts(o, asked) ==
    /\ fetch = Absent
    /\ Cardinality(observed) < MaxObservations
    /\ Required \subseteq asked
    /\ fetch' = [kind |-> "fetch", observation |-> o, asked |-> asked,
                 started |-> now, retained |-> <<>>, source |-> NoSource, response |-> 0]
    /\ UNCHANGED <<now, began, observed, package, catalog, sealed, mishaps>>

\* A source answers, redirects included, before the package's deadline.
Responds(s) ==
    /\ fetch # Absent
    /\ fetch.source = NoSource
    /\ s \in fetch.asked \ DOMAIN fetch.retained
    /\ now - fetch.started <= PackageDeadline
    /\ fetch' = [fetch EXCEPT !.source = s, !.response = Serves(s)]
    /\ UNCHANGED <<now, began, observed, package, catalog, sealed, mishaps>>

\* The deadlines are checked as chunks arrive, not once the last one is in.
Retains ==
    /\ fetch # Absent
    /\ fetch.source # NoSource
    /\ fetch' = [fetch EXCEPT
                    !.source = NoSource,
                    !.response = 0,
                    !.retained = [s \in DOMAIN fetch.retained \cup {fetch.source} |->
                                     IF s = fetch.source THEN fetch.response
                                     ELSE fetch.retained[s]]]
    /\ UNCHANGED <<now, began, observed, package, catalog, sealed, mishaps>>

\* SourceEvidence.load of one observation.
ObservationLoads(obs) ==
    /\ Required \subseteq DOMAIN obs.sources
    /\ obs.completed >= obs.started

\* The partial directory is loaded before it is renamed to the output.
FetchPublishes ==
    /\ fetch # Absent
    /\ fetch.source = NoSource
    /\ DOMAIN fetch.retained = fetch.asked
    /\ LET obs == [observation |-> fetch.observation, started |-> fetch.started,
                   completed |-> now, sources |-> fetch.retained]
       IN /\ ObservationLoads(obs)
          /\ observed' = observed \cup {obs}
    /\ fetch' = Absent
    /\ UNCHANGED <<now, began, package, catalog, sealed, mishaps>>

\* A refusal, a timeout, a broken stream or a kill: the partial directory,
\* removed or not, is never at the output's path.
FetchFails ==
    /\ fetch # Absent
    /\ fetch' = Absent
    /\ UNCHANGED <<now, began, observed, package, catalog, sealed, mishaps>>

(***************************************************************************)
(* SourceEvidence.load of an assembled manifest, and assembly.             *)
(***************************************************************************)

Symmetric(m) ==
    \A s \in Optional : s \in DOMAIN m.opening.sources <=> s \in DOMAIN m.closing.sources

StaticUnchanged(m) ==
    \A s \in Static \cap DOMAIN m.opening.sources \cap DOMAIN m.closing.sources :
        m.opening.sources[s] = m.closing.sources[s]

EvidenceLoads(m) ==
    /\ m # Absent
    /\ ObservationLoads(m.opening)
    /\ ObservationLoads(m.closing)
    /\ Symmetric(m)
    /\ StaticUnchanged(m)

\* assemble_observations: nothing is left of an assembly that does not load.
Assemble(p, opening, closing) ==
    /\ fetch = Absent
    /\ opening.observation = "opening"
    /\ closing.observation = "closing"
    /\ closing.started > opening.completed
    /\ package[p].manifest = Absent
    /\ LET m == [kind |-> "manifest", opening |-> opening, closing |-> closing]
       IN /\ EvidenceLoads(m)
          /\ package' = [package EXCEPT ![p] = [EmptyPackage EXCEPT !.manifest = m]]
    /\ UNCHANGED <<now, began, fetch, observed, catalog, sealed, mishaps>>

(***************************************************************************)
(* The three documents: ProductTerms, EvidenceMap and ProductReview.       *)
(***************************************************************************)

Present(doc) == doc # Absent /\ doc # Torn

\* Every retained record must say what the terms say, at both observations.
TermsLoad(d) ==
    /\ EvidenceLoads(d.manifest)
    /\ Present(d.terms)
    /\ d.terms.from < d.terms.until
    /\ \A s \in Records :
          /\ s \in DOMAIN d.manifest.opening.sources
          /\ s \in DOMAIN d.manifest.closing.sources
          /\ d.manifest.opening.sources[s] = d.terms.values[s]
          /\ d.manifest.closing.sources[s] = d.terms.values[s]

Anchors(m) ==
    [o \in Observations |->
        IF o = "opening" THEN m.opening.sources ELSE m.closing.sources]

MapLoads(d) ==
    /\ TermsLoad(d)
    /\ Present(d.map)
    /\ d.map.anchors = Anchors(d.manifest)

ReviewLoadsAnyMap(d) ==
    /\ MapLoads(d)
    /\ Present(d.review)
    /\ d.review.terms = d.terms
    /\ d.review.manifest = d.manifest
    /\ d.review.from = d.manifest.opening.completed
    /\ d.review.until = d.manifest.closing.started
    /\ d.review.from = d.terms.from
    /\ d.review.until = d.terms.until
    /\ d.review.from < d.review.until

ReviewLoadsFromStart(d) ==
    /\ MapLoads(d)
    /\ Present(d.review)
    /\ d.review.terms = d.terms
    /\ d.review.manifest = d.manifest
    /\ d.review.map = d.map
    /\ d.review.from = d.manifest.opening.started
    /\ d.review.until = d.manifest.closing.started
    /\ d.review.from = d.terms.from
    /\ d.review.until = d.terms.until

\* The review names every document by its hash, and its interval is the
\* bracket: completion of the opening to start of the closing observation.
ReviewLoads(d) ==
    /\ MapLoads(d)
    /\ Present(d.review)
    /\ d.review.terms = d.terms
    /\ d.review.manifest = d.manifest
    /\ d.review.map = d.map
    /\ d.review.from = d.manifest.opening.completed
    /\ d.review.until = d.manifest.closing.started
    /\ d.review.from = d.terms.from
    /\ d.review.until = d.terms.until
    /\ d.review.from < d.review.until

\* _write_new_canonical, then the load of the new document: what does not load
\* is unlinked.  A command killed in between leaves a document no reader loads
\* (Torn: cut short, or whole and refused).
Build(p, name, doc, Loads(_)) ==
    /\ package[p][name] = Absent
    /\ LET written(value) == [package[p] EXCEPT ![name] = value]
       IN \/ /\ Loads(written(doc))
             /\ package' = [package EXCEPT ![p] = written(doc)]
             /\ UNCHANGED mishaps
          \/ /\ mishaps < MaxMishaps
             /\ mishaps' = mishaps + 1
             /\ package' = [package EXCEPT ![p] = written(Torn)]
    /\ UNCHANGED <<now, began, fetch, observed, catalog>>

\* The operator writes the payload, so it may say anything.
BuildTerms(p) ==
    /\ fetch = Absent
    /\ EvidenceLoads(package[p].manifest)
    /\ \E values \in [Records -> Revisions] :
       \E from \in {package[p].manifest.opening.started, package[p].manifest.opening.completed},
          until \in {package[p].manifest.closing.started, package[p].manifest.closing.completed} :
          Build(p, "terms", [kind |-> "terms", values |-> values,
                             from |-> from, until |-> until], TermsLoad)
    /\ UNCHANGED sealed

BuildMap(p) ==
    /\ fetch = Absent
    /\ TermsLoad(package[p])
    /\ \E label \in Labels :
          Build(p, "map", [kind |-> "map", label |-> label,
                           anchors |-> Anchors(package[p].manifest)], MapLoads)
    /\ UNCHANGED sealed

ReviewTerms(p) ==
    /\ fetch = Absent
    /\ MapLoads(package[p])
    /\ LET d == package[p]
       IN /\ Build(p, "review", [kind |-> "review", terms |-> d.terms,
                                 manifest |-> d.manifest, map |-> d.map,
                                 from |-> d.terms.from, until |-> d.terms.until],
                   ReviewLoads)
          /\ sealed' = sealed \cup {[manifest |-> d.manifest, terms |-> d.terms, map |-> d.map]}

(***************************************************************************)
(* What an operator does by hand (external): a document is removed so that *)
(* it can be made again; the catalogue's manifest is written from the      *)
(* packages at hand.                                                       *)
(***************************************************************************)

Removed ==
    /\ fetch = Absent
    /\ mishaps < MaxMishaps
    /\ mishaps' = mishaps + 1
    /\ \E p \in Packages, name \in Documents :
          /\ package[p][name] # Absent
          /\ package' = [package EXCEPT ![p][name] = Absent]
    /\ UNCHANGED <<now, began, fetch, observed, catalog, sealed>>

Entry(p) ==
    [package |-> p, terms |-> package[p].terms, manifest |-> package[p].manifest,
     review |-> package[p].review, from |-> package[p].review.from,
     until |-> package[p].review.until]

Catalogued(chosen) ==
    /\ fetch = Absent
    /\ chosen # {}
    /\ \A p \in chosen : \A name \in Documents : Present(package[p][name])
    /\ catalog' = {Entry(p) : p \in chosen}
    /\ UNCHANGED <<now, began, fetch, observed, package, sealed, mishaps>>

(***************************************************************************)
(* ProductCatalog.load and resolve, which change nothing.                  *)
(***************************************************************************)

\* ProductCatalog._package_for
EntryLoads(e) ==
    LET d == package[e.package] IN
    /\ ReviewLoads(d)
    /\ d.terms = e.terms
    /\ d.manifest = e.manifest
    /\ d.review = e.review
    /\ e.from = d.terms.from
    /\ e.until = d.terms.until

Overlap(e, f) == e.from < f.until /\ f.from < e.until

\* ProductCatalog.load and verify: one market, no two intervals overlap.
CatalogLoads ==
    /\ catalog # {}
    /\ \A e \in catalog : EntryLoads(e)
    /\ \A e, f \in catalog : (e # f) => (e.from # f.from /\ ~Overlap(e, f))

\* ProductReview.covers
Covers(e, a, b) == e.from <= a /\ b < e.until

Matches(a, b) == {e \in catalog : Covers(e, a, b)}

\* The entries `resolve' would answer for a capture of [a, b].
Resolved(a, b) ==
    IF a <= b /\ Cardinality(Matches(a, b)) = 1 /\ CatalogLoads THEN Matches(a, b) ELSE {}

TermsInit ==
    /\ now = 0
    /\ began = [s \in Sources |-> [r \in {1} |-> 0]]
    /\ fetch = Absent
    /\ observed = {}
    /\ package = [p \in Packages |-> EmptyPackage]
    /\ catalog = {}
    /\ sealed = {}
    /\ mishaps = 0

TermsNext ==
    \/ ClockTicks
    \/ \E s \in Sources : SourceChanges(s) \/ Responds(s)
    \/ \E o \in Observations, asked \in SUBSET Sources : FetchStarts(o, asked)
    \/ Retains
    \/ FetchPublishes
    \/ FetchFails
    \/ \E p \in Packages, x, y \in observed : Assemble(p, x, y)
    \/ \E p \in Packages : BuildTerms(p) \/ BuildMap(p) \/ ReviewTerms(p)
    \/ Removed
    \/ \E chosen \in SUBSET Packages : Catalogued(chosen)

TermsSpec == TermsInit /\ [][TermsNext]_termsVars

(***************************************************************************)
(* Properties.                                                             *)
(***************************************************************************)

\* A capture is resolved only to terms the venue showed during all of it: at
\* every instant of the capture, each retained source said what the package
\* retains of it.  (A source that changes and changes back between the two
\* observations is out of any bracket's reach; revisions only grow here.)
ObservedThroughout ==
    \A a, b \in Instants : \A e \in Resolved(a, b) :
        LET d == package[e.package] IN
        \A t \in a..b :
            /\ \A s \in Records : Said(s, t) = d.terms.values[s]
            /\ \A s \in DOMAIN d.manifest.opening.sources :
                  Said(s, t) = d.manifest.opening.sources[s]

\* What a capture is resolved to is, document for document, what some review
\* command was given, whatever was removed, rebuilt or cut short since.
ResolvedIsReviewed ==
    \A a, b \in Instants : \A e \in Resolved(a, b) :
        LET d == package[e.package] IN
        [manifest |-> d.manifest, terms |-> d.terms, map |-> d.map] \in sealed

\* A catalogue that loads never has two packages for one capture, so resolve's
\* refusal of an ambiguous catalogue is out of reach.
NeverAmbiguous ==
    CatalogLoads => \A a, b \in Instants : (a <= b) => Cardinality(Matches(a, b)) <= 1

\* A capture resolves to one package at most, and to what was reviewed.
ResolutionIsSound == ResolvedIsReviewed /\ NeverAmbiguous
=============================================================================
