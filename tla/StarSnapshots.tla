---------------------------- MODULE StarSnapshots ----------------------------
(***************************************************************************)
(* GitHubPublicCollector.starred and diff_star_snapshots: the stars of an  *)
(* account are read page by page, newest first, while their owner goes on  *)
(* starring and unstarring, and two snapshots that claim to be complete    *)
(* are compared.  GitHub and the owner are external.                       *)
(***************************************************************************)
EXTENDS Naturals, FiniteSets, Sequences, SequencesExt

CONSTANTS
    Repos,       \* public repositories
    PageSize,    \* repositories per page
    MaxPages,    \* the collector's max_pages
    MaxUnstars,  \* bound on the repositories unstarred
    NoSnapshot

ASSUME PageAssumptions ==
    /\ PageSize \in Nat \ {0} /\ MaxPages \in 1..10
    /\ MaxUnstars \in Nat
    /\ IsFiniteSet(Repos)

VARIABLES
    stars,      \* what the account has starred, newest first
    unstarred,  \* how many repositories it has unstarred
    reading,    \* the collection under way, or NoSnapshot
    previous,   \* the last snapshot but one, and
    current     \* the last

vars == <<stars, unstarred, reading, previous, current>>

\* A collection is at a page and has names; as history it keeps what was starred
\* during all of it (steady), at some time of it (ever), and how much was
\* unstarred meanwhile (lapses).
Starred == ToSet(stars)
FromNow == [page |-> 1, names |-> {}, steady |-> Starred, ever |-> Starred, lapses |-> 0]

Init ==
    /\ stars = <<>> /\ unstarred = 0
    /\ reading = NoSnapshot /\ previous = NoSnapshot /\ current = NoSnapshot

-----------------------------------------------------------------------------
\* A new star is listed first.
Star(r) ==
    /\ r \notin Starred
    /\ stars' = <<r>> \o stars
    /\ reading' = IF reading = NoSnapshot THEN reading
                  ELSE [reading EXCEPT !.ever = @ \cup {r}]
    /\ UNCHANGED <<unstarred, previous, current>>

Unstar(i) ==
    /\ unstarred < MaxUnstars
    /\ unstarred' = unstarred + 1
    /\ stars' = RemoveAt(stars, i)
    /\ reading' = IF reading = NoSnapshot THEN reading
                  ELSE [reading EXCEPT !.steady = @ \ {stars[i]}, !.lapses = @ + 1]
    /\ UNCHANGED <<previous, current>>

-----------------------------------------------------------------------------
Collect ==
    /\ reading = NoSnapshot
    /\ reading' = FromNow
    /\ UNCHANGED <<stars, unstarred, previous, current>>

\* What GitHub answers to the request for the page.
Payload == {stars[i] : i \in {j \in DOMAIN stars :
                (reading.page - 1) * PageSize < j /\ j <= reading.page * PageSize}}

\* Only a page that is not full is known to be the last.
LastPage == Len(stars) < reading.page * PageSize

FetchPage ==
    /\ reading # NoSnapshot
    /\ ~LastPage /\ reading.page # MaxPages
    /\ reading' = [reading EXCEPT !.page = @ + 1, !.names = @ \cup Payload]
    /\ UNCHANGED <<stars, unstarred, previous, current>>

SnapshotAtBound == [names |-> reading.names \cup Payload, complete |-> TRUE,
             steady |-> reading.steady, ever |-> reading.ever, lapses |-> reading.lapses]

Snapshot == [names |-> reading.names \cup Payload, complete |-> LastPage,
             steady |-> reading.steady, ever |-> reading.ever, lapses |-> reading.lapses]

\* The last page, or the last that max_pages allows.
FetchLast ==
    /\ reading # NoSnapshot
    /\ LastPage \/ reading.page = MaxPages
    /\ previous' = current
    /\ current' = Snapshot
    /\ reading' = NoSnapshot
    /\ UNCHANGED <<stars, unstarred>>

\* A request fails, or a repository does not pass the normalisation: no snapshot.
FetchFails ==
    /\ reading # NoSnapshot
    /\ reading' = NoSnapshot
    /\ UNCHANGED <<stars, unstarred, previous, current>>

Next == \/ \E r \in Repos : Star(r)
        \/ \E i \in DOMAIN stars : Unstar(i)
        \/ Collect \/ FetchPage \/ FetchLast \/ FetchFails

Spec == Init /\ [][Next]_vars

-----------------------------------------------------------------------------
ComparableAnyway(old, new) == old # NoSnapshot /\ new # NoSnapshot

\* diff_star_snapshots raises unless both snapshots are complete.
Comparable(old, new) ==
    /\ old # NoSnapshot /\ new # NoSnapshot
    /\ old.complete /\ new.complete

Added(old, new) == new.names \ old.names
Removed(old, new) == old.names \ new.names

-----------------------------------------------------------------------------
(***************************************************************************)
(* Properties.                                                             *)
(***************************************************************************)

\* Pages shift under the collector.  New stars push entries to later pages,
\* where they are seen again; a repository that is starred all the time can be
\* missed only when another is unstarred between two requests, one for each,
\* and no bound on the pages makes a complete snapshot miss any.
MissesNeedUnstars ==
    current # NoSnapshot =>
        /\ current.names \subseteq current.ever
        /\ current.complete => Cardinality(current.steady \ current.names) <= current.lapses

\* "Pagination truncation cannot become a false removal" (docs/github.md): a
\* repository is reported removed though it was starred all along only if one
\* was unstarred during the second collection, falsely added only if one was
\* during the first, and a repository that has gone for good in between is
\* reported unless the first collection missed it.
DeltasExplained ==
    Comparable(previous, current) =>
        LET falselyRemoved == Removed(previous, current) \cap current.steady
            falselyAdded == Added(previous, current) \cap previous.steady
            gone == previous.steady \ current.ever
        IN  /\ Cardinality(falselyRemoved) <= current.lapses
            /\ Cardinality(falselyAdded) <= previous.lapses
            /\ Cardinality(gone \ Removed(previous, current)) <= previous.lapses
=============================================================================
