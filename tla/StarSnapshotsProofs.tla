------------------------- MODULE StarSnapshotsProofs -------------------------
(***************************************************************************)
(* For any account, page size and bounds: what a collection misses, and    *)
(* what a comparison of two reports wrongly, is explained one for one by   *)
(* what was unstarred meanwhile.  The argument: of the entries that the    *)
(* pages read so far should have shown, one more escapes only when an      *)
(* entry is removed before it and lets it slip over the boundary.          *)
(***************************************************************************)
EXTENDS StarSnapshots, FiniteSetTheorems, SequenceTheorems, TLAPS

Readings == [page : Nat, names : SUBSET Repos, steady : SUBSET Repos,
             ever : SUBSET Repos, lapses : Nat]
Snapshots == [names : SUBSET Repos, complete : BOOLEAN, steady : SUBSET Repos,
              ever : SUBSET Repos, lapses : Nat]

Typed ==
    /\ stars \in Seq(Repos)
    /\ reading # NoSnapshot => reading \in Readings
    /\ previous # NoSnapshot => previous \in Snapshots
    /\ current # NoSnapshot => current \in Snapshots

\* How far into the list the pages read so far go.
Boundary == (reading.page - 1) * PageSize

\* The steady entries before the boundary that no page showed.
Escaped == {r \in reading.steady \ reading.names :
               \E i \in 1..Len(stars) : i <= Boundary /\ stars[i] = r}

\* A collection has seen nothing that was not there, and lost one for a lapse.
ReadingFair ==
    reading # NoSnapshot =>
        /\ reading.names \subseteq reading.ever
        /\ reading.steady \subseteq Starred /\ Starred \subseteq reading.ever
        /\ Cardinality(Escaped) <= reading.lapses

Fair(snapshot) ==
    snapshot # NoSnapshot =>
        /\ snapshot.names \subseteq snapshot.ever
        /\ snapshot.complete =>
             Cardinality(snapshot.steady \ snapshot.names) <= snapshot.lapses

\* The inductive invariant.
IInv == Typed /\ ReadingFair /\ Fair(previous) /\ Fair(current)

-----------------------------------------------------------------------------
\* A part of a set of repositories is no larger than the set.
LEMMA NoLarger ==
  ASSUME NEW S \in SUBSET Repos, NEW T \in SUBSET S
  PROVE  Cardinality(T) \in Nat /\ Cardinality(S) \in Nat
         /\ Cardinality(T) <= Cardinality(S)
  BY FS_Subset, FS_CardinalityType, PageAssumptions

\* Nor larger than one more, if it has one element more.
LEMMA OneLarger ==
  ASSUME NEW S \in SUBSET Repos, NEW x, NEW T \in SUBSET (S \cup {x})
  PROVE  Cardinality(T) <= Cardinality(S) + 1
  <1>1. IsFiniteSet(S) /\ Cardinality(S) \in Nat
    BY FS_Subset, FS_CardinalityType, PageAssumptions
  <1>2. /\ IsFiniteSet(S \cup {x})
        /\ Cardinality(S \cup {x}) \in {Cardinality(S), Cardinality(S) + 1}
    BY <1>1, FS_AddElement
  <1>3. Cardinality(T) \in Nat /\ Cardinality(T) <= Cardinality(S \cup {x})
    BY <1>2, FS_Subset, FS_CardinalityType
  <1> QED
    BY <1>1, <1>2, <1>3

\* A new star moves every entry one place down.
LEMMA Prepended ==
  ASSUME NEW s \in Seq(Repos), NEW r \in Repos
  PROVE  LET t == <<r>> \o s
         IN  /\ t \in Seq(Repos) /\ Len(t) = Len(s) + 1
             /\ t[1] = r
             /\ \A i \in 1..Len(s) : t[i + 1] = s[i]
  OBVIOUS

\* Removing an entry moves those after it one place up.
LEMMA Dropped ==
  ASSUME NEW s \in Seq(Repos), NEW i \in 1..Len(s)
  PROVE  LET t == RemoveAt(s, i)
         IN  /\ t \in Seq(Repos) /\ Len(t) = Len(s) - 1
             /\ \A k \in 1..Len(t) : t[k] = IF k < i THEN s[k] ELSE s[k + 1]
  <1> DEFINE a == SubSeq(s, 1, i - 1)
             b == SubSeq(s, i + 1, Len(s))
  <1>1. /\ a \in Seq(Repos) /\ Len(a) = i - 1
        /\ \A k \in 1..(i - 1) : a[k] = s[k]
    BY SubSeqProperties
  <1>2. /\ b \in Seq(Repos) /\ Len(b) = Len(s) - i
        /\ \A k \in 1..(Len(s) - i) : b[k] = s[i + k]
    BY SubSeqProperties
  <1>3. RemoveAt(s, i) = a \o b
    BY DEF RemoveAt
  <1> HIDE DEF a, b
  <1>4. /\ a \o b \in Seq(Repos) /\ Len(a \o b) = Len(s) - 1
        /\ \A k \in 1..(Len(s) - 1) :
             (a \o b)[k] = IF k <= i - 1 THEN a[k] ELSE b[k - (i - 1)]
    <2>1. Len(a) + Len(b) = Len(s) - 1
      BY <1>1, <1>2
    <2>2. /\ a \o b \in Seq(Repos) /\ Len(a \o b) = Len(a) + Len(b)
          /\ \A k \in 1..(Len(a) + Len(b)) :
               (a \o b)[k] = IF k <= Len(a) THEN a[k] ELSE b[k - Len(a)]
      BY <1>1, <1>2, ConcatProperties
    <2> QED
      BY <1>1, <2>1, <2>2
  <1>5. ASSUME NEW k \in 1..(Len(s) - 1)
        PROVE  (a \o b)[k] = IF k < i THEN s[k] ELSE s[k + 1]
    <2>1. CASE k < i
      BY <1>1, <1>4, <2>1
    <2>2. CASE ~(k < i)
      <3>1. k - (i - 1) \in 1..(Len(s) - i) /\ i + (k - (i - 1)) = k + 1
        BY <2>2
      <3> QED
        BY <1>2, <1>4, <2>2, <3>1
    <2> QED
      BY <2>1, <2>2
  <1> QED
    BY <1>3, <1>4, <1>5

LEMMA InitEstablishes == Init => IInv
  BY DEF Init, IInv, Typed, ReadingFair, Fair

-----------------------------------------------------------------------------
\* A new star pushes entries away from the boundary, never over it.
LEMMA StarKeeps == ASSUME IInv, NEW r \in Repos, Star(r) PROVE IInv'
  <1>1. /\ stars' \in Seq(Repos) /\ Len(stars') = Len(stars) + 1 /\ stars'[1] = r
        /\ \A i \in 1..Len(stars) : stars'[i + 1] = stars[i]
        /\ stars \in Seq(Repos)
    BY Prepended DEF IInv, Typed, Star
  <1>2. Starred' = Starred \cup {r}
    <2>1. \A i \in 1..Len(stars') : i = 1 \/ (i - 1 \in 1..Len(stars) /\ stars'[i] = stars[i - 1])
      BY <1>1
    <2>2. \A i \in 1..Len(stars) : i + 1 \in 1..Len(stars')
      BY <1>1
    <2>3. 1 \in 1..Len(stars')
      BY <1>1
    <2>4. DOMAIN stars = 1..Len(stars) /\ DOMAIN stars' = 1..Len(stars')
      BY <1>1
    <2>5. Starred' \subseteq Starred \cup {r}
      BY <1>1, <2>1, <2>4 DEF Starred, ToSet
    <2>6. Starred \subseteq Starred'
      BY <1>1, <2>2, <2>4 DEF Starred, ToSet
    <2>7. r \in Starred'
      BY <1>1, <2>3, <2>4 DEF Starred, ToSet
    <2> QED
      BY <2>5, <2>6, <2>7
  <1>3. Typed'
    BY <1>1 DEF IInv, Typed, Star, Readings
  <1>4. Fair(previous)' /\ Fair(current)'
    BY DEF IInv, Fair, Star
  <1>5. CASE reading = NoSnapshot
    BY <1>3, <1>4, <1>5 DEF IInv, ReadingFair, Star
  <1>6. CASE reading # NoSnapshot
    <2>1. /\ reading \in Readings
          /\ reading' = [reading EXCEPT !.ever = @ \cup {r}]
      BY <1>6 DEF IInv, Typed, Star
    <2>2. /\ reading'.page = reading.page /\ reading'.names = reading.names
          /\ reading'.steady = reading.steady /\ reading'.lapses = reading.lapses
          /\ reading'.ever = reading.ever \cup {r}
      BY <2>1 DEF Readings
    <2>3. r \notin reading.steady
      BY <1>6 DEF IInv, ReadingFair, Star
    <2>4. Boundary' = Boundary /\ Boundary \in Int
      BY <2>1, <2>2, PageAssumptions DEF Boundary, Readings
    <2>5. Escaped' \subseteq Escaped
      <3> SUFFICES ASSUME NEW q \in reading'.steady \ reading'.names,
                          NEW i \in 1..Len(stars'), i <= Boundary', stars'[i] = q
                   PROVE  q \in Escaped
        BY DEF Escaped
      <3>1. i # 1
        BY <1>1, <2>2, <2>3
      <3>2. i - 1 \in 1..Len(stars) /\ stars[i - 1] = q /\ i - 1 <= Boundary
        BY <1>1, <2>4, <3>1
      <3> QED
        BY <2>2, <3>2 DEF Escaped
    <2>6. Escaped \in SUBSET Repos
      BY <2>1 DEF Escaped, Readings
    <2>7. Cardinality(Escaped') <= reading'.lapses
      <3>1. Cardinality(Escaped) <= reading.lapses /\ reading.lapses \in Nat
        BY <1>6, <2>1 DEF IInv, ReadingFair, Readings
      <3> QED
        BY <2>2, <2>5, <2>6, <3>1, NoLarger
    <2>8. ReadingFair'
      BY <1>2, <1>6, <2>2, <2>7 DEF IInv, ReadingFair
    <2> QED
      BY <1>3, <1>4, <2>8 DEF IInv
  <1> QED
    BY <1>5, <1>6

\* Removing an entry lets the one after the boundary slip over it.
LEMMA UnstarKeeps == ASSUME IInv, NEW i \in DOMAIN stars, Unstar(i) PROVE IInv'
  <1>1. stars \in Seq(Repos) /\ i \in 1..Len(stars)
    BY DEF IInv, Typed
  <1>2. /\ stars' \in Seq(Repos) /\ Len(stars') = Len(stars) - 1
        /\ \A k \in 1..Len(stars') :
             stars'[k] = IF k < i THEN stars[k] ELSE stars[k + 1]
    BY <1>1, Dropped DEF Unstar
  <1>3. Starred' \subseteq Starred /\ Starred \ {stars[i]} \subseteq Starred'
    <2>1. \A k \in 1..Len(stars') : k \in 1..Len(stars) /\ k + 1 \in 1..Len(stars)
      BY <1>1, <1>2
    <2>2. ASSUME NEW k \in 1..Len(stars), stars[k] # stars[i]
          PROVE  \E j \in 1..Len(stars') : stars'[j] = stars[k]
      <3>1. CASE k < i
        <4>1. k \in 1..Len(stars') /\ stars'[k] = stars[k]
          BY <1>1, <1>2, <3>1
        <4> QED
          BY <4>1
      <3>2. CASE k > i
        <4>1. k - 1 \in 1..Len(stars') /\ ~(k - 1 < i) /\ (k - 1) + 1 = k
          BY <1>1, <1>2, <3>2
        <4> QED
          BY <1>2, <4>1
      <3> QED
        BY <1>1, <2>2, <3>1, <3>2
    <2>3. DOMAIN stars = 1..Len(stars) /\ DOMAIN stars' = 1..Len(stars')
      BY <1>1, <1>2
    <2>4. Starred' \subseteq Starred
      BY <1>2, <2>1, <2>3 DEF Starred, ToSet
    <2>5. Starred \ {stars[i]} \subseteq Starred'
      BY <2>2, <2>3 DEF Starred, ToSet
    <2> QED
      BY <2>4, <2>5
  <1>4. Typed'
    <2>1. ASSUME reading # NoSnapshot PROVE reading' \in Readings
      <3>1. /\ reading \in Readings
            /\ reading' = [reading EXCEPT !.steady = @ \ {stars[i]}, !.lapses = @ + 1]
        BY <2>1 DEF IInv, Typed, Unstar
      <3>2. reading.lapses + 1 \in Nat /\ reading.steady \ {stars[i]} \in SUBSET Repos
        BY <3>1 DEF Readings
      <3> QED
        BY <3>1, <3>2, Zenon DEF Readings
    <2>2. reading = NoSnapshot => reading' = NoSnapshot
      BY DEF Unstar
    <2> QED
      BY <1>2, <2>1, <2>2 DEF IInv, Typed, Unstar
  <1>5. Fair(previous)' /\ Fair(current)'
    BY DEF IInv, Fair, Unstar
  <1>6. CASE reading = NoSnapshot
    BY <1>4, <1>5, <1>6 DEF IInv, ReadingFair, Unstar
  <1>7. CASE reading # NoSnapshot
    <2>1. /\ reading \in Readings
          /\ reading' = [reading EXCEPT !.steady = @ \ {stars[i]}, !.lapses = @ + 1]
      BY <1>7 DEF IInv, Typed, Unstar
    <2>2. /\ reading'.page = reading.page /\ reading'.names = reading.names
          /\ reading'.steady = reading.steady \ {stars[i]}
          /\ reading'.lapses = reading.lapses + 1 /\ reading'.ever = reading.ever
      BY <2>1 DEF Readings
    <2>3. Boundary' = Boundary /\ Boundary \in Int
      BY <2>1, <2>2, PageAssumptions DEF Boundary, Readings
    <2> DEFINE slipped == stars[Boundary + 1]
    <2>4. Escaped' \subseteq Escaped \cup {slipped}
      <3> SUFFICES ASSUME NEW q \in reading'.steady \ reading'.names,
                          NEW k \in 1..Len(stars'), k <= Boundary', stars'[k] = q
                   PROVE  q \in Escaped \cup {slipped}
        BY DEF Escaped
      <3>1. q \in reading.steady \ reading.names
        BY <2>2
      <3>2. CASE k < i
        <4>1. k \in 1..Len(stars) /\ stars[k] = q /\ k <= Boundary
          BY <1>1, <1>2, <2>3, <3>2
        <4> QED
          BY <3>1, <4>1 DEF Escaped
      <3>3. CASE ~(k < i) /\ k < Boundary
        <4>1. k + 1 \in 1..Len(stars) /\ stars[k + 1] = q /\ k + 1 <= Boundary
          BY <1>1, <1>2, <2>3, <3>3
        <4> QED
          BY <3>1, <4>1 DEF Escaped
      <3>4. CASE ~(k < i) /\ k = Boundary
        BY <1>2, <3>4
      <3> QED
        BY <2>3, <3>2, <3>3, <3>4
    <2>5. Escaped \in SUBSET Repos
      BY <2>1 DEF Escaped, Readings
    <2>6. Cardinality(Escaped') <= reading'.lapses
      <3>1. Cardinality(Escaped) <= reading.lapses /\ reading.lapses \in Nat
        BY <1>7, <2>1 DEF IInv, ReadingFair, Readings
      <3>2. Cardinality(Escaped') <= Cardinality(Escaped) + 1
        BY <2>4, <2>5, OneLarger
      <3>3. Cardinality(Escaped) \in Nat /\ Cardinality(Escaped') \in Nat
        <4>1. Escaped' \in SUBSET Repos
          BY <2>1, <2>2 DEF Escaped, Readings
        <4> QED
          BY <2>5, <4>1, NoLarger
      <3> QED
        BY <2>2, <3>1, <3>2, <3>3
    <2>7. ReadingFair'
      BY <1>3, <1>7, <2>2, <2>6 DEF IInv, ReadingFair
    <2> QED
      BY <1>4, <1>5, <2>7 DEF IInv
  <1> QED
    BY <1>6, <1>7

-----------------------------------------------------------------------------
LEMMA CollectKeeps == ASSUME IInv, Collect PROVE IInv'
  <1>1. /\ reading' = FromNow /\ stars' = stars /\ stars \in Seq(Repos)
        /\ Starred' = Starred /\ Starred \in SUBSET Repos
    BY DEF Collect, IInv, Typed, Starred, ToSet
  <1>2. Typed'
    BY <1>1 DEF IInv, Typed, Collect, Readings, FromNow
  <1>3. Fair(previous)' /\ Fair(current)'
    BY DEF IInv, Fair, Collect
  <1>4. Escaped' = {}
    <2>1. reading'.page = 1
      BY <1>1 DEF FromNow
    <2>2. Boundary' = 0
      BY <2>1, PageAssumptions DEF Boundary
    <2> QED
      BY <1>1, <2>2 DEF Escaped
  <1>5. /\ reading'.names = {} /\ reading'.steady = Starred /\ reading'.ever = Starred
        /\ reading'.lapses = 0
    BY <1>1 DEF FromNow
  <1>6. ReadingFair'
    BY <1>1, <1>4, <1>5, FS_EmptySet DEF ReadingFair
  <1> QED
    BY <1>2, <1>3, <1>6 DEF IInv

\* A page shows all there is up to its end.
LEMMA PayloadIs ==
  ASSUME IInv, reading # NoSnapshot
  PROVE  /\ Payload \subseteq Starred
         /\ \A k \in 1..Len(stars) :
              k <= reading.page * PageSize /\ ~(k <= Boundary) => stars[k] \in Payload
         /\ Boundary \in Int /\ reading.page * PageSize \in Nat
  <1>1. stars \in Seq(Repos) /\ reading.page \in Nat
    BY DEF IInv, Typed, Readings
  <1>2. Boundary \in Int /\ reading.page * PageSize \in Nat
    BY <1>1, PageAssumptions DEF Boundary
  <1>3. DOMAIN stars = 1..Len(stars)
    BY <1>1
  <1>4. \A k \in 1..Len(stars) :
           k <= reading.page * PageSize /\ ~(k <= Boundary) =>
             Boundary < k /\ k <= reading.page * PageSize
    BY <1>2
  <1>5. Payload = {stars[i] : i \in {j \in DOMAIN stars :
                      Boundary < j /\ j <= reading.page * PageSize}}
    BY DEF Payload, Boundary
  <1>6. Payload \subseteq Starred
    BY <1>5 DEF Starred, ToSet
  <1> QED
    BY <1>2, <1>3, <1>4, <1>5, <1>6

LEMMA FetchPageKeeps == ASSUME IInv, FetchPage PROVE IInv'
  <1>1. /\ reading # NoSnapshot /\ reading \in Readings /\ stars' = stars
        /\ reading' = [reading EXCEPT !.page = @ + 1, !.names = @ \cup Payload]
        /\ Starred \in SUBSET Repos /\ Starred' = Starred
    BY DEF FetchPage, IInv, Typed, Starred, ToSet
  <1>2. /\ reading'.page = reading.page + 1 /\ reading'.steady = reading.steady
        /\ reading'.names = reading.names \cup Payload
        /\ reading'.ever = reading.ever /\ reading'.lapses = reading.lapses
    BY <1>1 DEF Readings
  <1>3. Typed'
    <2>1. reading.page + 1 \in Nat /\ reading.names \cup Payload \in SUBSET Repos
      BY <1>1, PayloadIs DEF Readings
    <2>2. reading' \in Readings
      BY <1>1, <2>1, Zenon DEF Readings
    <2> QED
      BY <1>1, <2>2 DEF IInv, Typed, FetchPage
  <1>4. Fair(previous)' /\ Fair(current)'
    BY DEF IInv, Fair, FetchPage
  <1>5. Boundary' = reading.page * PageSize
    <2>1. reading.page \in Nat /\ reading'.page - 1 = reading.page
      BY <1>1, <1>2 DEF Readings
    <2> QED
      BY <2>1 DEF Boundary
  <1>6. Escaped' \subseteq Escaped
    <2> SUFFICES ASSUME NEW q \in reading'.steady \ reading'.names,
                        NEW k \in 1..Len(stars), k <= Boundary', stars[k] = q
                 PROVE  q \in Escaped
      BY <1>1 DEF Escaped
    <2>1. k <= Boundary
      BY <1>1, <1>2, <1>5, PayloadIs
    <2> QED
      BY <1>2, <2>1 DEF Escaped
  <1>7. Escaped \in SUBSET Repos
    BY <1>1 DEF Escaped, Readings
  <1>8. Cardinality(Escaped') <= reading'.lapses
    <2>1. Cardinality(Escaped) <= reading.lapses /\ reading.lapses \in Nat
      BY <1>1 DEF IInv, ReadingFair, Readings
    <2> QED
      BY <1>2, <1>6, <1>7, <2>1, NoLarger
  <1>9. ReadingFair'
    BY <1>1, <1>2, <1>8, PayloadIs DEF IInv, ReadingFair
  <1> QED
    BY <1>3, <1>4, <1>9 DEF IInv

\* What a complete snapshot misses had escaped before its last page.
LEMMA FetchLastKeeps == ASSUME IInv, FetchLast PROVE IInv'
  <1>1. /\ reading # NoSnapshot /\ reading \in Readings /\ stars \in Seq(Repos)
        /\ current' = Snapshot /\ previous' = current /\ reading' = NoSnapshot
        /\ stars' = stars /\ Starred \in SUBSET Repos
    BY DEF FetchLast, IInv, Typed, Starred, ToSet
  <1>2. Snapshot \in Snapshots
    BY <1>1, PayloadIs DEF Snapshot, Snapshots, Readings, LastPage
  <1>3. Typed'
    BY <1>1, <1>2 DEF IInv, Typed
  <1>4. /\ Snapshot.names = reading.names \cup Payload
        /\ Snapshot.steady = reading.steady /\ Snapshot.ever = reading.ever
        /\ Snapshot.lapses = reading.lapses /\ Snapshot.complete = LastPage
    BY DEF Snapshot
  <1>5. ASSUME LastPage PROVE reading.steady \ (reading.names \cup Payload) \subseteq Escaped
    <2> SUFFICES ASSUME NEW q \in reading.steady \ (reading.names \cup Payload)
                 PROVE  q \in Escaped
      OBVIOUS
    <2>1. PICK k \in 1..Len(stars) : stars[k] = q
      BY <1>1 DEF IInv, ReadingFair, Starred, ToSet
    <2>2. Len(stars) \in Nat /\ Len(stars) < reading.page * PageSize
      BY <1>1, <1>5 DEF LastPage
    <2>3. k <= reading.page * PageSize
      BY <1>1, <2>2, PayloadIs
    <2>4. k <= Boundary
      BY <1>1, <2>1, <2>3, PayloadIs
    <2> QED
      BY <2>1, <2>4 DEF Escaped
  <1>6. Escaped \in SUBSET Repos
    BY <1>1 DEF Escaped, Readings
  <1>7. ASSUME LastPage
        PROVE  Cardinality(reading.steady \ (reading.names \cup Payload)) <= reading.lapses
    <2>1. Cardinality(Escaped) <= reading.lapses /\ reading.lapses \in Nat
      BY <1>1 DEF IInv, ReadingFair, Readings
    <2> QED
      BY <1>5, <1>6, <1>7, <2>1, NoLarger
  <1>8. Snapshot.names \subseteq Snapshot.ever
    BY <1>1, <1>4, PayloadIs DEF IInv, ReadingFair
  <1>9. Fair(current)'
    BY <1>1, <1>4, <1>7, <1>8 DEF Fair
  <1>10. Fair(previous)' /\ ReadingFair'
    BY <1>1 DEF IInv, Fair, ReadingFair
  <1> QED
    BY <1>3, <1>9, <1>10 DEF IInv

LEMMA NextKeeps == IInv /\ [Next]_vars => IInv'
  <1> SUFFICES ASSUME IInv, [Next]_vars PROVE IInv'
    OBVIOUS
  <1>1. CASE UNCHANGED vars
    BY <1>1 DEF vars, IInv, Typed, ReadingFair, Fair, Escaped, Boundary, Starred
  <1>2. CASE FetchFails
    BY <1>2 DEF FetchFails, IInv, Typed, ReadingFair, Fair
  <1> QED
    BY <1>1, <1>2, StarKeeps, UnstarKeeps, CollectKeeps, FetchPageKeeps,
       FetchLastKeeps DEF Next

LEMMA Inductive == Spec => []IInv
  BY InitEstablishes, NextKeeps, PTL DEF Spec

-----------------------------------------------------------------------------
\* However long the list, the pages and the collection, a complete snapshot
\* misses at most one steady repository for each that was unstarred while it
\* was collected, and names none that was never starred (github_claws.py:160).
THEOREM MissesExplained == Spec => []MissesNeedUnstars
  <1>1. IInv => MissesNeedUnstars
    BY DEF IInv, Fair, MissesNeedUnstars
  <1> QED
    BY <1>1, Inductive, PTL

\* And so is every wrong entry of a comparison (diff_star_snapshots).
THEOREM ComparisonsExplained == Spec => []DeltasExplained
  <1>1. ASSUME IInv, Comparable(previous, current) PROVE DeltasExplained
    <2> DEFINE old == previous
               new == current
    <2>1. /\ old \in Snapshots /\ new \in Snapshots
          /\ new.names \subseteq new.ever
          /\ Cardinality(old.steady \ old.names) <= old.lapses
          /\ Cardinality(new.steady \ new.names) <= new.lapses
          /\ old.lapses \in Nat /\ new.lapses \in Nat
          /\ old.steady \ old.names \in SUBSET Repos
          /\ new.steady \ new.names \in SUBSET Repos
      BY <1>1 DEF Comparable, IInv, Typed, Fair, Snapshots
    <2>2. /\ Removed(old, new) \cap new.steady \subseteq new.steady \ new.names
          /\ Added(old, new) \cap old.steady \subseteq old.steady \ old.names
          /\ (old.steady \ new.ever) \ Removed(old, new) \subseteq old.steady \ old.names
      BY <2>1 DEF Removed, Added
    <2>3. Cardinality(Removed(old, new) \cap new.steady) <= new.lapses
      BY <2>1, <2>2, NoLarger
    <2>4. Cardinality(Added(old, new) \cap old.steady) <= old.lapses
      BY <2>1, <2>2, NoLarger
    <2>5. Cardinality((old.steady \ new.ever) \ Removed(old, new)) <= old.lapses
      BY <2>1, <2>2, NoLarger
    <2> QED
      BY <2>3, <2>4, <2>5 DEF DeltasExplained
  <1>2. IInv => DeltasExplained
    BY <1>1 DEF DeltasExplained
  <1> QED
    BY <1>2, Inductive, PTL
=============================================================================
