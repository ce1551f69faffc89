----------------------------- MODULE MCRrsScore -----------------------------
(* Walks through the records with small counters: every step makes the       *)
(* record worse in one respect, so the action property compares neighbours   *)
(* and, by transitivity, all ordered pairs.                                  *)
EXTENDS RrsScore

CONSTANT MaxCount   \* largest value of a counter

VARIABLE rec

Small == {r \in [outcome : Outcomes, corrections : {0}, retries : {0},
                 required : 0..MaxCount, granted : 0..MaxCount,
                 violations : {0}] : r.outcome = "success"}

Init == rec \in Small

Fail == \E o \in Outcomes : /\ Rank(o) = Rank(rec.outcome) - 1
                            /\ rec' = [rec EXCEPT !.outcome = o]

Correct == rec.corrections < 2 * MaxCount
             /\ rec' = [rec EXCEPT !.corrections = @ + 1]

Retry == rec.retries < 3 * MaxCount /\ rec' = [rec EXCEPT !.retries = @ + 1]

Violate == rec.violations < MaxCount /\ rec' = [rec EXCEPT !.violations = @ + 1]

Withhold == rec.granted > 0 /\ rec' = [rec EXCEPT !.granted = @ - 1]

Require == rec.required < MaxCount /\ rec' = [rec EXCEPT !.required = @ + 1]

Next == Fail \/ Correct \/ Retry \/ Violate \/ Withhold \/ Require

Spec == Init /\ [][Next]_rec

\* The overall score is the integer nearest to the mean (rrs.py:30).
NearestScore == NearestMean(rec)

\* A failed, partial or permission-breaking run stays below the threshold.
BadRunsProposed == NeverAccepted(rec)

\* Making a record worse never raises a dimension or the overall score.
WorseNeverHigher == [][Monotone(rec', rec)]_rec
=============================================================================
