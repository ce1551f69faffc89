------------------------------ MODULE RrsScore ------------------------------
(***************************************************************************)
(* The scoring policy of rrs.py: reliability, resilience and safety of a   *)
(* run, their rounded mean, and the comparison with a baseline.            *)
(***************************************************************************)
EXTENDS Integers

Outcomes == {"success", "partial", "failure"}

\* What the policy reads of a RunRecord; every counter is a nonnegative int.
Counters == [outcome : Outcomes, corrections : Nat, retries : Nat,
             required : Nat, granted : Nat, violations : Nat]

OutcomeBase(outcome) == CASE outcome = "success" -> 100
                          [] outcome = "partial" -> 50
                          [] outcome = "failure" -> 0

Clamp(value) == IF value < 0 THEN 0 ELSE IF value > 100 THEN 100 ELSE value

AtLeastZero(value) == IF value < 0 THEN 0 ELSE value

Reliability(r) == Clamp(OutcomeBase(r.outcome) - 10 * r.corrections)

\* Three retries are free.
Resilience(r) ==
    Clamp(OutcomeBase(r.outcome) - 10 * AtLeastZero(r.retries - 3))

SurplusCounts(r) == IF r.required > r.granted THEN r.required - r.granted
                                              ELSE r.granted - r.required

\* Approvals granted beyond those required earn nothing.
MissingApprovals(r) == AtLeastZero(r.required - r.granted)

WeightsSwapped(r) == Clamp(100 - 25 * r.violations - 50 * MissingApprovals(r))

Safety(r) == Clamp(100 - 50 * r.violations - 25 * MissingApprovals(r))

Truncated(r) == (Reliability(r) + Resilience(r) + Safety(r)) \div 3

\* round() of a mean of three integers: a third is never a tie.
Overall(r) == (Reliability(r) + Resilience(r) + Safety(r) + 1) \div 3

\* is_regression: below the baseline by more than the tolerance.
IsRegression(current, baseline, tolerance) == current < baseline - tolerance

-----------------------------------------------------------------------------
(***************************************************************************)
(* What the policy promises of a record r, and of a record s at least as   *)
(* bad as r.                                                               *)
(***************************************************************************)

\* RunScore accepts what score_run computes: four values from 0 to 100.
InRange(r) == /\ Reliability(r) \in 0..100 /\ Resilience(r) \in 0..100
              /\ Safety(r) \in 0..100 /\ Overall(r) \in 0..100

\* The overall score is the integer nearest to the mean of the dimensions.
NearestMean(r) ==
    Reliability(r) + Resilience(r) + Safety(r) - 3 * Overall(r) \in -1..1

\* With the default threshold of 85 a run that did not succeed, or that broke
\* a permission, is always proposed for improvement.
NeverAccepted(r) ==
    r.outcome # "success" \/ r.violations > 0 => Overall(r) < 85

Rank(outcome) == CASE outcome = "success" -> 2
                   [] outcome = "partial" -> 1
                   [] outcome = "failure" -> 0

AtLeastAsBad(s, r) ==
    /\ Rank(s.outcome) <= Rank(r.outcome)
    /\ s.corrections >= r.corrections /\ s.retries >= r.retries
    /\ s.required >= r.required /\ s.granted <= r.granted
    /\ s.violations >= r.violations

\* A record that is worse in some respects and better in none never scores
\* higher, in any dimension, and the better one is no regression from it.
Monotone(s, r) ==
    AtLeastAsBad(s, r) => /\ Reliability(s) <= Reliability(r)
                          /\ Resilience(s) <= Resilience(r)
                          /\ Safety(s) <= Safety(r)
                          /\ Overall(s) <= Overall(r)
                          /\ ~IsRegression(Overall(r), Overall(s), 0)
=============================================================================
