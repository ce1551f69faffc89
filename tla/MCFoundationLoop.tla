-------------------------- MODULE MCFoundationLoop --------------------------
(* Finite instances of FoundationLoop.                                       *)
EXTENDS FoundationLoop, TLC

CONSTANTS gh, project, e1, e2, b1, b2

AllScores == 0..100

Flawed == [Perfect EXCEPT !.outcome = "partial", !.retries = 4]

Harmed == [Perfect EXCEPT !.violations = 1, !.retries = 5]

\* Evidence e1, its evaluation e2 and two bundles.
EvaluationOfE1 == [ref \in Refs |-> IF ref = e2 THEN e1 ELSE NoRun]

\* Flawless runs of work commands, and recorded ones: flawed with and without
\* artifacts, and one with a permission violation.
MixedRecords == {Success(gh, e1), Success(gh, e2), Success(gh, b1),
                 [claw |-> gh, refs |-> {e1, e2}, counters |-> Flawed],
                 [claw |-> gh, refs |-> {}, counters |-> Flawed],
                 [claw |-> project, refs |-> {e2}, counters |-> Harmed]}
=============================================================================
