--------------------------- MODULE RrsScoreProofs ---------------------------
(***************************************************************************)
(* The promises of the scoring policy, for every record, and so in every   *)
(* state of the walk through the records, however far it goes.             *)
(***************************************************************************)
EXTENDS MCRrsScore, TLAPS

\* The clamp lands in the range and keeps the order.
LEMMA ClampBounds ==
  ASSUME NEW x \in Int, NEW y \in Int
  PROVE  /\ Clamp(x) \in 0..100
         /\ x <= y => Clamp(x) <= Clamp(y)
  BY DEF Clamp

\* Each dimension is a clamped integer.
LEMMA DimensionBounds ==
  ASSUME NEW r \in Counters
  PROVE  /\ Reliability(r) \in 0..100
         /\ Resilience(r) \in 0..100
         /\ Safety(r) \in 0..100
  BY ClampBounds
  DEF Reliability, Resilience, Safety, MissingApprovals, AtLeastZero,
      OutcomeBase, Counters, Outcomes

\* The rounded mean of three scores is a score, and never off by more than a
\* third: the rounding of a third has no tie.
LEMMA MeanRounds ==
  ASSUME NEW a \in 0..100, NEW b \in 0..100, NEW c \in 0..100
  PROVE  /\ (a + b + c + 1) \div 3 \in 0..100
         /\ a + b + c - 3 * ((a + b + c + 1) \div 3) \in -1..1
  OBVIOUS

\* Rounding a mean keeps the order of its terms.
LEMMA MeanMonotone ==
  ASSUME NEW a \in 0..100, NEW b \in 0..100, NEW c \in 0..100,
         NEW x \in 0..100, NEW y \in 0..100, NEW z \in 0..100,
         a <= x, b <= y, c <= z
  PROVE  (a + b + c + 1) \div 3 <= (x + y + z + 1) \div 3
  OBVIOUS

\* One low safety, or two other low scores, keep the mean below the default
\* threshold.
LEMMA LowMean ==
  ASSUME NEW a \in 0..100, NEW b \in 0..100, NEW c \in 0..100,
         (a <= 50 /\ b <= 50) \/ c <= 50
  PROVE  (a + b + c + 1) \div 3 < 85
  OBVIOUS

\* score_run (rrs.py:16-37) always builds a valid RunScore: whatever the
\* counters, all four values lie between 0 and 100.
THEOREM ScoreInRange == \A r \in Counters : InRange(r)
<1>1. SUFFICES ASSUME NEW r \in Counters PROVE InRange(r)
  OBVIOUS
<1>2. /\ Reliability(r) \in 0..100 /\ Resilience(r) \in 0..100
      /\ Safety(r) \in 0..100
  BY DimensionBounds
<1>3. Overall(r) \in 0..100
  BY <1>2, MeanRounds, Zenon DEF Overall
<1>4. QED
  BY <1>2, <1>3 DEF InRange

\* The overall score is the nearest integer to the mean (rrs.py:30), so the
\* banker's rounding of Python's round never matters.
THEOREM RoundsToNearest == \A r \in Counters : NearestMean(r)
<1>1. SUFFICES ASSUME NEW r \in Counters PROVE NearestMean(r)
  OBVIOUS
<1>2. /\ Reliability(r) \in 0..100 /\ Resilience(r) \in 0..100
      /\ Safety(r) \in 0..100
  BY DimensionBounds
<1>3. QED
  BY <1>2, MeanRounds, Zenon DEF NearestMean, Overall

\* No counter can lift a failed, partial or permission-breaking run to the
\* default threshold of 85.
THEOREM BadRunsRejected == \A r \in Counters : NeverAccepted(r)
  <1> SUFFICES ASSUME NEW r \in Counters,
                      r.outcome # "success" \/ r.violations > 0
               PROVE  Overall(r) < 85
    BY DEF NeverAccepted
  <1>0. /\ Reliability(r) \in 0..100 /\ Resilience(r) \in 0..100
        /\ Safety(r) \in 0..100
    BY DimensionBounds
  <1>1. CASE r.outcome # "success"
    <2>1. OutcomeBase(r.outcome) \in {0, 50}
      BY <1>1 DEF OutcomeBase, Counters, Outcomes
    <2>2. Reliability(r) <= 50 /\ Resilience(r) <= 50
      BY <2>1 DEF Reliability, Resilience, Clamp, AtLeastZero, Counters
    <2> QED
      BY <2>2, <1>0, LowMean, Zenon DEF Overall
  <1>2. CASE r.violations > 0
    <2>1. Safety(r) <= 50
      BY <1>2 DEF Safety, Clamp, MissingApprovals, AtLeastZero, Counters
    <2> QED
      BY <2>1, <1>0, LowMean, Zenon DEF Overall
  <1> QED
    BY <1>1, <1>2

\* Making a run worse never raises its score, in any dimension.
THEOREM NeverRewardsWorse == \A r, s \in Counters : Monotone(s, r)
  <1> SUFFICES ASSUME NEW r \in Counters, NEW s \in Counters, AtLeastAsBad(s, r)
               PROVE  /\ Reliability(s) <= Reliability(r)
                      /\ Resilience(s) <= Resilience(r)
                      /\ Safety(s) <= Safety(r)
                      /\ Overall(s) <= Overall(r)
                      /\ ~IsRegression(Overall(r), Overall(s), 0)
    BY DEF Monotone
  <1>1. /\ OutcomeBase(s.outcome) \in Int /\ OutcomeBase(r.outcome) \in Int
        /\ OutcomeBase(s.outcome) <= OutcomeBase(r.outcome)
    BY DEF AtLeastAsBad, Rank, OutcomeBase, Counters, Outcomes
  <1>2. Reliability(s) <= Reliability(r)
    BY <1>1, ClampBounds DEF Reliability, AtLeastAsBad, Counters
  <1>3. Resilience(s) <= Resilience(r)
    <2>1. AtLeastZero(r.retries - 3) <= AtLeastZero(s.retries - 3)
      BY DEF AtLeastZero, AtLeastAsBad, Counters
    <2> QED
      BY <1>1, <2>1, ClampBounds DEF Resilience, AtLeastZero, Counters
  <1>4. Safety(s) <= Safety(r)
    <2>1. MissingApprovals(r) <= MissingApprovals(s)
      BY DEF MissingApprovals, AtLeastZero, AtLeastAsBad, Counters
    <2> QED
      BY <2>1, ClampBounds
      DEF Safety, MissingApprovals, AtLeastZero, AtLeastAsBad, Counters
  <1>5. Overall(s) <= Overall(r)
    BY <1>2, <1>3, <1>4, DimensionBounds, MeanMonotone, Zenon DEF Overall
  <1>6. Overall(s) \in Int /\ Overall(r) \in Int
    <2>1. InRange(s) /\ InRange(r)
      BY ScoreInRange
    <2> QED
      BY <2>1 DEF InRange
  <1> QED
    BY <1>2, <1>3, <1>4, <1>5, <1>6 DEF IsRegression

-----------------------------------------------------------------------------
(***************************************************************************)
(* The walk, for any bound on the counters of its first record.            *)
(***************************************************************************)

\* Every record of the walk is one the policy is about.
LEMMA WalkTypes == Spec => [](rec \in Counters)
  <1>1. Init => rec \in Counters
    BY DEF Init, Small, Counters
  <1>2. rec \in Counters /\ [Next]_rec => (rec \in Counters)'
    BY DEF Next, Fail, Correct, Retry, Violate, Withhold, Require,
           Counters
  <1> QED
    BY <1>1, <1>2, PTL DEF Spec

\* However a run got worse, its overall score is the integer nearest to the
\* mean of its dimensions (rrs.py:30).
THEOREM WalkRounds == Spec => []NearestScore
  <1>1. rec \in Counters => NearestScore
    BY RoundsToNearest DEF NearestScore
  <1> QED
    BY <1>1, WalkTypes, PTL

\* Once a run has failed, or broken a permission, nothing that happens to it
\* later brings it to the threshold of improvement.py.
THEOREM WalkRejects == Spec => []BadRunsProposed
  <1>1. rec \in Counters => BadRunsProposed
    BY BadRunsRejected DEF BadRunsProposed
  <1> QED
    BY <1>1, WalkTypes, PTL

\* No step that makes a run worse raises its score in any dimension.
THEOREM WalkMonotone == Spec => WorseNeverHigher
  <1>1. rec \in Counters /\ rec' \in Counters => Monotone(rec', rec)
    BY NeverRewardsWorse
  <1>2. rec \in Counters /\ (rec \in Counters)' /\ [Next]_rec
          => [Monotone(rec', rec)]_rec
    BY <1>1
  <1> QED
    BY <1>2, WalkTypes, PTL DEF Spec, WorseNeverHigher
=============================================================================
