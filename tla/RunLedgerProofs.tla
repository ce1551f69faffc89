--------------------------- MODULE RunLedgerProofs ---------------------------
(***************************************************************************)
(* The run ledger keeps its references without foreign keys, for any runs, *)
(* claws, payloads and scores.                                             *)
(***************************************************************************)
EXTENDS RunLedger, TLAPS

\* The claw of a recorded run, and that it is recorded, never change: the
\* fact the references rest on.
LEMMA RecordedStays ==
  ASSUME LedgerTypeOK, LedgerNext, NEW id \in RunIds, Recorded(id)
  PROVE  runs'[id] = runs[id] /\ Recorded(id)'
  <1>1. ASSUME NEW i \in RunIds, NEW r \in Records, RecordRun(i, r)
        PROVE  runs'[id] = runs[id] /\ Recorded(id)'
    BY <1>1 DEF RecordRun, Recorded, LedgerTypeOK
  <1>2. ASSUME runs' = runs
        PROVE  runs'[id] = runs[id] /\ Recorded(id)'
    BY <1>2 DEF Recorded
  <1> QED
    BY <1>1, <1>2 DEF LedgerNext, RecordScore, SetBaseline

\* An empty ledger has no references.
LEMMA LedgerInit == InitLedger => LedgerTypeOK /\ ReferencesHold
  BY DEF InitLedger, LedgerTypeOK, ReferencesHold

\* Each operation keeps the tables well formed.
LEMMA LedgerTypes == LedgerTypeOK /\ [LedgerNext]_tables => LedgerTypeOK'
  <1> SUFFICES ASSUME LedgerTypeOK, [LedgerNext]_tables PROVE LedgerTypeOK'
    OBVIOUS
  <1>1. ASSUME NEW id \in RunIds, NEW rec \in Records, RecordRun(id, rec)
        PROVE  LedgerTypeOK'
    BY <1>1 DEF RecordRun, LedgerTypeOK
  <1>2. ASSUME NEW id \in RunIds, NEW score \in Scores, RecordScore(id, score)
        PROVE  LedgerTypeOK'
    BY <1>2 DEF RecordScore, LedgerTypeOK
  <1>3. ASSUME NEW claw \in Claws, NEW id \in RunIds, SetBaseline(claw, id)
        PROVE  LedgerTypeOK'
    BY <1>3 DEF SetBaseline, LedgerTypeOK
  <1>4. CASE UNCHANGED tables
    BY <1>4 DEF tables, LedgerTypeOK
  <1> QED
    BY <1>1, <1>2, <1>3, <1>4 DEF LedgerNext

\* Each operation keeps the references.
LEMMA LedgerReferences ==
  LedgerTypeOK /\ ReferencesHold /\ [LedgerNext]_tables => ReferencesHold'
  <1> SUFFICES ASSUME LedgerTypeOK, ReferencesHold, [LedgerNext]_tables
               PROVE  ReferencesHold'
    OBVIOUS
  <1>1. ASSUME NEW id \in RunIds, NEW rec \in Records, RecordRun(id, rec)
        PROVE  ReferencesHold'
    <2>1. ASSUME NEW i \in RunIds, Recorded(i)
          PROVE  runs'[i] = runs[i] /\ Recorded(i)'
      BY <1>1, <2>1, RecordedStays DEF LedgerNext
    <2> QED
      BY <1>1, <2>1 DEF RecordRun, ReferencesHold, LedgerTypeOK
  <1>2. ASSUME NEW id \in RunIds, NEW score \in Scores, RecordScore(id, score)
        PROVE  ReferencesHold'
    BY <1>2 DEF RecordScore, ReferencesHold, LedgerTypeOK, Recorded
  <1>3. ASSUME NEW claw \in Claws, NEW id \in RunIds, SetBaseline(claw, id)
        PROVE  ReferencesHold'
    BY <1>3 DEF SetBaseline, ReferencesHold, LedgerTypeOK, Recorded
  <1>4. CASE UNCHANGED tables
    BY <1>4 DEF tables, ReferencesHold, Recorded
  <1> QED
    BY <1>1, <1>2, <1>3, <1>4 DEF LedgerNext

\* Scores and baselines always belong to recorded runs, a baseline to one of
\* its own claw, although the schema (run_ledger.py:38-81) declares no
\* foreign key.
THEOREM References == LedgerSpec => [](LedgerTypeOK /\ ReferencesHold)
  BY LedgerInit, LedgerTypes, LedgerReferences, PTL DEF LedgerSpec

\* No operation changes a recorded payload (run_ledger.py:97-100).
THEOREM Immutable == LedgerSpec => RunsImmutable
  <1>1. LedgerTypeOK /\ [LedgerNext]_tables
          => [\A id \in RunIds : Recorded(id) => runs'[id] = runs[id]]_tables
    BY RecordedStays
  <1> QED
    BY <1>1, References, PTL DEF LedgerSpec, RunsImmutable
=============================================================================
