------------------------------ MODULE RunLedger ------------------------------
(***************************************************************************)
(* The run ledger of run_ledger.py: three tables in one DuckDB file.  Each *)
(* operation is a check followed by one autocommitted statement.  The      *)
(* schema has no foreign keys: that a score belongs to a recorded run and  *)
(* a baseline to a run of the same claw is up to these checks.             *)
(***************************************************************************)
EXTENDS RrsScore

CONSTANTS
    RunIds,     \* run identifiers
    Claws,      \* claw names
    Refs,       \* evidence references
    Records,    \* run payloads
    Scores,     \* overall scores
    NoRun       \* the tables have no row

Payloads == [claw : Claws, refs : SUBSET Refs, counters : Counters]

ASSUME LedgerAssumptions ==
    /\ Records \subseteq Payloads /\ Scores \subseteq 0..100
    /\ NoRun \notin Records /\ NoRun \notin RunIds /\ NoRun \notin Scores

VARIABLES
    runs,       \* runs[id]: the recorded payload, as canonical JSON
    scores,     \* scores[id]: the overall score
    baselines   \* baselines[claw]: the run the claw is compared with

tables == <<runs, scores, baselines>>

InitLedger ==
    /\ runs = [id \in RunIds |-> NoRun]
    /\ scores = [id \in RunIds |-> NoRun]
    /\ baselines = [claw \in Claws |-> NoRun]

Recorded(id) == runs[id] # NoRun

\* Recording the same payload again is a no-op; another payload is refused.
RecordRun(id, rec) ==
    /\ runs[id] \in {NoRun, rec}
    /\ runs' = [runs EXCEPT ![id] = rec]
    /\ UNCHANGED <<scores, baselines>>

\* An upsert, refused for a run that is not recorded.
RecordScore(id, score) ==
    /\ Recorded(id)
    /\ scores' = [scores EXCEPT ![id] = score]
    /\ UNCHANGED <<runs, baselines>>

SetBaselineUnchecked(claw, id) ==
    /\ Recorded(id)
    /\ baselines' = [baselines EXCEPT ![claw] = id]
    /\ UNCHANGED <<runs, scores>>

\* An upsert, refused for a missing run and for a run of another claw.
SetBaseline(claw, id) ==
    /\ Recorded(id) /\ runs[id].claw = claw
    /\ baselines' = [baselines EXCEPT ![claw] = id]
    /\ UNCHANGED <<runs, scores>>

LedgerNext ==
    \/ \E id \in RunIds, rec \in Records : RecordRun(id, rec)
    \/ \E id \in RunIds, score \in Scores : RecordScore(id, score)
    \/ \E claw \in Claws, id \in RunIds : SetBaseline(claw, id)

LedgerSpec == InitLedger /\ [][LedgerNext]_tables

-----------------------------------------------------------------------------

\* The tables are well formed.
LedgerTypeOK ==
    /\ runs \in [RunIds -> Records \cup {NoRun}]
    /\ scores \in [RunIds -> Scores \cup {NoRun}]
    /\ baselines \in [Claws -> RunIds \cup {NoRun}]

\* What the missing foreign keys would say: every score is the score of a
\* recorded run, and every baseline a recorded run of the claw it stands for.
ReferencesHold ==
    /\ \A id \in RunIds : scores[id] # NoRun => Recorded(id)
    /\ \A claw \in Claws :
         baselines[claw] # NoRun => /\ Recorded(baselines[claw])
                                    /\ runs[baselines[claw]].claw = claw

\* A recorded payload never changes, so what a score, a baseline or a handoff
\* says about a run stays about that run.
RunsImmutable ==
    [][\A id \in RunIds : Recorded(id) => runs'[id] = runs[id]]_tables
=============================================================================
