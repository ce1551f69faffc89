------------------------- MODULE SponsorCycleProofs -------------------------
(***************************************************************************)
(* Machine-checked proofs about SponsorCycle, for any number of runs,      *)
(* reports, drafts and faults: the seen set is handled by one run at a     *)
(* time and never loses an entry; what the outbox refers to is stored; the *)
(* state is well formed; approvals, tasks and the seen set agree but for   *)
(* what interruptions explain; research directories are accounted for; the *)
(* best prospects are handed over first, and none is left out.             *)
(***************************************************************************)
EXTENDS SponsorCycle, FiniteSetTheorems, WellFoundedInduction, TLAPS

\* The part of TypeOK the argument needs: what is a function of the runners.
Shape == /\ pc \in [Runners -> Active \cup Ended]
         /\ DOMAIN snap = Runners /\ snap = [r \in Runners |-> snap[r]]
         /\ DOMAIN queue = Runners /\ queue = [r \in Runners |-> queue[r]]

\* A run that waits for the lock or holds it has a candidate in hand.
HasCandidate == \A r \in Runners : pc[r] \in InLock \cup {"lock"} => queue[r] # {}

\* Inside the lock a run holds it, and past the read it has the current set.
ReadIsCurrent ==
    \A r \in Runners : pc[r] \in InLock => /\ seenLock = r
                                           /\ pc[r] # "read" => snap[r] = seen

\* The inductive invariant behind SeenExclusive and SeenGrows.
IInv == Shape /\ HasCandidate /\ ReadIsCurrent

\* At first nobody runs.
LEMMA InitEstablishes == Init => IInv
  BY DEF Init, IInv, Shape, HasCandidate, ReadIsCurrent, InLock, Active, Ended

\* A run that stops, however it stops, leaves the others as they were.
LEMMA StopKeeps ==
  ASSUME IInv, NEW r \in Runners, NEW result \in Ended, Stop(r, result),
         seen' = seen
  PROVE  IInv'
  BY DEF IInv, Shape, HasCandidate, ReadIsCurrent, Stop, Unlocked, InLock,
         Active, Ended

\* A step inside the lock that changes neither the lock nor the seen set.
LEMMA InnerStepKeeps ==
  ASSUME IInv, NEW r \in Runners, NEW here \in InLock \ {"read"},
         NEW there \in InLock \ {"read"}, Goto(r, here, there),
         UNCHANGED <<seen, seenLock, queue, snap>>
  PROVE  IInv'
  BY DEF IInv, Shape, HasCandidate, ReadIsCurrent, Goto, InLock, Active, Ended

\* A step between two places outside the lock.
LEMMA OuterStepKeeps ==
  ASSUME IInv, NEW r \in Runners, NEW there \in Active \ (InLock \cup {"lock"}),
         pc' = [pc EXCEPT ![r] = there], pc[r] \notin InLock,
         UNCHANGED <<seen, seenLock, queue, snap>>
  PROVE  IInv'
  BY DEF IInv, Shape, HasCandidate, ReadIsCurrent, InLock, Active, Ended

\* The end of the research, whatever becomes of its directory.
LEMMA ResearchedKeeps ==
  ASSUME IInv, NEW r \in Runners, Researched(r), seen' = seen
  PROVE  IInv'
  <1>1. CASE Goto(r, "research", "report") /\ UNCHANGED <<seenLock, queue, snap>>
    BY <1>1, OuterStepKeeps DEF Goto, Active, InLock
  <1>2. CASE Stop(r, "failed")
    BY <1>2, StopKeeps DEF Ended
  <1> QED
    BY <1>1, <1>2 DEF Researched

\* Every step preserves the invariant.
LEMMA StepKeeps == IInv /\ [Next]_vars => IInv'
  <1> SUFFICES ASSUME IInv, [Next]_vars PROVE IInv'
    OBVIOUS
  <1>1. CASE UNCHANGED vars
    BY <1>1 DEF vars, IInv, Shape, HasCandidate, ReadIsCurrent
  <1>2. ASSUME NEW r \in Runners, StartRun(r) PROVE IInv'
    BY <1>2, OuterStepKeeps DEF StartRun, local, Active, InLock, Ended
  <1>3. ASSUME NEW r \in Runners, Prepare(r) PROVE IInv'
    BY <1>3, OuterStepKeeps DEF Prepare, Goto, local, Active, InLock
  <1>4. ASSUME NEW r \in Runners, Research(r) PROVE IInv'
    BY <1>4, ResearchedKeeps DEF Research
  <1>5. ASSUME NEW r \in Runners, PutReport(r) PROVE IInv'
    BY <1>5 DEF PutReport, Goto, IInv, Shape, HasCandidate, ReadIsCurrent,
                InLock, Active, Ended
  <1>6. ASSUME NEW r \in Runners, PutDraft(r) PROVE IInv'
    BY <1>6 DEF PutDraft, Goto, IInv, Shape, HasCandidate, ReadIsCurrent,
                InLock, Active, Ended, local
  <1>7. ASSUME NEW r \in Runners, FinishIngest(r) PROVE IInv'
    <2>1. CASE Goto(r, "draft", "notify") /\ UNCHANGED <<seenLock, local>>
      BY <1>7, <2>1, OuterStepKeeps
      DEF FinishIngest, Goto, local, Active, InLock
    <2>2. CASE Stop(r, "done")
      BY <1>7, <2>2, StopKeeps DEF FinishIngest, Ended
    <2> QED
      BY <1>7, <2>1, <2>2 DEF FinishIngest
  <1>8. ASSUME NEW r \in Runners, LockSeen(r) PROVE IInv'
    BY <1>8, SponsorAssumptions
    DEF LockSeen, SeenFree, Goto, IInv, Shape, HasCandidate, ReadIsCurrent,
        InLock, Active, Ended, local
  <1>9. ASSUME NEW r \in Runners, ReadSeen(r) PROVE IInv'
    BY <1>9, SponsorAssumptions
    DEF ReadSeen, Unlocked, IInv, Shape, HasCandidate, ReadIsCurrent,
        InLock, Active, Ended
  <1>10. ASSUME NEW r \in Runners, CreateReview(r) PROVE IInv'
    BY <1>10, InnerStepKeeps DEF CreateReview, local, InLock
  <1>11. ASSUME NEW r \in Runners, ExportReview(r) PROVE IInv'
    BY <1>11, InnerStepKeeps DEF ExportReview, local, InLock
  <1>12. ASSUME NEW r \in Runners, CheckSensitive(r) PROVE IInv'
    <2>1. CASE Goto(r, "send", "append") /\ UNCHANGED <<seenLock, local>>
      BY <1>12, <2>1, InnerStepKeeps DEF CheckSensitive, local, InLock
    <2>2. CASE Stop(r, "failed")
      BY <1>12, <2>2, StopKeeps DEF CheckSensitive, Ended
    <2> QED
      BY <1>12, <2>1, <2>2 DEF CheckSensitive
  <1>13. ASSUME NEW r \in Runners, AppendHandoff(r) PROVE IInv'
    BY <1>13, InnerStepKeeps DEF AppendHandoff, local, InLock
  <1>14. ASSUME NEW r \in Runners, MarkSeen(r) PROVE IInv'
    BY <1>14
    DEF MarkSeen, Goto, Unlocked, IInv, Shape, HasCandidate, ReadIsCurrent,
        InLock, Active, Ended
  <1>15. ASSUME NEW r \in Runners, Notify(r) PROVE IInv'
    BY <1>15, StopKeeps DEF Notify, Ended
  <1>16. ASSUME NEW r \in Runners, Kill(r) \/ Fail(r) \/ TearAppend(r)
         PROVE  IInv'
    BY <1>16, StopKeeps DEF Kill, Fail, TearAppend, Ended
  <1>17. ASSUME NEW r \in Runners, FailHalfway(r) PROVE IInv'
    <2>1. CASE seen' = seen
      BY <1>17, <2>1, StopKeeps DEF FailHalfway, Ended
    <2>2. CASE pc[r] = "mark" /\ seen' = Marked(r)
      BY <1>17, <2>2
      DEF FailHalfway, Stop, Unlocked, IInv, Shape, HasCandidate,
          ReadIsCurrent, InLock, Active, Ended
    <2> QED
      BY <1>17, <2>1, <2>2 DEF FailHalfway
  <1>18. ASSUME NEW r \in Runners, LeaveScratch(r) PROVE IInv'
    BY <1>18, ResearchedKeeps DEF LeaveScratch
  <1> QED
    BY <1>1, <1>2, <1>3, <1>4, <1>5, <1>6, <1>7, <1>8, <1>9, <1>10, <1>11,
       <1>12, <1>13, <1>14, <1>15, <1>16, <1>17, <1>18 DEF Next, Step, Fault

\* The invariant holds for ever.
LEMMA Inductive == Spec => []IInv
  BY InitEstablishes, StepKeeps, PTL DEF Spec

\* run_once (sponsorship.py:272-292) works on the seen set alone and on its
\* current contents, whatever run is killed or fails wherever.
THEOREM Exclusive == Spec => []SeenExclusive
  <1>1. IInv => SeenExclusive
    BY DEF IInv, HasCandidate, ReadIsCurrent, SeenExclusive
  <1> QED
    BY <1>1, Inductive, PTL

\* No entry of seen.json is lost by any step.
LEMMA SeenKept ==
  ASSUME IInv, [Next]_vars PROVE seen \subseteq seen'
  <1>1. CASE \E r \in Runners : MarkSeen(r) \/ FailHalfway(r)
    BY <1>1
    DEF MarkSeen, FailHalfway, Goto, Marked, IInv, ReadIsCurrent, InLock
  <1>2. CASE seen' = seen
    BY <1>2
  <1> QED
    BY <1>1, <1>2
    DEF Next, Step, Fault, vars, StartRun, Prepare, Research, PutReport,
        PutDraft, FinishIngest, LockSeen, ReadSeen, CreateReview,
        ExportReview, CheckSensitive, AppendHandoff, Notify, Kill, Fail,
        TearAppend, LeaveScratch

\* No run ever overwrites seen.json with a set that misses an entry.
THEOREM NoLostUpdate == Spec => SeenGrows
  <1>1. IInv /\ [Next]_vars => [seen \subseteq seen']_vars
    BY SeenKept
  <1> QED
    BY <1>1, Inductive, PTL DEF Spec, SeenGrows

-----------------------------------------------------------------------------
(***************************************************************************)
(* References.  A run hands on only what it has stored before: the report  *)
(* before its drafts, a draft before its handoff.                          *)
(***************************************************************************)

\* Where a run has stored its report, and where also the draft in hand.
PastReport == {"draft", "lock"} \cup InLock
PastDraft  == {"lock"} \cup InLock

RefShape == /\ pc \in [Runners -> Active \cup Ended]
            /\ report = [r \in Runners |-> report[r]]
            /\ queue = [r \in Runners |-> queue[r]]
            /\ artifacts = [reports |-> artifacts.reports,
                            drafts |-> artifacts.drafts]

InHand == \A r \in Runners :
              /\ pc[r] \in PastReport => report[r] \in artifacts.reports
              /\ pc[r] \in PastDraft => Line(r) \in artifacts.drafts

\* The inductive invariant behind RefsResolve.
RefInv == /\ RefShape /\ InHand
          /\ \A d \in artifacts.drafts : d.report \in artifacts.reports
          /\ outbox \in Seq(artifacts.drafts \cup {Garbled})

\* A sequence over a set is one over any larger set.
LEMMA SeqWidens ==
  ASSUME NEW S, NEW T, S \subseteq T, NEW s \in Seq(S)
  PROVE  s \in Seq(T)
  OBVIOUS

\* At first there is no reference.
LEMMA RefInit == Init => RefInv
  BY DEF Init, RefInv, RefShape, InHand, PastReport, PastDraft, InLock,
         Active, Ended

\* A run that stops, having appended its handoff or not.
LEMMA StopKeepsRefs ==
  ASSUME RefInv, NEW r \in Runners, NEW result \in Ended, Stop(r, result),
         UNCHANGED artifacts, outbox' \in Seq(artifacts.drafts \cup {Garbled})
  PROVE  RefInv'
  BY DEF RefInv, RefShape, InHand, PastReport, PastDraft, InLock, Active,
         Ended, Stop, Line, Current

\* A run that goes on without storing anything.
LEMMA GoOnKeepsRefs ==
  ASSUME RefInv, NEW r \in Runners, NEW there \in Active,
         pc' = [pc EXCEPT ![r] = there],
         report' = [q \in Runners |-> report'[q]],
         queue' = [q \in Runners |-> queue'[q]],
         \A q \in Runners \ {r} : report'[q] = report[q] /\ queue'[q] = queue[q],
         there \in PastReport => pc[r] \in PastReport /\ report'[r] = report[r],
         there \in PastDraft => pc[r] \in PastDraft /\ queue'[r] = queue[r],
         UNCHANGED artifacts, outbox' \in Seq(artifacts.drafts \cup {Garbled})
  PROVE  RefInv'
  BY DEF RefInv, RefShape, InHand, PastReport, PastDraft, InLock, Active,
         Ended, Line, Current

\* What an append leaves in the outbox: a line for the draft in hand, or
\* garbage.
LEMMA AppendedLine ==
  ASSUME RefInv, NEW r \in Runners, pc[r] = "append"
  PROVE  Appended(r) \in Seq(artifacts.drafts \cup {Garbled})
  BY DEF RefInv, InHand, Appended, PastDraft, InLock

\* Storing the report of a run.
LEMMA PutReportKeepsRefs ==
  ASSUME RefInv, NEW r \in Runners, PutReport(r) PROVE RefInv'
  <1>1. /\ artifacts'.reports = artifacts.reports \cup {report[r]}
        /\ artifacts'.drafts = artifacts.drafts
        /\ pc'[r] = "draft"
        /\ \A q \in Runners \ {r} : pc'[q] = pc[q] /\ queue'[q] = queue[q]
        /\ UNCHANGED <<report, outbox>>
    BY DEF PutReport, Goto, RefInv, RefShape
  <1>2. RefShape'
    BY DEF PutReport, Goto, RefInv, RefShape, Active
  <1>3. InHand'
    BY <1>1 DEF RefInv, InHand, PastDraft, InLock, Line, Current
  <1> QED
    BY <1>1, <1>2, <1>3 DEF RefInv

\* Storing the draft in hand.
LEMMA PutDraftKeepsRefs ==
  ASSUME RefInv, NEW r \in Runners, PutDraft(r) PROVE RefInv'
  <1>1. /\ artifacts'.reports = artifacts.reports
        /\ artifacts'.drafts = artifacts.drafts \cup {Line(r)}
        /\ pc[r] = "draft" /\ pc'[r] = "lock"
        /\ \A q \in Runners \ {r} : pc'[q] = pc[q]
        /\ UNCHANGED <<report, queue, outbox>>
    BY DEF PutDraft, Goto, RefInv, RefShape, local
  <1>2. RefShape'
    BY DEF PutDraft, Goto, RefInv, RefShape, Active, local
  <1>3. InHand'
    BY <1>1 DEF RefInv, InHand, PastReport, PastDraft, Line, Current
  <1>4. \A d \in artifacts'.drafts : d.report \in artifacts'.reports
    BY <1>1 DEF RefInv, InHand, PastReport, Line
  <1>5. outbox' \in Seq(artifacts'.drafts \cup {Garbled})
    BY <1>1, SeqWidens DEF RefInv
  <1> QED
    BY <1>2, <1>3, <1>4, <1>5 DEF RefInv

\* Every step keeps the references.
LEMMA RefStep == RefInv /\ [Next]_vars => RefInv'
  <1> SUFFICES ASSUME RefInv, [Next]_vars PROVE RefInv'
    OBVIOUS
  <1> DEFINE kept == Seq(artifacts.drafts \cup {Garbled})
  <1>1. outbox \in kept
    BY DEF RefInv
  <1>2. CASE UNCHANGED vars
    BY <1>2 DEF vars, RefInv, RefShape, InHand, Line, Current
  <1>3. ASSUME NEW r \in Runners,
               \/ StartRun(r) \/ Prepare(r) \/ Research(r)
               \/ LeaveScratch(r) \/ FinishIngest(r)
        PROVE  RefInv'
    <2>1. CASE \E result \in Ended : Stop(r, result)
      BY <1>1, <1>3, <2>1, StopKeepsRefs
      DEF StartRun, Prepare, Research, Researched, LeaveScratch, FinishIngest,
          store
    <2>2. CASE \E there \in {"prepare", "research", "report", "notify"} :
                 pc' = [pc EXCEPT ![r] = there]
      <3>1. /\ UNCHANGED <<artifacts, outbox>>
            /\ report' = [q \in Runners |-> report'[q]]
            /\ queue' = [q \in Runners |-> queue'[q]]
            /\ \A q \in Runners \ {r} :
                 report'[q] = report[q] /\ queue'[q] = queue[q]
        BY <1>3
        DEF StartRun, Prepare, Research, Researched, LeaveScratch, FinishIngest,
            Stop, store, local, RefInv, RefShape
      <3> QED
        BY <1>1, <2>2, <3>1, GoOnKeepsRefs
        DEF PastReport, PastDraft, InLock, Active
    <2> QED
      BY <1>3, <2>1, <2>2
      DEF StartRun, Prepare, Research, Researched, LeaveScratch, FinishIngest,
          Goto, Ended
  <1>4. ASSUME NEW r \in Runners,
               LockSeen(r) \/ CreateReview(r) \/ ExportReview(r)
        PROVE  RefInv'
    BY <1>1, <1>4, GoOnKeepsRefs
    DEF LockSeen, CreateReview, ExportReview, Goto, store, local, PastReport,
        PastDraft, InLock, Active, RefInv, RefShape
  <1>5. ASSUME NEW r \in Runners, ReadSeen(r) \/ MarkSeen(r) PROVE RefInv'
    BY <1>1, <1>5, GoOnKeepsRefs
    DEF ReadSeen, MarkSeen, Goto, store, PastReport, PastDraft, InLock,
        Active, RefInv, RefShape
  <1>6. ASSUME NEW r \in Runners, CheckSensitive(r) PROVE RefInv'
    <2>1. CASE Stop(r, "failed")
      BY <1>1, <1>6, <2>1, StopKeepsRefs DEF CheckSensitive, store, Ended
    <2>2. CASE Goto(r, "send", "append") /\ UNCHANGED local
      BY <1>1, <1>6, <2>2, GoOnKeepsRefs
      DEF CheckSensitive, Goto, store, local, PastReport, PastDraft, InLock,
          Active, RefInv, RefShape
    <2> QED
      BY <1>6, <2>1, <2>2 DEF CheckSensitive
  <1>7. ASSUME NEW r \in Runners, AppendHandoff(r) PROVE RefInv'
    <2>1. outbox' \in kept
      BY <1>7, AppendedLine DEF AppendHandoff, Goto
    <2> QED
      BY <1>7, <2>1, GoOnKeepsRefs
      DEF AppendHandoff, Goto, local, PastReport, PastDraft, InLock, Active,
          RefInv, RefShape
  <1>8. ASSUME NEW r \in Runners,
               Notify(r) \/ Kill(r) \/ Fail(r) \/ TearAppend(r)
        PROVE  RefInv'
    BY <1>1, <1>8, StopKeepsRefs
    DEF Notify, Kill, Fail, TearAppend, store, Ended
  <1>9. ASSUME NEW r \in Runners, FailHalfway(r) PROVE RefInv'
    <2>1. outbox' \in kept
      BY <1>1, <1>9, AppendedLine DEF FailHalfway
    <2> QED
      BY <1>9, <2>1, StopKeepsRefs DEF FailHalfway, Ended
  <1> QED
    BY <1>2, <1>3, <1>4, <1>5, <1>6, <1>7, <1>8, <1>9, PutReportKeepsRefs,
       PutDraftKeepsRefs
    DEF Next, Step, Fault

\* Every readable handoff (adapters.py:161-199) is about a draft in the
\* evidence store, and the draft cites a report that is there too
\* (sponsorship.py:339-390), whatever run is killed, fails or tears its line.
THEOREM RefsAlwaysResolve == Spec => []RefsResolve
  <1>1. RefInv => RefsResolve
    BY DEF RefInv, RefsResolve
  <1> QED
    BY <1>1, RefInit, RefStep, PTL DEF Spec

-----------------------------------------------------------------------------
(***************************************************************************)
(* Types, and the order of the prospects.                                  *)
(***************************************************************************)

\* Every nonempty set of numbers has a least one.
LEMMA LeastNumber ==
  ASSUME NEW S \in SUBSET Nat, S # {}
  PROVE  \E n \in S : \A m \in S : n <= m
  <1>1. PICK n \in S : \A m \in S : <<m, n>> \notin OpToRel(<, Nat)
    BY NatLessThanWellFounded, WFMin
  <1>2. \A m \in S : ~(m < n)
    BY <1>1 DEF OpToRel
  <1> QED
    BY <1>2

\* A report, or what is left of it, has a best prospect, and the next candidate
\* is that one.
LEMMA BestIsBest ==
  ASSUME NEW rep \in Reports, NEW S \in SUBSET rep, S # {}
  PROVE  /\ Best(S) \in S
         /\ \A q \in S \ {Best(S)} : Better(Best(S), q)
  <1>1. S \subseteq Prospects
    BY SponsorAssumptions
  <1> DEFINE short(p) == 100 - p.confidence
  <1>2. \A p \in S : p.confidence \in 0..100 /\ p.name \in Nat /\ short(p) \in Nat
    BY <1>1 DEF Prospects
  <1> DEFINE Shorts == {short(p) : p \in S}
  <1>3. PICK p0 \in S : \A q \in S : short(p0) <= short(q)
    <2>1. Shorts \in SUBSET Nat /\ Shorts # {}
      BY <1>2
    <2>2. PICK n \in Shorts : \A m \in Shorts : n <= m
      BY <2>1, LeastNumber
    <2> QED
      BY <2>2
  <1> DEFINE Top == {p \in S : p.confidence = p0.confidence}
             Names == {p.name : p \in Top}
  <1>4. PICK p \in Top : \A q \in Top : p.name <= q.name
    <2>1. Names \in SUBSET Nat /\ Names # {}
      BY <1>2
    <2>2. PICK n \in Names : \A m \in Names : n <= m
      BY <2>1, LeastNumber
    <2> QED
      BY <2>2
  <1>5. ASSUME NEW q \in S \ {p} PROVE Better(p, q)
    <2>1. p \in S /\ q \in S /\ p.confidence = p0.confidence
      OBVIOUS
    <2>2. p.name # q.name
      BY <2>1, SponsorAssumptions
    <2>3. short(p0) <= short(q) /\ p0.confidence \in 0..100 /\ q.confidence \in 0..100
      BY <1>2, <1>3
    <2>4. p0.confidence >= q.confidence
      BY <2>3
    <2>5. q.confidence = p0.confidence => p.name <= q.name
      BY <1>4, <2>1
    <2> HIDE DEF short, Top, Names, Shorts
    <2>6. p.name \in Nat /\ q.name \in Nat /\ p0.confidence \in Nat /\ q.confidence \in Nat
      BY <1>2, <2>1, <2>3
    <2> QED
      BY <2>1, <2>2, <2>4, <2>5, <2>6 DEF Better
  <1>6. \E b \in S : \A q \in S \ {b} : Better(b, q)
    BY <1>5
  <1> QED
    BY <1>6 DEF Best

\* No prospect is better than one that is better than it.
LEMMA BetterOrders ==
  ASSUME NEW p \in Prospects, NEW q \in Prospects, NEW s \in Prospects
  PROVE  /\ ~(Better(p, q) /\ Better(q, p))
         /\ Better(p, q) /\ Better(q, s) => Better(p, s)
  BY DEF Better, Prospects

Begun == {"prepare", "research"}

\* A run has a report once it is past its research, and no candidates or new
\* drafts before it has stored the report.
StartsBlank ==
    \A r \in Runners :
        /\ pc[r] \in Ended \cup Begun => report[r] = {}
        /\ pc[r] \notin Ended \cup Begun => report[r] \in Reports
        /\ pc[r] \in Ended \cup Begun \cup {"report"} => queue[r] = {} /\ fresh[r] = {}

\* A run's queue is what is left of its report's candidates.
QueueOfReport == \A r \in Runners : queue[r] \subseteq report[r]

\* The inductive invariant behind TypeOK, together with IInv.
TypeInv == TypeOK /\ StartsBlank /\ QueueOfReport

\* A run with a candidate in hand has a prospect of its report there.
LEMMA CurrentTypes ==
  ASSUME TypeInv, NEW r \in Runners, queue[r] # {}
  PROVE  /\ report[r] \in Reports
         /\ Current(r) \in queue[r] /\ Current(r) \in report[r]
         /\ Current(r) \in Prospects
         /\ \A q \in queue[r] \ {Current(r)} : Better(Current(r), q)
         /\ CurrentId(r) \in Drafts /\ Line(r) \in Lines
  <1>1. queue[r] \subseteq report[r] /\ report[r] \in Reports
    BY DEF TypeInv, TypeOK, QueueOfReport
  <1>2. /\ Current(r) \in queue[r]
        /\ \A q \in queue[r] \ {Current(r)} : Better(Current(r), q)
    BY <1>1, BestIsBest DEF Current
  <1>3. Current(r) \in Prospects
    BY <1>1, <1>2, SponsorAssumptions
  <1> QED
    BY <1>1, <1>2, <1>3 DEF CurrentId, Line, Lines, Prospects

\* A fault is counted.
LEMMA SpendCounts ==
  ASSUME TypeOK, NEW k \in Faults, Spend(k)
  PROVE  /\ faults' \in [Faults -> Nat]
         /\ faults'[k] = faults[k] + 1
         /\ \A j \in Faults \ {k} : faults'[j] = faults[j]
  BY DEF TypeOK, Spend

\* A run that stops, however it stops, is blank again.
LEMMA StopTypes ==
  ASSUME TypeInv, NEW r \in Runners, NEW result \in Ended, Stop(r, result)
  PROVE  /\ seenLock' \in Runners \cup {Nobody}
         /\ pc' \in [Runners -> Active \cup Ended]
         /\ report' \in [Runners -> Reports \cup {{}}]
         /\ queue' \in [Runners -> SUBSET Prospects]
         /\ snap' \in [Runners -> SUBSET Drafts]
         /\ fresh' \in [Runners -> SUBSET Drafts]
         /\ StartsBlank' /\ QueueOfReport'
  BY DEF TypeInv, TypeOK, Stop, Unlocked, StartsBlank, QueueOfReport, Begun,
         Active, Ended

\* A run whose research is over has a report, or is blank again.
LEMMA ResearchedTypes ==
  ASSUME TypeInv, NEW r \in Runners, Researched(r)
  PROVE  /\ seenLock' \in Runners \cup {Nobody}
         /\ pc' \in [Runners -> Active \cup Ended]
         /\ report' \in [Runners -> Reports \cup {{}}]
         /\ queue' \in [Runners -> SUBSET Prospects]
         /\ snap' \in [Runners -> SUBSET Drafts]
         /\ fresh' \in [Runners -> SUBSET Drafts]
         /\ StartsBlank' /\ QueueOfReport'
  <1>1. CASE Stop(r, "failed")
    BY <1>1, StopTypes DEF Ended
  <1>2. ASSUME Goto(r, "research", "report"),
               UNCHANGED <<seenLock, queue, snap, fresh>>,
               NEW rep \in Reports, report' = [report EXCEPT ![r] = rep]
        PROVE  /\ pc' \in [Runners -> Active \cup Ended]
               /\ report' \in [Runners -> Reports \cup {{}}]
               /\ StartsBlank' /\ QueueOfReport'
    BY <1>2
    DEF Goto, TypeInv, TypeOK, StartsBlank, QueueOfReport, Begun, Active, Ended
  <1> QED
    BY <1>1, <1>2 DEF Researched, TypeInv, TypeOK

\* What is appended is a line, whole or garbled.
LEMMA AppendTypes ==
  ASSUME TypeInv, NEW r \in Runners, queue[r] # {}
  PROVE  Appended(r) \in Seq(Lines \cup {Garbled})
  <1>1. Line(r) \in Lines
    BY CurrentTypes
  <1> QED
    BY <1>1 DEF TypeInv, TypeOK, Appended

-----------------------------------------------------------------------------
(***************************************************************************)
(* Research directories.                                                   *)
(***************************************************************************)

\* Faults that may leave a directory behind.
Leftovers == faults["kill"] + faults["io"]

\* The inductive invariant behind ScratchRemoved: each run in its research has
\* a directory, and there are no others but those that faults left.
Directories == /\ scratch \in Nat /\ IsFiniteSet(Researching)
               /\ Cardinality(Researching) <= scratch
               /\ scratch <= Cardinality(Researching) + Leftovers

\* They are counted.
LEMMA LeftoversCount ==
  ASSUME TypeOK
  PROVE  /\ Leftovers \in Nat
         /\ faults' = faults => Leftovers' = Leftovers
         /\ Spend("kill") \/ Spend("io") => Leftovers' = Leftovers + 1
         /\ Spend("torn") => Leftovers' = Leftovers
  <1>1. faults["kill"] \in Nat /\ faults["io"] \in Nat
    BY DEF TypeOK, Faults
  <1>2. ASSUME NEW k \in Faults, Spend(k)
        PROVE  /\ faults'[k] = faults[k] + 1
               /\ \A j \in Faults \ {k} : faults'[j] = faults[j]
    BY <1>2, SpendCounts
  <1> QED
    BY <1>1, <1>2 DEF Leftovers, Faults

\* One more run, or one less, in its research.
LEMMA OneMore ==
  ASSUME IsFiniteSet(Researching), NEW r, r \notin Researching,
         Researching' = Researching \cup {r}
  PROVE  /\ IsFiniteSet(Researching')
         /\ Cardinality(Researching') = Cardinality(Researching) + 1
  BY FS_AddElement

\* Likewise for the run that is over with it.
LEMMA OneLess ==
  ASSUME IsFiniteSet(Researching), NEW r \in Researching,
         Researching' = Researching \ {r}
  PROVE  /\ IsFiniteSet(Researching')
         /\ Cardinality(Researching') = Cardinality(Researching) - 1
  BY FS_RemoveElement

\* A run that is in its research has a directory to remove.
LEMMA ResearchRemoves ==
  ASSUME Directories, NEW r \in Runners, pc[r] = "research"
  PROVE  scratch \in Nat /\ scratch >= 1 /\ scratch - 1 \in Nat
  <1>1. Cardinality(Researching) \in Nat /\ Cardinality(Researching) # 0
    BY FS_CardinalityType, FS_EmptySet DEF Directories, Researching
  <1> QED
    BY <1>1 DEF Directories

\* At first there is none.
LEMMA DirectoriesInit == Init => Directories
  <1> SUFFICES ASSUME Init PROVE Directories
    OBVIOUS
  <1>1. Researching = {} /\ scratch = 0 /\ Leftovers = 0
    BY DEF Init, Researching, Leftovers, Faults
  <1> QED
    BY <1>1, FS_EmptySet DEF Directories

\* What a step of a run does to the directories: it makes one, removes one,
\* leaves one behind, or none of these.
Makes(r) == /\ pc[r] # "research" /\ pc'[r] = "research"
            /\ scratch' = scratch + 1 /\ Leftovers' = Leftovers

Removes(r) == /\ pc[r] = "research" /\ pc'[r] # "research"
              /\ scratch' = scratch - 1 /\ Leftovers' = Leftovers

Leaves(r) == /\ pc[r] = "research" /\ pc'[r] # "research"
             /\ scratch' = scratch /\ Leftovers' = Leftovers + 1

Neither(r) == /\ pc[r] # "research" /\ pc'[r] # "research"
              /\ \/ scratch' = scratch /\ Leftovers' = Leftovers
                 \/ /\ scratch' \in {scratch, scratch + 1}
                    /\ Leftovers' = Leftovers + 1

\* Every step does one of these.
LEMMA StepOnDirectories ==
  ASSUME TypeOK, NEW r \in Runners, StartRun(r) \/ Step(r) \/ Fault(r)
  PROVE  /\ \A q \in Runners \ {r} : pc'[q] = pc[q]
         /\ Makes(r) \/ Removes(r) \/ Leaves(r) \/ Neither(r)
  <1>1. pc \in [Runners -> Active \cup Ended] /\ r \in DOMAIN pc
    BY DEF TypeOK
  <1>2. CASE Prepare(r)
    BY <1>1, <1>2, LeftoversCount DEF Prepare, Goto, Makes
  <1>3. CASE Research(r)
    BY <1>1, <1>3, LeftoversCount
    DEF Research, Researched, Goto, Stop, Removes
  <1>4. CASE LeaveScratch(r)
    BY <1>1, <1>4, LeftoversCount
    DEF LeaveScratch, Researched, Goto, Stop, Leaves
  <1>5. CASE Kill(r)
    BY <1>1, <1>5, LeftoversCount DEF Kill, Stop, Leaves, Neither
  <1>6. CASE Fail(r) \/ FailHalfway(r)
    BY <1>1, <1>6, LeftoversCount DEF Fail, FailHalfway, Stop, Neither
  <1>7. CASE TearAppend(r)
    BY <1>1, <1>7, LeftoversCount DEF TearAppend, Stop, Neither
  <1>8. CASE StartRun(r) \/ PutReport(r) \/ PutDraft(r) \/ FinishIngest(r)
    BY <1>1, <1>8, LeftoversCount
    DEF StartRun, PutReport, PutDraft, FinishIngest, Goto, Stop, Neither,
        Ended
  <1>9. CASE LockSeen(r) \/ ReadSeen(r) \/ CreateReview(r) \/ ExportReview(r)
    BY <1>1, <1>9, LeftoversCount
    DEF LockSeen, ReadSeen, CreateReview, ExportReview, Goto, Neither
  <1>10. CASE CheckSensitive(r) \/ AppendHandoff(r) \/ MarkSeen(r) \/ Notify(r)
    BY <1>1, <1>10, LeftoversCount
    DEF CheckSensitive, AppendHandoff, MarkSeen, Notify, Goto, Stop, Neither
  <1> QED
    BY <1>2, <1>3, <1>4, <1>5, <1>6, <1>7, <1>8, <1>9, <1>10 DEF Step, Fault

\* No directory is unaccounted for after a step.
LEMMA DirectoriesStep == TypeInv /\ Directories /\ [Next]_vars => Directories'
  <1> SUFFICES ASSUME TypeInv, Directories, [Next]_vars PROVE Directories'
    OBVIOUS
  <1>1. CASE UNCHANGED vars
    BY <1>1 DEF vars, Directories, Researching, Leftovers
  <1>2. ASSUME NEW r \in Runners, StartRun(r) \/ Step(r) \/ Fault(r)
        PROVE  Directories'
    <2>1. /\ \A q \in Runners \ {r} : pc'[q] = pc[q]
          /\ Makes(r) \/ Removes(r) \/ Leaves(r) \/ Neither(r)
      BY <1>2, StepOnDirectories DEF TypeInv
    <2>2. /\ scratch \in Nat /\ IsFiniteSet(Researching) /\ Leftovers \in Nat
          /\ Cardinality(Researching) \in Nat
          /\ Cardinality(Researching) <= scratch
          /\ scratch <= Cardinality(Researching) + Leftovers
      BY FS_CardinalityType, LeftoversCount DEF Directories, TypeInv
    <2>3. CASE Makes(r)
      <3>1. r \notin Researching /\ Researching' = Researching \cup {r}
        BY <2>1, <2>3 DEF Researching, Makes
      <3>2. /\ IsFiniteSet(Researching')
            /\ Cardinality(Researching') = Cardinality(Researching) + 1
        BY <2>2, <3>1, OneMore
      <3> QED
        BY <2>2, <2>3, <3>2 DEF Directories, Makes
    <2>4. CASE Removes(r) \/ Leaves(r)
      <3>1. r \in Researching /\ Researching' = Researching \ {r}
        BY <2>1, <2>4 DEF Researching, Removes, Leaves
      <3>2. /\ IsFiniteSet(Researching')
            /\ Cardinality(Researching') = Cardinality(Researching) - 1
        BY <2>2, <3>1, OneLess
      <3>3. scratch >= 1 /\ scratch - 1 \in Nat
        BY <1>2, <2>4, ResearchRemoves DEF Removes, Leaves
      <3> QED
        BY <2>2, <2>4, <3>2, <3>3 DEF Directories, Removes, Leaves
    <2>5. CASE Neither(r)
      <3>1. Researching' = Researching
        BY <2>1, <2>5 DEF Researching, Neither
      <3> QED
        BY <2>2, <2>5, <3>1 DEF Directories, Neither
    <2> QED
      BY <2>1, <2>3, <2>4, <2>5
  <1> QED
    BY <1>1, <1>2 DEF Next

-----------------------------------------------------------------------------
\* The state stays well formed.
LEMMA TypeStep == TypeInv /\ IInv /\ Directories /\ [Next]_vars => TypeInv'
  <1> SUFFICES ASSUME TypeInv, IInv, Directories, [Next]_vars PROVE TypeInv'
    OBVIOUS
  <1> USE DEF TypeInv, TypeOK, store, local
  <1> DEFINE Rest == StartsBlank /\ QueueOfReport
  <1>1. CASE UNCHANGED vars
    BY <1>1 DEF vars, StartsBlank, QueueOfReport
  <1>2. ASSUME NEW r \in Runners, StartRun(r) PROVE TypeInv'
    <2>1. pc' \in [Runners -> Active \cup Ended]
      BY <1>2 DEF StartRun, Active
    <2>2. report' \in [Runners -> Reports \cup {{}}]
      BY <1>2 DEF StartRun
    <2>3. runs' \in 0..MaxRuns
      BY <1>2, SponsorAssumptions DEF StartRun
    <2>4. Rest'
      BY <1>2 DEF StartRun, StartsBlank, QueueOfReport, Begun, Active, Ended
    <2> QED
      BY <1>2, <2>1, <2>2, <2>3, <2>4 DEF StartRun
  <1>3. ASSUME NEW r \in Runners, Prepare(r) PROVE TypeInv'
    BY <1>3 DEF Prepare, Goto, StartsBlank, QueueOfReport, Begun, Active, Ended
  <1>4. ASSUME NEW r \in Runners, Research(r) PROVE TypeInv'
    <2>1. scratch' \in Nat
      BY <1>4, ResearchRemoves DEF Research, Researched, Goto
    <2> QED
      BY <1>4, <2>1, ResearchedTypes DEF Research
  <1>5. ASSUME NEW r \in Runners, PutReport(r) PROVE TypeInv'
    <2>1. Candidates(report[r]) \subseteq report[r]
      BY DEF Candidates
    <2>2. report[r] \in Reports
      BY <1>5 DEF PutReport, Goto, StartsBlank, Begun, Ended
    <2>3. Rest'
      BY <1>5, <2>1
      DEF PutReport, Goto, StartsBlank, QueueOfReport, Begun, Active, Ended
    <2>4. artifacts' \in [reports : SUBSET Reports, drafts : SUBSET Lines]
      BY <1>5, <2>2 DEF PutReport
    <2>5. queue' \in [Runners -> SUBSET Prospects]
      BY <1>5, <2>1, <2>2, SponsorAssumptions DEF PutReport
    <2> QED
      BY <1>5, <2>3, <2>4, <2>5 DEF PutReport, Goto, Active
  <1>6. ASSUME NEW r \in Runners, PutDraft(r) PROVE TypeInv'
    <2>1. Rest'
      BY <1>6 DEF PutDraft, Goto, StartsBlank, QueueOfReport, Begun, Ended
    <2>2. Line(r) \in Lines
      BY <1>6, CurrentTypes DEF PutDraft
    <2>3. artifacts' \in [reports : SUBSET Reports, drafts : SUBSET Lines]
      BY <1>6, <2>2 DEF PutDraft
    <2> QED
      BY <1>6, <2>1, <2>3 DEF PutDraft, Goto, Active
  <1>7. ASSUME NEW r \in Runners, FinishIngest(r) PROVE TypeInv'
    <2>1. CASE Stop(r, "done")
      BY <1>7, <2>1, StopTypes DEF FinishIngest, Ended
    <2>2. CASE Goto(r, "draft", "notify") /\ UNCHANGED <<seenLock, local>>
      BY <1>7, <2>2
      DEF FinishIngest, Goto, StartsBlank, QueueOfReport, Begun, Active, Ended
    <2> QED
      BY <1>7, <2>1, <2>2 DEF FinishIngest
  <1>8. ASSUME NEW r \in Runners, LockSeen(r) PROVE TypeInv'
    <2>1. Rest'
      BY <1>8
      DEF LockSeen, Goto, StartsBlank, QueueOfReport, Begun, Active, Ended, InLock
    <2>2. TypeOK'
      BY <1>8 DEF LockSeen, Goto, Active, InLock
    <2> QED
      BY <2>1, <2>2
  <1>9. ASSUME NEW r \in Runners, ReadSeen(r) PROVE TypeInv'
    <2>1. Rest'
      <3>1. /\ pc[r] = "read" /\ pc'[r] \in {"draft", "task", "send"}
            /\ \A q \in Runners \ {r} : pc'[q] = pc[q]
            /\ \A q \in Runners : queue'[q] \subseteq queue[q]
            /\ UNCHANGED <<report, fresh>>
        BY <1>9 DEF ReadSeen
      <3> QED
        BY <3>1 DEF StartsBlank, QueueOfReport, Begun, Ended
    <2>2. TypeOK'
      BY <1>9 DEF ReadSeen, Unlocked, Active, InLock
    <2> QED
      BY <2>1, <2>2
  <1> DEFINE candidate(r) == /\ queue[r] # {} /\ CurrentId(r) \in Drafts
                             /\ Appended(r) \in Seq(Lines \cup {Garbled})
  <1>0. ASSUME NEW r \in Runners, pc[r] \in InLock PROVE candidate(r)
    <2>1. queue[r] # {}
      BY <1>0 DEF IInv, HasCandidate
    <2> QED
      BY <2>1, CurrentTypes, AppendTypes
  <1>10. ASSUME NEW r \in Runners, CreateReview(r) PROVE TypeInv'
    <2>1. CurrentId(r) \in Drafts
      BY <1>0, <1>10 DEF CreateReview, Goto, InLock
    <2> QED
      BY <1>10, <2>1
      DEF CreateReview, Goto, StartsBlank, QueueOfReport, Begun, Active, Ended, InLock
  <1>11. ASSUME NEW r \in Runners, ExportReview(r) PROVE TypeInv'
    BY <1>11
    DEF ExportReview, Goto, StartsBlank, QueueOfReport, Begun, Active, Ended, InLock
  <1>12. ASSUME NEW r \in Runners, CheckSensitive(r) PROVE TypeInv'
    <2>1. CASE Stop(r, "failed")
      BY <1>12, <2>1, StopTypes DEF CheckSensitive, Ended
    <2>2. CASE Goto(r, "send", "append") /\ UNCHANGED <<seenLock, local>>
      BY <1>12, <2>2
      DEF CheckSensitive, Goto, StartsBlank, QueueOfReport, Begun, Active, Ended, InLock
    <2> QED
      BY <1>12, <2>1, <2>2 DEF CheckSensitive
  <1>13. ASSUME NEW r \in Runners, AppendHandoff(r) PROVE TypeInv'
    <2>1. outbox' \in Seq(Lines \cup {Garbled})
      BY <1>0, <1>13 DEF AppendHandoff, Goto, InLock
    <2> QED
      BY <1>13, <2>1
      DEF AppendHandoff, Goto, StartsBlank, QueueOfReport, Begun, Active, Ended, InLock
  <1>14. ASSUME NEW r \in Runners, MarkSeen(r) PROVE TypeInv'
    <2>1. CurrentId(r) \in Drafts
      BY <1>0, <1>14 DEF MarkSeen, Goto, InLock
    <2> QED
      BY <1>14, <2>1
      DEF MarkSeen, Marked, Unlocked, Goto, StartsBlank, QueueOfReport, Begun,
          Active, Ended, InLock
  <1>15. ASSUME NEW r \in Runners, Notify(r) PROVE TypeInv'
    BY <1>15, StopTypes DEF Notify, Ended
  <1>16. ASSUME NEW r \in Runners, Kill(r) \/ Fail(r) \/ TearAppend(r)
         PROVE  TypeInv'
    <2>1. faults' \in [Faults -> Nat]
      BY <1>16, SpendCounts DEF Kill, Fail, TearAppend, Faults
    <2> QED
      BY <1>16, <2>1, StopTypes DEF Kill, Fail, TearAppend, Ended
  <1>17. ASSUME NEW r \in Runners, FailHalfway(r) PROVE TypeInv'
    <2>1. faults' \in [Faults -> Nat]
      BY <1>17, SpendCounts DEF FailHalfway, Faults
    <2>2. pc[r] \in InLock => candidate(r)
      BY <1>0
    <2>3. /\ scratch' \in {scratch, scratch + 1}
          /\ \/ seen' = seen
             \/ pc[r] = "mark" /\ seen' = Marked(r)
          /\ \/ UNCHANGED <<outbox, torn>>
             \/ pc[r] = "append" /\ outbox' = Appended(r) /\ torn' = FALSE
          /\ \/ tasks' = tasks
             \/ /\ pc[r] = "task"
                /\ tasks' = [tasks EXCEPT ![CurrentId(r)] = @ + 1]
      BY <1>17 DEF FailHalfway
    <2>4. /\ scratch' \in Nat /\ seen' \subseteq Drafts /\ torn' \in BOOLEAN
          /\ outbox' \in Seq(Lines \cup {Garbled})
      <3>1. scratch' \in Nat
        BY <2>3
      <3>2. seen' \subseteq Drafts
        BY <2>2, <2>3 DEF Marked, InLock
      <3>3. outbox' \in Seq(Lines \cup {Garbled}) /\ torn' \in BOOLEAN
        BY <2>2, <2>3 DEF InLock
      <3> QED
        BY <3>1, <3>2, <3>3
    <2>5. tasks' \in [Drafts -> Nat]
      <3>1. CASE tasks' = tasks
        BY <3>1
      <3>2. CASE /\ pc[r] = "task"
                 /\ tasks' = [tasks EXCEPT ![CurrentId(r)] = @ + 1]
        <4>1. CurrentId(r) \in Drafts
          BY <2>2, <3>2 DEF InLock
        <4> QED
          BY <3>2, <4>1
      <3> QED
        BY <2>3, <3>1, <3>2
    <2> QED
      BY <1>17, <2>1, <2>4, <2>5, StopTypes DEF FailHalfway, Ended
  <1>18. ASSUME NEW r \in Runners, LeaveScratch(r) PROVE TypeInv'
    <2>1. faults' \in [Faults -> Nat]
      BY <1>18, SpendCounts DEF LeaveScratch, Faults
    <2> QED
      BY <1>18, <2>1, ResearchedTypes DEF LeaveScratch
  <1> QED
    BY <1>1, <1>2, <1>3, <1>4, <1>5, <1>6, <1>7, <1>8, <1>9, <1>10, <1>11,
       <1>12, <1>13, <1>14, <1>15, <1>16, <1>17, <1>18 DEF Next, Step, Fault

\* At first the state is well formed.
LEMMA TypeInit == Init => TypeInv
  <1> SUFFICES ASSUME Init PROVE TypeInv
    OBVIOUS
  <1>1. TypeOK
    <2>1. artifacts \in [reports : SUBSET Reports, drafts : SUBSET Lines]
      BY DEF Init
    <2>2. outbox \in Seq(Lines \cup {Garbled})
      BY DEF Init
    <2>3. faults \in [Faults -> Nat] /\ tasks \in [Drafts -> Nat] /\ runs \in 0..MaxRuns
      BY SponsorAssumptions DEF Init
    <2>4. /\ pc \in [Runners -> Active \cup Ended]
          /\ report \in [Runners -> Reports \cup {{}}]
          /\ queue \in [Runners -> SUBSET Prospects]
          /\ snap \in [Runners -> SUBSET Drafts]
          /\ fresh \in [Runners -> SUBSET Drafts]
      BY DEF Init, Active, Ended
    <2> QED
      BY <2>1, <2>2, <2>3, <2>4 DEF Init, TypeOK
  <1>2. StartsBlank /\ QueueOfReport
    BY DEF Init, StartsBlank, QueueOfReport, Begun, Ended
  <1> QED
    BY <1>1, <1>2 DEF TypeInv

\* It stays well formed, and its directories accounted for, for ever.
LEMMA TypeInductive == Spec => [](IInv /\ TypeInv /\ Directories)
  BY InitEstablishes, StepKeeps, TypeInit, TypeStep, DirectoriesInit,
     DirectoriesStep, PTL DEF Spec

\* Every state of the loop is well formed: a run that has no report has no
\* candidates either, and what it appends or stores is a draft of its report.
THEOREM CycleTypeCorrect == Spec => []TypeOK
  BY TypeInductive, PTL DEF TypeInv

\* A research directory (research_agent.py:115-170) outlives its run only if a
\* run was killed, failed while it prepared one, or could not remove its own:
\* rmtree ignores its errors, and mkdtemp never reuses what is left.
THEOREM ScratchAccounted == Spec => []ScratchRemoved
  <1>1. TypeInv /\ Directories => ScratchRemoved
    <2> SUFFICES ASSUME TypeInv, Directories PROVE ScratchRemoved
      OBVIOUS
    <2>1. /\ Cardinality(Researching) \in Nat
          /\ faults["kill"] \in Nat /\ faults["io"] \in Nat
      BY FS_CardinalityType DEF Directories, TypeInv, TypeOK, Faults
    <2> QED
      BY <2>1 DEF Directories, Leftovers, ScratchRemoved
  <1> QED
    BY <1>1, TypeInductive, PTL

-----------------------------------------------------------------------------
(***************************************************************************)
(* Approvals.                                                              *)
(***************************************************************************)

\* Where in the outbox the approval of a draft is asked for.
Asked(d) == {i \in DOMAIN outbox : outbox[i] # Garbled /\ outbox[i].prospect.draft = d}

\* Approvals are counted.
LEMMA ApprovalsCount ==
  ASSUME TypeOK, NEW d
  PROVE  /\ Approvals(d) = Cardinality(Asked(d)) /\ IsFiniteSet(Asked(d))
         /\ Approvals(d) \in Nat
  <1>1. Asked(d) \subseteq 1..Len(outbox) /\ Len(outbox) \in Nat
    BY DEF TypeOK, Asked
  <1>2. IsFiniteSet(Asked(d))
    <2>1. IsFiniteSet(1..Len(outbox))
      BY <1>1, FS_Interval
    <2> QED
      BY <1>1, <2>1, FS_Subset
  <1>3. Approvals(d) = Cardinality(Asked(d))
    BY DEF Approvals, Asked
  <1> QED
    BY <1>2, <1>3, FS_CardinalityType

\* An appended line adds one to its draft's approvals, a garbled one nothing.
LEMMA AppendCounts ==
  ASSUME TypeOK, NEW x, outbox' = Append(outbox, x), NEW d
  PROVE  Approvals(d)' = IF x # Garbled /\ x.prospect.draft = d
                         THEN Approvals(d) + 1 ELSE Approvals(d)
  <1> DEFINE n == Len(outbox) + 1
  <1>1. /\ outbox \in Seq(Lines \cup {Garbled}) /\ Len(outbox) \in Nat
        /\ DOMAIN outbox = 1..Len(outbox)
    BY DEF TypeOK
  <1>2. /\ DOMAIN outbox' = 1..n /\ outbox'[n] = x
        /\ \A i \in 1..Len(outbox) : outbox'[i] = outbox[i]
    BY <1>1
  <1>3. 1..n = (1..Len(outbox)) \cup {n} /\ n \notin 1..Len(outbox)
    BY <1>1
  <1>4. Approvals(d)' = Cardinality(Asked(d)')
    BY DEF Approvals, Asked
  <1>5. CASE x # Garbled /\ x.prospect.draft = d
    <2>1. Asked(d)' = Asked(d) \cup {n} /\ n \notin Asked(d)
      BY <1>1, <1>2, <1>3, <1>5 DEF Asked
    <2>2. Cardinality(Asked(d)') = Cardinality(Asked(d)) + 1
      BY <2>1, ApprovalsCount, FS_AddElement
    <2> QED
      BY <1>4, <1>5, <2>2, ApprovalsCount
  <1>6. CASE ~(x # Garbled /\ x.prospect.draft = d)
    <2>1. Asked(d)' = Asked(d)
      BY <1>1, <1>2, <1>3, <1>6 DEF Asked
    <2> QED
      BY <1>4, <1>6, <2>1, ApprovalsCount
  <1> QED
    BY <1>5, <1>6

\* The same outbox asks for the same approvals.
LEMMA SameCounts ==
  ASSUME outbox' = outbox, NEW d
  PROVE  Approvals(d)' = Approvals(d)
  BY DEF Approvals

\* The number of faults.
LEMMA InterruptionsCount ==
  ASSUME TypeOK
  PROVE  /\ Interruptions \in Nat
         /\ faults' = faults => Interruptions' = Interruptions
         /\ \A k \in Faults : Spend(k) => Interruptions' = Interruptions + 1
  <1>1. \A k \in Faults : faults[k] \in Nat
    BY DEF TypeOK
  <1>2. Interruptions \in Nat
    BY <1>1 DEF Interruptions, Faults
  <1>3. ASSUME NEW k \in Faults, Spend(k) PROVE Interruptions' = Interruptions + 1
    <2>1. /\ faults'[k] = faults[k] + 1
          /\ \A j \in Faults \ {k} : faults'[j] = faults[j]
      BY <1>3, SpendCounts
    <2> QED
      BY <1>1, <2>1 DEF Interruptions, Faults
  <1> QED
    BY <1>2, <1>3 DEF Interruptions

-----------------------------------------------------------------------------
(***************************************************************************)
(* What a step means for the owner's records: the seen set, the approvals  *)
(* and the tasks.  Every step of a run is one of the following.            *)
(***************************************************************************)

\* Where a run has taken up its candidate.
Work == InLock \ {"read"}

\* A step of one run leaves the others, and their candidates, where they are.
Alone(r) == \A q \in Runners \ {r} : /\ pc'[q] = pc[q]
                                     /\ CurrentId(q)' = CurrentId(q)

Moves(r, here, there) == /\ pc[r] = here /\ pc'[r] = there
                         /\ CurrentId(r)' = CurrentId(r)

\* Nothing is recorded, and the run has not taken up anything.
Aside(r) == /\ UNCHANGED <<seen, outbox, torn, tasks, faults>>
            /\ pc[r] \notin Work /\ pc'[r] \notin Work

TakesUp(r) == /\ UNCHANGED <<seen, outbox, torn, tasks, faults>>
              /\ Moves(r, "read", IF UseTasks THEN "task" ELSE "send")
              /\ CurrentId(r) \notin seen

Creates(r) == /\ UNCHANGED <<seen, outbox, torn, faults>>
              /\ Moves(r, "task", "export")
              /\ tasks' = [tasks EXCEPT ![CurrentId(r)] = @ + 1]

GoesOn(r) == /\ UNCHANGED <<seen, outbox, torn, tasks, faults>>
             /\ Moves(r, "export", "send") \/ Moves(r, "send", "append")

Refuses(r) == /\ UNCHANGED <<seen, outbox, torn, tasks, faults>>
              /\ pc[r] = "send" /\ pc'[r] \in Ended
              /\ CurrentId(r) \in FlaggedDrafts

Hands(r) == /\ UNCHANGED <<seen, tasks, faults>>
            /\ Moves(r, "append", "mark")
            /\ outbox' = Appended(r) /\ torn' = FALSE

Marks(r) == /\ UNCHANGED <<outbox, torn, tasks, faults>>
            /\ pc[r] = "mark" /\ pc'[r] = "draft"
            /\ seen' = seen \cup {CurrentId(r)}

\* A fault may leave the step it interrupts done.
Interrupted(r) ==
    /\ Interruptions' = Interruptions + 1 /\ pc'[r] \notin Work
    /\ faults'["torn"] = 0 => faults["torn"] = 0
    /\ \/ UNCHANGED seen
       \/ pc[r] = "mark" /\ seen' = seen \cup {CurrentId(r)}
    /\ \/ UNCHANGED tasks
       \/ pc[r] = "task" /\ tasks' = [tasks EXCEPT ![CurrentId(r)] = @ + 1]
    /\ \/ UNCHANGED <<outbox, torn>>
       \/ pc[r] = "append" /\ outbox' = Appended(r) /\ torn' = FALSE
       \/ UNCHANGED outbox /\ faults'["torn"] # 0

Effect(r) == \/ Aside(r) \/ TakesUp(r) \/ Creates(r) \/ GoesOn(r) \/ Refuses(r)
             \/ Hands(r) \/ Marks(r) \/ Interrupted(r)

\* No step of a run moves another one or changes what that one has in hand.
LEMMA StepIsAlone ==
  ASSUME IInv, NEW r \in Runners, StartRun(r) \/ Step(r) \/ Fault(r)
  PROVE  Alone(r)
  <1>1. \A q \in Runners \ {r} : pc'[q] = pc[q] /\ queue'[q] = queue[q]
    BY DEF IInv, Shape, Step, Fault, Goto, Stop, local, StartRun, Prepare,
           Research, PutReport, PutDraft, FinishIngest, LockSeen, ReadSeen,
           CreateReview, ExportReview, CheckSensitive, AppendHandoff, MarkSeen,
           Notify, Kill, Fail, FailHalfway, TearAppend, LeaveScratch,
           Researched
  <1> QED
    BY <1>1 DEF Alone, CurrentId, Current

\* A fault leaves the run's current step done, or not, and the run out of it.
LEMMA FaultInterrupts ==
  ASSUME IInv, TypeInv, NEW r \in Runners, Fault(r)
  PROVE  Interrupted(r)
  <1>1. Interruptions' = Interruptions + 1
    BY InterruptionsCount
    DEF Fault, Kill, Fail, FailHalfway, TearAppend, LeaveScratch, TypeInv,
        Faults
  <1>2. pc'[r] \notin Work
    BY DEF IInv, Shape, Fault, Kill, Fail, FailHalfway, TearAppend,
           LeaveScratch, Researched, Goto, Stop, Work, InLock
  <1>3. PICK k \in Faults : Spend(k) /\ (TearAppend(r) => k = "torn")
    BY DEF Fault, Kill, Fail, FailHalfway, TearAppend, LeaveScratch, Faults
  <1>4. /\ faults'["torn"] = 0 => faults["torn"] = 0
        /\ k = "torn" => faults'["torn"] # 0
    <2>1. faults["torn"] \in Nat
      BY DEF TypeInv, TypeOK, Faults
    <2>2. /\ faults'[k] = faults[k] + 1
          /\ \A j \in Faults \ {k} : faults'[j] = faults[j]
      BY <1>3, SpendCounts DEF TypeInv
    <2> QED
      BY <2>1, <2>2 DEF Faults
  <1>5. CASE Kill(r) \/ Fail(r) \/ LeaveScratch(r)
    BY <1>1, <1>2, <1>4, <1>5
    DEF Kill, Fail, LeaveScratch, Interrupted, store
  <1>6. CASE TearAppend(r)
    BY <1>1, <1>2, <1>3, <1>4, <1>6 DEF TearAppend, Interrupted
  <1>7. CASE FailHalfway(r)
    <2>1. pc[r] = "mark" => Marked(r) = seen \cup {CurrentId(r)}
      BY DEF Marked, IInv, ReadIsCurrent, InLock
    <2> QED
      BY <1>1, <1>2, <1>4, <1>7, <2>1 DEF FailHalfway, Interrupted
  <1> QED
    BY <1>5, <1>6, <1>7 DEF Fault

\* Every step of a run has one of the effects, on that run's draft alone.
LEMMA StepHasEffect ==
  ASSUME IInv, TypeInv, NEW r \in Runners, StartRun(r) \/ Step(r) \/ Fault(r)
  PROVE  Alone(r) /\ Effect(r)
  <1> USE DEF Work, InLock, Ended, Goto, IInv, Shape
  <1>1. CASE \/ StartRun(r) \/ Prepare(r) \/ Research(r) \/ PutReport(r)
             \/ PutDraft(r) \/ FinishIngest(r) \/ LockSeen(r) \/ Notify(r)
    <2>1. Aside(r)
      BY <1>1
      DEF Aside, StartRun, Prepare, Research, Researched, PutReport, PutDraft,
          FinishIngest, LockSeen, Notify, Stop, store
    <2> QED
      BY <2>1, StepIsAlone DEF Effect
  <1>2. CASE ReadSeen(r)
    <2>1. Aside(r) \/ TakesUp(r)
      BY <1>2 DEF ReadSeen, Aside, TakesUp, Moves, CurrentId, Current, store
    <2> QED
      BY <2>1, StepIsAlone DEF Effect
  <1>3. CASE CreateReview(r)
    BY <1>3, StepIsAlone
    DEF CreateReview, Effect, Creates, Moves, CurrentId, Current, local
  <1>4. CASE ExportReview(r)
    BY <1>4, StepIsAlone
    DEF ExportReview, Effect, GoesOn, Moves, CurrentId, Current, store, local
  <1>5. CASE CheckSensitive(r)
    BY <1>5, StepIsAlone
    DEF CheckSensitive, Effect, GoesOn, Refuses, Moves, FlaggedDrafts,
        CurrentId, Current, store, local, Stop
  <1>6. CASE AppendHandoff(r)
    BY <1>6, StepIsAlone
    DEF AppendHandoff, Effect, Hands, Moves, CurrentId, Current, local
  <1>7. CASE MarkSeen(r)
    <2>1. Marked(r) = seen \cup {CurrentId(r)}
      BY <1>7 DEF MarkSeen, Marked, ReadIsCurrent
    <2> QED
      BY <1>7, <2>1, StepIsAlone DEF MarkSeen, Effect, Marks, store
  <1>8. CASE Fault(r)
    BY <1>8, FaultInterrupts, StepIsAlone DEF Effect
  <1> QED
    BY <1>1, <1>2, <1>3, <1>4, <1>5, <1>6, <1>7, <1>8 DEF Step

\* A draft taken up is not yet marked.
Untouched == \A r \in Runners : pc[r] \in Work => CurrentId(r) \notin seen

\* A draft not marked has had an approval only of interrupted runs, or of one
\* that is about to mark it.
ApprovalsBounded ==
    \A d \in Drafts :
        /\ Approvals(d) <= 1 + Interruptions
        /\ d \in seen
           \/ Approvals(d) <= Interruptions
           \/ \E r \in Runners : pc[r] = "mark" /\ CurrentId(r) = d

\* The same of its tasks, unless its handoff is refused.
TasksBounded ==
    \A d \in Drafts \ FlaggedDrafts :
        /\ tasks[d] <= 1 + Interruptions
        /\ d \in seen
           \/ tasks[d] <= Interruptions
           \/ \E r \in Runners : /\ pc[r] \in Work \ {"task"}
                                 /\ CurrentId(r) = d

\* A draft has a task for each approval, and one more while a run is about to
\* ask for its approval.
TaskFirst ==
    UseTasks => \A d \in Drafts :
        /\ Approvals(d) <= tasks[d]
        /\ Approvals(d) < tasks[d]
           \/ \A r \in Runners : pc[r] \in {"export", "send", "append"}
                                   => CurrentId(r) # d

\* While no line was torn, what is marked, or about to be, was asked for.
SeenAsked ==
    faults["torn"] = 0 =>
        /\ ~torn
        /\ \A d \in Drafts :
             \/ Approvals(d) >= 1
             \/ d \notin seen /\ \A r \in Runners : pc[r] = "mark"
                                                   => CurrentId(r) # d

\* The inductive invariant behind the properties of the owner's records.
RecordsInv == Untouched /\ ApprovalsBounded /\ TasksBounded /\ TaskFirst /\ SeenAsked

\* One run at a time has a candidate taken up, and it is a draft.
LEMMA OneWorker ==
  ASSUME IInv, TypeInv, NEW r \in Runners, pc[r] \in InLock
  PROVE  /\ \A q \in Runners \ {r} : pc[q] \notin InLock
         /\ CurrentId(r) \in Drafts /\ queue[r] # {}
  <1>1. \A q \in Runners \ {r} : pc[q] \notin InLock
    BY DEF IInv, ReadIsCurrent
  <1>2. queue[r] # {}
    BY DEF IInv, HasCandidate
  <1> QED
    BY <1>1, <1>2, CurrentTypes

\* What handing over a draft does to the approvals.
LEMMA HandCounts ==
  ASSUME TypeInv, NEW r \in Runners, queue[r] # {}, outbox' = Appended(r),
         NEW d \in Drafts
  PROVE  /\ d # CurrentId(r) => Approvals(d)' = Approvals(d)
         /\ Approvals(d)' \in {Approvals(d), Approvals(d) + 1}
         /\ d = CurrentId(r) /\ ~torn => Approvals(d)' = Approvals(d) + 1
  <1>1. Line(r) # Garbled /\ Line(r).prospect.draft = CurrentId(r)
    BY CurrentTypes, GarbledAssumption DEF Line, CurrentId
  <1> DEFINE x == IF torn THEN Garbled ELSE Line(r)
  <1>2. outbox' = Append(outbox, x)
    BY DEF Appended
  <1>3. Approvals(d)' = IF x # Garbled /\ x.prospect.draft = d
                        THEN Approvals(d) + 1 ELSE Approvals(d)
    BY <1>2, AppendCounts DEF TypeInv
  <1> QED
    BY <1>1, <1>3

\* What is taken up has not been marked.
LEMMA UntouchedStep ==
  ASSUME IInv, TypeInv, Untouched, NEW r \in Runners, Alone(r), Effect(r)
  PROVE  Untouched'
  <1> USE DEF Untouched, Alone, Work, InLock, Ended
  <1>1. CASE UNCHANGED seen
    BY <1>1
    DEF Effect, Aside, TakesUp, Creates, GoesOn, Refuses, Hands, Marks,
        Interrupted, Moves
  <1>2. CASE /\ pc[r] = "mark" /\ pc'[r] \notin Work
             /\ seen' = seen \cup {CurrentId(r)}
    BY <1>2, OneWorker
  <1> QED
    BY <1>1, <1>2
    DEF Effect, Aside, TakesUp, Creates, GoesOn, Refuses, Hands, Marks,
        Interrupted

\* A second approval needs an interruption after the first.
LEMMA ApprovalsStep ==
  ASSUME IInv, TypeInv, Untouched, ApprovalsBounded, NEW r \in Runners,
         Alone(r), Effect(r)
  PROVE  ApprovalsBounded'
  <1> SUFFICES ASSUME NEW d \in Drafts
               PROVE  /\ Approvals(d)' <= 1 + Interruptions'
                      /\ d \in seen'
                         \/ Approvals(d)' <= Interruptions'
                         \/ \E q \in Runners : pc'[q] = "mark" /\ CurrentId(q)' = d
    BY DEF ApprovalsBounded
  <1>1. /\ Approvals(d) \in Nat /\ Interruptions \in Nat
        /\ faults' = faults => Interruptions' = Interruptions
    BY ApprovalsCount, InterruptionsCount DEF TypeInv
  <1>2. /\ Approvals(d) <= 1 + Interruptions
        /\ d \in seen
           \/ Approvals(d) <= Interruptions
           \/ \E q \in Runners : pc[q] = "mark" /\ CurrentId(q) = d
    BY DEF ApprovalsBounded
  <1>3. outbox' = outbox => Approvals(d)' = Approvals(d)
    BY SameCounts
  <1>4. \A q \in Runners \ {r} : pc'[q] = pc[q] /\ CurrentId(q)' = CurrentId(q)
    BY DEF Alone
  <1>5. CASE Interrupted(r)
    <2>1. Approvals(d)' \in {Approvals(d), Approvals(d) + 1}
      BY <1>3, <1>5, HandCounts, OneWorker DEF Interrupted, InLock
    <2>2. Interruptions' = Interruptions + 1 /\ seen \subseteq seen'
      BY <1>5 DEF Interrupted
    <2>3. CASE pc[r] = "append" /\ outbox' = Appended(r)
      <3>1. \A q \in Runners : pc[q] # "mark"
        BY <2>3, OneWorker DEF InLock
      <3>2. CASE d = CurrentId(r)
        <4>1. d \notin seen
          BY <2>3, <3>2 DEF Untouched, Work, InLock
        <4> QED
          BY <1>1, <1>2, <2>1, <2>2, <3>1, <4>1
      <3>3. CASE d # CurrentId(r)
        <4>1. Approvals(d)' = Approvals(d)
          BY <2>3, <3>3, HandCounts, OneWorker DEF InLock
        <4> QED
          BY <1>1, <1>2, <2>2, <3>1, <4>1
      <3> QED
        BY <3>2, <3>3
    <2>4. CASE outbox' = outbox
      BY <1>1, <1>2, <1>3, <2>2, <2>4
    <2> QED
      BY <1>5, <2>3, <2>4 DEF Interrupted
  <1>6. CASE Hands(r)
    <2>1. /\ pc[r] = "append" /\ pc'[r] = "mark" /\ seen' = seen
          /\ CurrentId(r)' = CurrentId(r) /\ Interruptions' = Interruptions
      BY <1>1, <1>6 DEF Hands, Moves
    <2>2. \A q \in Runners : pc[q] # "mark"
      BY <2>1, OneWorker DEF InLock
    <2>3. CASE d = CurrentId(r)
      <3>1. d \notin seen
        BY <2>1, <2>3 DEF Untouched, Work, InLock
      <3>2. Approvals(d)' \in {Approvals(d), Approvals(d) + 1}
        BY <1>6, <2>1, HandCounts, OneWorker DEF Hands, InLock
      <3> QED
        BY <1>1, <1>2, <2>1, <2>2, <2>3, <3>1, <3>2
    <2>4. CASE d # CurrentId(r)
      <3>1. Approvals(d)' = Approvals(d)
        BY <1>6, <2>1, <2>4, HandCounts, OneWorker DEF Hands, InLock
      <3> QED
        BY <1>1, <1>2, <2>1, <2>2, <3>1
    <2> QED
      BY <2>3, <2>4
  <1>7. CASE Marks(r)
    BY <1>1, <1>2, <1>3, <1>4, <1>7 DEF Marks
  <1>8. CASE pc[r] # "mark" /\ UNCHANGED <<seen, outbox, faults>>
    BY <1>1, <1>2, <1>3, <1>4, <1>8
  <1> QED
    BY <1>5, <1>6, <1>7, <1>8
    DEF Effect, Aside, TakesUp, Creates, GoesOn, Refuses, Moves, Work, InLock

\* So does a second task.
LEMMA TasksStep ==
  ASSUME IInv, TypeInv, Untouched, TasksBounded, NEW r \in Runners,
         Alone(r), Effect(r)
  PROVE  TasksBounded'
  <1> SUFFICES ASSUME NEW d \in Drafts \ FlaggedDrafts
               PROVE  /\ tasks'[d] <= 1 + Interruptions'
                      /\ d \in seen'
                         \/ tasks'[d] <= Interruptions'
                         \/ \E q \in Runners : /\ pc'[q] \in Work \ {"task"}
                                               /\ CurrentId(q)' = d
    BY DEF TasksBounded
  <1>1. /\ tasks \in [Drafts -> Nat] /\ tasks[d] \in Nat /\ Interruptions \in Nat
        /\ faults' = faults => Interruptions' = Interruptions
    BY InterruptionsCount DEF TypeInv, TypeOK
  <1>2. /\ tasks[d] <= 1 + Interruptions
        /\ d \in seen
           \/ tasks[d] <= Interruptions
           \/ \E q \in Runners : pc[q] \in Work \ {"task"} /\ CurrentId(q) = d
    BY DEF TasksBounded
  <1>3. \A q \in Runners \ {r} : pc'[q] = pc[q] /\ CurrentId(q)' = CurrentId(q)
    BY DEF Alone
  <1>4. ASSUME pc[r] = "task"
        PROVE  /\ \A q \in Runners : pc[q] \notin Work \ {"task"}
               /\ CurrentId(r) \in Drafts /\ CurrentId(r) \notin seen
    BY <1>4, OneWorker DEF Untouched, Work, InLock
  <1>5. CASE Interrupted(r)
    <2>1. Interruptions' = Interruptions + 1 /\ seen \subseteq seen'
      BY <1>5 DEF Interrupted
    <2>2. CASE tasks' = tasks
      BY <1>1, <1>2, <2>1, <2>2
    <2>3. CASE pc[r] = "task" /\ tasks' = [tasks EXCEPT ![CurrentId(r)] = @ + 1]
      <3>1. CASE d = CurrentId(r)
        <4>1. tasks'[d] = tasks[d] + 1
          BY <1>1, <2>3, <3>1
        <4> QED
          BY <1>1, <1>2, <1>4, <2>1, <2>3, <3>1, <4>1
      <3>2. CASE d # CurrentId(r)
        <4>1. tasks'[d] = tasks[d]
          BY <1>1, <2>3, <3>2
        <4> QED
          BY <1>1, <1>2, <1>4, <2>1, <2>3, <4>1
      <3> QED
        BY <3>1, <3>2
    <2> QED
      BY <1>5, <2>2, <2>3 DEF Interrupted
  <1>6. CASE Creates(r)
    <2>1. /\ pc[r] = "task" /\ pc'[r] = "export" /\ seen' = seen
          /\ CurrentId(r)' = CurrentId(r) /\ Interruptions' = Interruptions
          /\ tasks' = [tasks EXCEPT ![CurrentId(r)] = @ + 1]
      BY <1>1, <1>6 DEF Creates, Moves
    <2>2. CASE d = CurrentId(r)
      <3>1. tasks'[d] = tasks[d] + 1
        BY <1>1, <2>1, <2>2
      <3>2. pc'[r] \in Work \ {"task"} /\ CurrentId(r)' = d
        BY <2>1, <2>2 DEF Work, InLock
      <3> QED
        BY <1>1, <1>2, <1>4, <2>1, <2>2, <3>1, <3>2
    <2>3. CASE d # CurrentId(r)
      <3>1. tasks'[d] = tasks[d]
        BY <1>1, <2>1, <2>3
      <3> QED
        BY <1>1, <1>2, <1>4, <2>1, <3>1
    <2> QED
      BY <2>2, <2>3
  <1>7. CASE Marks(r)
    BY <1>1, <1>2, <1>3, <1>7 DEF Marks, Work, InLock
  <1>8. CASE GoesOn(r) \/ Hands(r)
    <2>1. /\ pc[r] \in Work \ {"task"} /\ pc'[r] \in Work \ {"task"}
          /\ CurrentId(r)' = CurrentId(r)
          /\ UNCHANGED <<seen, tasks, faults>>
      BY <1>8 DEF GoesOn, Hands, Moves, Work, InLock
    <2> QED
      BY <1>1, <1>2, <1>3, <2>1
  <1>9. CASE Refuses(r)
    BY <1>1, <1>2, <1>3, <1>9 DEF Refuses
  <1>10. CASE Aside(r) \/ TakesUp(r)
    <2>1. pc[r] \notin Work /\ UNCHANGED <<seen, tasks, faults>>
      BY <1>10 DEF Aside, TakesUp, Moves, Work
    <2> QED
      BY <1>1, <1>2, <1>3, <2>1
  <1> QED
    BY <1>5, <1>6, <1>7, <1>8, <1>9, <1>10 DEF Effect

\* The task comes before its approval.
LEMMA TaskFirstStep ==
  ASSUME IInv, TypeInv, TaskFirst, NEW r \in Runners, Alone(r), Effect(r)
  PROVE  TaskFirst'
  <1> DEFINE Asking == {"export", "send", "append"}
  <1> SUFFICES ASSUME UseTasks, NEW d \in Drafts
               PROVE  /\ Approvals(d)' <= tasks'[d]
                      /\ Approvals(d)' < tasks'[d]
                         \/ \A q \in Runners : pc'[q] \in Asking
                                                 => CurrentId(q)' # d
    BY DEF TaskFirst
  <1>1. Approvals(d) \in Nat /\ tasks \in [Drafts -> Nat] /\ tasks[d] \in Nat
    BY ApprovalsCount DEF TypeInv, TypeOK
  <1>2. /\ Approvals(d) <= tasks[d]
        /\ Approvals(d) < tasks[d]
           \/ \A q \in Runners : pc[q] \in Asking => CurrentId(q) # d
    BY DEF TaskFirst
  <1>3. outbox' = outbox => Approvals(d)' = Approvals(d)
    BY SameCounts
  <1>4. \A q \in Runners \ {r} : pc'[q] = pc[q] /\ CurrentId(q)' = CurrentId(q)
    BY DEF Alone
  <1>5. ASSUME pc[r] = "append", outbox' = Appended(r), tasks' = tasks
        PROVE  /\ Approvals(d)' <= tasks'[d]
               /\ \A q \in Runners \ {r} : pc'[q] \notin Asking
    <2>1. \A q \in Runners \ {r} : pc'[q] \notin Asking
      BY <1>4, <1>5, OneWorker DEF InLock
    <2>2. /\ d # CurrentId(r) => Approvals(d)' = Approvals(d)
          /\ Approvals(d)' \in {Approvals(d), Approvals(d) + 1}
      BY <1>5, HandCounts, OneWorker DEF InLock
    <2>3. d = CurrentId(r) => Approvals(d) < tasks[d]
      BY <1>2, <1>5
    <2> QED
      BY <1>1, <1>2, <1>5, <2>1, <2>2, <2>3
  <1>6. ASSUME pc[r] = "task", outbox' = outbox,
               tasks' = [tasks EXCEPT ![CurrentId(r)] = @ + 1]
        PROVE  /\ Approvals(d)' <= tasks'[d]
               /\ d = CurrentId(r) => Approvals(d)' < tasks'[d]
               /\ \A q \in Runners \ {r} : pc'[q] \notin Asking
    <2>1. \A q \in Runners \ {r} : pc'[q] \notin Asking
      BY <1>4, <1>6, OneWorker DEF InLock
    <2>2. /\ d = CurrentId(r) => tasks'[d] = tasks[d] + 1
          /\ d # CurrentId(r) => tasks'[d] = tasks[d]
      BY <1>1, <1>6
    <2> QED
      BY <1>1, <1>2, <1>3, <1>6, <2>1, <2>2
  <1>7. CASE Interrupted(r)
    <2>1. pc'[r] \notin Asking
      BY <1>7 DEF Interrupted, Work, InLock
    <2>2. CASE outbox' = outbox /\ tasks' = tasks
      BY <1>2, <1>3, <1>4, <2>1, <2>2
    <2>3. CASE pc[r] = "append" /\ outbox' = Appended(r) /\ tasks' = tasks
      BY <1>5, <2>1, <2>3
    <2>4. CASE /\ pc[r] = "task" /\ outbox' = outbox
               /\ tasks' = [tasks EXCEPT ![CurrentId(r)] = @ + 1]
      BY <1>6, <2>1, <2>4
    <2> QED
      BY <1>7, <2>2, <2>3, <2>4 DEF Interrupted
  <1>8. CASE Hands(r)
    BY <1>5, <1>8 DEF Hands, Moves
  <1>9. CASE Creates(r)
    BY <1>6, <1>9 DEF Creates, Moves
  <1>10. CASE GoesOn(r)
    BY <1>2, <1>3, <1>4, <1>10 DEF GoesOn, Moves
  <1>11. CASE \/ Aside(r) \/ TakesUp(r) \/ Refuses(r) \/ Marks(r)
    <2>1. UNCHANGED <<outbox, tasks>> /\ pc'[r] \notin Asking
      BY <1>11
      DEF Aside, TakesUp, Refuses, Marks, Moves, Work, InLock, Ended
    <2> QED
      BY <1>2, <1>3, <1>4, <2>1
  <1> QED
    BY <1>7, <1>8, <1>9, <1>10, <1>11 DEF Effect

\* Without torn lines a mark comes after its approval.
LEMMA SeenAskedStep ==
  ASSUME IInv, TypeInv, SeenAsked, NEW r \in Runners, Alone(r), Effect(r)
  PROVE  SeenAsked'
  <1> SUFFICES ASSUME faults'["torn"] = 0
               PROVE  /\ ~torn'
                      /\ \A d \in Drafts :
                           \/ Approvals(d)' >= 1
                           \/ /\ d \notin seen'
                              /\ \A q \in Runners : pc'[q] = "mark"
                                                     => CurrentId(q)' # d
    BY DEF SeenAsked
  <1>1. faults["torn"] = 0
    BY DEF Effect, Aside, TakesUp, Creates, GoesOn, Refuses, Hands, Marks,
           Interrupted
  <1>2. ~torn /\ \A d \in Drafts :
                   \/ Approvals(d) >= 1
                   \/ d \notin seen /\ \A q \in Runners : pc[q] = "mark"
                                                         => CurrentId(q) # d
    BY <1>1 DEF SeenAsked
  <1>3. /\ ~torn'
        /\ \/ UNCHANGED outbox
           \/ pc[r] = "append" /\ outbox' = Appended(r)
    BY <1>2
    DEF Effect, Aside, TakesUp, Creates, GoesOn, Refuses, Hands, Marks,
        Interrupted, Moves
  <1>4. \A q \in Runners \ {r} : pc'[q] = pc[q] /\ CurrentId(q)' = CurrentId(q)
    BY DEF Alone
  <1>5. ASSUME NEW d \in Drafts
        PROVE  \/ Approvals(d)' >= 1
               \/ d \notin seen' /\ \A q \in Runners : pc'[q] = "mark"
                                                      => CurrentId(q)' # d
    <2>1. Approvals(d) \in Nat
      BY ApprovalsCount DEF TypeInv
    <2>2. Approvals(d) >= 1 => Approvals(d)' >= 1
      BY <1>3, <2>1, SameCounts, HandCounts, OneWorker DEF InLock
    <2>3. CASE Hands(r)
      <3>1. /\ pc[r] = "append" /\ outbox' = Appended(r) /\ seen' = seen
            /\ CurrentId(r)' = CurrentId(r)
        BY <2>3 DEF Hands, Moves
      <3>2. d = CurrentId(r) => Approvals(d)' >= 1
        BY <1>2, <2>1, <3>1, HandCounts, OneWorker DEF InLock
      <3> QED
        BY <1>2, <1>4, <2>2, <3>1, <3>2
    <2>4. CASE Marks(r)
      BY <1>2, <1>4, <2>2, <2>4 DEF Marks
    <2>5. CASE Interrupted(r)
      BY <1>2, <1>4, <2>2, <2>5 DEF Interrupted, Work, InLock
    <2>6. CASE \/ Aside(r) \/ TakesUp(r) \/ Creates(r) \/ GoesOn(r)
               \/ Refuses(r)
      <3>1. UNCHANGED seen /\ pc'[r] # "mark"
        BY <2>6
        DEF Aside, TakesUp, Creates, GoesOn, Refuses, Moves, Work, InLock,
            Ended
      <3> QED
        BY <1>2, <1>4, <2>2, <3>1
    <2> QED
      BY <2>3, <2>4, <2>5, <2>6 DEF Effect
  <1> QED
    BY <1>3, <1>5

\* At first nothing is recorded.
LEMMA RecordsInit == Init => RecordsInv
  <1> SUFFICES ASSUME Init PROVE RecordsInv
    OBVIOUS
  <1>1. TypeOK /\ \A r \in Runners : pc[r] = "idle"
    BY TypeInit DEF Init, TypeInv
  <1>2. \A d \in Drafts : Approvals(d) = 0
    <2>1. \A d \in Drafts : Asked(d) = {}
      BY DEF Init, Asked
    <2> QED
      BY <1>1, <2>1, ApprovalsCount, FS_EmptySet
  <1>3. Interruptions = 0
    BY DEF Init, Interruptions, Faults
  <1> QED
    BY <1>1, <1>2, <1>3
    DEF Init, RecordsInv, Untouched, ApprovalsBounded, TasksBounded, TaskFirst,
        SeenAsked, Work, InLock

\* Every step keeps the records in order.
LEMMA RecordsStep == IInv /\ TypeInv /\ RecordsInv /\ [Next]_vars => RecordsInv'
  <1> SUFFICES ASSUME IInv, TypeInv, RecordsInv, [Next]_vars PROVE RecordsInv'
    OBVIOUS
  <1>1. CASE UNCHANGED vars
    BY <1>1
    DEF vars, RecordsInv, Untouched, ApprovalsBounded, TasksBounded, TaskFirst,
        SeenAsked, CurrentId, Current, Approvals, Interruptions
  <1>2. CASE Next
    <2>1. PICK r \in Runners : StartRun(r) \/ Step(r) \/ Fault(r)
      BY <1>2 DEF Next
    <2> QED
      BY <2>1, StepHasEffect, UntouchedStep, ApprovalsStep, TasksStep,
         TaskFirstStep, SeenAskedStep
      DEF RecordsInv
  <1> QED
    BY <1>1, <1>2

\* They are in order for ever.
LEMMA RecordsInductive == Spec => [](TypeInv /\ RecordsInv)
  BY TypeInductive, RecordsInit, RecordsStep, PTL DEF Spec

\* "Every draft ... is deduplicated" without being lost: a draft in seen.json
\* (sponsorship.py:272-292) is in the outbox, unless a line was torn.
THEOREM SeenIsAsked == Spec => []SeenHasApproval
  <1>1. TypeInv /\ RecordsInv => SeenHasApproval
    BY DEF TypeInv, TypeOK, RecordsInv, SeenAsked, SeenHasApproval
  <1> QED
    BY <1>1, RecordsInductive, PTL

\* The owner is asked twice, or has two tasks, only after an interruption
\* between the action and the mark (sponsorship.py:286-288).
THEOREM DuplicatesExplained == Spec => []DuplicatesNeedFaults
  <1>1. RecordsInv => DuplicatesNeedFaults
    BY DEF RecordsInv, ApprovalsBounded, TasksBounded, DuplicatesNeedFaults
  <1> QED
    BY <1>1, RecordsInductive, PTL

\* create_review comes before mail.send (sponsorship.py:392-394), whatever is
\* interrupted: approvals never outnumber tasks.
THEOREM TasksComeFirst == Spec => []ApprovalHasTask
  <1>1. RecordsInv => ApprovalHasTask
    BY DEF RecordsInv, TaskFirst, ApprovalHasTask
  <1> QED
    BY <1>1, RecordsInductive, PTL

\* Faults stay within their bounds.
Bounded == \A k \in Faults : faults[k] <= MaxFaults[k]

\* A fault happens only within its bound.
LEMMA BoundedStep == TypeInv /\ Bounded /\ [Next]_vars => Bounded'
  <1> SUFFICES ASSUME TypeInv, Bounded, [Next]_vars PROVE Bounded'
    OBVIOUS
  <1>1. CASE faults' = faults
    BY <1>1 DEF Bounded
  <1>2. CASE \E k \in Faults : Spend(k)
    <2>1. PICK k \in Faults : Spend(k)
      BY <1>2
    <2>2. /\ faults[k] < MaxFaults[k] /\ faults[k] \in Nat /\ MaxFaults[k] \in Nat
          /\ faults'[k] = faults[k] + 1
          /\ \A j \in Faults \ {k} : faults'[j] = faults[j]
      BY <2>1, SpendCounts, SponsorAssumptions DEF Spend, TypeInv, TypeOK
    <2>3. faults'[k] <= MaxFaults[k]
      BY <2>2
    <2> QED
      BY <2>2, <2>3 DEF Bounded
  <1> QED
    BY <1>1, <1>2
    DEF Next, vars, Step, StartRun, Prepare, Research, PutReport, PutDraft,
        FinishIngest, LockSeen, ReadSeen, CreateReview, ExportReview,
        CheckSensitive, AppendHandoff, MarkSeen, Notify, Fault, Kill, Fail,
        FailHalfway, TearAppend, LeaveScratch, Faults

\* Faults are within their bounds for ever.
LEMMA BoundedInductive == Spec => [](TypeInv /\ Bounded)
  <1>1. Init => Bounded
    BY SponsorAssumptions DEF Init, Bounded
  <1> QED
    BY <1>1, TypeInductive, BoundedStep, PTL DEF Spec

\* Without faults each draft is asked about once.
THEOREM UndisturbedOnce ==
  ASSUME \A k \in Faults : MaxFaults[k] = 0
  PROVE  Spec => []DraftsDeduplicated
  <1>1. TypeInv /\ Bounded /\ RecordsInv => DraftsDeduplicated
    <2> SUFFICES ASSUME TypeInv, Bounded, RecordsInv PROVE DraftsDeduplicated
      OBVIOUS
    <2>1. \A k \in Faults : faults[k] = 0
      BY DEF TypeInv, TypeOK, Bounded
    <2>2. Interruptions = 0
      BY <2>1 DEF Interruptions, Faults
    <2> QED
      BY <2>2 DEF RecordsInv, ApprovalsBounded, DraftsDeduplicated
  <1> QED
    BY <1>1, BoundedInductive, RecordsInductive, PTL

-----------------------------------------------------------------------------
(***************************************************************************)
(* Ranking.                                                                *)
(***************************************************************************)

\* What is better than a candidate is a candidate.
LEMMA BetterAreCandidates ==
  ASSUME NEW rep \in Reports, NEW p \in Candidates(rep), NEW q \in rep,
         Better(q, p)
  PROVE  q \in Candidates(rep)
  <1> DEFINE above(x) == {s \in rep : Better(s, x)}
  <1>1. rep \subseteq Prospects /\ IsFiniteSet(rep) /\ p \in rep
    BY SponsorAssumptions DEF Candidates
  <1>2. above(q) \subseteq above(p)
    BY <1>1, BetterOrders
  <1>3. IsFiniteSet(above(p))
    BY <1>1, FS_Subset
  <1>4. /\ Cardinality(above(q)) \in Nat /\ Cardinality(above(p)) \in Nat
        /\ Cardinality(above(q)) <= Cardinality(above(p))
    BY <1>2, <1>3, FS_Subset, FS_CardinalityType
  <1>5. Cardinality(above(p)) < MaxDrafts
    BY DEF Candidates
  <1>6. Cardinality(above(q)) < MaxDrafts
    BY <1>4, <1>5, SponsorAssumptions
  <1> QED
    BY <1>6 DEF Candidates

\* A run that has ranked its report handles candidates only, and has dealt
\* with those no longer in its queue; it notifies when the queue is empty.
QueueRanked ==
    \A r \in Runners :
        /\ pc[r] \in PastReport => queue[r] \subseteq Candidates(report[r])
        /\ pc[r] \in PastReport \cup {"notify"} =>
             \A p \in Candidates(report[r]) \ queue[r] : p.draft \in seen
        /\ pc[r] = "notify" => queue[r] = {}

\* The inductive invariant behind OnlyBestQueued and RunHandsOffAll.
RankInv == QueueRanked /\ OnlyBestQueued

\* Every step keeps the queues of the runs ranked.
LEMMA QueueStep ==
  ASSUME IInv, TypeInv, QueueRanked, seen \subseteq seen', NEW r \in Runners,
         StartRun(r) \/ Step(r) \/ Fault(r)
  PROVE  QueueRanked'
  <1>1. \A q \in Runners \ {r} : UNCHANGED <<pc[q], queue[q], report[q]>>
    BY DEF TypeInv, TypeOK, Step, Fault, Goto, Stop, local, StartRun, Prepare,
           Research, PutReport, PutDraft, FinishIngest, LockSeen, ReadSeen,
           CreateReview, ExportReview, CheckSensitive, AppendHandoff, MarkSeen,
           Notify, Kill, Fail, FailHalfway, TearAppend, LeaveScratch,
           Researched
  <1> DEFINE ranked(x) ==
        /\ pc[x] \in PastReport => queue[x] \subseteq Candidates(report[x])
        /\ pc[x] \in PastReport \cup {"notify"} =>
             \A p \in Candidates(report[x]) \ queue[x] : p.draft \in seen
        /\ pc[x] = "notify" => queue[x] = {}
  <1>2. \A q \in Runners : ranked(q)
    BY DEF QueueRanked
  <1>3. ASSUME NEW q \in Runners \ {r} PROVE ranked(q)'
    <2>1. ranked(q)
      BY <1>2
    <2>2. pc'[q] = pc[q] /\ queue'[q] = queue[q] /\ report'[q] = report[q]
      BY <1>1
    <2> QED
      BY <2>1, <2>2 DEF Candidates
  <1> DEFINE outside == PastReport \cup {"notify"}
  <1>4. \/ pc'[r] \notin outside
        \/ pc'[r] = "draft" /\ queue'[r] = Candidates(report'[r])
        \/ /\ pc[r] \in PastReport /\ report'[r] = report[r]
           /\ \/ pc'[r] \in PastReport /\ queue'[r] = queue[r]
              \/ pc'[r] = "notify" /\ queue'[r] = queue[r] /\ queue[r] = {}
              \/ /\ pc'[r] = "draft" /\ queue'[r] = queue[r] \ {Current(r)}
                 /\ CurrentId(r) \in seen'
    <2>1. CASE StartRun(r) \/ Fault(r) \/ Prepare(r) \/ Research(r) \/ Notify(r)
      BY <2>1
      DEF StartRun, Fault, Kill, Fail, FailHalfway, TearAppend, LeaveScratch,
          Researched, Prepare, Research, Notify, Stop, Goto, PastReport,
          InLock, Ended, TypeInv, TypeOK
    <2>2. CASE PutReport(r)
      BY <2>2 DEF PutReport, Goto, TypeInv, TypeOK
    <2>3. CASE FinishIngest(r) \/ CheckSensitive(r)
      BY <2>3
      DEF FinishIngest, CheckSensitive, Goto, Stop, PastReport, InLock, Ended,
          TypeInv, TypeOK, local
    <2>4. CASE ReadSeen(r)
      BY <2>4 DEF ReadSeen, PastReport, InLock, TypeInv, TypeOK
    <2>5. CASE MarkSeen(r)
      BY <2>5 DEF MarkSeen, Marked, Goto, PastReport, InLock, TypeInv, TypeOK
    <2>6. CASE \/ PutDraft(r) \/ LockSeen(r) \/ CreateReview(r)
               \/ ExportReview(r) \/ AppendHandoff(r)
      BY <2>6
      DEF PutDraft, LockSeen, CreateReview, ExportReview, AppendHandoff, Goto,
          PastReport, InLock, TypeInv, TypeOK, local
    <2> QED
      BY <2>1, <2>2, <2>3, <2>4, <2>5, <2>6 DEF Step
  <1>5. ranked(r)'
    <2>0. ranked(r)
      BY <1>2
    <2>1. CASE pc'[r] \notin outside
      BY <2>1
    <2>2. CASE pc'[r] = "draft" /\ queue'[r] = Candidates(report'[r])
      BY <2>2 DEF Candidates
    <2>3. CASE /\ pc[r] \in PastReport /\ report'[r] = report[r]
               /\ pc'[r] \in PastReport /\ queue'[r] = queue[r]
      BY <2>0, <2>3 DEF Candidates, PastReport, InLock
    <2>4. CASE /\ pc[r] \in PastReport /\ report'[r] = report[r]
               /\ pc'[r] = "notify" /\ queue'[r] = queue[r] /\ queue[r] = {}
      BY <2>0, <2>4 DEF Candidates, PastReport, InLock
    <2>5. CASE /\ pc[r] \in PastReport /\ report'[r] = report[r]
               /\ pc'[r] = "draft" /\ queue'[r] = queue[r] \ {Current(r)}
               /\ CurrentId(r) \in seen'
      BY <2>0, <2>5 DEF Candidates, CurrentId
    <2> QED
      BY <1>4, <2>1, <2>2, <2>3, <2>4, <2>5
  <1> QED
    BY <1>3, <1>5 DEF QueueRanked

\* What a run is about to hand over is one of the best max_drafts of its
\* report, and what is better has been handled before.
LEMMA CurrentIsNext ==
  ASSUME IInv, TypeInv, QueueRanked, NEW r \in Runners, pc[r] \in InLock
  PROVE  LET better == {q \in report[r] : Better(q, Current(r))}
         IN  /\ Cardinality(better) < MaxDrafts
             /\ \A q \in better : q.draft \in seen
  <1>1. /\ queue[r] # {} /\ queue[r] \subseteq Candidates(report[r])
        /\ \A p \in Candidates(report[r]) \ queue[r] : p.draft \in seen
    BY OneWorker DEF QueueRanked, PastReport
  <1>2. /\ report[r] \in Reports /\ Current(r) \in queue[r]
        /\ \A q \in queue[r] \ {Current(r)} : Better(Current(r), q)
    BY <1>1, CurrentTypes
  <1>3. report[r] \subseteq Prospects /\ Current(r) \in Candidates(report[r])
    BY <1>1, <1>2, SponsorAssumptions
  <1>4. ASSUME NEW q \in report[r], Better(q, Current(r))
        PROVE  q.draft \in seen
    <2>1. q \in Candidates(report[r])
      BY <1>2, <1>3, <1>4, BetterAreCandidates
    <2>2. Current(r) \in Prospects /\ q \in Prospects
      BY <1>3 DEF Candidates
    <2>3. q \notin queue[r]
      BY <1>2, <1>4, <2>2, BetterOrders
    <2> QED
      BY <1>1, <2>1, <2>3
  <1> QED
    BY <1>3, <1>4 DEF Candidates

\* Every step keeps what was handed over the best of its report.
LEMMA RankStep == IInv /\ TypeInv /\ RankInv /\ [Next]_vars => RankInv'
  <1> SUFFICES ASSUME IInv, TypeInv, RankInv, [Next]_vars PROVE RankInv'
    OBVIOUS
  <1>1. seen \subseteq seen'
    BY SeenKept
  <1>2. CASE UNCHANGED vars
    BY <1>2 DEF vars, RankInv, QueueRanked, OnlyBestQueued, Candidates, Better
  <1>3. ASSUME NEW r \in Runners, StartRun(r) \/ Step(r) \/ Fault(r)
        PROVE  RankInv'
    <2>1. QueueRanked'
      BY <1>1, <1>3, QueueStep DEF RankInv
    <2>2. \/ outbox' = outbox
          \/ pc[r] = "append" /\ outbox' = Appended(r)
      BY <1>3, StepHasEffect
      DEF Effect, Aside, TakesUp, Creates, GoesOn, Refuses, Hands, Marks,
          Interrupted, Moves
    <2> DEFINE best(x, S) ==
                 LET better == {q \in x.report : Better(q, x.prospect)}
                 IN  /\ Cardinality(better) < MaxDrafts
                     /\ \A q \in better : q.draft \in S
    <2>3. ASSUME NEW i \in DOMAIN outbox', outbox'[i] # Garbled
          PROVE  best(outbox'[i], seen')
      <3>1. \A x : best(x, seen) => best(x, seen')
        BY <1>1
      <3>2. CASE i \in DOMAIN outbox /\ outbox'[i] = outbox[i]
        <4>1. best(outbox[i], seen)
          BY <2>3, <3>2 DEF RankInv, OnlyBestQueued
        <4> HIDE DEF best
        <4> QED
          BY <3>1, <3>2, <4>1
      <3>3. CASE pc[r] = "append" /\ outbox'[i] = Line(r)
        <4>1. best(Line(r), seen)
          BY <3>3, CurrentIsNext DEF RankInv, InLock, Line
        <4> HIDE DEF best
        <4> QED
          BY <3>1, <3>3, <4>1
      <3>4. outbox \in Seq(Lines \cup {Garbled})
        BY DEF TypeInv, TypeOK
      <3> HIDE DEF best
      <3> QED
        BY <2>2, <2>3, <3>2, <3>3, <3>4 DEF Appended
    <2>4. OnlyBestQueued'
      BY <2>3 DEF OnlyBestQueued, Better
    <2> QED
      BY <2>1, <2>4 DEF RankInv
  <1> QED
    BY <1>2, <1>3 DEF Next

\* The invariants of the owner's records and of the ranking hold for ever.
LEMMA RankInductive == Spec => [](IInv /\ TypeInv /\ RecordsInv /\ RankInv)
  <1>1. Init => RankInv
    BY DEF Init, RankInv, QueueRanked, OnlyBestQueued, PastReport, InLock
  <1> QED
    BY <1>1, TypeInductive, RecordsInductive, RankStep, PTL DEF Spec

\* ingest keeps the first max_drafts prospects of the sorted report
\* (sponsorship.py:339-350), and the owner is asked about one only when the
\* better ones have been dealt with, whatever runs are interleaved or cut short.
THEOREM BestComeFirst == Spec => []OnlyBestQueued
  <1>1. RankInv => OnlyBestQueued
    BY DEF RankInv
  <1> QED
    BY <1>1, RankInductive, PTL

\* The candidates of a run that are not in its queue are in the outbox, as long
\* as no line was torn.
LEMMA HandledIsAsked ==
  ASSUME TypeInv, RecordsInv, QueueRanked, faults["torn"] = 0, NEW r \in Runners,
         pc[r] \in PastReport \cup {"notify"},
         NEW p \in Candidates(report[r]) \ queue[r]
  PROVE  Approvals(p.draft) >= 1
  <1>1. p.draft \in seen
    BY DEF QueueRanked
  <1>2. p.draft \in Drafts
    BY <1>1 DEF TypeInv, TypeOK
  <1> QED
    BY <1>1, <1>2 DEF RecordsInv, SeenAsked

\* "Every proposed external contact creates an approval-required local
\* handoff": a run that ends undisturbed leaves an approval request for each of
\* its candidates or, if the transport refused one (cli.py:371-373), for each
\* that is better than it, though other runs were killed or failed anywhere.
THEOREM UndisturbedHandsOff == Spec => RunHandsOffAll
  <1> DEFINE handed(r, p) ==
               \/ Approvals(p.draft)' >= 1
               \/ /\ pc'[r] = "failed"
                  /\ \E q \in Candidates(report[r]) \cap Flagged :
                       q.draft \notin seen /\ ~Better(p, q)
             ends == \A r \in Runners :
                /\ pc[r] \in Active /\ pc'[r] \in {"done", "failed"}
                /\ faults' = faults /\ faults["torn"] = 0
                => \A p \in Candidates(report[r]) : handed(r, p)
             Inv == IInv /\ TypeInv /\ RecordsInv /\ RankInv
  <1>1. ASSUME Inv, [Next]_vars PROVE ends \/ UNCHANGED vars
    <2> SUFFICES ASSUME NEW r \in Runners, Next, pc[r] \in Active,
                        pc'[r] \in {"done", "failed"}, faults' = faults,
                        faults["torn"] = 0, NEW p \in Candidates(report[r])
                 PROVE  handed(r, p)
      BY <1>1
    <2>1. pc \in [Runners -> Active \cup Ended] /\ QueueRanked
      BY <1>1 DEF TypeInv, TypeOK, RankInv
    <2>2. StartRun(r) \/ Step(r) \/ Fault(r)
      <3>1. PICK q \in Runners : StartRun(q) \/ Step(q) \/ Fault(q)
        BY DEF Next
      <3>2. Alone(q)
        BY <1>1, <3>1, StepIsAlone
      <3>3. pc'[r] # pc[r]
        BY DEF Active, InLock
      <3> QED
        BY <3>1, <3>2, <3>3 DEF Alone
    <2>3. \/ Research(r) \/ FinishIngest(r) \/ Notify(r)
          \/ CheckSensitive(r) /\ Stop(r, "failed")
      <3>1. ~Fault(r)
        <4>1. ASSUME NEW k \in Faults, Spend(k) PROVE FALSE
          BY <1>1, <4>1 DEF Spend, TypeInv, TypeOK
        <4> QED
          BY <4>1
          DEF Fault, Kill, Fail, FailHalfway, TearAppend, LeaveScratch, Faults
      <3>2. ~StartRun(r)
        BY DEF StartRun, Active, InLock, Ended
      <3>3. CheckSensitive(r) => Stop(r, "failed")
        BY <2>1 DEF CheckSensitive, Goto
      <3> QED
        BY <2>1, <2>2, <3>1, <3>2, <3>3
        DEF Step, Prepare, PutReport, PutDraft, LockSeen, ReadSeen,
            CreateReview, ExportReview, AppendHandoff, MarkSeen, Goto
    <2>4. pc[r] # "research"
      BY <1>1 DEF TypeInv, StartsBlank, Begun, Candidates
    <2>5. CASE FinishIngest(r) \/ Notify(r)
      <3>1. /\ pc[r] \in PastReport \cup {"notify"} /\ queue[r] = {}
            /\ outbox' = outbox
        BY <2>1, <2>5
        DEF FinishIngest, Notify, Goto, QueueRanked, PastReport, store
      <3>2. Approvals(p.draft) >= 1
        BY <1>1, <2>1, <3>1, HandledIsAsked
      <3> QED
        BY <3>1, <3>2, SameCounts
    <2>6. CASE CheckSensitive(r) /\ Stop(r, "failed")
      <3>1. /\ pc[r] = "send" /\ pc'[r] = "failed" /\ outbox' = outbox
            /\ Current(r) \in Flagged
        BY <2>1, <2>6 DEF CheckSensitive, Goto, Stop, store
      <3>2. pc[r] \in PastReport /\ pc[r] \in InLock /\ pc[r] \in Work
        BY <3>1 DEF PastReport, InLock, Work
      <3>3. CASE p \notin queue[r]
        <4>1. Approvals(p.draft) >= 1
          BY <1>1, <2>1, <3>2, <3>3, HandledIsAsked
        <4> QED
          BY <3>1, <4>1, SameCounts
      <3>4. CASE p \in queue[r]
        <4>1. /\ Current(r) \in queue[r] /\ Current(r) \in Prospects
              /\ report[r] \subseteq Prospects
              /\ \A q \in queue[r] \ {Current(r)} : Better(Current(r), q)
          BY <1>1, <3>4, CurrentTypes, SponsorAssumptions
        <4>2. Current(r) \in Candidates(report[r]) \cap Flagged
          BY <2>1, <3>1, <3>2, <4>1 DEF QueueRanked
        <4>3. Current(r).draft \notin seen
          BY <1>1, <3>2 DEF RecordsInv, Untouched, CurrentId
        <4>4. p \in Prospects
          BY <4>1 DEF Candidates
        <4>5. ~Better(p, Current(r))
          <5>1. CASE p = Current(r)
            BY <4>4, <5>1 DEF Better, Prospects
          <5>2. CASE p # Current(r)
            BY <3>4, <4>1, <4>4, <5>2, BetterOrders
          <5> QED
            BY <5>1, <5>2
        <4> QED
          BY <3>1, <4>2, <4>3, <4>5
      <3> QED
        BY <3>3, <3>4
    <2> QED
      BY <2>3, <2>4, <2>5, <2>6 DEF Research, Researched, Goto
  <1>2. Inv /\ [Next]_vars => [ends]_vars
    BY <1>1
  <1>3. Spec => []Inv
    BY RankInductive, PTL
  <1> QED
    BY <1>2, <1>3, PTL DEF Spec, RunHandsOffAll

\* "New drafts cause a local macOS notification": where no handoff looks
\* sensitive and no call fails, a scheduled run that ends by itself has
\* announced what it queued, though any run may have been killed.
THEOREM UndisturbedAnnounces ==
  ASSUME Flagged = {}, MaxFaults["io"] = 0, MaxFaults["torn"] = 0
  PROVE  Spec => NewDraftsNotified
  <1> DEFINE ends == \A r \in Scheduled :
                pc[r] \in Active /\ pc'[r] \in {"done", "failed"}
                  => fresh[r] \subseteq notified'
             Inv == IInv /\ TypeInv /\ Bounded
  <1>1. ASSUME Inv, [Next]_vars PROVE ends \/ UNCHANGED vars
    <2> SUFFICES ASSUME NEW r \in Scheduled, Next, pc[r] \in Active,
                        pc'[r] \in {"done", "failed"}
                 PROVE  fresh[r] \subseteq notified'
      BY <1>1
    <2>0. r \in Runners
      BY SponsorAssumptions
    <2>1. pc \in [Runners -> Active \cup Ended]
      BY <1>1 DEF TypeInv, TypeOK
    <2>2. StartRun(r) \/ Step(r) \/ Fault(r)
      <3>1. PICK q \in Runners : StartRun(q) \/ Step(q) \/ Fault(q)
        BY DEF Next
      <3>2. Alone(q)
        BY <1>1, <3>1, StepIsAlone
      <3>3. pc'[r] # pc[r]
        BY DEF Active, InLock
      <3> QED
        BY <2>0, <3>1, <3>2, <3>3 DEF Alone
    <2>3. ~Fail(r) /\ ~FailHalfway(r) /\ ~TearAppend(r) /\ ~LeaveScratch(r)
      <3>1. faults["io"] \in Nat /\ faults["torn"] \in Nat
        BY <1>1 DEF TypeInv, TypeOK, Faults
      <3>2. ~Spend("io") /\ ~Spend("torn")
        BY <3>1 DEF Spend
      <3> QED
        BY <3>2 DEF Fail, FailHalfway, TearAppend, LeaveScratch
    <2>4. ~Kill(r)
      BY <2>0, <2>1 DEF Kill, Stop
    <2>5. ~StartRun(r)
      BY DEF StartRun, Active, InLock, Ended
    <2>6. ~CheckSensitive(r)
      BY <2>0, <2>1 DEF CheckSensitive, Goto
    <2>7. Research(r) \/ FinishIngest(r) \/ Notify(r)
      BY <2>0, <2>1, <2>2, <2>3, <2>4, <2>5, <2>6
      DEF Fault, Step, Prepare, PutReport, PutDraft, LockSeen, ReadSeen,
          CreateReview, ExportReview, AppendHandoff, MarkSeen, Goto
    <2>8. CASE Research(r)
      BY <1>1, <2>0, <2>8
      DEF Research, Researched, Goto, TypeInv, StartsBlank, Begun
    <2>9. CASE FinishIngest(r)
      BY <2>0, <2>1, <2>9 DEF FinishIngest, Goto
    <2>10. CASE Notify(r)
      BY <2>10 DEF Notify
    <2> QED
      BY <2>7, <2>8, <2>9, <2>10
  <1>2. Inv /\ [Next]_vars => [ends]_vars
    BY <1>1
  <1>3. Spec => []Inv
    BY TypeInductive, BoundedInductive, PTL
  <1> QED
    BY <1>2, <1>3, PTL DEF Spec, NewDraftsNotified
=============================================================================
