------------------------ MODULE FoundationLoopProofs ------------------------
(***************************************************************************)
(* Stored scores follow the policy and handoffs are justified, for any     *)
(* number of command processes, runs, payloads and faults.  The argument:  *)
(* a process works on the ledger only while it has it open, so the payload *)
(* it has in memory stays the stored one, and a payload never changes.     *)
(* The rest of the type invariant, the order of citations, that the        *)
(* commands use the ledger as RunLedger describes it and that a low score  *)
(* is handed off follow from that.                                         *)
(***************************************************************************)
EXTENDS FoundationLoop, RunLedgerProofs

\* A step that leaves the files alone leaves each of them alone.
USE DEF files

\* The part of TypeOK the argument needs.
Shape == /\ LedgerTypeOK
         /\ outbox \in Seq(Handoffs \cup {Garbled})
         /\ pc \in [Procs -> Active \cup Ended]
         /\ cmd \in [Procs -> Kinds]
         /\ run \in [Procs -> RunIds \cup {NoRun}]
         /\ rec \in [Procs -> Records \cup Refs \cup {NoRun}]

OnLedger == {"insert", "load", "score", "decide", "mail"}

\* A process that reads or writes the ledger is the one that has it open.
OpenedByUser == \A p \in Procs : pc[p] \in OnLedger => conn = p

\* What a process has in memory before it inserts or loads its run, or works
\* on a reference.
InMemory ==
    \A p \in Procs :
        /\ pc[p] = "read" => cmd[p] \in {"work", "request"}
        /\ pc[p] = "put" => cmd[p] \in {"work", "put"}
        /\ \/ pc[p] \in {"read", "put"} /\ cmd[p] = "work"
           \/ pc[p] = "insert"
           \/ pc[p] = "connect" /\ cmd[p] \in {"work", "record"}
           => rec[p] \in Records
        /\ \/ pc[p] \in {"read", "put"} /\ cmd[p] # "work"
           \/ pc[p] = "publish"
           => rec[p] \in Refs
        /\ \/ pc[p] = "load"
           \/ pc[p] = "connect" /\ cmd[p] \notin {"work", "record"}
           => run[p] \in RunIds

\* After that, it is the stored payload of its run.
InStep ==
    \A p \in Procs :
        pc[p] \in {"score", "decide", "mail"} =>
            run[p] \in RunIds /\ Recorded(run[p]) /\ rec[p] = runs[run[p]]

\* A decision is about a stored score, a handoff about a low one.
Judged ==
    \A p \in Procs :
        /\ pc[p] \in {"decide", "mail"} => scores[run[p]] # NoRun
        /\ pc[p] = "mail" => scores[run[p]] < Threshold

\* The inductive invariant behind the theorems about the ledger.
IInv == /\ Shape /\ OpenedByUser /\ InMemory /\ InStep /\ Judged
        /\ ScoresFollowPolicy /\ HandoffsJustified

\* At first nothing is stored and nobody works.
LEMMA InitEstablishes == Init => IInv
  BY DEF Init, InitLedger, IInv, Shape, LedgerTypeOK, OpenedByUser, InMemory,
         InStep, Judged, ScoresFollowPolicy, HandoffsJustified, OnLedger,
         Active, Ended, Kinds

\* The policy's score of a payload is a score the ledger stores.
LEMMA PolicyScore ==
  ASSUME NEW r \in Records
  PROVE  ScoreOf(r) \in Scores /\ ScoreOf(r) # NoRun
  <1> DEFINE c == r.counters
  <1>1. c \in Counters
    BY LedgerAssumptions DEF Payloads
  <1>2. ASSUME NEW x \in Int PROVE Clamp(x) \in 0..100
    BY DEF Clamp
  <1>3. /\ Reliability(c) \in 0..100 /\ Resilience(c) \in 0..100
        /\ Safety(c) \in 0..100
    BY <1>1, <1>2 DEF Reliability, Resilience, Safety, MissingApprovals,
                      AtLeastZero, OutcomeBase, Counters, Outcomes
  <1>4. Overall(c) \in 0..100
    BY <1>3 DEF Overall
  <1> QED
    BY <1>4, LedgerAssumptions, FoundationAssumptions DEF ScoreOf

\* An element of a sequence is of the sequence's type.
LEMMA OutboxEntry ==
  ASSUME NEW S, NEW lines \in Seq(S), NEW i \in DOMAIN lines
  PROVE  lines[i] \in S
  OBVIOUS

\* A process that ends, however it ends, leaves the others as they were.
LEMMA EndKeeps ==
  ASSUME IInv, NEW p \in Procs, NEW result \in Ended, End(p, result),
         UNCHANGED <<tables, outbox, cmd>>
  PROVE  IInv'
  <1> USE DEF IInv, End, Closed, tables
  <1>1. Shape'
    BY DEF Shape, LedgerTypeOK
  <1>2. OpenedByUser'
    BY DEF Shape, OpenedByUser, OnLedger, Ended
  <1>3. InMemory'
    BY DEF Shape, InMemory, Ended
  <1>4. InStep' /\ Judged'
    BY DEF Shape, InStep, Judged, Recorded, Ended
  <1>5. ScoresFollowPolicy' /\ HandoffsJustified'
    BY DEF ScoresFollowPolicy, HandoffsJustified, Recorded
  <1> QED
    BY <1>1, <1>2, <1>3, <1>4, <1>5

\* Beginning a command touches nothing that is stored.
LEMMA BeginKeeps == ASSUME IInv, NEW p \in Procs, Begin(p) PROVE IInv'
  <1> USE DEF IInv
  <1> DEFINE First == {"read", "put", "connect"}
  <1>1. pc[p] \in Ended /\ UNCHANGED <<tables, evidence, outbox, conn>>
    BY DEF Begin, BeginWork, BeginPut, BeginRequest, BeginRecord, BeginOnRun, CanBegin
  <1>2. \E here \in First : pc' = [pc EXCEPT ![p] = here]
    <2>1. CASE BeginWork(p)
      <3>1. PICK ref \in Refs :
              pc' = [pc EXCEPT ![p] = IF Source[ref] = NoRun THEN "put" ELSE "read"]
        BY <2>1 DEF BeginWork
      <3> QED
        BY <3>1
    <2>2. CASE BeginPut(p) \/ BeginRequest(p) \/ BeginRecord(p) \/ BeginOnRun(p)
      BY <2>2 DEF BeginPut, BeginRequest, BeginRecord, BeginOnRun
    <2> QED
      BY <2>1, <2>2 DEF Begin
  <1>3. Shape'
    <2>1. LedgerTypeOK' /\ outbox' \in Seq(Handoffs \cup {Garbled})
      BY <1>1 DEF Shape, LedgerTypeOK, tables
    <2>2. pc' \in [Procs -> Active \cup Ended]
      BY <1>2 DEF Shape, Active
    <2>3. cmd' \in [Procs -> Kinds]
      BY DEF Shape, Kinds, Begin, BeginWork, BeginPut, BeginRequest, BeginRecord, BeginOnRun
    <2>4. /\ run' \in [Procs -> RunIds \cup {NoRun}]
          /\ rec' \in [Procs -> Records \cup Refs \cup {NoRun}]
      <3>1. CASE BeginWork(p)
        <4>1. PICK r \in Records : rec' = [rec EXCEPT ![p] = r]
          BY <3>1 DEF BeginWork
        <4> QED
          BY <3>1, <4>1 DEF Shape, BeginWork
      <3>2. CASE BeginRecord(p) \/ BeginPut(p) \/ BeginRequest(p)
        BY <3>2 DEF Shape, BeginRecord, BeginPut, BeginRequest
      <3>3. CASE BeginOnRun(p)
        BY <3>3 DEF Shape, BeginOnRun
      <3> QED
        BY <3>1, <3>2, <3>3 DEF Begin
    <2> QED
      BY <2>1, <2>2, <2>3, <2>4 DEF Shape
  <1>4. OpenedByUser'
    BY <1>1, <1>2 DEF Shape, OpenedByUser, OnLedger
  <1>5. \A q \in Procs \ {p} : /\ pc'[q] = pc[q] /\ cmd'[q] = cmd[q]
                               /\ run'[q] = run[q] /\ rec'[q] = rec[q]
    BY <1>2 DEF Shape, Begin, BeginWork, BeginPut, BeginRequest, BeginRecord, BeginOnRun
  <1>6. pc'[p] \in First
    BY <1>2 DEF Shape
  <1>7. InMemory'
    <2>1. CASE BeginWork(p)
      <3>1. cmd'[p] = "work" /\ rec'[p] \in Records /\ pc'[p] \in {"read", "put"}
        BY <1>2, <2>1 DEF BeginWork, Shape
      <3> QED
        BY <1>5, <3>1 DEF InMemory
    <2>2. CASE BeginPut(p) \/ BeginRequest(p) \/ BeginRecord(p) \/ BeginOnRun(p)
      BY <1>5, <2>2 DEF Shape, InMemory, BeginPut, BeginRequest, BeginRecord, BeginOnRun
    <2> QED
      BY <2>1, <2>2 DEF Begin
  <1>8. InStep' /\ Judged'
    BY <1>1, <1>5, <1>6 DEF InStep, Judged, Recorded, tables
  <1>9. ScoresFollowPolicy' /\ HandoffsJustified'
    BY <1>1 DEF ScoresFollowPolicy, HandoffsJustified, Recorded, tables
  <1> QED
    BY <1>3, <1>4, <1>7, <1>8, <1>9

\* Opening the ledger, when it is free.
LEMMA ConnectKeeps == ASSUME IInv, NEW p \in Procs, Connect(p) PROVE IInv'
  <1>1. CASE conn # Nobody
    BY <1>1, EndKeeps DEF Connect, Ended
  <1>2. CASE conn = Nobody
    <2> USE <1>2 DEF IInv, Connect, Goto, tables
    <2>1. Shape'
      BY DEF Shape, LedgerTypeOK, Active
    <2>2. OpenedByUser'
      BY FoundationAssumptions DEF Shape, OpenedByUser, OnLedger
    <2>3. InMemory'
      BY DEF Shape, InMemory
    <2>4. InStep' /\ Judged'
      BY DEF Shape, InStep, Judged, Recorded
    <2>5. ScoresFollowPolicy' /\ HandoffsJustified'
      BY DEF ScoresFollowPolicy, HandoffsJustified, Recorded
    <2> QED
      BY <2>1, <2>2, <2>3, <2>4, <2>5
  <1> QED
    BY <1>1, <1>2

\* Inserting a run: only this process works on the ledger, and no stored
\* score or handoff is about an identifier that was free.
LEMMA InsertKeeps == ASSUME IInv, NEW p \in Procs, InsertRun(p) PROVE IInv'
  <1>1. PICK id \in Free :
          /\ RecordRun(id, rec[p])
          /\ IF cmd[p] = "work"
             THEN /\ pc' = [pc EXCEPT ![p] = "score"]
                  /\ run' = [run EXCEPT ![p] = id]
                  /\ UNCHANGED <<conn, rec>>
             ELSE End(p, "ok")
    BY DEF InsertRun
  <1>2. pc[p] = "insert" /\ conn = p /\ rec[p] \in Records
        /\ UNCHANGED <<scores, baselines, outbox, cmd>>
        /\ runs' = [runs EXCEPT ![id] = rec[p]]
        /\ id \in RunIds /\ runs[id] = NoRun
    BY <1>1
    DEF InsertRun, RecordRun, IInv, OpenedByUser, OnLedger, InMemory, Free,
        Recorded
  <1>3. pc'[p] \in {"score", "ok"}
        /\ \A q \in Procs \ {p} :
             /\ pc'[q] = pc[q] /\ run'[q] = run[q] /\ rec'[q] = rec[q]
             /\ pc[q] \notin OnLedger
    BY <1>1, <1>2 DEF IInv, Shape, End, OpenedByUser
  <1> USE DEF IInv
  <1>4. Shape'
    BY <1>1, <1>2 DEF Shape, LedgerTypeOK, End, Active, Ended
  <1>5. OpenedByUser'
    <2>1. CASE cmd[p] = "work"
      BY <1>1, <1>2, <1>3, <2>1 DEF OpenedByUser
    <2>2. CASE cmd[p] # "work"
      BY <1>1, <1>3, <2>2 DEF Shape, OpenedByUser, OnLedger, End
    <2> QED
      BY <2>1, <2>2
  <1>6. InMemory'
    BY <1>2, <1>3 DEF InMemory
  <1>7. InStep' /\ Judged'
    <2>1. pc'[p] = "score" => /\ run'[p] = id /\ rec'[p] = rec[p]
      BY <1>1 DEF Shape, End
    <2>2. runs'[id] = rec[p] /\ rec[p] # NoRun
      BY <1>2, LedgerAssumptions DEF Shape, LedgerTypeOK
    <2> QED
      BY <1>2, <1>3, <2>1, <2>2 DEF InStep, Judged, OnLedger, Recorded
  <1>8. ScoresFollowPolicy'
    BY <1>2 DEF ScoresFollowPolicy, Recorded, Shape, LedgerTypeOK
  <1>9. HandoffsJustified'
    BY <1>2 DEF HandoffsJustified, Recorded, Shape, LedgerTypeOK
  <1> QED
    BY <1>4, <1>5, <1>6, <1>7, <1>8, <1>9

\* Loading a run takes its stored payload.
LEMMA LoadKeeps == ASSUME IInv, NEW p \in Procs, LoadRun(p) PROVE IInv'
  <1>1. CASE \E result \in {"error", "ok"} : End(p, result)
    BY <1>1, EndKeeps DEF LoadRun, Ended
  <1>2. CASE /\ Recorded(run[p])
             /\ Goto(p, "load", IF cmd[p] = "consider" /\ scores[run[p]] # NoRun
                                THEN "decide" ELSE "score")
             /\ rec' = [rec EXCEPT ![p] = runs[run[p]]]
             /\ UNCHANGED <<conn, run>>
    <2> USE <1>2 DEF IInv, Goto
    <2>1. /\ run[p] \in RunIds /\ runs[run[p]] \in Records
          /\ UNCHANGED <<runs, scores, baselines, outbox, cmd>>
      BY DEF LoadRun, InMemory, Shape, LedgerTypeOK, Recorded, tables
    <2>2. Shape'
      BY <2>1 DEF Shape, LedgerTypeOK, Active
    <2>3. OpenedByUser'
      BY DEF Shape, OpenedByUser, OnLedger
    <2>4. InMemory'
      BY <2>1 DEF Shape, InMemory
    <2>5. InStep' /\ Judged'
      BY <2>1 DEF Shape, InStep, Judged, Recorded
    <2>6. ScoresFollowPolicy' /\ HandoffsJustified'
      BY <2>1 DEF ScoresFollowPolicy, HandoffsJustified, Recorded
    <2> QED
      BY <2>2, <2>3, <2>4, <2>5, <2>6
  <1> QED
    BY <1>1, <1>2 DEF LoadRun

\* Storing a score: a run that had one keeps its value, because both follow
\* the policy, so handoffs about it stay justified.
LEMMA ScoreKeeps == ASSUME IInv, NEW p \in Procs, StoreScore(p) PROVE IInv'
  <1>1. /\ pc[p] = "score" /\ run[p] \in RunIds /\ conn = p
        /\ Recorded(run[p]) /\ rec[p] = runs[run[p]] /\ rec[p] \in Records
    BY DEF StoreScore, IInv, Shape, LedgerTypeOK, InStep, OpenedByUser,
           OnLedger, Recorded
  <1>2. scores' = [scores EXCEPT ![run[p]] = ScoreOf(rec[p])]
        /\ UNCHANGED <<runs, baselines, outbox, cmd>>
    BY DEF StoreScore, RecordScore
  <1>3. ScoreOf(rec[p]) \in Scores /\ ScoreOf(rec[p]) # NoRun
    BY <1>1, PolicyScore
  <1>4. pc'[p] \in {"decide", "ok"}
        /\ \A q \in Procs \ {p} :
             /\ pc'[q] = pc[q] /\ run'[q] = run[q] /\ rec'[q] = rec[q]
             /\ pc[q] \notin OnLedger
    BY <1>1 DEF StoreScore, IInv, Shape, End, OpenedByUser
  <1> USE DEF IInv
  <1>5. Shape'
    BY <1>1, <1>2, <1>3
    DEF StoreScore, Shape, LedgerTypeOK, End, Active, Ended
  <1>6. OpenedByUser'
    <2>1. CASE cmd[p] = "consider"
      BY <1>1, <1>4, <2>1 DEF StoreScore, OpenedByUser
    <2>2. CASE cmd[p] # "consider"
      BY <1>4, <2>2 DEF StoreScore, Shape, OpenedByUser, OnLedger, End
    <2> QED
      BY <2>1, <2>2
  <1>7. InMemory'
    BY <1>2, <1>4 DEF InMemory
  <1>8. InStep' /\ Judged'
    <2>1. pc'[p] = "decide" => run'[p] = run[p] /\ rec'[p] = rec[p]
      BY DEF StoreScore, Shape, End
    <2>2. scores'[run[p]] # NoRun
      BY <1>1, <1>2, <1>3 DEF Shape, LedgerTypeOK
    <2> QED
      BY <1>1, <1>2, <1>4, <2>1, <2>2 DEF InStep, Judged, OnLedger, Recorded
  <1>9. ScoresFollowPolicy'
    BY <1>1, <1>2, <1>3
    DEF ScoresFollowPolicy, ScoreOf, Recorded, Shape, LedgerTypeOK
  <1>10. HandoffsJustified'
    <2>1. \A id \in RunIds : scores[id] # NoRun => scores'[id] = scores[id]
      BY <1>1, <1>2 DEF ScoresFollowPolicy, ScoreOf, Shape, LedgerTypeOK
    <2>2. ASSUME NEW i \in DOMAIN outbox, outbox[i] # Garbled
          PROVE  outbox[i].run \in RunIds
      <3>1. outbox[i] \in Handoffs
        BY <2>2, OutboxEntry DEF Shape
      <3> QED
        BY <3>1 DEF Handoffs
    <2> QED
      BY <1>2, <2>1, <2>2 DEF HandoffsJustified, Recorded
  <1> QED
    BY <1>5, <1>6, <1>7, <1>8, <1>9, <1>10

\* Only a run that scored below the threshold gets past the decision.
LEMMA DecideKeeps == ASSUME IInv, NEW p \in Procs, Decide(p) PROVE IInv'
  <1>1. CASE \E result \in {"error", "ok"} : End(p, result)
    BY <1>1, EndKeeps DEF Decide, Ended
  <1>2. CASE /\ ~Accepted(scores[run[p]])
             /\ pc' = [pc EXCEPT ![p] = "mail"]
             /\ UNCHANGED <<conn, run, rec>>
    <2> USE <1>2 DEF IInv
    <2>1. pc[p] = "decide" /\ UNCHANGED <<runs, scores, baselines, outbox, cmd>>
      BY DEF Decide, tables
    <2>2. scores[run[p]] < Threshold
      <3>1. scores[run[p]] \in 0..100 /\ Threshold \in 0..100
        BY <2>1, FoundationAssumptions
        DEF Shape, LedgerTypeOK, InStep, Judged
      <3> QED
        BY <3>1 DEF Accepted
    <2>3. Shape'
      BY <2>1 DEF Shape, LedgerTypeOK, Active
    <2>4. OpenedByUser' /\ InMemory'
      BY <2>1 DEF Shape, OpenedByUser, InMemory, OnLedger
    <2>5. InStep' /\ Judged'
      BY <2>1, <2>2 DEF Shape, InStep, Judged, Recorded
    <2>6. ScoresFollowPolicy' /\ HandoffsJustified'
      BY <2>1 DEF ScoresFollowPolicy, HandoffsJustified, Recorded
    <2> QED
      BY <2>3, <2>4, <2>5, <2>6
  <1> QED
    BY <1>1, <1>2 DEF Decide

\* A process that ends with its handoff written, however it ends: the line
\* cites what the stored payload cites, or cannot be read.
LEMMA AppendKeeps ==
  ASSUME IInv, NEW p \in Procs, NEW result \in Ended, End(p, result),
         pc[p] = "mail", AppendHandoff(p), UNCHANGED <<tables, cmd>>
  PROVE  IInv'
  <1> DEFINE line == IF "outbox" \in torn THEN Garbled ELSE Handoff(p)
  <1>1. /\ run[p] \in RunIds /\ Recorded(run[p])
        /\ rec[p] = runs[run[p]] /\ rec[p] \in Records
        /\ scores[run[p]] # NoRun /\ scores[run[p]] < Threshold
        /\ UNCHANGED <<runs, scores, baselines, cmd>>
    BY DEF IInv, Shape, LedgerTypeOK, InStep, Judged, Recorded, tables
  <1>2. /\ outbox' = Append(outbox, line)
        /\ line \in Handoffs \cup {Garbled}
        /\ line # Garbled
             => line.run = run[p] /\ line.refs = runs[run[p]].refs
    <2>1. /\ Handoff(p) \in Handoffs
          /\ Handoff(p).run = run[p] /\ Handoff(p).refs = runs[run[p]].refs
      BY <1>1, LedgerAssumptions DEF Handoff, Handoffs, Payloads
    <2> QED
      BY <2>1 DEF AppendHandoff
  <1>3. /\ pc'[p] \in Ended /\ conn' = Closed(p)
        /\ \A q \in Procs \ {p} :
             pc'[q] = pc[q] /\ run'[q] = run[q] /\ rec'[q] = rec[q]
    BY DEF End, IInv, Shape
  <1> HIDE DEF line
  <1> USE DEF IInv
  <1>4. Shape'
    <2>1. outbox' \in Seq(Handoffs \cup {Garbled})
      BY <1>2 DEF Shape
    <2> QED
      BY <1>1, <2>1 DEF End, Shape, LedgerTypeOK
  <1>5. OpenedByUser' /\ InMemory'
    BY <1>1, <1>3 DEF OpenedByUser, InMemory, OnLedger, Closed, Ended
  <1>6. InStep' /\ Judged'
    BY <1>1, <1>3 DEF InStep, Judged, Recorded, Ended
  <1>7. ScoresFollowPolicy'
    BY <1>1 DEF ScoresFollowPolicy, Recorded
  <1>8. HandoffsJustified'
    <2> SUFFICES ASSUME NEW i \in DOMAIN outbox', outbox'[i] # Garbled
                 PROVE  /\ Recorded(outbox'[i].run)
                        /\ scores[outbox'[i].run] # NoRun
                        /\ scores[outbox'[i].run] < Threshold
                        /\ outbox'[i].refs = runs[outbox'[i].run].refs
      BY <1>1 DEF HandoffsJustified, Recorded
    <2>1. CASE i \in DOMAIN outbox
      <3>1. outbox'[i] = outbox[i]
        BY <1>2, <2>1 DEF Shape
      <3> QED
        BY <2>1, <3>1 DEF HandoffsJustified
    <2>2. CASE i \notin DOMAIN outbox
      <3>1. outbox'[i] = line
        BY <1>2, <2>2 DEF Shape
      <3> QED
        BY <1>1, <1>2, <3>1
    <2> QED
      BY <2>1, <2>2
  <1> QED
    BY <1>4, <1>5, <1>6, <1>7, <1>8

\* Sending the handoff, or being refused for a sensitive name.
LEMMA HandoffKeeps == ASSUME IInv, NEW p \in Procs, SendHandoff(p) PROVE IInv'
  <1>1. CASE AppendHandoff(p) /\ End(p, "ok")
    BY <1>1, AppendKeeps DEF SendHandoff, Ended
  <1>2. CASE UNCHANGED outbox /\ End(p, "error")
    BY <1>2, EndKeeps DEF SendHandoff, Ended
  <1> QED
    BY <1>1, <1>2 DEF SendHandoff

\* A command that fails with its line written, or with a part of it.
LEMMA AppendFaultKeeps ==
  ASSUME IInv, NEW p \in Procs, FailAfterAppend(p) \/ TearAppend(p)
  PROVE  IInv'
  <1>1. /\ \E result \in {"killed", "error"} : End(p, result)
        /\ UNCHANGED <<tables, cmd>>
    BY DEF FailAfterAppend, TearAppend
  <1>2. CASE pc[p] = "mail" /\ AppendHandoff(p)
    BY <1>1, <1>2, AppendKeeps DEF Ended
  <1>3. CASE UNCHANGED outbox
    BY <1>1, <1>3, EndKeeps DEF Ended
  <1> QED
    BY <1>2, <1>3 DEF FailAfterAppend, TearAppend, Writing, AppendRequest

\* Reading and storing evidence, asking for a review and setting a baseline
\* touch nothing of this.
LEMMA EvidenceStepsKeep ==
  ASSUME IInv, NEW p \in Procs,
         \/ ReadSource(p) \/ ReadBundle(p)
         \/ PutEvidence(p) \/ RequestReview(p)
  PROVE  IInv'
  <1>1. UNCHANGED <<tables, outbox, cmd>>
    BY DEF ReadSource, ReadBundle, PutEvidence, RequestReview, AppendRequest
  <1>2. CASE \E result \in Ended : End(p, result)
    BY <1>1, <1>2, EndKeeps
  <1>3. CASE /\ UNCHANGED <<conn, run, rec>>
             /\ \/ /\ pc[p] = "read" /\ cmd[p] = "work"
                   /\ pc' = [pc EXCEPT ![p] = "put"]
                \/ /\ pc[p] = "read" /\ cmd[p] # "work"
                   /\ pc' = [pc EXCEPT ![p] = "publish"]
                \/ /\ pc[p] = "put" /\ cmd[p] # "put"
                   /\ pc' = [pc EXCEPT ![p] = "connect"]
    <2> USE <1>1, <1>3 DEF IInv, tables
    <2>1. Shape'
      BY DEF Shape, LedgerTypeOK, Active
    <2>2. OpenedByUser' /\ InMemory'
      BY DEF Shape, OpenedByUser, InMemory, OnLedger
    <2>3. InStep' /\ Judged'
      BY DEF Shape, InStep, Judged, Recorded
    <2>4. ScoresFollowPolicy' /\ HandoffsJustified'
      BY DEF ScoresFollowPolicy, HandoffsJustified, Recorded
    <2> QED
      BY <2>1, <2>2, <2>3, <2>4
  <1>4. CASE ReadSource(p) \/ ReadBundle(p)
    BY <1>2, <1>3, <1>4 DEF ReadSource, ReadBundle, Goto, Ended
  <1>5. CASE PutEvidence(p)
    BY <1>2, <1>3, <1>5 DEF PutEvidence, Goto, Ended
  <1>6. CASE RequestReview(p)
    BY <1>2, <1>6 DEF RequestReview, Ended
  <1> QED
    BY <1>4, <1>5, <1>6

\* A baseline set by another program concerns none of this.
LEMMA BaselineKeeps == IInv /\ EmbeddedSetBaseline => IInv'
  BY DEF EmbeddedSetBaseline, SetBaseline, locals, IInv, Shape, LedgerTypeOK,
         OpenedByUser, InMemory, InStep, Judged, ScoresFollowPolicy,
         HandoffsJustified, Recorded

\* Every step preserves the invariant.
LEMMA StepKeeps == IInv /\ [Next]_vars => IInv'
  <1> SUFFICES ASSUME IInv, [Next]_vars PROVE IInv'
    OBVIOUS
  <1>1. CASE UNCHANGED vars
    BY <1>1
    DEF vars, IInv, Shape, LedgerTypeOK, OpenedByUser, InMemory, InStep,
        Judged, ScoresFollowPolicy, HandoffsJustified, Recorded
  <1>2. ASSUME NEW p \in Procs, Interrupt(p) PROVE IInv'
    BY <1>2, EndKeeps DEF Interrupt, Ended
  <1> QED
    BY <1>1, <1>2, AppendFaultKeeps, BeginKeeps, ConnectKeeps, InsertKeeps, LoadKeeps,
       ScoreKeeps, DecideKeeps, HandoffKeeps, EvidenceStepsKeep, BaselineKeeps
    DEF Next, Step

\* The invariant holds for ever.
LEMMA Inductive == Spec => []IInv
  BY InitEstablishes, StepKeeps, PTL DEF Spec

\* Whatever commands run, fail, are killed or are locked out, in whatever order, a
\* stored score is the policy's score of the stored payload (cli.py:242-244,
\* 428-443 with rrs.py and run_ledger.py).
THEOREM ScoresAreTrue == Spec => []ScoresFollowPolicy
  BY Inductive, PTL DEF IInv

\* Every handoff improvement consider has appended (cli.py:439-458) is about a
\* recorded run whose score is below the threshold, and cites its artifacts.
THEOREM HandoffsAreTrue == Spec => []HandoffsJustified
  BY Inductive, PTL DEF IInv

-----------------------------------------------------------------------------
(***************************************************************************)
(* The commands and the ledger.                                            *)
(***************************************************************************)

\* Each step of a command is an operation of the ledger or leaves it alone.
LEMMA StepOnLedger == IInv /\ [Next]_vars => [LedgerNext]_tables
  <1> SUFFICES ASSUME IInv, [Next]_vars, ~UNCHANGED tables
               PROVE  LedgerNext
    OBVIOUS
  <1>1. ASSUME NEW p \in Procs, InsertRun(p) PROVE LedgerNext
    <2>1. pc[p] = "insert" /\ \E id \in RunIds : RecordRun(id, rec[p])
      BY <1>1 DEF InsertRun, Free
    <2>2. rec[p] \in Records
      BY <2>1 DEF IInv, InMemory
    <2> QED
      BY <2>1, <2>2 DEF LedgerNext
  <1>2. ASSUME NEW p \in Procs, StoreScore(p) PROVE LedgerNext
    <2>1. pc[p] = "score" /\ RecordScore(run[p], ScoreOf(rec[p]))
      BY <1>2 DEF StoreScore
    <2>2. run[p] \in RunIds /\ rec[p] \in Records
      BY <2>1 DEF IInv, Shape, LedgerTypeOK, InStep, Recorded
    <2> QED
      BY <2>1, <2>2, PolicyScore DEF LedgerNext
  <1>3. ASSUME EmbeddedSetBaseline PROVE LedgerNext
    BY <1>3 DEF EmbeddedSetBaseline, LedgerNext
  <1> QED
    BY <1>1, <1>2, <1>3
    DEF Next, Begin, BeginWork, BeginPut, BeginRequest, BeginRecord, BeginOnRun, Step,
        ReadSource, ReadBundle, PutEvidence, RequestReview, Connect, LoadRun,
        Decide, SendHandoff, Interrupt, FailAfterAppend, TearAppend, vars,
        tables

\* So the commands use the ledger as its specification says.
LEMMA CommandsUseLedger == Spec => LedgerSpec
  <1>1. Init => InitLedger
    BY DEF Init
  <1> QED
    BY <1>1, Inductive, StepOnLedger, PTL DEF Spec, LedgerSpec

\* However commands (cli.py:307-458) interleave, are killed, fail or are locked
\* out, every score belongs to a recorded run and every baseline to a recorded
\* run of its own claw, and no recorded payload changes: the checks of
\* run_ledger.py:97-165 do what its schema without foreign keys does not.
THEOREM CommandsKeepReferences == Spec => []ReferencesHold /\ RunsImmutable
  BY CommandsUseLedger, References, Immutable, PTL

-----------------------------------------------------------------------------
(***************************************************************************)
(* Citations, and the rest of the type invariant.                          *)
(***************************************************************************)

\* A command that records never loads.
RecordersInsert ==
    \A p \in Procs : pc[p] = "load" => cmd[p] \notin {"work", "record"}

\* A request in progress is about a stored bundle.
Cited == /\ CitationsHold
         /\ \A p \in Procs : pc[p] = "publish" => rec[p] \in evidence \cap Bundles

OpenerRuns == conn \in {p \in Procs : pc[p] \in Active} \cup {Nobody}

Counted == /\ evidence \subseteq Refs
           /\ started \in 0..MaxCommands /\ faults \in 0..MaxFaults

Ordered == /\ Shape /\ InMemory /\ RecordersInsert
           /\ Cited /\ OpenerRuns /\ Counted

LEMMA OrderedInit == Init => Ordered
  BY InitEstablishes, FoundationAssumptions
  DEF Init, IInv, Ordered, RecordersInsert, Cited, CitationsHold, WorkCites,
      RequestsResolve, OpenerRuns, Counted

\* A process that ends leaves nothing to order.
LEMMA EndOrders ==
  ASSUME Ordered, NEW p \in Procs, NEW result \in Ended, End(p, result),
         UNCHANGED cmd, evidence \subseteq evidence',
         requests' \subseteq evidence' \cap Bundles
  PROVE  RecordersInsert' /\ Cited' /\ OpenerRuns'
  <1>1. /\ pc'[p] \notin Active
        /\ \A q \in Procs \ {p} : pc'[q] = pc[q] /\ rec'[q] = rec[q]
    BY DEF End, Ordered, Shape, Active, Ended
  <1>2. RecordersInsert'
    BY <1>1 DEF Ordered, RecordersInsert, Active
  <1>3. Cited'
    BY <1>1 DEF Ordered, Cited, CitationsHold, WorkCites, RequestsResolve,
                Sources, Active
  <1>4. OpenerRuns'
    BY <1>1 DEF End, Closed, Ordered, OpenerRuns
  <1> QED
    BY <1>2, <1>3, <1>4

\* A step of p that goes on from one place to another, with its payload
\* unchanged or of no concern to the order.
LEMMA GoOnOrders ==
  ASSUME Ordered, NEW p \in Procs, NEW there \in Active,
         pc' = [pc EXCEPT ![p] = there],
         evidence \subseteq evidence', UNCHANGED <<requests, cmd>>,
         conn' \in {conn, p},
         \A q \in Procs \ {p} : rec'[q] = rec[q],
         there = "load" => cmd[p] \notin {"work", "record"},
         there = "publish" => rec'[p] \in evidence' \cap Bundles,
         cmd[p] = "work" /\ there \in {"connect", "insert", "score"}
           => rec'[p].refs \subseteq evidence',
         cmd[p] = "work" /\ there \in {"put", "connect", "insert", "score"}
           => Sources(rec'[p]) \subseteq evidence'
  PROVE  RecordersInsert' /\ Cited' /\ OpenerRuns'
  <1>1. pc'[p] = there /\ \A q \in Procs \ {p} : pc'[q] = pc[q]
    BY DEF Ordered, Shape
  <1>2. RecordersInsert'
    BY <1>1 DEF Ordered, RecordersInsert
  <1>3. \A q \in Procs \ {p} : Sources(rec'[q]) = Sources(rec[q])
    BY DEF Sources
  <1>4. Cited'
    <2>1. WorkCites'
      <3> SUFFICES ASSUME NEW q \in Procs, cmd[q] = "work"
                   PROVE  /\ pc'[q] \in {"connect", "insert", "score"}
                               => rec'[q].refs \subseteq evidence'
                          /\ pc'[q] \in {"put", "connect", "insert", "score"}
                               => Sources(rec'[q]) \subseteq evidence'
        BY DEF WorkCites, Sources
      <3>1. CASE q = p
        BY <1>1, <3>1
      <3>2. CASE q # p
        BY <1>1, <1>3, <3>2 DEF Ordered, Cited, CitationsHold, WorkCites
      <3> QED
        BY <3>1, <3>2
    <2>2. RequestsResolve'
      BY DEF Ordered, Cited, CitationsHold, RequestsResolve
    <2>3. \A q \in Procs : pc'[q] = "publish" => rec'[q] \in evidence' \cap Bundles
      BY <1>1 DEF Ordered, Cited
    <2> QED
      BY <2>1, <2>2, <2>3 DEF Cited, CitationsHold
  <1>5. OpenerRuns'
    BY <1>1 DEF Ordered, OpenerRuns
  <1> QED
    BY <1>2, <1>4, <1>5

\* Beginning a command: a result that cites no source may be stored at once.
LEMMA BeginOrders ==
  ASSUME Ordered, NEW p \in Procs, Begin(p)
  PROVE  RecordersInsert' /\ Cited' /\ OpenerRuns' /\ Counted'
  <1>1. /\ pc[p] \in Ended /\ UNCHANGED <<evidence, requests, conn, faults>>
        /\ started' \in 0..MaxCommands
    BY FoundationAssumptions
    DEF Begin, BeginWork, BeginPut, BeginRequest, BeginRecord, BeginOnRun, CanBegin, Ordered,
        Counted
  <1>2. /\ pc'[p] \in {"read", "put", "connect"}
        /\ \A q \in Procs \ {p} :
             pc'[q] = pc[q] /\ cmd'[q] = cmd[q] /\ rec'[q] = rec[q]
        /\ cmd'[p] = "work" =>
             pc'[p] # "connect" /\ (pc'[p] = "put" => Sources(rec'[p]) = {})
    <2>1. CASE BeginWork(p)
      <3>1. PICK claw \in Claws, ref \in Refs :
              /\ rec' = [rec EXCEPT ![p] = Success(claw, ref)]
              /\ pc' = [pc EXCEPT ![p] = IF Source[ref] = NoRun THEN "put" ELSE "read"]
        BY <2>1 DEF BeginWork
      <3>2. Sources(Success(claw, ref)) = {Source[ref]} \ {NoRun}
        BY DEF Sources, Success
      <3>3. rec'[p] = Success(claw, ref)
        BY <3>1 DEF Ordered, Shape
      <3>4. Sources(rec'[p]) = Sources(Success(claw, ref))
        BY <3>3
      <3>5. pc'[p] = IF Source[ref] = NoRun THEN "put" ELSE "read"
        BY <3>1 DEF Ordered, Shape
      <3>6. \A q \in Procs \ {p} :
              pc'[q] = pc[q] /\ cmd'[q] = cmd[q] /\ rec'[q] = rec[q]
        BY <2>1, <3>1 DEF BeginWork, Ordered, Shape
      <3> HIDE DEF Sources
      <3> QED
        BY <3>2, <3>4, <3>5, <3>6
    <2>2. CASE BeginPut(p) \/ BeginRequest(p) \/ BeginRecord(p) \/ BeginOnRun(p)
      BY <2>2 DEF BeginPut, BeginRequest, BeginRecord, BeginOnRun, Ordered, Shape
    <2> QED
      BY <2>1, <2>2 DEF Begin
  <1>3. \A q \in Procs \ {p} : Sources(rec'[q]) = Sources(rec[q])
    BY <1>2 DEF Sources
  <1>4. RecordersInsert'
    BY <1>2 DEF Ordered, RecordersInsert
  <1>5. Cited'
    <2>1. WorkCites'
      BY <1>1, <1>2, <1>3 DEF Ordered, Cited, CitationsHold, WorkCites, Sources
    <2>2. RequestsResolve'
      BY <1>1 DEF Ordered, Cited, CitationsHold, RequestsResolve
    <2>3. \A q \in Procs : pc'[q] = "publish" => rec'[q] \in evidence' \cap Bundles
      BY <1>1, <1>2 DEF Ordered, Cited
    <2> QED
      BY <2>1, <2>2, <2>3 DEF Cited, CitationsHold
  <1>6. OpenerRuns' /\ Counted'
    BY <1>1, <1>2 DEF Ordered, OpenerRuns, Counted, Active, Ended
  <1> QED
    BY <1>4, <1>5, <1>6

\* Reading a source or a bundle: what is there stays there.
LEMMA ReadOrders ==
  ASSUME Ordered, NEW p \in Procs, ReadSource(p) \/ ReadBundle(p)
  PROVE  RecordersInsert' /\ Cited' /\ OpenerRuns' /\ Counted'
  <1>1. pc[p] = "read" /\ UNCHANGED <<evidence, requests, cmd, started, faults>>
    BY DEF ReadSource, ReadBundle
  <1>2. SUFFICES RecordersInsert' /\ Cited' /\ OpenerRuns'
    BY <1>1 DEF Ordered, Counted
  <1>3. CASE End(p, "error")
    BY <1>1, <1>3, EndOrders
    DEF Ordered, Cited, CitationsHold, RequestsResolve, Ended
  <1>4. CASE /\ cmd[p] = "work" /\ Sources(rec[p]) \subseteq evidence
             /\ pc' = [pc EXCEPT ![p] = "put"] /\ UNCHANGED <<conn, run, rec>>
    <2>1. Sources(rec'[p]) \subseteq evidence'
      BY <1>1, <1>4 DEF Sources
    <2> QED
      BY <1>1, <1>4, <2>1, GoOnOrders DEF Active
  <1>5. CASE /\ cmd[p] # "work" /\ rec[p] \in evidence \cap Bundles
             /\ pc' = [pc EXCEPT ![p] = "publish"] /\ UNCHANGED <<conn, run, rec>>
    BY <1>1, <1>5, GoOnOrders DEF Active
  <1> QED
    BY <1>3, <1>4, <1>5 DEF ReadSource, ReadBundle, Goto, IsBundle

\* Storing evidence: what the run cites is there from now on.
LEMMA PutOrders ==
  ASSUME Ordered, NEW p \in Procs, PutEvidence(p)
  PROVE  RecordersInsert' /\ Cited' /\ OpenerRuns' /\ Counted'
  <1>1. pc[p] = "put" /\ UNCHANGED <<requests, cmd, started, faults>>
    BY DEF PutEvidence
  <1>2. CASE /\ cmd[p] = "put" /\ evidence' = evidence \cup {rec[p]}
             /\ End(p, "ok")
    <2>1. rec[p] \in Refs
      BY <1>1, <1>2 DEF Ordered, InMemory
    <2>2. RecordersInsert' /\ Cited' /\ OpenerRuns'
      BY <1>1, <1>2, EndOrders
      DEF Ordered, Cited, CitationsHold, RequestsResolve, Ended
    <2> QED
      BY <1>1, <1>2, <2>1, <2>2 DEF Ordered, Counted
  <1>3. CASE /\ cmd[p] # "put" /\ evidence' = evidence \cup rec[p].refs
             /\ pc' = [pc EXCEPT ![p] = "connect"] /\ UNCHANGED <<conn, run, rec>>
    <2>1. cmd[p] = "work" /\ rec[p].refs \subseteq Refs
      BY <1>1, <1>3, LedgerAssumptions DEF Ordered, InMemory, Payloads
    <2>2. Sources(rec[p]) \subseteq evidence
      BY <1>1, <2>1 DEF Ordered, Cited, CitationsHold, WorkCites
    <2>3. Sources(rec'[p]) \subseteq evidence'
      BY <1>3, <2>2 DEF Sources
    <2>4. RecordersInsert' /\ Cited' /\ OpenerRuns'
      BY <1>1, <1>3, <2>3, GoOnOrders DEF Active
    <2> QED
      BY <1>1, <1>3, <2>1, <2>4 DEF Ordered, Counted
  <1> QED
    BY <1>2, <1>3 DEF PutEvidence, Goto

\* Asking for the review of the bundle that was read.
LEMMA RequestOrders ==
  ASSUME Ordered, NEW p \in Procs, RequestReview(p)
  PROVE  RecordersInsert' /\ Cited' /\ OpenerRuns' /\ Counted'
  <1>1. /\ pc[p] = "publish" /\ UNCHANGED <<evidence, cmd, started, faults>>
        /\ requests' \subseteq requests \cup {rec[p]}
        /\ \E result \in Ended : End(p, result)
    BY DEF RequestReview, AppendRequest, Ended
  <1>2. requests' \subseteq evidence' \cap Bundles
    BY <1>1 DEF Ordered, Cited, CitationsHold, RequestsResolve
  <1>3. RecordersInsert' /\ Cited' /\ OpenerRuns'
    BY <1>1, <1>2, EndOrders
  <1> QED
    BY <1>1, <1>3 DEF Ordered, Counted

\* A step on the ledger goes on with the payload in order, or ends.
LEMMA LedgerStepOrders ==
  ASSUME Ordered, NEW p \in Procs,
         \/ Connect(p) \/ InsertRun(p) \/ LoadRun(p) \/ StoreScore(p)
         \/ Decide(p) \/ SendHandoff(p)
  PROVE  RecordersInsert' /\ Cited' /\ OpenerRuns' /\ Counted'
  <1>1. UNCHANGED <<evidence, requests, cmd, started, faults>>
    BY DEF Connect, InsertRun, LoadRun, StoreScore, Decide, SendHandoff,
           AppendHandoff
  <1>2. SUFFICES RecordersInsert' /\ Cited' /\ OpenerRuns'
    BY <1>1 DEF Ordered, Counted
  <1>3. CASE \E result \in Ended : End(p, result)
    BY <1>1, <1>3, EndOrders DEF Ordered, Cited, CitationsHold, RequestsResolve
  <1>4. pc[p] \in {"connect", "insert", "score"} /\ cmd[p] = "work"
          => rec[p].refs \subseteq evidence /\ Sources(rec[p]) \subseteq evidence
    BY DEF Ordered, Cited, CitationsHold, WorkCites
  <1>5. rec' = rec => Sources(rec'[p]) = Sources(rec[p])
    BY DEF Sources
  <1>6. CASE /\ Connect(p) /\ conn' = p
             /\ pc[p] = "connect" /\ UNCHANGED rec
             /\ pc' = [pc EXCEPT ![p] = IF cmd[p] \in {"work", "record"}
                                        THEN "insert" ELSE "load"]
    <2>2. CASE cmd[p] \in {"work", "record"}
      BY <1>1, <1>4, <1>5, <1>6, <2>2, GoOnOrders DEF Active
    <2>3. CASE cmd[p] \notin {"work", "record"}
      BY <1>1, <1>6, <2>3, GoOnOrders DEF Active
    <2> QED
      BY <2>2, <2>3
  <1>7. CASE /\ pc[p] = "insert" /\ pc' = [pc EXCEPT ![p] = "score"]
             /\ UNCHANGED <<conn, rec>>
    BY <1>1, <1>4, <1>5, <1>7, GoOnOrders DEF Active
  <1>8. CASE /\ pc[p] = "load" /\ UNCHANGED conn
             /\ rec' = [rec EXCEPT ![p] = runs[run[p]]]
             /\ \E there \in {"decide", "score"} :
                  pc' = [pc EXCEPT ![p] = there]
    <2>1. cmd[p] # "work" /\ \A q \in Procs \ {p} : rec'[q] = rec[q]
      BY <1>8 DEF Ordered, RecordersInsert, Shape
    <2> QED
      BY <1>1, <1>8, <2>1, GoOnOrders DEF Active
  <1>9. CASE /\ UNCHANGED <<conn, rec>>
             /\ \E there \in {"decide", "mail"} :
                  pc' = [pc EXCEPT ![p] = there]
    BY <1>1, <1>9, GoOnOrders DEF Active
  <1>10. CASE Connect(p)
    BY <1>3, <1>6, <1>10 DEF Connect, Goto, Ended
  <1>11. CASE InsertRun(p)
    BY <1>3, <1>7, <1>11 DEF InsertRun, Ended
  <1>12. CASE LoadRun(p)
    BY <1>3, <1>8, <1>12 DEF LoadRun, Goto, Ended
  <1>13. CASE StoreScore(p) \/ Decide(p) \/ SendHandoff(p)
    BY <1>3, <1>9, <1>13 DEF StoreScore, Decide, SendHandoff, Ended
  <1> QED
    BY <1>10, <1>11, <1>12, <1>13

\* A fault ends its process and counts; a request it has written is in order.
LEMMA FaultOrders ==
  ASSUME Ordered, NEW p \in Procs,
         Interrupt(p) \/ FailAfterAppend(p) \/ TearAppend(p)
  PROVE  RecordersInsert' /\ Cited' /\ OpenerRuns' /\ Counted'
  <1>1. /\ \E result \in Ended : End(p, result)
        /\ UNCHANGED <<evidence, cmd, started>> /\ faults' \in 0..MaxFaults
        /\ \/ UNCHANGED requests
           \/ pc[p] = "publish" /\ requests' \subseteq requests \cup {rec[p]}
    BY FoundationAssumptions
    DEF Interrupt, FailAfterAppend, TearAppend, Writing, AppendHandoff,
        AppendRequest, Spend, Ended, Ordered, Counted
  <1>2. requests' \subseteq evidence' \cap Bundles
    BY <1>1 DEF Ordered, Cited, CitationsHold, RequestsResolve
  <1>3. RecordersInsert' /\ Cited' /\ OpenerRuns'
    BY <1>1, <1>2, EndOrders
  <1> QED
    BY <1>1, <1>3 DEF Ordered, Counted

\* Every step keeps the order, given the invariant before and after it.
LEMMA OrderedStep == IInv /\ IInv' /\ Ordered /\ [Next]_vars => Ordered'
  <1> SUFFICES ASSUME IInv', Ordered, [Next]_vars
               PROVE  RecordersInsert' /\ Cited' /\ OpenerRuns' /\ Counted'
    BY DEF Ordered, IInv
  <1>1. CASE UNCHANGED vars \/ EmbeddedSetBaseline
    BY <1>1
    DEF vars, EmbeddedSetBaseline, locals, Ordered, RecordersInsert, Cited,
        CitationsHold, WorkCites, RequestsResolve, Sources, OpenerRuns, Counted
  <1> QED
    BY <1>1, BeginOrders, ReadOrders, PutOrders, RequestOrders,
       LedgerStepOrders, FaultOrders
    DEF Next, Step

\* The order holds for ever.
LEMMA AlwaysOrdered == Spec => []Ordered
  BY OrderedInit, OrderedStep, Inductive, PTL DEF Spec

\* The two files that lines are appended to.
TornFiles == torn \subseteq {"outbox", "requests"}

\* A write that fails half way tears one of them, and the next line mends it.
LEMMA TornStep == TornFiles /\ [Next]_vars => TornFiles'
  <1> SUFFICES ASSUME TornFiles, [Next]_vars PROVE TornFiles'
    OBVIOUS
  <1>1. ASSUME NEW p \in Procs, AppendHandoff(p) \/ AppendRequest(p)
        PROVE  TornFiles'
    BY <1>1 DEF AppendHandoff, AppendRequest, TornFiles
  <1>2. ASSUME NEW p \in Procs, TearAppend(p) PROVE TornFiles'
    BY <1>2 DEF TearAppend, TornFiles
  <1>3. CASE UNCHANGED torn
    BY <1>3 DEF TornFiles
  <1>4. ASSUME NEW p \in Procs,
               RequestReview(p) \/ SendHandoff(p) \/ FailAfterAppend(p)
        PROVE  TornFiles'
    BY <1>1, <1>3, <1>4 DEF RequestReview, SendHandoff, FailAfterAppend
  <1>5. ASSUME NEW p \in Procs, Begin(p) PROVE TornFiles'
    BY <1>3, <1>5 DEF Begin, BeginWork, BeginPut, BeginRequest, BeginRecord,
                      BeginOnRun
  <1>6. ASSUME NEW p \in Procs, Step(p) PROVE TornFiles'
    BY <1>3, <1>4, <1>6
    DEF Step, ReadSource, ReadBundle, PutEvidence, Connect, InsertRun, LoadRun,
        StoreScore, Decide
  <1> QED
    BY <1>2, <1>3, <1>4, <1>5, <1>6
    DEF Next, Interrupt, EmbeddedSetBaseline, vars

\* The state of the commands is well formed for any constants; the process
\* that has the ledger open (run_ledger.py:31-36, 185-192) is running.
THEOREM CommandsTypeCorrect == Spec => []TypeOK
  <1>1. Ordered /\ TornFiles => TypeOK
    BY FoundationAssumptions
    DEF Ordered, Shape, Counted, OpenerRuns, Cited, CitationsHold,
        RequestsResolve, TornFiles, TypeOK
  <1>2. Init => TornFiles
    BY DEF Init, TornFiles
  <1> QED
    BY <1>1, <1>2, AlwaysOrdered, TornStep, PTL DEF Spec

\* A work command never records a run that cites evidence it has not stored, or
\* an evaluation whose source is missing (cli.py:328, 337-366, 221-245), and
\* the Publisher is asked only about stored bundles (cli.py:409-419).
THEOREM CitationsAlwaysHold == Spec => []CitationsHold
  BY AlwaysOrdered, PTL DEF Ordered, Cited

\* A line appended for a process to a whole outbox is about the run it works
\* on, and is not one of those that were there.
LEMMA AppendedIsAbout ==
  ASSUME Shape, NEW p \in Procs, run[p] \in RunIds, rec[p] \in Records,
         AppendHandoff(p), "outbox" \notin torn
  PROVE  AppendsReadable(p)
  <1>1. Handoff(p) \in Handoffs /\ Handoff(p) # Garbled
    BY LedgerAssumptions, FoundationAssumptions DEF Handoff, Handoffs, Payloads
  <1>2. /\ Len(outbox) + 1 \in DOMAIN outbox' \ DOMAIN outbox
        /\ outbox'[Len(outbox) + 1] = Handoff(p)
    BY <1>1 DEF Shape, AppendHandoff
  <1> QED
    BY <1>1, <1>2 DEF Handoff, AppendsReadable

\* What a consider command may leave behind when it ends.
LeavesHandoff(p) ==
  LET score == scores'[run[p]]
  IN  /\ score # NoRun
      /\ pc'[p] = "ok" /\ score < Threshold
           => "outbox" \in torn \/ AppendsReadable(p)
      /\ pc'[p] = "error" /\ faults' = faults
           => /\ score < Threshold
              /\ rec[p].refs = {} \/ rec[p].claw \in Sensitive

\* Of the steps that end a consider command, the decision accepts the score or
\* finds nothing to cite, the handoff writes a line about the run or is
\* refused for its name, and the others are faults.
LEMMA ConsiderStep ==
  ASSUME IInv, faults \in Nat, [Next]_vars, NEW p \in Procs,
         Considering(p), pc'[p] \in Ended
  PROVE  LeavesHandoff(p)
  <1> USE DEF IInv
  <1>1. /\ run[p] \in RunIds /\ Recorded(run[p]) /\ rec[p] = runs[run[p]]
        /\ scores[run[p]] # NoRun /\ scores[run[p]] \in 0..100
        /\ pc[p] \notin Ended
    BY FoundationAssumptions
    DEF Considering, InStep, Judged, Shape, LedgerTypeOK, Ended
  <1>2. rec[p] \in Records
    BY <1>1 DEF Shape, LedgerTypeOK, Recorded
  <1>3. \/ Decide(p) \/ SendHandoff(p)
        \/ Interrupt(p) \/ FailAfterAppend(p) \/ TearAppend(p)
    <2>1. pc'[p] # pc[p]
      BY <1>1
    <2>2. PICK q \in Procs : \/ Begin(q) \/ Step(q) \/ Interrupt(q)
                            \/ FailAfterAppend(q) \/ TearAppend(q)
      BY <2>1 DEF Next, EmbeddedSetBaseline, vars
    <2>3. q = p
      <3>1. CASE Begin(q)
        BY <2>1, <3>1 DEF Shape, Begin, BeginWork, BeginPut, BeginRequest,
           BeginRecord, BeginOnRun
      <3>2. CASE Step(q)
        BY <2>1, <3>2 DEF Shape, Step, ReadSource, ReadBundle, PutEvidence,
           RequestReview, Connect, InsertRun, LoadRun, StoreScore, Decide,
           SendHandoff, Goto, End
      <3>3. CASE Interrupt(q) \/ FailAfterAppend(q) \/ TearAppend(q)
        BY <2>1, <3>3 DEF Shape, Interrupt, FailAfterAppend, TearAppend, End
      <3> QED
        BY <2>2, <3>1, <3>2, <3>3
    <2>4. ~Begin(p)
      BY <1>1 DEF Begin, BeginWork, BeginPut, BeginRequest, BeginRecord,
                  BeginOnRun, CanBegin
    <2>5. ASSUME Step(p) PROVE Decide(p) \/ SendHandoff(p)
      BY <2>5 DEF Considering, Step, ReadSource, ReadBundle, PutEvidence,
         RequestReview, Connect, InsertRun, LoadRun, StoreScore, Goto
    <2> QED
      BY <2>2, <2>3, <2>4, <2>5
  <1>4. CASE Decide(p)
    <2>1. UNCHANGED scores /\ pc'[p] \in Ended
      BY <1>4 DEF Decide, tables
    <2>2. CASE Accepted(scores[run[p]]) /\ End(p, "ok")
      <3>1. ~(scores[run[p]] < Threshold)
        BY <1>1, <2>2, FoundationAssumptions DEF Accepted
      <3>2. pc'[p] = "ok" /\ scores'[run[p]] = scores[run[p]]
        BY <2>1, <2>2 DEF End, Shape
      <3> QED
        BY <1>1, <3>1, <3>2 DEF LeavesHandoff
    <2>3. CASE /\ ~Accepted(scores[run[p]]) /\ ~HasChecksum(rec[p])
               /\ End(p, "error")
      <3>1. scores[run[p]] < Threshold
        BY <1>1, <2>3, FoundationAssumptions DEF Accepted
      <3>2. pc'[p] = "error" /\ scores'[run[p]] = scores[run[p]]
        BY <2>1, <2>3 DEF End, Shape
      <3>3. rec[p].refs = {}
        BY <2>3 DEF HasChecksum
      <3> QED
        BY <1>1, <3>1, <3>2, <3>3 DEF LeavesHandoff
    <2>4. ~(pc' = [pc EXCEPT ![p] = "mail"])
      BY <2>1 DEF Shape, Ended
    <2> QED
      BY <1>4, <2>2, <2>3, <2>4 DEF Decide
  <1>5. CASE SendHandoff(p)
    <2>1. UNCHANGED scores /\ scores[run[p]] < Threshold
      BY <1>5 DEF SendHandoff, Judged, tables
    <2>2. CASE AppendHandoff(p) /\ End(p, "ok")
      BY <1>1, <1>2, <2>1, <2>2, AppendedIsAbout
      DEF LeavesHandoff, End, Shape
    <2>3. CASE rec[p].claw \in Sensitive /\ End(p, "error")
      BY <1>1, <2>1, <2>3 DEF LeavesHandoff, End, Shape
    <2> QED
      BY <1>5, <2>2, <2>3 DEF SendHandoff
  <1>6. CASE Interrupt(p) \/ FailAfterAppend(p) \/ TearAppend(p)
    <2>1. /\ UNCHANGED scores /\ faults' # faults
          /\ \E result \in {"killed", "error"} : End(p, result)
      BY <1>6 DEF Interrupt, FailAfterAppend, TearAppend, Spend, tables
    <2> QED
      BY <1>1, <2>1 DEF LeavesHandoff, End, Shape
  <1> QED
    BY <1>3, <1>4, <1>5, <1>6

\* "A low score creates a deterministic proposal and appends an
\* approval-required handoff" (docs/foundation.md:77): whatever the other
\* processes do and wherever faults strike, a consider command that reports
\* success for a low score has appended its own handoff, readable unless the
\* outbox ended in half a line (adapters.py:188-199); and without a fault it
\* fails only where the envelope is refused.
THEOREM ConsiderAnnounces == Spec => ConsiderHandsOff
  <1>1. IInv /\ TypeOK /\ [Next]_vars
        => [\A p \in Procs : Considering(p) /\ pc'[p] \in Ended
              => LeavesHandoff(p)]_vars
    BY ConsiderStep, FoundationAssumptions DEF TypeOK
  <1>2. Spec => [][\A p \in Procs : Considering(p) /\ pc'[p] \in Ended
                     => LeavesHandoff(p)]_vars
    BY <1>1, Inductive, CommandsTypeCorrect, PTL DEF Spec
  <1> QED
    BY <1>2 DEF ConsiderHandsOff, LeavesHandoff
=============================================================================
