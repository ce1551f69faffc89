--------------------------- MODULE FoundationLoop ---------------------------
(***************************************************************************)
(* The local foundation workflow of cli.py: independent command processes  *)
(* over one state directory.  A work command (github, project evaluate,    *)
(* publication bundle) stores its result as evidence, then records and     *)
(* scores a successful run; evidence put only stores, and publication      *)
(* request asks the Publisher to review a stored bundle.  Run record,      *)
(* score, show and improvement consider work on the ledger, and consider   *)
(* appends a handoff for a low score.  A failing append may leave half a   *)
(* line, and the next line is glued to it.                                 *)
(* DuckDB admits one process to the file at a time; a second one fails.    *)
(***************************************************************************)
EXTENDS RunLedger, Sequences, FiniteSets

CONSTANTS
    Procs,        \* command processes
    Threshold,    \* --threshold of improvement consider
    Sensitive,    \* claws and bundles the mail sensitivity filter refuses
    Bundles,      \* references of publication bundles
    Source,       \* Source[ref]: the evidence an evaluation is about, or NoRun
    MaxCommands,  \* bound on the number of commands
    MaxFaults,    \* bound on the number of processes killed or failing
    Nobody,       \* nobody has the ledger open
    Garbled       \* a line of the outbox that cannot be read

\* The envelope of an improvement handoff.
Handoffs == [run : RunIds, refs : SUBSET Refs]

ASSUME FoundationAssumptions ==
    /\ Nobody \notin Procs /\ Scores = 0..100
    /\ Threshold \in 0..100 /\ Sensitive \subseteq Claws \cup Bundles
    /\ Bundles \subseteq Refs /\ Source \in [Refs -> Refs \cup {NoRun}]
    /\ MaxCommands \in Nat /\ MaxFaults \in Nat
    /\ Garbled \notin Handoffs

VARIABLES
    evidence,   \* references whose bytes are stored
    outbox,     \* lines of mail/outbox.jsonl
    requests,   \* bundles that mail/publisher-requests.jsonl asks about
    torn,       \* which of the two files ends in half a line
    conn,       \* the process that has runs.duckdb open
    pc,         \* where each command is, or how it ended
    cmd,        \* what it does
    run,        \* the run it works on
    rec,        \* the payload or the reference it has in memory
    started,    \* number of commands begun
    faults      \* number of processes killed or failing

locals == <<cmd, run, rec>>
files == <<evidence, outbox, requests, torn>>
vars == <<runs, scores, baselines, evidence, outbox, requests, torn, conn, pc,
          cmd, run, rec, started, faults>>

Kinds == {"put", "work", "request", "record", "score", "show", "consider"}

Active == {"read", "put", "publish", "connect", "insert", "load", "score",
           "decide", "mail"}

\* "error" is the structured JSON error of main; "crash" a traceback.
Ended == {"idle", "ok", "error", "crash", "killed"}

Perfect == [outcome |-> "success", corrections |-> 0, retries |-> 0,
            required |-> 0, granted |-> 0, violations |-> 0]

\* _record_success: a work command reports itself as a flawless run.
Success(claw, ref) == [claw |-> claw, refs |-> {ref}, counters |-> Perfect]

Free == {id \in RunIds : ~Recorded(id)}

Init ==
    /\ InitLedger
    /\ evidence = {} /\ outbox = <<>> /\ requests = {} /\ torn = {}
    /\ conn = Nobody
    /\ pc = [p \in Procs |-> "idle"]
    /\ cmd = [p \in Procs |-> "work"]
    /\ run = [p \in Procs |-> NoRun]
    /\ rec = [p \in Procs |-> NoRun]
    /\ started = 0 /\ faults = 0

Goto(p, here, there) == /\ pc[p] = here
                        /\ pc' = [pc EXCEPT ![p] = there]

ConnectionLeaked(p) == conn

\* `with RunLedger(...)` closes the connection; so does dying.
Closed(p) == IF conn = p THEN Nobody ELSE conn

End(p, result) == /\ pc' = [pc EXCEPT ![p] = result]
                  /\ conn' = Closed(p)
                  /\ run' = [run EXCEPT ![p] = NoRun]
                  /\ rec' = [rec EXCEPT ![p] = NoRun]

-----------------------------------------------------------------------------
(***************************************************************************)
(* Beginning a command.  The bound on identifiers leaves one for each      *)
(* command that may still insert a run.                                    *)
(***************************************************************************)
CanBegin(p) == /\ pc[p] \in Ended
               /\ started < MaxCommands
               /\ started' = started + 1

\* What the evidence in hand is about: an evaluation cites its source.
Sources(r) == {Source[ref] : ref \in r.refs} \ {NoRun}

BeginWork(p) ==
    /\ CanBegin(p)
    /\ \E claw \in Claws, ref \in Refs :
         /\ Success(claw, ref) \in Records
         /\ rec' = [rec EXCEPT ![p] = Success(claw, ref)]
         /\ pc' = [pc EXCEPT ![p] = IF Source[ref] = NoRun THEN "put" ELSE "read"]
    /\ cmd' = [cmd EXCEPT ![p] = "work"]
    /\ UNCHANGED <<tables, files, conn, run, faults>>

\* evidence put of any JSON object.
BeginPut(p) ==
    /\ CanBegin(p)
    /\ \E ref \in Refs : rec' = [rec EXCEPT ![p] = ref]
    /\ cmd' = [cmd EXCEPT ![p] = "put"]
    /\ pc' = [pc EXCEPT ![p] = "put"]
    /\ UNCHANGED <<tables, files, conn, run, faults>>

\* publication request for any reference.
BeginRequest(p) ==
    /\ CanBegin(p)
    /\ \E ref \in Refs : rec' = [rec EXCEPT ![p] = ref]
    /\ cmd' = [cmd EXCEPT ![p] = "request"]
    /\ pc' = [pc EXCEPT ![p] = "read"]
    /\ UNCHANGED <<tables, files, conn, run, faults>>

BeginRecord(p) ==
    /\ CanBegin(p)
    /\ \E r \in Records : rec' = [rec EXCEPT ![p] = r]
    /\ cmd' = [cmd EXCEPT ![p] = "record"]
    /\ pc' = [pc EXCEPT ![p] = "connect"]
    /\ UNCHANGED <<tables, files, conn, run, faults>>

BeginOnRun(p) ==
    /\ CanBegin(p)
    /\ \E id \in RunIds : run' = [run EXCEPT ![p] = id]
    /\ \E kind \in {"score", "show", "consider"} :
         cmd' = [cmd EXCEPT ![p] = kind]
    /\ pc' = [pc EXCEPT ![p] = "connect"]
    /\ UNCHANGED <<tables, files, conn, rec, faults>>

-----------------------------------------------------------------------------
(***************************************************************************)
(* The steps of the commands.                                              *)
(***************************************************************************)

\* PublicationBundle.from_dict accepts it: content and metadata match their
\* hashes, and approval is required.
IsBundle(ref) == ref \in Bundles

\* get_json of an evaluation's source, which evaluate_repository may refuse
\* even when it is stored: for its schema or the project's name or keywords.
ReadSource(p) ==
    /\ pc[p] = "read" /\ cmd[p] = "work"
    /\ \/ /\ Sources(rec[p]) \subseteq evidence
          /\ Goto(p, "read", "put")
          /\ UNCHANGED <<conn, run, rec>>
       \/ End(p, "error")
    /\ UNCHANGED <<tables, files, cmd, started, faults>>

\* get_json of the bundle to be published, which must be one.
ReadBundle(p) ==
    /\ pc[p] = "read" /\ cmd[p] = "request"
    /\ LET found == rec[p] \in evidence /\ IsBundle(rec[p])
       IN  \/ /\ found
              /\ Goto(p, "read", "publish")
              /\ UNCHANGED <<conn, run, rec>>
           \/ ~found /\ End(p, "error")
    /\ UNCHANGED <<tables, files, cmd, started, faults>>

PutSkipped(p) ==
    /\ Goto(p, "put", "connect")
    /\ UNCHANGED <<tables, files, conn, locals, started, faults>>

PutEvidence(p) ==
    /\ pc[p] = "put"
    /\ \/ /\ cmd[p] = "put"
          /\ evidence' = evidence \cup {rec[p]}
          /\ End(p, "ok")
       \/ /\ cmd[p] # "put"
          /\ evidence' = evidence \cup rec[p].refs
          /\ Goto(p, "put", "connect")
          /\ UNCHANGED <<conn, run, rec>>
    /\ UNCHANGED <<tables, outbox, requests, torn, cmd, started, faults>>

\* The envelope for the run in hand.
Handoff(p) == [run |-> run[p], refs |-> rec[p].refs]

\* JsonlMailTransport.send appends one line to its file.  What follows half a
\* line is glued to it, and neither can be read.
AppendHandoff(p) ==
    /\ outbox' = Append(outbox, IF "outbox" \in torn THEN Garbled ELSE Handoff(p))
    /\ torn' = torn \ {"outbox"}
    /\ UNCHANGED requests

AppendRequest(p) ==
    /\ requests' = IF "requests" \in torn THEN requests
                   ELSE requests \cup {rec[p]}
    /\ torn' = torn \ {"requests"}
    /\ UNCHANGED outbox

\* The Publisher gets the bundle's reference, unless its title is refused.
RequestReview(p) ==
    /\ pc[p] = "publish"
    /\ \/ /\ rec[p] \notin Sensitive
          /\ AppendRequest(p)
          /\ End(p, "ok")
       \/ /\ rec[p] \in Sensitive
          /\ End(p, "error")
          /\ UNCHANGED <<outbox, requests, torn>>
    /\ UNCHANGED <<tables, evidence, cmd, started, faults>>

\* duckdb.connect: a file another process has open is an IOException, which
\* is none of the exceptions main turns into a JSON error.
Connect(p) ==
    /\ \/ /\ conn = Nobody
          /\ Goto(p, "connect", IF cmd[p] \in {"work", "record"}
                                THEN "insert" ELSE "load")
          /\ conn' = p
          /\ UNCHANGED <<run, rec>>
       \/ /\ conn # Nobody
          /\ pc[p] = "connect"
          /\ End(p, "crash")
    /\ UNCHANGED <<tables, files, cmd, started, faults>>

\* record_run under a fresh uuid4.
InsertRun(p) ==
    /\ pc[p] = "insert"
    /\ \E id \in Free :
         /\ RecordRun(id, rec[p])
         /\ IF cmd[p] = "work"
            THEN /\ pc' = [pc EXCEPT ![p] = "score"]
                 /\ run' = [run EXCEPT ![p] = id]
                 /\ UNCHANGED <<conn, rec>>
            ELSE End(p, "ok")
    /\ UNCHANGED <<files, cmd, started, faults>>

\* _required_run, and for consider the stored score.
LoadRun(p) ==
    /\ pc[p] = "load"
    /\ \/ /\ ~Recorded(run[p])
          /\ End(p, "error")
       \/ /\ Recorded(run[p]) /\ cmd[p] = "show"
          /\ End(p, "ok")
       \/ /\ Recorded(run[p]) /\ cmd[p] # "show"
          /\ Goto(p, "load",
                  IF cmd[p] = "consider" /\ scores[run[p]] # NoRun
                  THEN "decide" ELSE "score")
          /\ rec' = [rec EXCEPT ![p] = runs[run[p]]]
          /\ UNCHANGED <<conn, run>>
    /\ UNCHANGED <<tables, files, cmd, started, faults>>

ScoreTruncated(r) == Truncated(r.counters)

\* score_run of the payload in memory.
ScoreOf(r) == Overall(r.counters)

\* record_score, by every command that has a run without one.
StoreScore(p) ==
    /\ pc[p] = "score"
    /\ RecordScore(run[p], ScoreOf(rec[p]))
    /\ IF cmd[p] = "consider"
       THEN /\ pc' = [pc EXCEPT ![p] = "decide"]
            /\ UNCHANGED <<conn, run, rec>>
       ELSE End(p, "ok")
    /\ UNCHANGED <<files, cmd, started, faults>>

AcceptNothing(score) == FALSE

Accepted(score) == score >= Threshold

\* artifact_refs_checksum has nothing to hash for a run without artifacts.
HasChecksum(r) == r.refs # {}

\* ImprovementCoordinator.consider: a new coordinator for each command, so
\* nothing was delivered before.
Decide(p) ==
    /\ pc[p] = "decide"
    /\ \/ /\ Accepted(scores[run[p]])
          /\ End(p, "ok")
       \/ /\ ~Accepted(scores[run[p]]) /\ ~HasChecksum(rec[p])
          /\ End(p, "error")
       \/ /\ ~Accepted(scores[run[p]]) /\ HasChecksum(rec[p])
          /\ pc' = [pc EXCEPT ![p] = "mail"]
          /\ UNCHANGED <<conn, run, rec>>
    /\ UNCHANGED <<tables, files, cmd, started, faults>>

MailDropped(p) ==
    /\ pc[p] = "mail"
    /\ End(p, "ok")
    /\ UNCHANGED <<tables, files, cmd, started, faults>>

\* The transport's send to mail/outbox.jsonl, still inside the `with`.
SendHandoff(p) ==
    /\ pc[p] = "mail"
    /\ \/ /\ rec[p].claw \notin Sensitive
          /\ AppendHandoff(p)
          /\ End(p, "ok")
       \/ /\ rec[p].claw \in Sensitive
          /\ End(p, "error")
          /\ UNCHANGED <<outbox, requests, torn>>
    /\ UNCHANGED <<tables, evidence, cmd, started, faults>>

\* A program that embeds the ledger sets a baseline (no command does).
EmbeddedSetBaseline ==
    /\ conn = Nobody
    /\ \E claw \in Claws, id \in RunIds : SetBaseline(claw, id)
    /\ UNCHANGED <<files, conn, pc, locals, started, faults>>

Spend == faults < MaxFaults /\ faults' = faults + 1

\* The process is killed, or the call it is about to make raises OSError.
Interrupt(p) ==
    /\ pc[p] \in Active
    /\ Spend
    /\ \E result \in {"killed", "error"} : End(p, result)
    /\ UNCHANGED <<tables, files, cmd, started>>

\* The process has an accepted handoff or request to write.
Writing(p, file) ==
    \/ file = "outbox" /\ pc[p] = "mail" /\ rec[p].claw \notin Sensitive
    \/ file = "requests" /\ pc[p] = "publish" /\ rec[p] \notin Sensitive

\* The line of a handoff or a request is written, and then its fsync fails or
\* the process is killed.
FailAfterAppend(p) ==
    /\ Spend
    /\ \/ Writing(p, "outbox") /\ AppendHandoff(p)
       \/ Writing(p, "requests") /\ AppendRequest(p)
    /\ \E result \in {"killed", "error"} : End(p, result)
    /\ UNCHANGED <<tables, evidence, cmd, started>>

\* The same with only a part of the line written.
TearAppend(p) ==
    /\ Spend
    /\ \E file \in {"outbox", "requests"} :
         Writing(p, file) /\ torn' = torn \cup {file}
    /\ \E result \in {"killed", "error"} : End(p, result)
    /\ UNCHANGED <<tables, evidence, outbox, requests, cmd, started>>

Step(p) == \/ ReadSource(p) \/ ReadBundle(p) \/ PutEvidence(p)
           \/ RequestReview(p) \/ Connect(p) \/ InsertRun(p) \/ LoadRun(p) \/ StoreScore(p)
           \/ Decide(p) \/ SendHandoff(p)

Begin(p) == \/ BeginWork(p) \/ BeginPut(p) \/ BeginRequest(p)
            \/ BeginRecord(p) \/ BeginOnRun(p)

Next == \/ \E p \in Procs : \/ Begin(p) \/ Step(p) \/ Interrupt(p)
                          \/ FailAfterAppend(p) \/ TearAppend(p)
        \/ EmbeddedSetBaseline

\* A command that has begun runs to its end: it waits for nobody.
Fairness == \A p \in Procs : WF_vars(Step(p))

Spec == Init /\ [][Next]_vars /\ Fairness

-----------------------------------------------------------------------------
(***************************************************************************)
(* Properties.                                                             *)
(***************************************************************************)

\* The state is well formed; the process that has the ledger open is running.
TypeOK ==
    /\ LedgerTypeOK
    /\ evidence \subseteq Refs
    /\ outbox \in Seq(Handoffs \cup {Garbled})
    /\ torn \subseteq {"outbox", "requests"}
    /\ pc \in [Procs -> Active \cup Ended]
    /\ cmd \in [Procs -> Kinds]
    /\ run \in [Procs -> RunIds \cup {NoRun}]
    /\ requests \subseteq Refs
    /\ rec \in [Procs -> Records \cup Refs \cup {NoRun}]
    /\ conn \in {p \in Procs : pc[p] \in Active} \cup {Nobody}
    /\ started \in 0..MaxCommands /\ faults \in 0..MaxFaults

\* Whoever stored it and whoever was killed before, a stored score is what
\* the policy gives for the stored payload.
ScoresFollowPolicy ==
    \A id \in RunIds :
        scores[id] # NoRun => /\ Recorded(id)
                              /\ scores[id] = Overall(runs[id].counters)

\* A handoff that can be read is about a recorded run that scored below the
\* threshold, and cites exactly that run's artifacts.
HandoffsJustified ==
    \A i \in DOMAIN outbox : outbox[i] # Garbled =>
        LET id == outbox[i].run
        IN  /\ Recorded(id) /\ scores[id] # NoRun
            /\ scores[id] < Threshold
            /\ outbox[i].refs = runs[id].refs

\* A work command has stored what it cites, and an evaluation's source is there.
WorkCites ==
    \A p \in Procs : cmd[p] = "work" =>
        /\ pc[p] \in {"connect", "insert", "score"} => rec[p].refs \subseteq evidence
        /\ pc[p] \in {"put", "connect", "insert", "score"}
             => Sources(rec[p]) \subseteq evidence

RequestsResolve == requests \subseteq evidence \cap Bundles

\* The evidence a work command cites is stored before its run is recorded, and
\* what an evaluation is about before the evaluation: a kill in between loses
\* the run and never leaves a dangling citation.  The Publisher is asked only
\* about bundles that are there to be reviewed, whoever stored them.
CitationsHold == WorkCites /\ RequestsResolve

\* The command is about to hand off, or to find that it need not.
Considering(p) == cmd[p] = "consider" /\ pc[p] \in {"decide", "mail"}

\* A handoff about the process's run that this step has appended.
AppendsReadable(p) ==
    \E i \in DOMAIN outbox' \ DOMAIN outbox :
        outbox'[i] # Garbled /\ outbox'[i].run = run[p]

\* "A low score creates a deterministic proposal and appends an
\* approval-required handoff": consider ends with the run's score stored.  It
\* reports success for a low score only with a handoff of its own that can be
\* read, unless an earlier append failed half way and its line is glued to
\* that; and without a fault it fails only for a low-scored run that cites
\* nothing or whose claw's name trips the mail filter.
ConsiderHandsOff ==
    [][\A p \in Procs : Considering(p) /\ pc'[p] \in Ended =>
         LET score == scores'[run[p]]
         IN  /\ score # NoRun
             /\ pc'[p] = "ok" /\ score < Threshold
                  => "outbox" \in torn \/ AppendsReadable(p)
             /\ pc'[p] = "error" /\ faults' = faults
                  => /\ score < Threshold
                     /\ rec[p].refs = {} \/ rec[p].claw \in Sensitive]_vars

\* Every command that has begun comes to an end, and then it does not have the
\* ledger open, whoever holds it meanwhile and whatever fails.
CommandsEnd ==
    \A p \in Procs : pc[p] \in Active ~> pc[p] \in Ended /\ conn # p
=============================================================================
