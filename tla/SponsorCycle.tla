---------------------------- MODULE SponsorCycle ----------------------------
(***************************************************************************)
(* The sponsorship loop: a scheduled run (research, then ingest, then a    *)
(* notification) and runs the operator starts by hand (ingest of a ready   *)
(* report) share one state directory: the evidence store, the set of       *)
(* drafts already seen, the approval outbox, and the Beads task ledger.    *)
(*                                                                         *)
(* A run keeps nothing when it ends; what survives is what it wrote.  It   *)
(* may be killed between any two steps (launchctl bootout and kickstart -k *)
(* do that to a scheduled run) and any of its calls may raise.             *)
(***************************************************************************)
EXTENDS Naturals, Sequences, FiniteSets

CONSTANTS
    Runners,       \* processes that run `clawgauntlet sponsor ...`
    Scheduled,     \* those started by launchd: research and --notify
    Drafts,        \* draft identities
    Flagged,       \* prospects whose handoff trips the sensitivity filter
    Reports,       \* research reports: sets of at most five prospects
    MaxDrafts,     \* campaign.max_drafts
    UseTasks,      \* --task-dir was given
    MaxRuns,       \* bound on the number of runs
    MaxFaults,     \* bound on the number of faults of each kind
    Nobody,        \* the seen lock is free
    Garbled        \* a line nobody can parse: a torn one and the next, glued

Faults == {"kill", "io", "torn"}

\* What a draft identity leaves out of a prospect is its confidence and its
\* name; name stands for the rest of the order in a report: casefolded name,
\* url and, as sorted() is stable, position.
Prospects == [draft : Drafts, confidence : 0..100, name : Nat]

ASSUME SponsorAssumptions ==
    /\ Scheduled \subseteq Runners /\ Nobody \notin Runners
    /\ Flagged \subseteq Prospects
    /\ Reports \subseteq SUBSET Prospects
    /\ \A r \in Reports : IsFiniteSet(r)
    /\ \A r \in Reports : \A p, q \in r : p.name = q.name => p = q
    /\ MaxDrafts \in 1..5 /\ UseTasks \in BOOLEAN /\ MaxRuns \in Nat
    /\ MaxFaults \in [Faults -> Nat]

VARIABLES
    seen,       \* seen.json
    seenLock,   \* holder of the flock on .seen.lock
    outbox,     \* lines of sponsor-approvals.jsonl
    torn,       \* the outbox ends in the middle of a line
    tasks,      \* Beads tasks created for each draft
    artifacts,  \* evidence: reports, and drafts each citing its report
    scratch,    \* number of research directories; each run makes its own
    notified,   \* drafts announced to the owner
    pc,         \* where each run is, or how it ended
    report,     \* the report a run ingests
    queue,      \* its candidates still to be handled
    snap,       \* the seen set it read under the lock
    fresh,      \* the drafts it queued for review
    runs,       \* number of runs started
    faults      \* how many faults of each kind have happened

store == <<outbox, torn, tasks, artifacts>>
local == <<report, queue, snap, fresh>>
vars  == <<seen, seenLock, outbox, torn, tasks, artifacts, scratch, notified,
           pc, report, queue, snap, fresh, runs, faults>>

Lines == [prospect : Prospects, report : Reports]

ASSUME GarbledAssumption == Garbled \notin Lines

InLock == {"read", "task", "export", "send", "append", "mark"}

Active == {"prepare", "research", "report", "draft", "lock", "notify"}
            \cup InLock

Ended == {"idle", "done", "failed", "killed"}

-----------------------------------------------------------------------------
(***************************************************************************)
(* Ranking: highest confidence first, then by name.                        *)
(***************************************************************************)
Better(p, q) == \/ p.confidence > q.confidence
                \/ p.confidence = q.confidence /\ p.name < q.name

TruncateFirst(rep) ==
    {p \in rep : Cardinality({q \in rep : q.name < p.name}) < MaxDrafts}

\* The first max_drafts prospects of the sorted report.
Candidates(rep) ==
    {p \in rep : Cardinality({q \in rep : Better(q, p)}) < MaxDrafts}

Best(S) == CHOOSE p \in S : \A q \in S \ {p} : Better(p, q)

\* The prospect a run is handling, its draft, and the handoff line for it.
Current(r)   == Best(queue[r])
CurrentId(r) == Current(r).draft
Line(r)      == [prospect |-> Current(r), report |-> report[r]]

\* Readable handoffs that ask for approval of draft d.
Approvals(d) == Cardinality({i \in DOMAIN outbox :
                               /\ outbox[i] # Garbled
                               /\ outbox[i].prospect.draft = d})

Init ==
    /\ seen = {} /\ seenLock = Nobody
    /\ outbox = <<>> /\ torn = FALSE
    /\ tasks = [d \in Drafts |-> 0]
    /\ artifacts = [reports |-> {}, drafts |-> {}]
    /\ scratch = 0 /\ notified = {}
    /\ pc = [r \in Runners |-> "idle"]
    /\ report = [r \in Runners |-> {}]
    /\ queue = [r \in Runners |-> {}]
    /\ snap = [r \in Runners |-> {}]
    /\ fresh = [r \in Runners |-> {}]
    /\ runs = 0
    /\ faults = [k \in Faults |-> 0]

Goto(r, here, there) == /\ pc[r] = here
                        /\ pc' = [pc EXCEPT ![r] = there]

LockKept(r) == seenLock

\* The finally clause, or the kernel, gives up the lock.
Unlocked(r) == IF seenLock = r THEN Nobody ELSE seenLock

\* The run is over; its variables are gone.
Stop(r, result) == /\ pc' = [pc EXCEPT ![r] = result]
                   /\ seenLock' = Unlocked(r)
                   /\ report' = [report EXCEPT ![r] = {}]
                   /\ queue' = [queue EXCEPT ![r] = {}]
                   /\ snap' = [snap EXCEPT ![r] = {}]
                   /\ fresh' = [fresh EXCEPT ![r] = {}]

-----------------------------------------------------------------------------
(***************************************************************************)
(* Starting a run and getting a report.                                    *)
(***************************************************************************)
StartRun(r) ==
    /\ pc[r] \in Ended /\ runs < MaxRuns
    /\ runs' = runs + 1
    /\ \/ /\ r \in Scheduled
          /\ pc' = [pc EXCEPT ![r] = "prepare"]
          /\ UNCHANGED local
       \/ /\ r \notin Scheduled
          /\ \E rep \in Reports : report' = [report EXCEPT ![r] = rep]
          /\ pc' = [pc EXCEPT ![r] = "report"]
          /\ UNCHANGED <<queue, snap, fresh>>
    /\ UNCHANGED <<seen, seenLock, store, scratch, notified, faults>>

\* mkdtemp, which never reuses a directory, and the schema file for the agent.
Prepare(r) ==
    /\ Goto(r, "prepare", "research")
    /\ scratch' = scratch + 1
    /\ UNCHANGED <<seen, seenLock, store, notified, local, runs, faults>>

ResearchUnvalidated(r) ==
    /\ Goto(r, "research", "report")
    /\ \E d \in Drafts : report' = [report EXCEPT ![r] =
          {[draft |-> d, confidence |-> 101, name |-> 1]}]
    /\ scratch' = scratch - 1
    /\ UNCHANGED <<seen, seenLock, store, notified, queue, snap, fresh, runs,
                   faults>>

\* Codex returns a report, or times out, exits non-zero, writes nothing or
\* writes something malformed.
Researched(r) ==
    \/ /\ Goto(r, "research", "report")
       /\ \E rep \in Reports : report' = [report EXCEPT ![r] = rep]
       /\ UNCHANGED <<seenLock, queue, snap, fresh>>
    \/ /\ pc[r] = "research"
       /\ Stop(r, "failed")

ResearchKeepsScratch(r) ==
    /\ Researched(r)
    /\ scratch' = IF pc'[r] = "failed" THEN scratch ELSE scratch - 1
    /\ UNCHANGED <<seen, store, notified, runs, faults>>

\* The run's directory is removed either way.
Research(r) ==
    /\ Researched(r)
    /\ scratch' = scratch - 1
    /\ UNCHANGED <<seen, store, notified, runs, faults>>

-----------------------------------------------------------------------------
(***************************************************************************)
(* SponsorCycle.ingest.                                                    *)
(***************************************************************************)
SortBeforeStoring(r) ==
    /\ Goto(r, "report", "draft")
    /\ queue' = [queue EXCEPT ![r] = Candidates(report[r])]
    /\ UNCHANGED <<seen, seenLock, store, scratch, notified, report, snap,
                   fresh, runs, faults>>

PutReport(r) ==
    /\ Goto(r, "report", "draft")
    /\ artifacts' = [artifacts EXCEPT !.reports = @ \cup {report[r]}]
    /\ queue' = [queue EXCEPT ![r] = Candidates(report[r])]
    /\ UNCHANGED <<seen, seenLock, outbox, torn, tasks, scratch, notified,
                   report, snap, fresh, runs, faults>>

\* The draft artifact is stored on every cycle, seen or not.
PutDraft(r) ==
    /\ queue[r] # {}
    /\ Goto(r, "draft", "lock")
    /\ artifacts' = [artifacts EXCEPT !.drafts = @ \cup {Line(r)}]
    /\ UNCHANGED <<seen, seenLock, outbox, torn, tasks, scratch, notified,
                   local, runs, faults>>

FinishUnnotified(r) ==
    /\ pc[r] = "draft" /\ queue[r] = {}
    /\ Stop(r, "done")
    /\ UNCHANGED <<seen, store, scratch, notified, runs, faults>>

\* No candidate is left: notify if asked to and if there is something new.
FinishIngest(r) ==
    /\ queue[r] = {}
    /\ \/ /\ r \in Scheduled /\ fresh[r] # {}
          /\ Goto(r, "draft", "notify")
          /\ UNCHANGED <<seenLock, local>>
       \/ /\ r \notin Scheduled \/ fresh[r] = {}
          /\ pc[r] = "draft"
          /\ Stop(r, "done")
    /\ UNCHANGED <<seen, store, scratch, notified, runs, faults>>

IgnoreLock == TRUE

SeenFree == seenLock = Nobody

LockSeen(r) ==
    /\ Goto(r, "lock", "read")
    /\ SeenFree
    /\ seenLock' = r
    /\ UNCHANGED <<seen, store, scratch, notified, local, runs, faults>>

ReadSeenBlind(r) ==
    /\ pc[r] = "read"
    /\ pc' = [pc EXCEPT ![r] = IF UseTasks THEN "task" ELSE "send"]
    /\ snap' = [snap EXCEPT ![r] = seen]
    /\ UNCHANGED <<seen, seenLock, store, scratch, notified, report, queue,
                   fresh, runs, faults>>

MarkBeforeActing(r) ==
    /\ \/ /\ pc[r] = "read" /\ CurrentId(r) \in seen
          /\ pc' = [pc EXCEPT ![r] = "draft"]
          /\ seenLock' = Unlocked(r)
          /\ queue' = [queue EXCEPT ![r] = @ \ {Current(r)}]
          /\ UNCHANGED <<seen, snap>>
       \/ /\ pc[r] = "read" /\ CurrentId(r) \notin seen
          /\ pc' = [pc EXCEPT ![r] = IF UseTasks THEN "task" ELSE "send"]
          /\ seen' = seen \cup {CurrentId(r)}
          /\ snap' = [snap EXCEPT ![r] = seen]
          /\ UNCHANGED <<seenLock, queue>>
    /\ UNCHANGED <<store, scratch, notified, report, fresh, runs, faults>>

\* run_once: a draft already seen is skipped, another one is acted on.
ReadSeen(r) ==
    /\ \/ /\ pc[r] = "read" /\ CurrentId(r) \in seen
          /\ pc' = [pc EXCEPT ![r] = "draft"]
          /\ seenLock' = Unlocked(r)
          /\ queue' = [queue EXCEPT ![r] = @ \ {Current(r)}]
          /\ UNCHANGED snap
       \/ /\ pc[r] = "read" /\ CurrentId(r) \notin seen
          /\ pc' = [pc EXCEPT ![r] = IF UseTasks THEN "task" ELSE "send"]
          /\ snap' = [snap EXCEPT ![r] = seen]
          /\ UNCHANGED <<seenLock, queue>>
    /\ UNCHANGED <<seen, store, scratch, notified, report, fresh, runs,
                   faults>>

TaskForgotten(r) ==
    /\ Goto(r, "task", "export")
    /\ UNCHANGED <<seen, seenLock, store, scratch, notified, local, runs,
                   faults>>

\* bd create ...
CreateReview(r) ==
    /\ Goto(r, "task", "export")
    /\ tasks' = [tasks EXCEPT ![CurrentId(r)] = @ + 1]
    /\ UNCHANGED <<seen, seenLock, outbox, torn, artifacts, scratch, notified,
                   local, runs, faults>>

\* ... and bd export, which rewrites the tracker file from the ledger.
ExportReview(r) ==
    /\ Goto(r, "export", "send")
    /\ UNCHANGED <<seen, seenLock, store, scratch, notified, local, runs,
                   faults>>

DropRefused(r) ==
    /\ \/ /\ Goto(r, "send", "append")
          /\ Current(r) \notin Flagged
          /\ UNCHANGED <<seenLock, queue>>
       \/ /\ Goto(r, "send", "draft")
          /\ Current(r) \in Flagged
          /\ seenLock' = Unlocked(r)
          /\ queue' = [queue EXCEPT ![r] = @ \ {Current(r)}]
    /\ UNCHANGED <<seen, store, scratch, notified, report, snap, fresh, runs,
                   faults>>

\* The mail transport refuses a handoff that looks like it holds a secret.
CheckSensitive(r) ==
    /\ \/ /\ Goto(r, "send", "append")
          /\ Current(r) \notin Flagged
          /\ UNCHANGED <<seenLock, local>>
       \/ /\ pc[r] = "send" /\ Current(r) \in Flagged
          /\ Stop(r, "failed")
    /\ UNCHANGED <<seen, store, scratch, notified, runs, faults>>

\* The line is appended, flushed and fsynced, at the end of whatever is there.
Appended(r) == Append(outbox, IF torn THEN Garbled ELSE Line(r))

AppendHandoff(r) ==
    /\ Goto(r, "append", "mark")
    /\ outbox' = Appended(r)
    /\ torn' = FALSE
    /\ UNCHANGED <<seen, seenLock, tasks, artifacts, scratch, notified, local,
                   runs, faults>>

ForgetSeen(r) == {CurrentId(r)}

\* The new contents of seen.json: what was read under the lock, and the draft.
Marked(r) == snap[r] \cup {CurrentId(r)}

MarkSeen(r) ==
    /\ Goto(r, "mark", "draft")
    /\ seen' = Marked(r)
    /\ seenLock' = Unlocked(r)
    /\ fresh' = [fresh EXCEPT ![r] = @ \cup {CurrentId(r)}]
    /\ queue' = [queue EXCEPT ![r] = @ \ {Current(r)}]
    /\ UNCHANGED <<store, scratch, notified, report, snap, runs, faults>>

Notify(r) ==
    /\ pc[r] = "notify"
    /\ notified' = notified \cup fresh[r]
    /\ Stop(r, "done")
    /\ UNCHANGED <<seen, store, scratch, runs, faults>>

Step(r) ==
    \/ Prepare(r)      \/ Research(r)     \/ PutReport(r)
    \/ PutDraft(r)     \/ FinishIngest(r) \/ LockSeen(r)
    \/ ReadSeen(r)     \/ CreateReview(r) \/ ExportReview(r)
    \/ CheckSensitive(r) \/ AppendHandoff(r) \/ MarkSeen(r) \/ Notify(r)

-----------------------------------------------------------------------------
(***************************************************************************)
(* Faults.                                                                 *)
(***************************************************************************)
Spend(k) == /\ faults[k] < MaxFaults[k]
            /\ faults' = [faults EXCEPT ![k] = @ + 1]

Kill(r) ==
    /\ pc[r] \in Active
    /\ Spend("kill")
    /\ Stop(r, "killed")
    /\ UNCHANGED <<seen, store, scratch, notified, runs>>

\* A call raises and the exception ends the run (cli.main prints it).  A
\* failing prepare may have made its directory, a failing `bd create` may have
\* created its task, a failing append may have written its line before the
\* fsync failed, a failing mark may have replaced seen.json before its chmod
\* failed.
Fail(r) ==
    /\ pc[r] \in Active \ {"research", "send", "append", "mark", "prepare",
                           "task"}
    /\ Spend("io")
    /\ Stop(r, "failed")
    /\ UNCHANGED <<seen, store, scratch, notified, runs>>

FailHalfway(r) ==
    /\ Spend("io")
    /\ \/ /\ pc[r] = "prepare"
          /\ scratch' \in {scratch, scratch + 1}
          /\ UNCHANGED <<seen, outbox, torn, tasks>>
       \/ /\ pc[r] = "task"
          /\ tasks' \in {tasks, [tasks EXCEPT ![CurrentId(r)] = @ + 1]}
          /\ UNCHANGED <<seen, outbox, torn, scratch>>
       \/ /\ pc[r] = "append"
          /\ \/ outbox' = Appended(r) /\ torn' = FALSE
             \/ UNCHANGED <<outbox, torn>>
          /\ UNCHANGED <<seen, tasks, scratch>>
       \/ /\ pc[r] = "mark"
          /\ seen' \in {seen, Marked(r)}
          /\ UNCHANGED <<outbox, torn, tasks, scratch>>
    /\ Stop(r, "failed")
    /\ UNCHANGED <<artifacts, notified, runs>>

\* The disk fills up in the middle of the line: a prefix stays in the outbox.
TearAppend(r) ==
    /\ pc[r] = "append"
    /\ Spend("torn")
    /\ torn' = TRUE
    /\ Stop(r, "failed")
    /\ UNCHANGED <<seen, outbox, tasks, artifacts, scratch, notified, runs>>

\* rmtree ignores its errors: the directory stays and the run goes on.
LeaveScratch(r) ==
    /\ Researched(r)
    /\ Spend("io")
    /\ UNCHANGED <<seen, store, scratch, notified, runs>>

Fault(r) == \/ Kill(r) \/ Fail(r) \/ FailHalfway(r) \/ TearAppend(r)
            \/ LeaveScratch(r)

Next == \E r \in Runners : StartRun(r) \/ Step(r) \/ Fault(r)

\* A run keeps going; research is cut off by its own timeout.
Fairness == \A r \in Runners : WF_vars(Step(r))

Spec == Init /\ [][Next]_vars /\ Fairness

-----------------------------------------------------------------------------
(***************************************************************************)
(* Properties.                                                             *)
(***************************************************************************)

\* The state is well formed.
TypeOK ==
    /\ seen \subseteq Drafts
    /\ seenLock \in Runners \cup {Nobody}
    /\ outbox \in Seq(Lines \cup {Garbled})
    /\ torn \in BOOLEAN
    /\ tasks \in [Drafts -> Nat]
    /\ artifacts \in [reports : SUBSET Reports, drafts : SUBSET Lines]
    /\ scratch \in Nat
    /\ notified \subseteq Drafts
    /\ pc \in [Runners -> Active \cup Ended]
    /\ report \in [Runners -> Reports \cup {{}}]
    /\ queue \in [Runners -> SUBSET Prospects]
    /\ snap \in [Runners -> SUBSET Drafts]
    /\ fresh \in [Runners -> SUBSET Drafts]
    /\ runs \in 0..MaxRuns
    /\ faults \in [Faults -> Nat]

\* A run handles the seen set alone: it holds the lock from the read to the
\* write, and a run that acts on a draft does so on the current seen set.
SeenExclusive ==
    \A r \in Runners :
        pc[r] \in InLock => /\ seenLock = r
                            /\ pc[r] # "read" => snap[r] = seen
                            /\ queue[r] # {}

\* No update of seen.json is lost, whoever is interrupted.
SeenGrows == [][seen \subseteq seen']_vars

\* A draft that will never be offered again has a handoff the owner can read,
\* as long as no append stopped in the middle of its line.
SeenHasApproval ==
    faults["torn"] = 0 => \A d \in seen : Approvals(d) >= 1

Interruptions == faults["kill"] + faults["io"] + faults["torn"]

\* Drafts that some flagged prospect stands for.
FlaggedDrafts == {p.draft : p \in Flagged}

\* A draft is queued twice, or gets a second task, only if a run was cut short
\* in between.  A flagged handoff, refused after its task was created, makes
\* every run that finds it create a task.
DuplicatesNeedFaults ==
    \A d \in Drafts :
        /\ Approvals(d) <= 1 + Interruptions
        /\ d \notin FlaggedDrafts => tasks[d] <= 1 + Interruptions

\* "Every draft is ... deduplicated across cycles": one approval request each.
DraftsDeduplicated == \A d \in Drafts : Approvals(d) <= 1

\* Every approval request has its Beads task: the owner's decision has a place
\* to be recorded before it is asked for.
ApprovalHasTask == UseTasks => \A d \in Drafts : Approvals(d) <= tasks[d]

\* What the outbox refers to is in the evidence store: the draft, and the
\* report the draft cites.
RefsResolve ==
    \A i \in DOMAIN outbox :
        outbox[i] # Garbled => /\ outbox[i] \in artifacts.drafts
                               /\ outbox[i].report \in artifacts.reports

\* Only the best max_drafts prospects of a report reach the owner, each after
\* all the better ones.
OnlyBestQueued ==
    \A i \in DOMAIN outbox :
        outbox[i] # Garbled =>
            LET better == {q \in outbox[i].report :
                             Better(q, outbox[i].prospect)}
            IN  /\ Cardinality(better) < MaxDrafts
                /\ \A q \in better : q.draft \in seen

\* "Every proposed external contact creates an approval-required local
\* handoff": a run that ends undisturbed has handed over each of its candidates,
\* or, if it failed, each one better than a candidate whose handoff was refused,
\* whatever has happened to other runs short of a torn line.
RunHandsOffAll ==
    [][\A r \in Runners :
         /\ pc[r] \in Active /\ pc'[r] \in {"done", "failed"}
         /\ faults' = faults /\ faults["torn"] = 0
         => \A p \in Candidates(report[r]) :
              \/ Approvals(p.draft)' >= 1
              \/ /\ pc'[r] = "failed"
                 /\ \E q \in Candidates(report[r]) \cap Flagged :
                      q.draft \notin seen /\ ~Better(p, q)]_vars

\* "New drafts cause a local macOS notification": a scheduled run that ends by
\* itself has announced the drafts it queued.
NewDraftsNotified ==
    [][\A r \in Scheduled :
         pc[r] \in Active /\ pc'[r] \in {"done", "failed"}
           => fresh[r] \subseteq notified']_vars

\* Runs in the middle of their research, each in a directory of its own.
Researching == {r \in Runners : pc[r] = "research"}

\* A research directory outlives its run only if the run was killed, could not
\* finish preparing it or could not remove it.
ScratchRemoved ==
    scratch <= Cardinality(Researching) + faults["kill"] + faults["io"]

\* Every run comes to an end, whatever fails and whoever holds the lock.
RunsEnd == \A r \in Runners : pc[r] \in Active ~> pc[r] \in Ended
=============================================================================
