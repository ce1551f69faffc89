# Claw Gauntlet in TLA+

A verification project for Claw Gauntlet, a local-first Python command line that
collects public evidence, records and scores agent runs, and hands proposals to a
human for approval. The modules here are translated from `src/claw_gauntlet/*.py`;
paths and line numbers below are relative to that directory unless they say
otherwise. `PROJECT.json` maps every definition to the lines it models.

## 1. Inventory of the system

Everything lives under one `--state-dir`. There is no server: each command is a
process that opens the stores, works and exits, so all concurrency is between
processes (a launchd agent, an operator's shell, other programs) on shared files.

| Component | State | Operations | Interacts with |
|---|---|---|---|
| Evidence store (`evidence.py`) | files `evidence/sha256/<2 hex>/<digest>`, lock and temporary files | `put_bytes`, `put_json`, `get_bytes`, `verify` | called by every other component |
| Sponsor cycle (`sponsorship.py`) | `sponsorship/seen.json`, `.seen.lock` | `ingest`, `run_once` | evidence, tasks, mail |
| Research agent (`research_agent.py`) | `research-tmp/cycle-*` | `research` (runs `codex` with a timeout) | feeds ingest |
| Mail transport, task ledgers (`adapters.py`) | `mail/*.jsonl`; Beads (`bd`) | `send`, `create_review`, `create_improvement` | called by ingest and consider |
| RRS policy (`rrs.py`) | none | `score_run`, `is_regression` | run records in, scores out |
| Run ledger (`run_ledger.py`, `run_record.py`) | `runs.duckdb`: runs, scores, baselines | `record_run`, `record_score`, `set_baseline`, getters | commands |
| Improvement coordinator (`improvement.py`) | deliveries, in memory | `consider` | tasks, mail |
| Commands (`cli.py`) | none of their own | `github`, `project`, `publication`, `run`, `improvement`, `evidence`, `sponsor` | all of the above |
| Launch agent (`sponsor_scheduler.py`) | a plist, launchd | `install`, `uninstall`, `status`, `notify_owner` | starts and kills sponsor runs |
| Handoffs (`handoff.py`) | none | envelope validation, checksum | mail |
| GitHub collectors (`github_claws.py`) | none | `repository`, `starred`, `diff_star_snapshots` | evidence |
| Publication, project evaluation, manifests, family | none | pure validation and construction | evidence, mail |

What is hard about it, and what each part must guarantee:

- *Evidence store*: crash consistency of a write-temporary, fsync, rename, fsync
  protocol, with concurrent writers of one digest and renamed directories. A
  returned reference must survive a power loss; no leaf is ever torn; writers of
  a digest exclude each other; failures leave no litter and no lock.
- *Sponsor cycle*: three stores (Beads, outbox, seen set) written one after the
  other by processes that overlap, fail and get killed. A draft must not be marked
  as seen without an approval request, nor be asked for twice without cause; the
  seen set must not lose updates; every candidate must be handed off and announced.
- *Policy and ledger*: numeric edges, and references between tables with no
  foreign keys.
- *Commands*: one process at a time can open the DuckDB file; a run and its score
  are two commits; evidence, ledger, outbox and the Publisher's requests are stores of
  their own. What is cited must be there, and nobody must be asked to review a bundle
  that is not.
- *Improvement coordinator*: a task and a handoff, in two stores, and a memory of
  deliveries that a restart loses. A failed delivery must be retried, a successful one
  not repeated.
- *Launch agent*: the property list and what launchd has loaded are changed by
  commands that overlap, fail half-way and ignore the result of `bootout`.
- *Stars*: a list read page by page while it changes. A comparison of two snapshots
  must not report removals that are artifacts of the reading.

`PROJECT.json` lists the hazards, each at its line with the properties that cover it.

## 2. Modules

| Module | Models | State and actions |
|---|---|---|
| `ContentStore` | the promise of the evidence store | `stored`, `acked`; store, acknowledge, lose what nobody was promised |
| `EvidenceStore` | `evidence.py` | one action per system call of `put_bytes`; faults |
| `SponsorCycle` | `sponsorship.py`, `research_agent.py`, parts of `adapters.py`, `cli.py:277-300`, `notify_owner` | one action per store access of a run; faults |
| `RrsScore` | `rrs.py` | operators |
| `RunLedger` | `run_ledger.py` | one action per operation; extends `RrsScore` |
| `FoundationLoop` | `cli.py:221-253, 301-458`, `improvement.py`, `publication.py` | processes over `RunLedger`'s tables, evidence, outbox and requests |
| `ReviewDelivery` | the promise of an improvement coordinator | `tasks`, `mails`, `garbled`, `tears`, `delivered` |
| `ImprovementDelivery` | `improvement.py` bound to `BeadsTaskLedger` | one action per call `consider` makes; failing calls, restarts |
| `LaunchAgent` | `sponsor_scheduler.py:115-211`, `cli.py:257-274` | one action per call of `install` and `uninstall`; launchd; faults |
| `StarSnapshots` | `github_claws.py:139-217` | one action per page; the owner stars and unstars |
| `*Proofs` | | theorems of the module they extend |
| `MC*` | | finite instances |

`FoundationLoop` composes `RunLedger` and `RrsScore` by extending them: its steps
use `RecordRun`, `RecordScore`, `SetBaseline` and `Overall`. It and `SponsorCycle`
use the evidence store as a set of stored references, which is what `EvidenceStore`
is shown to implement (`ContentStore`). `SponsorCycle` has the kills that the
commands of `LaunchAgent` cause, and the runs that `LaunchAgent` starts are those of
its scheduled runner. `SponsorCycle`, `FoundationLoop` and `ImprovementDelivery` append
to outboxes with the same transport, which may leave half a line: whatever is appended
next is glued to it and neither can be read. There are two refinements, each checked and
proved: `EvidenceStore` implements `ContentStore` and `ImprovementDelivery` implements
`ReviewDelivery`.

Definitions such as `FlushTemporaryOnly`, `LockIgnored` or `ReadSeenBlind`, which
stand just before the action they resemble, are not part of any specification.
Each is a plausible mistake in that action; `PROJECT.json` pairs it with a property
that fails when it takes the action's place.

### Evidence store

`place` is what the name `root/sha256/<prefix>` resolves to: a directory inode, a
symbolic link or nothing. A put opens that directory once (`fd`) and from then on
works in it whatever the name leads to, which is what the descriptor-relative
calls of the code do. `leaf` is what processes see, `durable` the entries as of the
last fsync of their directory, `anchored` says that the directory's own entry has
been fsynced. File contents are `partial`, `cached` (complete, not fsynced),
`whole` or `corrupt`. `pc[w]` walks through `_put_locked`; `discard` is
`_cleanup_name`, `stat` and `unlink` are the two calls of
`_cleanup_installed_inode`. `sha256` and the prefix below it are one component: both
levels are opened, fsynced and rechecked by the same code, and the first one that
differs decides. The root is another: `_open_root` makes it (`MakeRoot`) but nothing
fsyncs the directory it is in, so `root` is `absent`, `made` or `kept` (on disk), and a
power loss may take a `made` root with all that is below it. `get_bytes` and `verify`
change nothing and are the predicate `Verify`.

Faults, each with a budget in `MaxFaults`: a failing call (`io`), a killed process,
a power loss (unfsynced entries may be lost, unfsynced bytes torn, an unanchored
directory or a made root may vanish), corruption in place, a rename of the directory,
and a foreign program that writes a leaf without the lock. Temporary names are unique
(64 random bits), so each writer has its own.

### Sponsor cycle

A runner in `Scheduled` researches (`Prepare`, `Research`) and notifies; any other
ingests a report that is at hand. `report`, `queue`, `snap` and `fresh` are a run's
local variables: its report, the candidates still to handle, the seen set it read
under the lock, the drafts it queued. A candidate goes through `PutDraft`,
`LockSeen`, `ReadSeen`, the two `bd` calls, `CheckSensitive`, `AppendHandoff` and
`MarkSeen`; the lock is held from `LockSeen` on. A prospect is its draft identity
(`_draft_id`), its confidence and the rest of its sort key; two prospects can share
an identity; `Flagged` are prospects, as the filter reads the whole handoff and not
the identity alone. `seen.json` is replaced by a rename, hence one step; the lock
directory is never renamed by the program. `scratch` counts research directories: each
run makes its own with `mkdtemp` and removes that one, so what a killed run left stays
for ever. Faults: kills anywhere, failing calls (with the effects a failing `bd create`,
append or mark may already have had), torn appends, and a research directory that
`rmtree` cannot remove, of which nobody hears (`LeaveScratch`).

### Ledger, policy, commands

`RrsScore` has the arithmetic of `score_run` on unbounded naturals, as Python has.
`Overall` is `(sum + 1) \div 3`: the rounding of a third has no ties.
`RunLedger` has the tables as functions with `NoRun` for a missing row. The ledger's
operations on one connection are sequential, so each is one action; refusals
change nothing and are disabled actions.

`FoundationLoop` has one action per access to a store. `Bundles` are the references
of valid publication bundles, `Source` says which evidence an evaluation is about;
`requests` is the set of bundles that readable lines of `mail/publisher-requests.jsonl`
ask about (a repeated request appends a line the set does not show). `torn` says which
of the two files ends in half a line; a handoff glued to one is `Garbled`. A process
opens the ledger (`Connect`) and keeps it until its `with` block ends (`End`), however it ends; a
second process that tries to open it fails at once, as DuckDB does. `work` stands
for the three commands with the same shape (collect or compute, put evidence,
record, score); an evaluation reads its source first and may refuse it even when it is
there (`ReadSource`). `consider` uses a new coordinator, so nothing counts as delivered.
The identifiers bound one run per command; `Free` is the fresh `uuid4`. `evidence put`
may store any reference, a bundle or an evaluation too. Faults are kills, failing calls
and appends of a whole or half a line whose process then fails or is killed.

### Improvement coordinator

`prop[c]` is the proposal in hand, `delivered[c]` the dictionary in memory. A proposal
is its run and score, as `_proposal_for` identifies it by them. `Consider` covers
everything before the first call; a score at the threshold, a remembered proposal and a
run without artifacts change nothing and are no steps. `CreateFails` and `SendFails`
are failing calls, with or without their effect or, for an append, with half of it;
`Restart` is a new process with an empty dictionary; `mishaps[c]` counts them. A kill in
the middle of a call is the failing call followed by a restart. The coordinators share
the outbox: `torn` says that it ends in half a line, `garbled` lists the handoffs that
were glued to one, `tears` counts the half lines. `ReviewDelivery` allows at most as many
unreadable handoffs as there were half lines.

### Launch agent

`plist` is the file, `loaded` the agent launchd has, `running` its run. launchd is
external: `bootout` by path needs the file, `bootstrap` refuses a label that is loaded,
a login loads what the file says. `start[p]` is history: `clear` for a command that
overlaps no other, has no failing call and did not find an orphan, i.e. a loaded
agent without a property list. The launchctl process of a killed command has done its
work by then or never will.

### Star snapshots

`stars` is the list GitHub serves, newest first; `reading` is a collection under way
with its page, its names, and as history what was starred throughout (`steady`), at
some time (`ever`), and how many were unstarred (`lapses`). `Payload` is what one
request returns. A snapshot is `complete` when a page was not full. `FetchFails` stands
for HTTP errors, oversized or malformed responses and entries that the normalisation
refuses.

## 3. Runs

| Run | Checks | Shows |
|---|---|---|
| `storm` | `TypeOK`, `LeafNeverTorn`, `OneWriterPerDigest`, `NoTempLeft`, `ValidLeafKept`, `RelocationCleaned`, `AckDurableBelowRoot` | two writers, one digest, two directories, root there or not; one of each fault but kills, or two renames, a kill and a corruption, or two power losses: what is acknowledged is durable unless a root that a put made goes with it, or the put that makes the directory has not synced it yet; every temporary file left is accounted for |
| `failures` | `ImplementsContentStore`, `LocksReleased` | two digests in an existing directory; a failing call and a kill, or two power losses: refinement and lock release |
| `faults` | `TypeOK`, `SeenExclusive`, `SeenHasApproval`, `DuplicatesNeedFaults`, `ApprovalHasTask`, `ScratchRemoved`, `RefsResolve`, `RunHandsOffAll`, `SeenGrows`, `RunsEnd` | two runners, three runs, one of each fault, a prospect whose handoff the mail filter refuses |
| `ranking` | `OnlyBestQueued`, `DraftsDeduplicated`, `NewDraftsNotified` | four undisturbed runs without Beads, ties, overlapping reports, a draft under two names |
| `policy` | `NearestScore`, `BadRunsProposed`, `WorseNeverHigher` | all records with small counters |
| `foundation` | `TypeOK`, `ScoresFollowPolicy`, `HandoffsJustified`, `CitationsHold`, `ReferencesHold`, `CommandsEnd`, `ConsiderHandsOff` | two processes, three commands of seven kinds, a fault; a run that cites nothing, names the filter refuses |
| `improvement` | `DuplicatesNeedMishaps`, `ImplementsReviewDelivery`, `RetriesDeliver` | two coordinators on one outbox; a run that can be delivered, one the filter refuses, one that cites nothing; scores on both sides of the threshold; two mishaps of each coordinator |
| `agent` | `CommandsTakeEffect`, `OrphansRepairedByRetry`, `OrphansNeedDisturbance` | two commands at a time, any number in sequence, two schedules, any number of faults |
| `stars` | `MissesNeedUnstars`, `DeltasExplained` | any number of collections of up to three pages, four repositories, two unstarred |

What the ledger's own operations promise needs no run of its own: `foundation` checks
`ReferencesHold` of all commands, and it is proved of them together with `RunsImmutable`
(`CommandsKeepReferences`).

Runs whose property is a statement of the documentation, a test or a comment and
whose counterexample is a behaviour of the code:

| Run | Property | Behaviour |
|---|---|---|
| `fastpath` | `AckIsDurable` | a put whose directory fsync fails; the retry finds the leaf and acknowledges without an fsync |
| `removed` | `RelocatedPutLeavesNothing` | the directory is renamed away and nothing takes its place: no cleanup |
| `silent` | `NewDraftsNotified` | a failing run never announces what it queued |

### Known limitations of the code

The passing runs state their properties for the circumstances in which the code keeps
them. Outside those, TLC finds these behaviours too; each is one change of a
constant or of a condition away from a run above:

- `AckIsDurable` with `InitialPlace = "absent"` and a power loss (the two exceptions of
  `AckDurableBelowRoot`). A single first put makes the root (`evidence.py:246-248`),
  never fsyncs the directory it is in and returns its reference; the power loss takes
  the whole store. And when two first puts race on the `mkdir` below the root, the loser
  (lines 265-266) may return before the winner has fsynced the parent (line 268).
- `AckIsDurable` with one kill instead of the failing call: as `fastpath`, by another put.
- A program that ignores the digest lock can replace the leaf between the cleanup's
  identity check and its unlink (`evidence.py:357-359`), which then deletes that
  program's file. `ValidLeafKept` is stated of the behaviours without such a program.
- `DraftsDeduplicated` with one kill: between `mail.send` and the write of
  `seen.json` (`sponsorship.py:286-288`) the handoff is queued and will be queued again.
- `SeenHasApproval` with a torn append (without its condition): the next handoff is glued to the remains of the
  torn one (`adapters.py:194`), its draft is marked, and the line cannot be parsed
  (`cli.py:467-468`).
- `RunHandsOffAll` without its exception: for a flagged prospect `mail.send` raises
  (`adapters.py:176-177`) and the run ends before the candidates after it. The draft's
  Beads task exists by then, so every cycle that finds it creates one more
  (`DuplicatesNeedFaults` excepts such drafts from its bound on tasks).
- `ScratchRemoved` without its allowance for ignored errors: `rmtree` fails silently
  (`research_agent.py:170`), and nothing removes the directory later.
- `ConsiderHandsOff` excepts a run without artifacts: the checksum needs a reference
  (`handoff.py:104-106`), so `consider` stores the score and ends in an error. Without
  its clause on `torn`, the property has a counterexample in an undisturbed `consider`
  that follows an append which failed half way: it reports success for a handoff that
  is glued to the half line (`adapters.py:188-197`) and unreadable.
- `RetriesDeliver` and `ReviewDelivery` without their allowance for half lines: the retry
  after an append that failed half way is glued to what it left, and is then remembered
  as delivered; nothing sends the proposal again in that process.
- `DuplicatesNeedMishaps` without its condition on `Sensitive`: the task is created
  before the filter sees the handoff (`improvement.py:86-87`), so every retry of a
  refused one creates another task.
- `OrphansNeedDisturbance` has the behaviours it excepts: an uninstall whose `bootout`
  fails, or that overlaps an install, reports "uninstalled" and leaves the agent loaded
  without a file (`sponsor_scheduler.py:186-189`); a second uninstall cannot boot it
  out either. And of two first installs that overlap, one may load its schedule and the
  other replace the file before its own `bootstrap` fails: the loaded schedule is not
  the one on disk until the next install.
- `schedule status` reports "running" for an agent that is loaded (`cli.py:271-272`),
  whether or not it runs.
- `MissesNeedUnstars` without `lapses`: a repository unstarred between two requests
  moves the next one over the page boundary, and a snapshot called complete misses
  it. The next comparison then reports it as added.
- `publication bundle` does not look whether the evidence it cites is stored, and
  `publication request` asks about any stored bundle, also one whose command was
  killed before it recorded its run.
- A command that starts while another has `runs.duckdb` open ends with a
  traceback (`crash`): `duckdb.IOException` is none of the exceptions `main` catches
  (`cli.py:503-513`).

### Bounds

- Two writers or processes are enough for every race here: each lock, rename or
  append involves one other party at a time. Two directories give a name something
  else to resolve to, two digests show that locks and leaves do not interfere.
- Fault budgets of one (two for renames and power losses) put a fault at every
  step and let the retry after it run undisturbed; `storm` combines five kinds,
  `faults` its three.
- `storm` identifies the two writers (`SYMMETRY`): nothing distinguishes them, and
  the run has no liveness property.
- Reports of three prospects with a cut at two exercise ties, truncation, a
  draft found again with another confidence, and a report the cut changes; three or
  four runs let a draft be found, interrupted, found again and skipped.
- Counters up to 4 (12 for retries) reach both clamps and the free retries.
- Three commands: record or work, consider, and one that interferes; a put, the
  evaluation of what it put, and a request. Evidence `e2` is an evaluation of `e1`; of the
  bundles `b1` and `b2` the filter refuses the second. One fault leaves the half line, and
  the two commands after it append to it, or to the line glued to it.
- `improvement`: a `MaxMishaps` of two for each coordinator lets one leave half a line and
  restart, or leave two. `MaxTasks` of 4 is more than two mishaps and a delivery take, so
  it stops only the retries of refused handoffs.
- `agent` has no bounds: its state space is finite.
- `stars` has a `PageSize` of one, so that every position is at a page boundary, and lists
  of up to four for three pages, so that a list can be cut off or end with a full page;
  the proofs are for every page size. Repositories are interchangeable (`SYMMETRY`).
- `MaxRuns`, `MaxCommands`, `MaxTasks` and `MaxUnstars` end the behaviours of those
  models, hence `CHECK_DEADLOCK FALSE` there; an agent nobody commands may rest, too.
  `EvidenceStore` checks deadlock.

### Fairness

`WF` of each process's own steps, never of faults or of starting a command: a
process that can take a step and is not killed takes it. Every action of a process is
a system call, a library call or a subprocess; research has a timeout in the code
(`research_agent.py:151`), the other calls are assumed to return. Weak fairness is
enough for `RunsEnd` although runs wait for the lock: the number of runs is bounded,
so the lock cannot be taken from a waiting run for ever. `ImprovementDelivery` adds
`WF` of `Consider` for each proposal: callers retry after a failure, as
`src/tests/test_improvement.py:77` does; without them nothing would. `LaunchAgent` and
`StarSnapshots` have safety properties only.

## 4. Proofs

TLAPS checks all proofs from the modules alone, and proves every safety property of the
passing runs: the runs show it on a small instance, the theorem for every value of the
constants. Assumptions are the named `ASSUME`s on constants, which TLC evaluates in every
run whose module has them: sentinels differ from values, budgets are numbers, records are
well formed, the repositories are finitely many, the prospects of a report have distinct
ranks (`sorted` is stable, so the position in the report is the last part of the order),
and a garbled line is none that can be read.

- `EvidenceStoreProofs`
  - `TypeCorrect`, `NeverTorn`, `MutualExclusion`. The inductive invariant `IInv` is a
    conjunction of the type invariant, "a put past the lock holds the lock of the
    directory it has open" (exclusion follows, because a lock has one holder), "a
    temporary file that may be renamed is whole" and "leaves and durable entries are not
    partial". `LeafNeverTorn` alone is not inductive: a replace copies the temporary's
    contents, and a power loss brings back durable entries.
  - `RelocationIsCleaned`: step by step, the put that raises after its replace comes
    from `unlink` or from a `stat` that found somebody else's leaf.
  - `NoTemporaryLeft` needs that without a rename an open directory is the one in
    place (`OpenIsPlace`), and that a temporary file belongs to a put that will discard
    or rename it (`TempOwned`).
  - `ValidLeavesKept` needs `LeafAsFound`: what a put saw under its lock (no valid
    leaf before it replaces one, its own before it removes one) is still so when it
    acts, as only the holder of the lock changes the leaf.
  - `AcknowledgedIsDurable`, invariant `QuietInv`: while power losses are the only
    faults, a parent that is not fsynced is about to be by some put, the entries on disk
    are those that processes see but for one put's last rename, and a put that is about
    to return has its leaf on disk. The invariant is about what lies below the root
    (`BelowRoot`); a root that goes is the first of the two exceptions.
  - `StorePromise`, the refinement of `ContentStore`. Its hypotheses are the class
    doc's trusted root: the directory is in place, nobody renames it, corrupts or
    bypasses it (so its root is on disk), and in a behaviour either calls fail and
    processes die, or power is lost, any number of times. With both the promise is false (run `fastpath`), and
    with `InitialPlace = "absent"` too (see the limitations). The invariant adds to the
    above that the directory stays anchored and that a put past its replace has a
    matching leaf.
- `SponsorCycleProofs`
  - `Exclusive`, `NoLostUpdate`. Invariant: a run in the locked section holds the lock
    and, past the read, its `snap` is the current `seen`. `SeenGrows` follows because the
    mark writes `snap` and a draft.
  - `RefsAlwaysResolve` has an invariant of its own: a run past `PutReport` has its
    report stored, a run past `PutDraft` also the draft in hand, stored drafts cite
    stored reports, and the outbox is a sequence of stored drafts and garbled lines.
  - `CycleTypeCorrect`: beyond `TypeOK`, a run that has not read its report has nothing
    in hand, and its queue is part of its report. That a best candidate exists is proved
    by well-founded induction over the finite report (`BestIsBest`).
  - `SeenIsAsked`, `DuplicatesExplained`, `TasksComeFirst`, from one invariant about the
    owner's records, `RecordsInv`. It says for each draft what approvals and tasks there can
    be at each place of the one run that works on it: for instance at most one approval for
    each interruption while it is unseen, one more once it is seen or about to be marked. Actions enter
    this proof through `Effect(r)`, eight small cases of what a step does to the records,
    so the arithmetic is done once for each effect.
  - `ScratchAccounted`: a run that researches has one directory of the count. Only a
    kill, a failing `Prepare` and a removal that fails leave one that no run has, each
    at most one.
  - `BestComeFirst`: what a run has taken off its queue is seen, and its queue is the
    rest of the best `MaxDrafts` of its report.
  - `UndisturbedHandsOff` has no hypotheses: the property itself is about a run's own
    undisturbed end, and says what a refused handoff or a torn line changes.
    `UndisturbedOnce` and `UndisturbedAnnounces` have hypotheses on faults, as the
    properties fail without them (see the limitations, and the run `silent`): no fault at
    all for one approval per draft; no flagged prospect, failing call or torn line for
    the notification, with kills in any number.
- `RrsScoreProofs`: `ScoreInRange`, `RoundsToNearest`, `BadRunsRejected`,
  `NeverRewardsWorse`, for records with any counters. The arithmetic is in lemmas
  about three numbers from 0 to 100; the theorems instantiate them with the
  dimensions. `WalkRounds`, `WalkRejects` and `WalkMonotone` carry them over to the
  walk of `MCRrsScore`, whose records have counters in `Nat` in every state. A record gets
  worse by one more correction, retry, violation or required approval, one approval
  less, or a worse outcome.
- `RunLedgerProofs`: `References`, `Immutable`.
- `FoundationLoopProofs`: `ScoresAreTrue`, `HandoffsAreTrue`, `CommandsKeepReferences`,
  `CommandsTypeCorrect`, `CitationsAlwaysHold`, `ConsiderAnnounces`. Invariant: a process
  that reads or writes tables has the ledger open; after loading or inserting, its payload
  in memory is the stored one; a process about to mail has a stored score below the
  threshold. A rescored run keeps its score because both follow the policy and the
  payload never changes, so old handoffs stay justified. From the same invariant every
  step a command takes on the tables is a ledger operation with legal arguments (lemma
  `CommandsUseLedger`), and the invariant of `RunLedgerProofs` gives
  `CommandsKeepReferences`. Citations add that a work command past `put` has put its
  evidence, past `read` found its source, that a request past `read` has a stored bundle,
  and that evidence is never removed. `ConsiderAnnounces`: of the steps that end a consider
  command, only a decision that accepts the stored score and an append report success, and
  the append is readable unless the outbox ended in half a line; the others fail for the
  two reasons the property names.
- `ImprovementDeliveryProofs`: `DuplicatesExplained`, `PromiseKept`. Invariant: a
  proposal that is neither remembered nor past the call in question has cost at most
  one task, and one handoff, for each mishap; one more once it is. The bound alone is
  not inductive: it does not say that a coordinator about to create has not used it up.
  The refinement needs that a proposal in hand is not remembered, that handoffs are
  fewer than tasks at `send` and there at `mark`, and that the unreadable handoffs, and
  the half line at the end of the outbox if there is one, are no more than the appends
  that failed half way (`Explained`).
- `LaunchAgentProofs`: `ReportsAreTrue`, `RetriesRepair`, `OrphansExplained`. The
  invariant says, for each place a command can be in, what a clear one has achieved by
  then (past `unload` nothing is loaded, past `write` the file is its own, past
  `bootstrap` so is the agent) and that a clear or orphan-beginning command is alone.
- `StarSnapshotsProofs`: `MissesExplained`, `ComparisonsExplained`. Invariant: of the
  steady entries before the boundary of the pages read, at most one for each lapse is
  not among the names. A new star moves entries away from the boundary; removing one
  moves a single entry over it; a page shows all between two boundaries. The
  comparison's three sets are parts of what the snapshots miss.

Only model-checked: liveness (`LocksReleased`, `RunsEnd`, `CommandsEnd`,
`RetriesDeliver`), as TLAPS handles neither fairness nor `ENABLED`. What a recursive
definition computes is also out of the prover's reach; the modules have none. The three
properties of the `violation` runs are false of the code, and TLC shows the behaviours.

## 5. Not modelled

- `get_bytes` under concurrent replacement: it reads one inode it holds open and
  hashes what it read.
- Ownership and mode checks of directories and locks, `fchmod` and `chmod`: the
  state directory is private by assumption of the class doc (`evidence.py:56-58`).
- A kill inside `_SeenDrafts._write` leaves a `.seen.*.tmp` file nobody reads.
- Validation of field formats in records, envelopes, campaigns, prospects and
  bundles; inputs are the valid ones, invalid ones end a command before it writes.
- DuckDB's own crash recovery: statements autocommit and are assumed atomic.
- `evaluate_repository`'s verdict: a pure keyword match over one artifact. That it may
  refuse its input is the second alternative of `ReadSource`.
- A `--threshold` out of range: `consider` refuses it after it has stored the score, which
  leaves the state of an `Interrupt` that fails at `decide`.
- Other writers of a coordinator's outbox: a deployment chooses the file. One that leaves
  half a line there has the effect of a coordinator that does.
- `manifest.py`, `family.py`, `__main__.py`: constant data, its validation, an entry
  point; nothing changes.
- Two readers' failures: `sponsor inbox` cannot show anything once a line is garbled, and
  comparing snapshots of two accounts raises; both change no state.

## 6. Plan

Done, in the order of importance: evidence store with its abstract specification,
sponsor cycle, policy, ledger, foundation commands with publication requests,
improvement coordinator with its abstract specification, launch agent, star snapshots;
theorems of each.

Next: theorems about the operators that readers of the stores rely on (what `Approvals`
counts when lines are torn), and for `ContentStore` the promise of a directory that is
not yet in place, for one writer. Then a decision table for `evaluate_repository`,
and `LaunchAgent` composed with `SponsorCycle`'s runs.
