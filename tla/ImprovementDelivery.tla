------------------------- MODULE ImprovementDelivery -------------------------
(***************************************************************************)
(* ImprovementCoordinator.consider in a managed deployment: coordinators   *)
(* that live as long as their process create a Beads task for a low score, *)
(* append a handoff to the outbox and only then remember the proposal, in  *)
(* memory.  Any of the calls may fail, before or after it had its effect,  *)
(* an append half way, so that the next line is glued to what it left, and *)
(* a restarted process remembers nothing; callers retry.                   *)
(***************************************************************************)
EXTENDS Naturals, Sequences, FiniteSets

CONSTANTS
    Coordinators,  \* processes with a coordinator
    Runs,          \* recorded runs
    Scores,        \* overall scores they may have
    Threshold,     \* the coordinators' threshold
    Unciting,      \* runs that cite no artifact
    Sensitive,     \* runs whose handoff the mail filter refuses
    MaxMishaps,    \* bound on failing calls and restarts per coordinator
    MaxTasks,      \* bound on the tasks of a proposal per coordinator
    NoProposal     \* a coordinator has nothing in hand

\* A proposal is identified by its run and that run's scores.
Proposals == Runs \X Scores

ASSUME DeliveryAssumptions ==
    /\ Scores \subseteq 0..100 /\ Threshold \in 0..100
    /\ Unciting \subseteq Runs /\ Sensitive \subseteq Runs
    /\ MaxMishaps \in Nat /\ MaxTasks \in Nat
    /\ NoProposal \notin Proposals

VARIABLES
    pc,         \* where each coordinator is in consider
    prop,       \* the proposal it has in hand
    delivered,  \* the proposals it remembers as delivered
    tasks,      \* tasks[c][p]: Beads tasks it created for p
    mails,      \* mails[c][p]: handoffs it appended to the outbox, as a whole
    torn,       \* the outbox ends in half a line
    garbled,    \* the handoffs glued to half a line: nobody can read them
    tears,      \* how often an append wrote half a line
    mishaps     \* how often one of its calls failed or it was restarted

outbox == <<mails, torn, garbled, tears>>
vars == <<pc, prop, delivered, tasks, mails, torn, garbled, tears, mishaps>>

Init ==
    /\ pc = [c \in Coordinators |-> "idle"]
    /\ prop = [c \in Coordinators |-> NoProposal]
    /\ delivered = [c \in Coordinators |-> {}]
    /\ tasks = [c \in Coordinators |-> [p \in Proposals |-> 0]]
    /\ mails = [c \in Coordinators |-> [p \in Proposals |-> 0]]
    /\ torn = FALSE /\ garbled = <<>> /\ tears = 0
    /\ mishaps = [c \in Coordinators |-> 0]

Goto(c, here, there) == /\ pc[c] = here
                        /\ pc' = [pc EXCEPT ![c] = there]

\* consider returns or raises.
Return(c) == /\ pc' = [pc EXCEPT ![c] = "idle"]
             /\ prop' = [prop EXCEPT ![c] = NoProposal]

OneMore(counts, c) == [counts EXCEPT ![c][prop[c]] = @ + 1]

Refused(c) == prop[c][1] \in Sensitive

-----------------------------------------------------------------------------
ConsiderForgetful(c, p) ==
    /\ Goto(c, "idle", "create")
    /\ p[2] < Threshold /\ p[1] \notin Unciting
    /\ tasks[c][p] < MaxTasks
    /\ prop' = [prop EXCEPT ![c] = p]
    /\ UNCHANGED <<delivered, tasks, outbox, mishaps>>

\* A score at the threshold is accepted, a remembered proposal returned, and
\* the checksum of a run without artifacts refused: these change nothing.
Consider(c, p) ==
    /\ Goto(c, "idle", "create")
    /\ p[2] < Threshold /\ p[1] \notin Unciting
    /\ p \notin delivered[c]
    /\ tasks[c][p] < MaxTasks
    /\ prop' = [prop EXCEPT ![c] = p]
    /\ UNCHANGED <<delivered, tasks, outbox, mishaps>>

RememberEarly(c) ==
    /\ Goto(c, "create", "send")
    /\ tasks' = OneMore(tasks, c)
    /\ delivered' = [delivered EXCEPT ![c] = @ \cup {prop[c]}]
    /\ UNCHANGED <<prop, outbox, mishaps>>

CreateImprovement(c) ==
    /\ Goto(c, "create", "send")
    /\ tasks' = OneMore(tasks, c)
    /\ UNCHANGED <<prop, delivered, outbox, mishaps>>

\* JsonlMailTransport.send appends one line; what follows half a line is glued
\* to it.
AppendLine(c) ==
    /\ mails' = OneMore(mails, c)
    /\ garbled' = IF torn THEN Append(garbled, <<c, prop[c]>>) ELSE garbled
    /\ torn' = FALSE
    /\ UNCHANGED tears

\* Only a part of the line is written.
AppendHalf ==
    /\ torn' = TRUE
    /\ tears' = tears + 1
    /\ UNCHANGED <<mails, garbled>>

\* The envelope is checked for token-like content before the file is opened.
Send(c) ==
    /\ pc[c] = "send"
    /\ \/ /\ ~Refused(c)
          /\ Goto(c, "send", "mark")
          /\ AppendLine(c)
          /\ UNCHANGED prop
       \/ /\ Refused(c)
          /\ Return(c)
          /\ UNCHANGED outbox
    /\ UNCHANGED <<delivered, tasks, mishaps>>

ReturnUnmarked(c) ==
    /\ pc[c] = "mark"
    /\ Return(c)
    /\ UNCHANGED <<delivered, tasks, outbox, mishaps>>

Mark(c) ==
    /\ pc[c] = "mark"
    /\ delivered' = [delivered EXCEPT ![c] = @ \cup {prop[c]}]
    /\ Return(c)
    /\ UNCHANGED <<tasks, outbox, mishaps>>

Mishap(c) == /\ mishaps[c] < MaxMishaps
             /\ mishaps' = [mishaps EXCEPT ![c] = @ + 1]

\* bd fails, perhaps after it stored the task.
CreateFails(c) ==
    /\ pc[c] = "create"
    /\ Mishap(c)
    /\ tasks' \in {tasks, OneMore(tasks, c)}
    /\ Return(c)
    /\ UNCHANGED <<delivered, outbox>>

\* The append raises OSError: when it opens the file, half way, or in its fsync.
SendFails(c) ==
    /\ pc[c] = "send" /\ ~Refused(c)
    /\ Mishap(c)
    /\ UNCHANGED outbox \/ AppendHalf \/ AppendLine(c)
    /\ Return(c)
    /\ UNCHANGED <<delivered, tasks>>

\* The process ends anywhere and a new one takes its place.
Restart(c) ==
    /\ Mishap(c)
    /\ delivered' = [delivered EXCEPT ![c] = {}]
    /\ Return(c)
    /\ UNCHANGED <<tasks, outbox>>

Step(c) == CreateImprovement(c) \/ Send(c) \/ Mark(c)

Next == \E c \in Coordinators :
           \/ \E p \in Proposals : Consider(c, p)
           \/ Step(c)
           \/ CreateFails(c) \/ SendFails(c) \/ Restart(c)

\* consider runs to its end, and the caller considers each low-scored run
\* again until it is told of a delivery, as a retry after a failure does.
Fairness == \A c \in Coordinators :
               /\ WF_vars(Step(c))
               /\ \A p \in Proposals : WF_vars(Consider(c, p))

Spec == Init /\ [][Next]_vars /\ Fairness

-----------------------------------------------------------------------------
(***************************************************************************)
(* Properties.                                                             *)
(***************************************************************************)

\* "A low score creates one idempotent improvement": in a coordinator none of
\* whose calls failed a proposal gets one task and one handoff, and each
\* mishap accounts for at most one more.  A handoff the filter refuses is the
\* exception: its task exists by then and every retry creates another.
DuplicatesNeedMishaps ==
    \A c \in Coordinators, p \in Proposals :
        /\ mails[c][p] <= 1 + mishaps[c]
        /\ p[1] \notin Sensitive => tasks[c][p] <= 1 + mishaps[c]

\* A coordinator delivers as ReviewDelivery says: at least once until it
\* remembers, never again while it does, no handoff without its task, and no
\* more handoffs that cannot be read than appends that failed half way.
Promise == INSTANCE ReviewDelivery

ImplementsReviewDelivery == Promise!Spec

GluedLines(c, p) == {i \in DOMAIN garbled : garbled[i] = <<c, p>>}

\* A failure does not lose a proposal: retried, every low-scored run that cites
\* artifacts and passes the filter gets delivered by every coordinator, with a
\* handoff that can be read unless an earlier append that failed half way has
\* one of its lines glued to what it left.
RetriesDeliver ==
    \A c \in Coordinators, p \in Proposals :
        p[2] < Threshold /\ p[1] \notin Unciting \cup Sensitive
          => <>[](/\ p \in delivered[c]
                  /\ \/ mails[c][p] > Cardinality(GluedLines(c, p))
                     \/ GluedLines(c, p) # {} /\ tears > 0)
=============================================================================
