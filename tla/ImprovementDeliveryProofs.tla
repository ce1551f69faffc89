---------------------- MODULE ImprovementDeliveryProofs ----------------------
(***************************************************************************)
(* For any runs, scores and mishaps, improvement coordinators keep the     *)
(* promise of ReviewDelivery and create no more duplicates than mishaps    *)
(* explain.  The argument: a proposal that is neither remembered nor past  *)
(* the call in question has cost at most one task, or one handoff, for     *)
(* each mishap; and half a line is glued to at most one handoff.           *)
(***************************************************************************)
EXTENDS ImprovementDelivery, TLAPS

\* A step that leaves the outbox alone leaves each part of it alone.
USE DEF outbox

Typed ==
    /\ pc \in [Coordinators -> {"idle", "create", "send", "mark"}]
    /\ prop \in [Coordinators -> Proposals \cup {NoProposal}]
    /\ delivered \in [Coordinators -> SUBSET Proposals]
    /\ tasks \in [Coordinators -> [Proposals -> Nat]]
    /\ mails \in [Coordinators -> [Proposals -> Nat]]
    /\ mishaps \in [Coordinators -> Nat]

\* A coordinator works on a proposal that it does not remember.
Working ==
    \A c \in Coordinators : pc[c] # "idle" =>
        prop[c] \in Proposals /\ prop[c] \notin delivered[c]

At(c, p, places) == pc[c] \in places /\ prop[c] = p

\* Handoffs follow tasks: one is due before it is sent, and there after that.
Paired ==
    \A c \in Coordinators, p \in Proposals :
        /\ mails[c][p] <= tasks[c][p]
        /\ At(c, p, {"send"}) => mails[c][p] < tasks[c][p]
        /\ At(c, p, {"mark"}) => mails[c][p] > 0

\* What a proposal may have cost beyond one for each mishap.
TaskDone(c, p) == p \in delivered[c] \/ At(c, p, {"send", "mark"})
MailDone(c, p) == p \in delivered[c] \/ At(c, p, {"mark"})

Few(count, limit, done) == count <= limit + 1 /\ (~done => count <= limit)

Accounted ==
    \A c \in Coordinators, p \in Proposals :
        /\ Few(mails[c][p], mishaps[c], MailDone(c, p))
        /\ p[1] \notin Sensitive => Few(tasks[c][p], mishaps[c], TaskDone(c, p))

\* The inductive invariant.
IInv == Typed /\ Working /\ Paired /\ Accounted

\* At first nothing is in hand, created or sent.
LEMMA InitEstablishes == Init => IInv
  BY DEF Init, IInv, Typed, Working, Paired, Accounted, At, Few

\* What a step of one coordinator has to show: the rest is as it was.
LEMMA OneCoordinator ==
  ASSUME IInv, NEW c \in Coordinators, Typed',
         \A d \in Coordinators \ {c} :
            /\ pc'[d] = pc[d] /\ prop'[d] = prop[d] /\ delivered'[d] = delivered[d]
            /\ tasks'[d] = tasks[d] /\ mails'[d] = mails[d] /\ mishaps'[d] = mishaps[d],
         pc'[c] # "idle" => prop'[c] \in Proposals /\ prop'[c] \notin delivered'[c],
         \A p \in Proposals :
            /\ mails'[c][p] <= tasks'[c][p]
            /\ At(c, p, {"send"})' => mails'[c][p] < tasks'[c][p]
            /\ At(c, p, {"mark"})' => mails'[c][p] > 0
            /\ Few(mails'[c][p], mishaps'[c], MailDone(c, p)')
            /\ p[1] \notin Sensitive => Few(tasks'[c][p], mishaps'[c], TaskDone(c, p)')
  PROVE  IInv'
  <1>1. Working'
    BY DEF IInv, Working
  <1>2. \A d \in Coordinators \ {c}, p \in Proposals :
           /\ At(d, p, {"send"})' = At(d, p, {"send"})
           /\ At(d, p, {"mark"})' = At(d, p, {"mark"})
           /\ MailDone(d, p)' = MailDone(d, p)
           /\ TaskDone(d, p)' = TaskDone(d, p)
    BY DEF At, MailDone, TaskDone
  <1>3. Paired'
    <2> SUFFICES ASSUME NEW d \in Coordinators, NEW p \in Proposals
                 PROVE  /\ mails'[d][p] <= tasks'[d][p]
                        /\ At(d, p, {"send"})' => mails'[d][p] < tasks'[d][p]
                        /\ At(d, p, {"mark"})' => mails'[d][p] > 0
      BY DEF Paired, At
    <2>1. CASE d = c
      BY <2>1
    <2>2. CASE d # c
      BY <1>2, <2>2 DEF IInv, Paired
    <2> QED
      BY <2>1, <2>2
  <1>4. Accounted'
    <2> SUFFICES ASSUME NEW d \in Coordinators, NEW p \in Proposals
                 PROVE  /\ Few(mails'[d][p], mishaps'[d], MailDone(d, p)')
                        /\ p[1] \notin Sensitive =>
                             Few(tasks'[d][p], mishaps'[d], TaskDone(d, p)')
      BY DEF Accounted, Few, MailDone, TaskDone, At
    <2>1. CASE d = c
      BY <2>1
    <2>2. CASE d # c
      BY <1>2, <2>2 DEF IInv, Accounted, Few
    <2> QED
      BY <2>1, <2>2
  <1> QED
    BY <1>1, <1>3, <1>4 DEF IInv

\* Taking up a proposal costs nothing yet.
LEMMA ConsiderKeeps ==
  ASSUME IInv, NEW c \in Coordinators, NEW q \in Proposals, Consider(c, q)
  PROVE  IInv'
  <1> USE DEF Consider, Goto
  <1>1. Typed'
    BY DEF IInv, Typed
  <1>2. /\ pc[c] = "idle" /\ pc'[c] = "create" /\ prop'[c] = q
        /\ q \notin delivered[c]
    BY DEF IInv, Typed
  <1>3. \A p \in Proposals :
          /\ ~At(c, p, {"send"})' /\ ~At(c, p, {"mark"})'
          /\ MailDone(c, p)' = MailDone(c, p) /\ TaskDone(c, p)' = TaskDone(c, p)
    BY <1>2 DEF At, MailDone, TaskDone
  <1>4. \A p \in Proposals :
          /\ mails[c][p] <= tasks[c][p]
          /\ Few(mails[c][p], mishaps[c], MailDone(c, p))
          /\ p[1] \notin Sensitive => Few(tasks[c][p], mishaps[c], TaskDone(c, p))
    BY DEF IInv, Paired, Accounted
  <1>5. \A p \in Proposals :
          /\ Few(mails'[c][p], mishaps'[c], MailDone(c, p)')
          /\ p[1] \notin Sensitive => Few(tasks'[c][p], mishaps'[c], TaskDone(c, p)')
    BY <1>3, <1>4 DEF Few
  <1> QED
    BY <1>1, <1>2, <1>3, <1>4, <1>5, OneCoordinator DEF IInv, Typed

\* Counting up the tasks, or the handoffs, of the proposal in hand.
LEMMA OneMoreCounts ==
  ASSUME IInv, NEW c \in Coordinators, pc[c] # "idle",
         NEW counts \in [Coordinators -> [Proposals -> Nat]]
  PROVE  /\ OneMore(counts, c) \in [Coordinators -> [Proposals -> Nat]]
         /\ \A d \in Coordinators \ {c} : OneMore(counts, c)[d] = counts[d]
         /\ \A p \in Proposals :
              OneMore(counts, c)[c][p] =
                 IF p = prop[c] THEN counts[c][p] + 1 ELSE counts[c][p]
  BY DEF IInv, Working, OneMore

\* A created task is the one that a delivery may cost.
LEMMA CreateKeeps ==
  ASSUME IInv, NEW c \in Coordinators, CreateImprovement(c) PROVE IInv'
  <1>1. /\ pc[c] = "create" /\ pc' = [pc EXCEPT ![c] = "send"]
        /\ tasks' = OneMore(tasks, c)
        /\ UNCHANGED <<prop, delivered, mails, mishaps>>
    BY DEF CreateImprovement, Goto
  <1>2. /\ tasks' \in [Coordinators -> [Proposals -> Nat]]
        /\ \A d \in Coordinators \ {c} : tasks'[d] = tasks[d]
        /\ \A p \in Proposals :
             tasks'[c][p] = IF p = prop[c] THEN tasks[c][p] + 1 ELSE tasks[c][p]
    BY <1>1, OneMoreCounts DEF IInv, Typed
  <1>3. Typed' /\ pc'[c] = "send" /\ \A d \in Coordinators \ {c} : pc'[d] = pc[d]
    BY <1>1, <1>2 DEF IInv, Typed
  <1>4. prop[c] \in Proposals /\ prop[c] \notin delivered[c]
    BY <1>1 DEF IInv, Working
  <1>5. ASSUME NEW p \in Proposals
        PROVE  /\ mails'[c][p] <= tasks'[c][p]
               /\ At(c, p, {"send"})' => mails'[c][p] < tasks'[c][p]
               /\ At(c, p, {"mark"})' => mails'[c][p] > 0
               /\ Few(mails'[c][p], mishaps'[c], MailDone(c, p)')
               /\ p[1] \notin Sensitive => Few(tasks'[c][p], mishaps'[c], TaskDone(c, p)')
    <2>1. /\ mails[c][p] \in Nat /\ tasks[c][p] \in Nat /\ mishaps[c] \in Nat
          /\ mails[c][p] <= tasks[c][p]
          /\ Few(mails[c][p], mishaps[c], MailDone(c, p))
          /\ p[1] \notin Sensitive => Few(tasks[c][p], mishaps[c], TaskDone(c, p))
      BY DEF IInv, Typed, Paired, Accounted
    <2>2. CASE p = prop[c]
      <3>1. ~TaskDone(c, p) /\ TaskDone(c, p)' /\ MailDone(c, p)' = MailDone(c, p)
            /\ ~At(c, p, {"mark"})'
        BY <1>1, <1>3, <1>4, <2>2 DEF At, TaskDone, MailDone
      <3> QED
        BY <1>1, <1>2, <2>1, <2>2, <3>1 DEF Few
    <2>3. CASE p # prop[c]
      <3>1. TaskDone(c, p)' = TaskDone(c, p) /\ MailDone(c, p)' = MailDone(c, p)
            /\ ~At(c, p, {"mark"})' /\ ~At(c, p, {"send"})'
        BY <1>1, <2>3 DEF At, TaskDone, MailDone
      <3> QED
        BY <1>1, <1>2, <2>1, <2>3, <3>1 DEF Few
    <2> QED
      BY <2>2, <2>3
  <1> QED
    BY <1>1, <1>2, <1>3, <1>4, <1>5, OneCoordinator

\* And so is a sent handoff.
LEMMA SendKeeps ==
  ASSUME IInv, NEW c \in Coordinators, pc[c] = "send", ~Refused(c),
         pc' = [pc EXCEPT ![c] = "mark"], mails' = OneMore(mails, c),
         UNCHANGED <<prop, delivered, tasks, mishaps>>
  PROVE  IInv'
  <1>1. /\ mails' \in [Coordinators -> [Proposals -> Nat]]
        /\ \A d \in Coordinators \ {c} : mails'[d] = mails[d]
        /\ \A p \in Proposals :
             mails'[c][p] = IF p = prop[c] THEN mails[c][p] + 1 ELSE mails[c][p]
    BY OneMoreCounts DEF IInv, Typed
  <1>2. Typed' /\ pc'[c] = "mark" /\ \A d \in Coordinators \ {c} : pc'[d] = pc[d]
    BY <1>1 DEF IInv, Typed
  <1>3. prop[c] \in Proposals /\ prop[c] \notin delivered[c]
    BY DEF IInv, Working
  <1>4. ASSUME NEW p \in Proposals
        PROVE  /\ mails'[c][p] <= tasks'[c][p]
               /\ At(c, p, {"send"})' => mails'[c][p] < tasks'[c][p]
               /\ At(c, p, {"mark"})' => mails'[c][p] > 0
               /\ Few(mails'[c][p], mishaps'[c], MailDone(c, p)')
               /\ p[1] \notin Sensitive => Few(tasks'[c][p], mishaps'[c], TaskDone(c, p)')
    <2>1. /\ mails[c][p] \in Nat /\ tasks[c][p] \in Nat /\ mishaps[c] \in Nat
          /\ mails[c][p] <= tasks[c][p]
          /\ At(c, p, {"send"}) => mails[c][p] < tasks[c][p]
          /\ Few(mails[c][p], mishaps[c], MailDone(c, p))
          /\ p[1] \notin Sensitive => Few(tasks[c][p], mishaps[c], TaskDone(c, p))
      BY DEF IInv, Typed, Paired, Accounted
    <2>2. TaskDone(c, p)' = TaskDone(c, p) /\ ~At(c, p, {"send"})'
      BY <1>2 DEF At, TaskDone
    <2>3. CASE p = prop[c]
      <3>1. ~MailDone(c, p) /\ MailDone(c, p)' /\ At(c, p, {"send"})
        BY <1>2, <1>3, <2>3 DEF At, MailDone
      <3> QED
        BY <1>1, <2>1, <2>2, <2>3, <3>1 DEF Few
    <2>4. CASE p # prop[c]
      <3>1. MailDone(c, p)' = MailDone(c, p) /\ ~At(c, p, {"mark"})'
        BY <2>4 DEF At, MailDone
      <3> QED
        BY <1>1, <2>1, <2>2, <2>4, <3>1 DEF Few
    <2> QED
      BY <2>3, <2>4
  <1> QED
    BY <1>1, <1>2, <1>3, <1>4, OneCoordinator

\* Remembering a proposal whose task and handoff are there.
LEMMA MarkKeeps == ASSUME IInv, NEW c \in Coordinators, Mark(c) PROVE IInv'
  <1>1. /\ pc[c] = "mark" /\ pc' = [pc EXCEPT ![c] = "idle"]
        /\ prop' = [prop EXCEPT ![c] = NoProposal]
        /\ delivered' = [delivered EXCEPT ![c] = @ \cup {prop[c]}]
        /\ UNCHANGED <<tasks, mails, mishaps>>
    BY DEF Mark, Return
  <1>2. prop[c] \in Proposals
    BY <1>1 DEF IInv, Working
  <1>3. Typed' /\ pc'[c] = "idle" /\ delivered'[c] = delivered[c] \cup {prop[c]}
    BY <1>1, <1>2 DEF IInv, Typed
  <1>4. ASSUME NEW p \in Proposals
        PROVE  /\ mails'[c][p] <= tasks'[c][p]
               /\ At(c, p, {"send"})' => mails'[c][p] < tasks'[c][p]
               /\ At(c, p, {"mark"})' => mails'[c][p] > 0
               /\ Few(mails'[c][p], mishaps'[c], MailDone(c, p)')
               /\ p[1] \notin Sensitive => Few(tasks'[c][p], mishaps'[c], TaskDone(c, p)')
    <2>1. /\ mails[c][p] <= tasks[c][p]
          /\ Few(mails[c][p], mishaps[c], MailDone(c, p))
          /\ p[1] \notin Sensitive => Few(tasks[c][p], mishaps[c], TaskDone(c, p))
      BY DEF IInv, Paired, Accounted
    <2>2. /\ ~At(c, p, {"send"})' /\ ~At(c, p, {"mark"})'
          /\ MailDone(c, p) => MailDone(c, p)'
          /\ TaskDone(c, p) => TaskDone(c, p)'
      BY <1>1, <1>3 DEF At, MailDone, TaskDone
    <2> QED
      BY <1>1, <2>1, <2>2 DEF Few
  <1> QED
    BY <1>1, <1>3, <1>4, OneCoordinator DEF IInv, Typed

\* A mishap accounts for what the proposal in hand has cost by then.
LEMMA MishapCovers ==
  ASSUME NEW count \in Nat, NEW more \in Nat, NEW limit \in Nat, NEW next \in Nat,
         NEW done, NEW doneNext, next = limit + 1, Few(count, limit, done),
         more = count \/ (~done /\ more = count + 1)
  PROVE  Few(more, next, doneNext)
  <1>1. CASE more = count
    BY <1>1 DEF Few
  <1>2. CASE ~done /\ more = count + 1
    BY <1>2 DEF Few
  <1> QED
    BY <1>1, <1>2

\* A handoff more for a task that had none, or a task more.
LEMMA PairsStay ==
  ASSUME NEW mail \in Nat, NEW task \in Nat, NEW mailNext \in Nat,
         NEW taskNext \in Nat, mail <= task,
         mailNext = mail \/ (mail < task /\ mailNext = mail + 1),
         taskNext = task \/ taskNext = task + 1
  PROVE  mailNext <= taskNext
  OBVIOUS

\* A call that failed, with or without its effect, and a restart.
LEMMA MishapKeeps ==
  ASSUME IInv, NEW c \in Coordinators, Return(c), Mishap(c),
         \/ /\ pc[c] = "create" /\ tasks' \in {tasks, OneMore(tasks, c)}
            /\ UNCHANGED <<delivered, mails>>
         \/ /\ pc[c] = "send" /\ mails' \in {mails, OneMore(mails, c)}
            /\ UNCHANGED <<delivered, tasks>>
         \/ /\ delivered' = [delivered EXCEPT ![c] = {}]
            /\ UNCHANGED <<tasks, mails>>
  PROVE  IInv'
  <1>1. /\ pc' = [pc EXCEPT ![c] = "idle"] /\ prop' = [prop EXCEPT ![c] = NoProposal]
        /\ mishaps' = [mishaps EXCEPT ![c] = @ + 1]
    BY DEF Return, Mishap
  <1>2. /\ tasks' \in [Coordinators -> [Proposals -> Nat]]
        /\ mails' \in [Coordinators -> [Proposals -> Nat]]
        /\ \A d \in Coordinators \ {c} : tasks'[d] = tasks[d] /\ mails'[d] = mails[d]
        /\ \A p \in Proposals :
             /\ \/ tasks'[c][p] = tasks[c][p]
                \/ At(c, p, {"create"}) /\ tasks'[c][p] = tasks[c][p] + 1
             /\ \/ mails'[c][p] = mails[c][p]
                \/ At(c, p, {"send"}) /\ mails'[c][p] = mails[c][p] + 1
    <2> DEFINE Counts == [Coordinators -> [Proposals -> Nat]]
    <2>1. tasks \in Counts /\ mails \in Counts
      BY DEF IInv, Typed
    <2>2. CASE UNCHANGED <<tasks, mails>>
      BY <2>1, <2>2
    <2>3. CASE pc[c] = "create" /\ tasks' = OneMore(tasks, c) /\ UNCHANGED mails
      <3>1. /\ OneMore(tasks, c) \in Counts
            /\ \A d \in Coordinators \ {c} : OneMore(tasks, c)[d] = tasks[d]
            /\ \A p \in Proposals : OneMore(tasks, c)[c][p] =
                 IF p = prop[c] THEN tasks[c][p] + 1 ELSE tasks[c][p]
        BY <2>1, <2>3, OneMoreCounts
      <3>2. \A p \in Proposals : p = prop[c] => At(c, p, {"create"})
        BY <2>3 DEF At
      <3> QED
        BY <2>1, <2>3, <3>1, <3>2
    <2>4. CASE pc[c] = "send" /\ mails' = OneMore(mails, c) /\ UNCHANGED tasks
      <3>1. /\ OneMore(mails, c) \in Counts
            /\ \A d \in Coordinators \ {c} : OneMore(mails, c)[d] = mails[d]
            /\ \A p \in Proposals : OneMore(mails, c)[c][p] =
                 IF p = prop[c] THEN mails[c][p] + 1 ELSE mails[c][p]
        BY <2>1, <2>4, OneMoreCounts
      <3>2. \A p \in Proposals : p = prop[c] => At(c, p, {"send"})
        BY <2>4 DEF At
      <3> QED
        BY <2>1, <2>4, <3>1, <3>2
    <2>5. \/ UNCHANGED <<tasks, mails>>
          \/ pc[c] = "create" /\ tasks' = OneMore(tasks, c) /\ UNCHANGED mails
          \/ pc[c] = "send" /\ mails' = OneMore(mails, c) /\ UNCHANGED tasks
      OBVIOUS
    <2> QED
      BY <2>2, <2>3, <2>4, <2>5
  <1>3. Typed' /\ pc'[c] = "idle" /\ mishaps'[c] = mishaps[c] + 1
    <2>1. delivered' \in [Coordinators -> SUBSET Proposals]
      BY DEF IInv, Typed
    <2>2. mishaps' \in [Coordinators -> Nat] /\ mishaps'[c] = mishaps[c] + 1
      BY <1>1 DEF IInv, Typed
    <2>3. /\ pc' \in [Coordinators -> {"idle", "create", "send", "mark"}]
          /\ prop' \in [Coordinators -> Proposals \cup {NoProposal}]
          /\ pc'[c] = "idle"
      BY <1>1 DEF IInv, Typed
    <2> QED
      BY <1>2, <2>1, <2>2, <2>3 DEF Typed
  <1>4. ASSUME NEW p \in Proposals
        PROVE  /\ mails'[c][p] <= tasks'[c][p]
               /\ At(c, p, {"send"})' => mails'[c][p] < tasks'[c][p]
               /\ At(c, p, {"mark"})' => mails'[c][p] > 0
               /\ Few(mails'[c][p], mishaps'[c], MailDone(c, p)')
               /\ p[1] \notin Sensitive => Few(tasks'[c][p], mishaps'[c], TaskDone(c, p)')
    <2>1. /\ mails[c][p] \in Nat /\ tasks[c][p] \in Nat /\ mishaps[c] \in Nat
          /\ mails'[c][p] \in Nat /\ tasks'[c][p] \in Nat
          /\ mails[c][p] <= tasks[c][p]
          /\ At(c, p, {"send"}) => mails[c][p] < tasks[c][p]
          /\ Few(mails[c][p], mishaps[c], MailDone(c, p))
          /\ p[1] \notin Sensitive => Few(tasks[c][p], mishaps[c], TaskDone(c, p))
      BY <1>2 DEF IInv, Typed, Paired, Accounted
    <2>2. ~At(c, p, {"send"})' /\ ~At(c, p, {"mark"})'
      BY <1>3 DEF At
    <2>3. /\ At(c, p, {"create"}) => ~TaskDone(c, p)
          /\ At(c, p, {"send"}) => ~MailDone(c, p)
      BY DEF IInv, Working, At, TaskDone, MailDone
    <2>4. /\ \/ mails'[c][p] = mails[c][p]
             \/ mails[c][p] < tasks[c][p] /\ mails'[c][p] = mails[c][p] + 1
          /\ \/ tasks'[c][p] = tasks[c][p]
             \/ tasks'[c][p] = tasks[c][p] + 1
      BY <1>2, <2>1, Zenon
    <2>5. /\ \/ mails'[c][p] = mails[c][p]
             \/ ~MailDone(c, p) /\ mails'[c][p] = mails[c][p] + 1
          /\ \/ tasks'[c][p] = tasks[c][p]
             \/ ~TaskDone(c, p) /\ tasks'[c][p] = tasks[c][p] + 1
      BY <1>2, <2>3, Zenon
    <2>6. mails'[c][p] <= tasks'[c][p]
      BY <2>1, <2>4, PairsStay, Zenon
    <2>7. mishaps'[c] \in Nat
      BY <1>3 DEF Typed
    <2>8. Few(mails'[c][p], mishaps'[c], MailDone(c, p)')
      BY <1>3, <2>1, <2>5, <2>7, MishapCovers, Zenon
    <2>9. p[1] \notin Sensitive => Few(tasks'[c][p], mishaps'[c], TaskDone(c, p)')
      BY <1>3, <2>1, <2>5, <2>7, MishapCovers, Zenon
    <2> QED
      BY <2>2, <2>6, <2>8, <2>9
  <1> QED
    BY <1>1, <1>2, <1>3, <1>4, OneCoordinator DEF IInv, Typed

\* The filter refuses a handoff: its task is not accounted for any more.
LEMMA RefusalKeeps ==
  ASSUME IInv, NEW c \in Coordinators, pc[c] = "send", Refused(c), Return(c),
         UNCHANGED <<delivered, tasks, mails, mishaps>>
  PROVE  IInv'
  <1>1. /\ pc' = [pc EXCEPT ![c] = "idle"] /\ prop' = [prop EXCEPT ![c] = NoProposal]
    BY DEF Return
  <1>2. Typed' /\ pc'[c] = "idle"
    BY <1>1 DEF IInv, Typed
  <1>3. ASSUME NEW p \in Proposals
        PROVE  /\ mails'[c][p] <= tasks'[c][p]
               /\ At(c, p, {"send"})' => mails'[c][p] < tasks'[c][p]
               /\ At(c, p, {"mark"})' => mails'[c][p] > 0
               /\ Few(mails'[c][p], mishaps'[c], MailDone(c, p)')
               /\ p[1] \notin Sensitive => Few(tasks'[c][p], mishaps'[c], TaskDone(c, p)')
    <2>1. /\ mails[c][p] <= tasks[c][p]
          /\ Few(mails[c][p], mishaps[c], MailDone(c, p))
          /\ p[1] \notin Sensitive => Few(tasks[c][p], mishaps[c], TaskDone(c, p))
      BY DEF IInv, Paired, Accounted
    <2>2. /\ ~At(c, p, {"send"})' /\ ~At(c, p, {"mark"})'
          /\ MailDone(c, p)' = MailDone(c, p)
          /\ p[1] \notin Sensitive => TaskDone(c, p)' = TaskDone(c, p)
      BY <1>2 DEF At, MailDone, TaskDone, Refused
    <2> QED
      BY <2>1, <2>2 DEF Few
  <1> QED
    BY <1>1, <1>2, <1>3, OneCoordinator DEF IInv, Typed

\* Every step preserves the invariant.
LEMMA NextKeeps == IInv /\ [Next]_vars => IInv'
  <1> SUFFICES ASSUME IInv, [Next]_vars PROVE IInv'
    OBVIOUS
  <1>1. CASE UNCHANGED vars
    BY <1>1 DEF vars, IInv, Typed, Working, Paired, Accounted, At, Few, MailDone,
                TaskDone
  <1>2. ASSUME NEW c \in Coordinators, Send(c) PROVE IInv'
    BY <1>2, SendKeeps, RefusalKeeps DEF Send, Goto, AppendLine
  <1>3. ASSUME NEW c \in Coordinators, CreateFails(c) \/ SendFails(c) \/ Restart(c)
        PROVE  IInv'
    BY <1>3, MishapKeeps
    DEF CreateFails, SendFails, Restart, AppendLine, AppendHalf
  <1> QED
    BY <1>1, <1>2, <1>3, ConsiderKeeps, CreateKeeps, MarkKeeps DEF Next, Step

\* The invariant holds for ever.
LEMMA Inductive == Spec => []IInv
  BY InitEstablishes, NextKeeps, PTL DEF Spec

-----------------------------------------------------------------------------
\* However many calls fail and processes restart, a coordinator creates no more
\* tasks and handoffs for a proposal than one and one for each such mishap
\* (improvement.py:58-89), unless the mail filter refuses its handoff.
THEOREM DuplicatesExplained == Spec => []DuplicatesNeedMishaps
  <1>1. IInv => DuplicatesNeedMishaps
    <2> SUFFICES ASSUME IInv, NEW c \in Coordinators, NEW p \in Proposals
                 PROVE  /\ mails[c][p] <= 1 + mishaps[c]
                        /\ p[1] \notin Sensitive => tasks[c][p] <= 1 + mishaps[c]
      BY DEF DuplicatesNeedMishaps
    <2>1. mishaps[c] + 1 = 1 + mishaps[c]
      BY DEF IInv, Typed
    <2> QED
      BY <2>1 DEF IInv, Accounted, Few
  <1> QED
    BY <1>1, Inductive, PTL

\* Half a line at the end of the outbox has spoiled no handoff yet.
Waiting == IF torn THEN 1 ELSE 0

\* The handoffs that cannot be read are explained by torn appends.
Explained ==
    /\ torn \in BOOLEAN /\ tears \in Nat
    /\ garbled \in Seq(Coordinators \X Proposals)
    /\ Len(garbled) + Waiting <= tears

\* At first the outbox is empty.
LEMMA ExplainedInit == Init => Explained
  <1> SUFFICES ASSUME Init PROVE Explained
    OBVIOUS
  <1>1. torn = FALSE /\ garbled = <<>> /\ tears = 0
    BY DEF Init
  <1>2. garbled \in Seq(Coordinators \X Proposals) /\ Len(garbled) = 0
    BY <1>1
  <1>3. Waiting = 0
    BY <1>1 DEF Waiting
  <1>4. torn \in BOOLEAN /\ tears \in Nat
    BY <1>1
  <1>5. Len(garbled) + Waiting <= tears
    BY <1>1, <1>2, <1>3
  <1> QED
    BY <1>2, <1>4, <1>5 DEF Explained

\* A whole line takes the half line away and may be glued to it; half a line
\* more is one more tear.
LEMMA ExplainedStep == IInv /\ Explained /\ [Next]_vars => Explained'
  <1> SUFFICES ASSUME IInv, Explained, [Next]_vars PROVE Explained'
    OBVIOUS
  <1>1. ASSUME NEW c \in Coordinators, pc[c] = "send", AppendLine(c)
        PROVE  Explained'
    <2>1. <<c, prop[c]>> \in Coordinators \X Proposals
      BY <1>1 DEF IInv, Working
    <2>2. CASE torn
      <3>1. /\ garbled' = Append(garbled, <<c, prop[c]>>)
            /\ torn' = FALSE /\ tears' = tears
        BY <1>1, <2>2 DEF AppendLine
      <3>2. /\ garbled' \in Seq(Coordinators \X Proposals)
            /\ Len(garbled') = Len(garbled) + 1
        BY <2>1, <3>1 DEF Explained
      <3>3. Len(garbled) \in Nat /\ Len(garbled) + 1 <= tears
        BY <2>2 DEF Explained, Waiting
      <3>4. Waiting' = 0
        BY <3>1 DEF Waiting
      <3>5. tears' \in Nat /\ Len(garbled') <= tears'
        BY <3>1, <3>2, <3>3 DEF Explained
      <3>6. Len(garbled') \in Nat
        BY <3>2, <3>3
      <3>7. Len(garbled') + Waiting' <= tears'
        BY <3>4, <3>5, <3>6
      <3>8. torn' \in BOOLEAN
        BY <3>1
      <3> QED
        BY <3>2, <3>5, <3>7, <3>8 DEF Explained
    <2>3. CASE ~torn
      BY <1>1, <2>3 DEF AppendLine, Explained, Waiting
    <2> QED
      BY <2>2, <2>3
  <1>2. CASE AppendHalf
    <2>1. /\ tears \in Nat /\ Len(garbled) \in Nat
          /\ garbled \in Seq(Coordinators \X Proposals)
          /\ Len(garbled) <= tears
      BY DEF Explained, Waiting
    <2>2. torn' = TRUE /\ tears' = tears + 1 /\ garbled' = garbled
      BY <1>2 DEF AppendHalf
    <2> QED
      BY <2>1, <2>2 DEF Explained, Waiting
  <1>3. CASE UNCHANGED <<torn, garbled, tears>>
    BY <1>3 DEF Explained, Waiting
  <1>4. ASSUME NEW c \in Coordinators, Send(c) \/ SendFails(c)
        PROVE  Explained'
    BY <1>1, <1>2, <1>3, <1>4 DEF Send, SendFails, Goto
  <1> QED
    BY <1>3, <1>4
    DEF Next, Step, Consider, CreateImprovement, Mark, CreateFails, Restart, vars

\* Every step is one that ReviewDelivery allows, or changes nothing it can see.
LEMMA StepsPromised ==
  IInv /\ Explained /\ [Next]_vars => [Promise!Next]_(Promise!vars)
  <1> SUFFICES ASSUME IInv, Explained, [Next]_vars
               PROVE  Promise!Next \/ UNCHANGED Promise!vars
    OBVIOUS
  <1> USE DEF Promise!Next, Promise!vars
  <1>1. ASSUME NEW c \in Coordinators, pc[c] = "create", tasks' = OneMore(tasks, c),
               UNCHANGED <<delivered, outbox>>
        PROVE  Promise!Next
    <2>1. prop[c] \in Proposals /\ prop[c] \notin delivered[c]
      BY <1>1 DEF IInv, Working
    <2>2. Promise!Task(c, prop[c])
      BY <1>1, <2>1 DEF Promise!Task, OneMore
    <2> QED
      BY <2>1, <2>2
  <1>2. ASSUME NEW c \in Coordinators, pc[c] = "send"
        PROVE  prop[c] \in Proposals /\ Promise!Due(c, prop[c])
    <2>1. prop[c] \in Proposals /\ prop[c] \notin delivered[c]
      BY <1>2 DEF IInv, Working
    <2>2. mails[c][prop[c]] < tasks[c][prop[c]]
      BY <1>2, <2>1 DEF IInv, Paired, At
    <2> QED
      BY <2>1, <2>2 DEF Promise!Due
  <1>3. ASSUME NEW c \in Coordinators, pc[c] = "send", AppendLine(c),
               UNCHANGED <<delivered, tasks>>
        PROVE  Promise!Next
    <2>1. torn => Len(garbled) < tears
      BY DEF Explained, Waiting
    <2>2. Promise!Mail(c, prop[c])
      BY <1>2, <1>3, <2>1 DEF Promise!Mail, AppendLine, OneMore
    <2> QED
      BY <1>2, <1>3, <2>2
  <1>4. ASSUME NEW c \in Coordinators, pc[c] = "send", AppendHalf,
               UNCHANGED <<delivered, tasks>>
        PROVE  Promise!Next
    <2>1. Promise!Tear(c, prop[c])
      BY <1>2, <1>4 DEF Promise!Tear, AppendHalf
    <2> QED
      BY <1>2, <1>4, <2>1
  <1>5. ASSUME NEW c \in Coordinators, Mark(c) PROVE Promise!Next
    <2>1. prop[c] \in Proposals /\ mails[c][prop[c]] > 0
      BY <1>5 DEF Mark, IInv, Working, Paired, At
    <2>2. Promise!Remember(c, prop[c])
      BY <1>5, <2>1 DEF Mark, Promise!Remember
    <2> QED
      BY <2>1, <2>2
  <1>6. ASSUME NEW c \in Coordinators, Restart(c) PROVE Promise!Next
    BY <1>6 DEF Restart, Promise!Forget
  <1>7. ASSUME NEW c \in Coordinators, Send(c) \/ SendFails(c)
        PROVE  Promise!Next \/ UNCHANGED Promise!vars
    BY <1>3, <1>4, <1>7 DEF Send, SendFails, Goto
  <1>8. ASSUME NEW c \in Coordinators, CreateFails(c) \/ CreateImprovement(c)
        PROVE  Promise!Next \/ UNCHANGED Promise!vars
    BY <1>1, <1>8 DEF CreateFails, CreateImprovement, Goto
  <1>9. ASSUME NEW c \in Coordinators, NEW p \in Proposals, Consider(c, p)
        PROVE  UNCHANGED Promise!vars
    BY <1>9 DEF Consider
  <1> QED
    BY <1>5, <1>6, <1>7, <1>8, <1>9 DEF Next, Step, vars

\* The coordinator with its adapters (improvement.py:58-89, adapters.py:44-88,
\* 161-199) keeps what ReviewDelivery promises: at least once until it
\* remembers, never again while it does, no handoff without its task, and no
\* more handoffs that cannot be read than appends that failed half way.
THEOREM PromiseKept == Spec => ImplementsReviewDelivery
  <1>1. Init => Promise!Init
    BY DEF Init, Promise!Init
  <1>2. Spec => []Explained
    BY ExplainedInit, ExplainedStep, Inductive, PTL DEF Spec
  <1> QED
    BY <1>1, <1>2, StepsPromised, Inductive, PTL
    DEF Spec, ImplementsReviewDelivery, Promise!Spec
=============================================================================
