--------------------------- MODULE ReviewDelivery ---------------------------
(***************************************************************************)
(* What an improvement coordinator promises of a proposal: a task and then *)
(* a handoff for it, at least once before it remembers the proposal as     *)
(* delivered, and nothing more for as long as it remembers.  Each append   *)
(* that fails half way makes at most one handoff unreadable.               *)
(***************************************************************************)
EXTENDS Naturals, Sequences

CONSTANTS Coordinators, Proposals

VARIABLES
    tasks,      \* tasks[c][p]: tasks that coordinator c created for p
    mails,      \* mails[c][p]: handoffs that it sent
    garbled,    \* those of them that nobody can read
    tears,      \* how often an append failed half way
    delivered   \* delivered[c]: the proposals it remembers

vars == <<tasks, mails, garbled, tears, delivered>>

Init == /\ tasks = [c \in Coordinators |-> [p \in Proposals |-> 0]]
        /\ mails = [c \in Coordinators |-> [p \in Proposals |-> 0]]
        /\ garbled = <<>> /\ tears = 0
        /\ delivered = [c \in Coordinators |-> {}]

Task(c, p) == /\ p \notin delivered[c]
              /\ tasks' = [tasks EXCEPT ![c][p] = @ + 1]
              /\ UNCHANGED <<mails, garbled, tears, delivered>>

\* Every handoff has a task of its own.
Due(c, p) == p \notin delivered[c] /\ mails[c][p] < tasks[c][p]

\* It can be read, unless an append before it failed half way.
Mail(c, p) == /\ Due(c, p)
              /\ mails' = [mails EXCEPT ![c][p] = @ + 1]
              /\ \/ UNCHANGED garbled
                 \/ /\ Len(garbled) < tears
                    /\ garbled' = Append(garbled, <<c, p>>)
              /\ UNCHANGED <<tasks, tears, delivered>>

Tear(c, p) == /\ Due(c, p)
              /\ tears' = tears + 1
              /\ UNCHANGED <<tasks, mails, garbled, delivered>>

Remember(c, p) == /\ mails[c][p] > 0
                  /\ delivered' = [delivered EXCEPT ![c] = @ \cup {p}]
                  /\ UNCHANGED <<tasks, mails, garbled, tears>>

Forget(c) == /\ delivered' = [delivered EXCEPT ![c] = {}]
             /\ UNCHANGED <<tasks, mails, garbled, tears>>

Next == \E c \in Coordinators :
           \/ Forget(c)
           \/ \E p \in Proposals :
                \/ Task(c, p) \/ Mail(c, p) \/ Tear(c, p) \/ Remember(c, p)

Spec == Init /\ [][Next]_vars
=============================================================================
