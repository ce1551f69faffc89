--------------------------- MODULE MCSponsorCycle ---------------------------
(* Finite instances of SponsorCycle: drafts, reports, budgets of faults.     *)
EXTENDS SponsorCycle, TLC

CONSTANTS a, b, c

At(d, confidence, name) ==
    [draft |-> d, confidence |-> confidence, name |-> name]

\* The second report finds a again with another confidence, and b and c tied.
TwoReports == {{At(a, 90, 1), At(b, 80, 2), At(c, 70, 3)},
               {At(a, 60, 1), At(b, 75, 2), At(c, 75, 3)}}

OneReport == {{At(a, 90, 1), At(b, 80, 2)}}

\* The two, and a report that finds c under two names.
WithRepeat == TwoReports \cup {{At(c, 90, 1), At(c, 90, 2), At(a, 40, 3)}}

\* c is refused under one of the names it goes by, and where it is tied with b.
SomeFlagged == {At(c, 90, 2), At(c, 75, 3)}

\* The second candidate of OneReport is refused.
SecondFlagged == {At(b, 80, 2)}

NoFault == [k \in Faults |-> 0]

\* Every kind of fault once.
All == [k \in Faults |-> 1]
=============================================================================
