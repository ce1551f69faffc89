--------------------------- MODULE MCEvidenceStore ---------------------------
(* Finite instances of EvidenceStore: which faults may happen, how often.    *)
EXTENDS EvidenceStore, TLC

CONSTANTS w1, w2

Symmetric == Permutations({w1, w2})

NoFault == [k \in Faults |-> 0]

\* Failing calls and dying processes.
Failures == [NoFault EXCEPT !["io"] = 1, !["kill"] = 1]

\* A machine that loses power twice.
Outages == [NoFault EXCEPT !["power"] = 2]

FailuresOrOutages == {Failures, Outages}

\* One of everything but kills.
Mixed == [[k \in Faults |-> 1] EXCEPT !["kill"] = 0]

\* Renames, a dying process and a corruption, with no other program.
Moves == [NoFault EXCEPT !["relocate"] = 2, !["kill"] = 1, !["corrupt"] = 1]

MixedMovesOrOutages == {Mixed, Moves, Outages}

\* One failing call and nothing else.
OneError == {[NoFault EXCEPT !["io"] = 1]}

\* One rename and nothing else.
OneMove == {[NoFault EXCEPT !["relocate"] = 1]}

Anywhere == Places
=============================================================================
