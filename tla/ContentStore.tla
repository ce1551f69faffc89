---------------------------- MODULE ContentStore ----------------------------
(***************************************************************************)
(* What the evidence store promises its callers, with the file system left *)
(* out: a set of digests whose bytes can be read back, and the set of      *)
(* digests for which a put has returned a reference.  A digest is stored   *)
(* before it is acknowledged, and what is acknowledged is never lost.      *)
(***************************************************************************)
CONSTANT Digests

VARIABLES stored,   \* digests that verify() accepts now
          acked     \* digests for which put_bytes returned a reference

Init == /\ stored \subseteq Digests
        /\ acked = {}

Store(g) == /\ stored' = stored \cup {g}
            /\ UNCHANGED acked

Ack(g) == /\ g \in stored
          /\ acked' = acked \cup {g}
          /\ UNCHANGED stored

\* A crash may take back bytes nobody was promised.
Lose(S) == /\ S \cap acked = {}
           /\ stored' = stored \ S
           /\ UNCHANGED acked

Next == \/ \E g \in Digests : Store(g) \/ Ack(g)
        \/ \E S \in SUBSET stored : Lose(S)

Spec == Init /\ [][Next]_<<stored, acked>>
=============================================================================
