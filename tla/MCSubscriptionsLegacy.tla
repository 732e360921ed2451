------------------------ MODULE MCSubscriptionsLegacy ------------------------
(* Two slots, two cards for the first one and one for the second, hot swaps  *)
(* included.  Where every thread and every delay is let in, the second slot  *)
(* is empty.                                                                 *)
EXTENDS SubscriptionsLegacy, TLC

CONSTANTS a1, a2, b
MCSubs == {a1, a2, b}
MCHome == [u \in MCSubs |-> IF u = b THEN 2 ELSE 1]
Symmetric == Permutations({a1, a2})

MCInit == Init /\ (phone # {} => card[2] = None)
MCSpec == MCInit /\ [][Next]_vars
=============================================================================
