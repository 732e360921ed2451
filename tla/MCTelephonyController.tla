------------------------ MODULE MCTelephonyController ------------------------
(* Two threads (the service's worker and the one behind the SIM list       *)
(* screen) and slots as model values.                                      *)
EXTENDS TelephonyController

CONSTANTS c1, c2, s1, s2, s3
MCCallers == {c1, c2}
MCSlots == {s1, s2, s3}
=============================================================================
