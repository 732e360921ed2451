--------------------------- MODULE MCSuperbufQueue ---------------------------
(* A burst with one picture from before the shutter, one without, and a     *)
(* cancellation. The first metadata may ask for a later frame; the second   *)
(* says that the flash is prepared, or names the next frame as good and the *)
(* one after it as diverted.                                                *)
EXTENDS SuperbufQueue

MCRequests == {[num |-> 0, retro |-> 0], [num |-> 2, retro |-> 1]}

GoodRange == [NoNews EXCEPT !.tells = {"range", "divert"}, !.ahead = 1, !.lit = 1,
                            !.skip = 1, !.divert = 2]

MCNewsOf == [f \in Frames |-> {NoNews} \cup
                CASE f = 1 -> {[NoNews EXCEPT !.prep = "future"]}
                  [] f = 2 -> {[NoNews EXCEPT !.prep = "done"], GoodRange}
                  [] OTHER -> {}]
=============================================================================
