---------------------------- MODULE MCSimScheduler ----------------------------
(* Weeks of two days of three minutes.                                     *)
EXTENDS SimScheduler

RowOf(u, subEnabled, days, time) ==
    [sub |-> u, subEnabled |-> subEnabled, enabled |-> TRUE, days |-> days, time |-> time]

(* One subscription: a disabling and an enabling schedule every day, and   *)
(* one of each on a single day, two of them at the same minute.            *)
OneSubRows == {RowOf(1, FALSE, {1, 2}, 1), RowOf(1, TRUE, {1, 2}, 2),
               RowOf(1, TRUE, {1}, 1), RowOf(1, FALSE, {2}, 0)}

(* Two subscriptions sharing the alarm.                                    *)
TwoSubRows == {RowOf(1, FALSE, {1, 2}, 1), RowOf(1, TRUE, {2}, 2),
               RowOf(2, FALSE, {2}, 0), RowOf(2, TRUE, {1, 2}, 1)}
=============================================================================
