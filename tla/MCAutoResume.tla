------------------------------- MODULE MCAutoResume -------------------------------
(* AutoResume for TLC: each plan is a small instance of its own. *)
EXTENDS AutoResume

CONSTANTS u1, u2

Plan(first, second, buttons, times) ==
    [asks |-> u1 :> first @@ u2 :> second, pressed |-> buttons, restarts |-> times]

P1 == {Plan(Operations, {}, <<"power">>, 0)}
P2 == {Plan({"enable"}, {"turn_on", "turn_off"}, <<"power">>, 0)}
P3 == {Plan({"enable", "hardware"}, {"disable"}, <<"auto">>, 0)}
P4 == {Plan({}, {}, <<"power", "manual">>, 1)}
P5 == {Plan({"enable"}, {"turn_off"}, <<>>, 1)}
AllPlans == P1 \cup P2 \cup P3 \cup P4 \cup P5

================================================================================
