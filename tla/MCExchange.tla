------------------------------- MODULE MCExchange --------------------------------
(* Exchange for TLC: each plan is a small instance of its own. *)
EXTENDS Exchange, TLC

CONSTANTS c1, c2

Plan(first, second, profile, due, failures, buttons) ==
    [kind |-> c1 :> first @@ c2 :> second,
     encrypted |-> "encrypted" \in profile, persistent |-> "persistent" \in profile,
     sequential |-> "sequential" \in profile,
     lightDue |-> due, faults |-> failures, pushes |-> buttons]

P1 == {Plan("poll", "poll", {"persistent"}, FALSE, 2, 0)}
P2 == {Plan("poll", "power", {"encrypted", "persistent"}, FALSE, 1, 1)}
P3 == {Plan("poll", "light", {"persistent", "encrypted"}, TRUE, 2, 0)}
P4 == {Plan("poll", "both", {"encrypted", "sequential", "persistent"}, TRUE, 1, 1)}
P5 == {Plan("poll", "power", {}, TRUE, 2, 0)}
AllPlans == P1 \cup P2 \cup P3 \cup P4 \cup P5

================================================================================
