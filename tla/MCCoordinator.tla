------------------------------ MODULE MCCoordinator ------------------------------
(* Coordinator for TLC: each plan is a small instance of its own. *)
EXTENDS Coordinator

CONSTANTS c1, c2

Ask(kind, is, settings) == {[kind |-> kind, is |-> is, settings |-> settings]}
PowerOn == Ask("power", "on", {})
PowerOff == Ask("power", "off", {})
Mode == Ask("mode", "on", {})
LightOff == Ask("light", "off", {})
LightSet == Ask("light", "on", {"brightness", "color"})
Plan(first, second, fields, unload) ==
    [asks |-> c1 :> first @@ c2 :> second, changes |-> fields, unload |-> unload]

AllPlans == {
    Plan(Mode, PowerOff, <<"power">>, FALSE),
    Plan(Mode, PowerOff, <<"mode">>, FALSE),
    Plan(Mode \cup PowerOn, {}, <<"mode", "power">>, FALSE),
    Plan(LightSet, {}, <<"lamp", "color">>, FALSE),
    Plan(LightOff, LightSet, <<>>, FALSE),
    Plan(Mode \cup LightSet, {}, <<"mode">>, TRUE)}

================================================================================
