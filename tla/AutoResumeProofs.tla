---------------------------- MODULE AutoResumeProofs ---------------------------
(***************************************************************************)
(* The safety of AutoResume for any number of users' calls, push tasks and *)
(* plans.                                                                  *)
(*                                                                         *)
(* That the controller's ownership is what the user selected has to be     *)
(* known in the middle of an operation: while one is past the manager's    *)
(* lock, intent and ownership may differ only if it is an activation, and  *)
(* an operation that found no owner has no owner beside it.  Locks says    *)
(* who is where, Ownership what follows for intent, Life what an entry     *)
(* that is stopped or closed has left behind.                              *)
(***************************************************************************)
EXTENDS AutoResume, QueueLemmas

Custom == Intent("custom", FALSE)
Managed == Users \cup Pushes \cup {"reconcile"}   \* who takes the manager's lock
InOperation(a) == act[a].at \in {"lock", "waiting", "decided", "applied"}

Stages == {"idle", "done", "scheduled", "queued", "lock", "waiting", "decided", "applied"}
Names == Operations \cup {"none", "again", "auto"}
Vias == {"none", "plain", "handoff", "activate", "deactivate", "reassert", "evaluate"}
Kinds == {"none", "on", "off", "auto", "manual"}
WellFormed == {i \in Intents : i.suspended => i.mode # "none"}
Activities ==
    [at : Stages, op : Names, via : Vias, goal : WellFormed, force : BOOLEAN, kind : Kinds,
     powers : BOOLEAN, before : BOOLEAN, owned : BOOLEAN, calledOn : BOOLEAN,
     powerPushed : BOOLEAN]

Shapes ==
    /\ plan \in Plans
    /\ pressed \in Seq({"power", "auto", "manual"})
    /\ deviceOn \in BOOLEAN
    /\ seen \in [on : BOOLEAN, auto : BOOLEAN]
    /\ intent \in WellFormed /\ saved \in WellFormed
    /\ active \in BOOLEAN /\ pending \in BOOLEAN /\ stopped \in BOOLEAN
    /\ pushOn \in BOOLEAN /\ failed \in BOOLEAN /\ outlived \in BOOLEAN
    /\ phase \in {"out", "forwarding", "loaded", "stopping", "closing"}
    /\ act \in [Actors -> Activities]

\* The manager's queue has who waits for its lock or has it; past it is only the
\* head, which shares the controller with nobody.
Queued ==
    /\ IsQueueOf(managerQueue, Managed)
    /\ ToSet(managerQueue) = {a \in Managed : act[a].at = "queued" \/ InOperation(a)}
    /\ \A a \in Managed : InOperation(a) => Head(managerQueue) = a

\* What each actor does past the manager's lock.  The evaluator has the
\* controller's lock as long as its command lasts, so the owner stays.
Roles ==
    /\ \A p \in Pushes : /\ act[p].at \in {"idle", "queued", "lock"}
                         /\ act[p].via = "none"
    /\ \A a \in Managed \ Pushes :
         /\ act[a].at = "lock" => act[a].via \in {"handoff", "activate", "deactivate"}
         /\ InCommand(a) => act[a].via \in {"plain", "handoff", "activate", "reassert"}
         /\ InOperation(a) /\ act[a].via = "activate" => act[a].goal = Custom
    /\ act["evaluator"].at \in {"idle", "waiting", "decided", "applied"}
    /\ InCommand("evaluator") =>
         /\ act["evaluator"].via = "evaluate" /\ active
         /\ \A a \in Managed : InCommand(a) => act[a].via = "plain"

Locks == Queued /\ Roles

Ownership ==
    ~stopped =>
      /\ active => \/ intent = Custom
                   \/ \E a \in Managed : InOperation(a) /\ act[a].via = "activate"
      /\ \A a \in Managed : InOperation(a) /\ act[a].via = "plain" => ~active
      /\ \A a \in Managed : InCommand(a) /\ act[a].via = "handoff" /\ ~act[a].owned => ~active

\* Reconciliation commands only what it has seen to be on.  Where it waits for
\* the controller, it is to deactivate it.
Reconciles ==
    /\ act["reconcile"].at = "lock" => act["reconcile"].via = "deactivate"
    /\ InCommand("reconcile") => /\ act["reconcile"].via \in {"plain", "activate"}
                                 /\ act["reconcile"].calledOn
    /\ failed => act["reconcile"].at = "idle" /\ ~pending

Life ==
    /\ stopped => act["reconcile"].at = "idle"
    /\ ~pushOn => \A p \in Pushes : act[p].at = "idle"
    /\ phase = "closing" => stopped
    /\ phase = "out" => ~pushOn /\ act["reconcile"].at = "idle"
    /\ phase \in {"closing", "out"} /\ ~outlived =>
         ~active /\ UsersIdle /\ act["evaluator"].at = "idle"

IInv == Shapes /\ Locks /\ Ownership /\ Reconciles /\ Life

------------------------------------------------------------------------------
\* Records: one field, and several of them, are assigned

With(x, v, k) == [x EXCEPT !.via = v, !.kind = k]
WithCommand(x, s, o, v, k, c) ==
    [x EXCEPT !.at = s, !.op = o, !.via = v, !.kind = k, !.calledOn = c]

LEMMA AssignedTwo ==
    ASSUME NEW x \in Activities, NEW v \in Vias, NEW k \in Kinds
    PROVE  LET y == With(x, v, k)
           IN  y \in Activities /\ y.at = x.at /\ y.via = v /\ y.goal = x.goal /\ y.owned = x.owned
BY DEF Activities, With

LEMMA AssignedCommand ==
    ASSUME NEW x \in Activities, NEW s \in Stages, NEW o \in Names, NEW v \in Vias,
           NEW k \in Kinds, NEW c \in BOOLEAN
    PROVE  LET y == WithCommand(x, s, o, v, k, c)
           IN  y \in Activities /\ y.at = s /\ y.via = v
<1>1. [x EXCEPT !.at = s, !.op = o] \in Activities
  BY DEF Activities
<1>2. PICK z \in Activities : z = [x EXCEPT !.at = s, !.op = o]
  BY <1>1
<1>3. z.at = s
  BY <1>2 DEF Activities
<1>4. LET y == [z EXCEPT !.via = v, !.kind = k, !.calledOn = c]
      IN  y \in Activities /\ y.at = z.at /\ y.via = v
  BY DEF Activities
<1>5. WithCommand(x, s, o, v, k, c) = [z EXCEPT !.via = v, !.kind = k, !.calledOn = c]
  BY <1>2 DEF WithCommand
<1> QED BY <1>3, <1>4, <1>5

------------------------------------------------------------------------------
\* Who is an actor, and what its records are

LEMMA Roster ==
    /\ Actors = Managed \cup {"evaluator"} /\ "evaluator" \notin Managed
    /\ Users \subseteq Managed /\ Pushes \subseteq Managed /\ "reconcile" \in Managed
    /\ "reconcile" \notin Users /\ "reconcile" \notin Pushes
    /\ Users \cap Pushes = {}
BY AutoResumeAssumption DEF Actors, Managed, Automatic

LEMMA Constructed ==
    /\ NoIntent \in WellFormed /\ Custom \in WellFormed
    /\ Idle \in Activities /\ Idle.at = "idle" /\ Idle.via = "none"
    /\ Done \in Activities /\ Done.at = "done" /\ Done.via = "none"
    /\ \A s \in Stages, o \in Names :
         /\ [Idle EXCEPT !.at = s, !.op = o] \in Activities
         /\ [Idle EXCEPT !.at = s, !.op = o].at = s
         /\ [Idle EXCEPT !.at = s, !.op = o].via = "none"
    /\ \A s \in Stages : [Idle EXCEPT !.at = s] \in Activities
<1>1. NoIntent \in WellFormed /\ Custom \in WellFormed
  BY DEF NoIntent, Custom, Intent, WellFormed, Intents, Modes
<1>2. Idle \in Activities
  BY <1>1 DEF Idle, Activities, Stages, Names, Vias, Kinds
<1>3. \A s \in Stages, o \in Names :
         /\ [Idle EXCEPT !.at = s, !.op = o] \in Activities
         /\ [Idle EXCEPT !.at = s, !.op = o].at = s
         /\ [Idle EXCEPT !.at = s, !.op = o].via = "none"
  BY <1>2 DEF Activities, Idle
<1>4. \A s \in Stages : [Idle EXCEPT !.at = s] \in Activities
  BY <1>2 DEF Activities
<1>5. Done \in Activities
  BY <1>4 DEF Done, Stages
<1> QED BY <1>1, <1>2, <1>3, <1>4, <1>5 DEF Idle, Done

\* What an actor is after its operation.
LEMMA Afterwards ==
    ASSUME NEW a \in Actors
    PROVE  /\ After(a) \in Activities
           /\ After(a).via = "none"
           /\ After(a).at \in {"idle", "done", "scheduled"}
           /\ a \in Pushes => After(a).at = "idle"
           /\ a = "evaluator" => After(a).at = "idle"
           /\ After(a).at = "scheduled" <=> a = "reconcile" /\ pending
           /\ After(a).at = "done" <=> a \in Users
<1>1. "scheduled" \in Stages
  BY DEF Stages
<1>2. [Idle EXCEPT !.at = "scheduled"] \in Activities
      /\ [Idle EXCEPT !.at = "scheduled"].at = "scheduled"
      /\ [Idle EXCEPT !.at = "scheduled"].via = "none"
  BY <1>1, Constructed DEF Activities
<1> QED BY <1>2, Constructed, Roster, AutoResumeAssumption DEF After, Automatic

------------------------------------------------------------------------------
\* The queue of the manager's lock

\* Nothing changes for b, but that its reconciliation may be scheduled.
Alike(b) ==
    \/ /\ act'[b].at = act[b].at /\ act'[b].via = act[b].via
       /\ act'[b].goal = act[b].goal /\ act'[b].owned = act[b].owned
       /\ act'[b].calledOn = act[b].calledOn
    \/ b = "reconcile" /\ act[b].at = "idle" /\ act'[b].at = "scheduled"

LEMMA AlikeKeepsPlace ==
    ASSUME NEW b \in Actors, Alike(b)
    PROVE  /\ InOperation(b)' <=> InOperation(b)
           /\ InCommand(b)' <=> InCommand(b)
           /\ act'[b].at = "queued" <=> act[b].at = "queued"
           /\ act'[b].at = "lock" <=> act[b].at = "lock"
           /\ InOperation(b) =>
                /\ act'[b].at = act[b].at /\ act'[b].via = act[b].via
                /\ act'[b].goal = act[b].goal /\ act'[b].owned = act[b].owned
                /\ act'[b].calledOn = act[b].calledOn
BY DEF Alike, InOperation, InCommand

\* One more waits.
LEMMA Enqueued ==
    ASSUME Queued, NEW a \in Managed, act[a].at \in {"idle", "done", "scheduled"},
           act'[a].at = "queued", \A b \in Managed \ {a} : Alike(b),
           managerQueue' = Append(managerQueue, a)
    PROVE  Queued'
<1>1. a \notin ToSet(managerQueue)
  BY DEF Queued, InOperation
<1>2. /\ IsQueueOf(managerQueue', Managed)
      /\ ToSet(managerQueue') = ToSet(managerQueue) \cup {a}
  BY <1>1, AppendToQueue DEF Queued
<1>3. ~InOperation(a)'
  BY DEF InOperation
<1>4. \A b \in Managed \ {a} : /\ InOperation(b)' <=> InOperation(b)
                               /\ act'[b].at = "queued" <=> act[b].at = "queued"
  BY AlikeKeepsPlace, Roster
<1>5. ToSet(managerQueue') = {b \in Managed : act'[b].at = "queued" \/ InOperation(b)'}
  BY <1>2, <1>4, <1>3 DEF Queued, InOperation
<1>6. ASSUME NEW b \in Managed, InOperation(b)' PROVE Head(managerQueue') = b
  <2>1. b \in ToSet(managerQueue) /\ Head(managerQueue) = b
    BY <1>3, <1>4, <1>6 DEF Queued
  <2>2. managerQueue # <<>> /\ managerQueue \in Seq(Managed)
    BY <2>1 DEF ToSet, Queued, IsQueueOf
  <2> QED BY <2>1, <2>2, HeadTailAppend
<1> QED BY <1>2, <1>5, <1>6 DEF Queued

\* Its operation over, a gives up the lock.
LEMMA Released ==
    ASSUME Queued, NEW a \in Managed, act[a].at = "queued" \/ InOperation(a),
           Head(managerQueue) = a,
           act'[a].at \in {"idle", "done", "scheduled"},
           \A b \in Managed \ {a} : Alike(b),
           managerQueue' = Tail(managerQueue)
    PROVE  Queued'
<1>1. a \in ToSet(managerQueue) /\ managerQueue # <<>>
  BY DEF Queued, ToSet
<1>2. /\ IsQueueOf(managerQueue', Managed)
      /\ ToSet(managerQueue') = ToSet(managerQueue) \ {a}
  BY <1>1, TailOfQueue DEF Queued
<1>3. ~InOperation(a)'
  BY DEF InOperation
<1>4. \A b \in Managed \ {a} : /\ InOperation(b)' <=> InOperation(b)
                               /\ act'[b].at = "queued" <=> act[b].at = "queued"
  BY AlikeKeepsPlace, Roster
<1>5. ToSet(managerQueue') = {b \in Managed : act'[b].at = "queued" \/ InOperation(b)'}
  BY <1>2, <1>4, <1>3 DEF Queued, InOperation
<1>6. \A b \in Managed : ~InOperation(b)'
  BY <1>3, <1>4 DEF Queued
<1> QED BY <1>2, <1>5, <1>6 DEF Queued

\* The holder goes on, or nobody moves.
LEMMA Held ==
    ASSUME Queued, NEW a \in Managed,
           \/ Alike(a)
           \/ /\ act[a].at = "queued" \/ InOperation(a)
              /\ Head(managerQueue) = a
              /\ act'[a].at = "queued" \/ InOperation(a)',
           \A b \in Managed \ {a} : Alike(b),
           managerQueue' = managerQueue
    PROVE  Queued'
<1>4. \A b \in Managed \ {a} : /\ InOperation(b)' <=> InOperation(b)
                               /\ act'[b].at = "queued" <=> act[b].at = "queued"
  BY AlikeKeepsPlace, Roster
<1>1. Alike(a) => (InOperation(a)' <=> InOperation(a))
                  /\ (act'[a].at = "queued" <=> act[a].at = "queued")
  BY AlikeKeepsPlace, Roster
<1>2. ToSet(managerQueue') = {b \in Managed : act'[b].at = "queued" \/ InOperation(b)'}
  BY <1>1, <1>4 DEF Queued
<1>3. \A b \in Managed : InOperation(b)' => Head(managerQueue') = b
  BY <1>1, <1>4 DEF Queued
<1> QED BY <1>2, <1>3 DEF Queued

\* Past the lock is one operation.
LEMMA OneOperation ==
    ASSUME Queued, NEW a \in Managed, act[a].at = "queued" \/ InOperation(a),
           Head(managerQueue) = a
    PROVE  /\ managerQueue # <<>>
           /\ \A b \in Managed \ {a} : ~InOperation(b) /\ ~InCommand(b)
           /\ act[a].at = "queued" => \A b \in Managed : ~InOperation(b) /\ ~InCommand(b)
BY DEF Queued, ToSet, InOperation, InCommand

------------------------------------------------------------------------------
\* Waiting for the manager's lock

\* a, which has nothing to do, asks for the lock; p is what else changes.
LEMMA AskingKeepsInv ==
    ASSUME IInv, NEW a \in Managed, act[a].at \in {"idle", "scheduled"},
           NEW r \in Activities, r.at = "queued", a \in Pushes => r.via = "none",
           act' = [act EXCEPT ![a] = r],
           managerQueue' = Append(managerQueue, a),
           pressed' \in Seq({"power", "auto", "manual"}),
           a = "reconcile" => ~stopped /\ phase # "out" /\ ~failed,
           a \in Pushes => pushOn,
           a \in Users => phase \notin {"closing", "out"},
           pending' \in BOOLEAN, failed => pending' = pending,
           UNCHANGED <<plan, deviceOn, seen, intent, active, failed, lifeVars>>
    PROVE  IInv'
<1>1. /\ act' \in [Actors -> Activities] /\ act'[a] = r
      /\ \A b \in Actors \ {a} : act'[b] = act[b]
  BY Roster DEF IInv, Shapes
<1>2. \A b \in Actors \ {a} : Alike(b)
  BY <1>1 DEF Alike
<1>3. \A b \in Actors \ {a} : /\ InOperation(b)' <=> InOperation(b)
                              /\ InCommand(b)' <=> InCommand(b)
  BY <1>2, AlikeKeepsPlace
<1>4. ~InOperation(a)' /\ ~InCommand(a)' /\ ~InOperation(a) /\ ~InCommand(a)
  BY <1>1 DEF InOperation, InCommand
<1>5. Shapes'
  BY <1>1 DEF IInv, Shapes, lifeVars
<1>6. Queued'
  BY <1>1, <1>2, Enqueued, Roster DEF IInv, Locks
<1>7. Roles'
  BY <1>1, <1>3, <1>4, Roster DEF IInv, Locks, Roles
<1>8. Ownership'
  BY <1>1, <1>3, <1>4, Roster DEF IInv, Ownership, lifeVars
<1>9. Reconciles'
  BY <1>1, <1>3, <1>4, Roster DEF IInv, Reconciles
<1>10. Life'
  <2>1. a \in Users => ~(phase \in {"closing", "out"})
    OBVIOUS
  <2>2. a \notin Users => (UsersIdle' <=> UsersIdle)
    BY <1>1, Roster DEF UsersIdle
  <2>3. a # "evaluator"
    BY Roster
  <2> QED BY <1>1, <2>1, <2>2, <2>3, Roster DEF IInv, Life, lifeVars
<1> QED BY <1>5, <1>6, <1>7, <1>8, <1>9, <1>10 DEF IInv, Locks

LEMMA ModePressedKeepsInv ==
    ASSUME IInv, NEW p \in Pushes, ModePressed(p)
    PROVE  IInv'
<1>1. /\ act[p].at = "idle" /\ pushOn
      /\ act' = [act EXCEPT ![p] = [Idle EXCEPT !.at = "queued", !.op = Head(pressed)]]
      /\ Head(pressed) \in {"auto", "manual"}
      /\ pressed' = Tail(pressed) /\ pressed # <<>>
      /\ managerQueue' = Append(managerQueue, p)
      /\ UNCHANGED <<plan, deviceOn, seen, intent, active, pending, failed, lifeVars>>
  BY DEF ModePressed
<1> DEFINE r == [Idle EXCEPT !.at = "queued", !.op = Head(pressed)]
<1>2. r \in Activities /\ r.at = "queued" /\ r.via = "none"
  <2>1. Head(pressed) \in Names /\ "queued" \in Stages
    BY <1>1 DEF Operations, Names, Stages
  <2> QED BY <2>1, Constructed
<1>3. pressed' \in Seq({"power", "auto", "manual"})
  BY <1>1, HeadTailProperties DEF IInv, Shapes
<1> HIDE DEF r
<1>4. act' = [act EXCEPT ![p] = r]
  BY <1>1 DEF r
<1>5. /\ p \in Managed /\ p # "reconcile" /\ p \notin Users
      /\ pending' \in BOOLEAN /\ (failed => pending' = pending)
  BY <1>1, Roster DEF IInv, Shapes
<1> QED BY <1>1, <1>2, <1>3, <1>4, <1>5, AskingKeepsInv

LEMMA UserCallsKeepsInv ==
    ASSUME IInv, NEW u \in Users, NEW op \in plan.asks[u], UserCalls(u, op)
    PROVE  IInv'
<1>1. /\ act[u].at = "idle" /\ phase = "loaded"
      /\ act' = [act EXCEPT ![u] = [Idle EXCEPT !.at = "queued", !.op = op]]
      /\ managerQueue' = Append(managerQueue, u)
      /\ UNCHANGED <<plan, pressed, deviceOn, seen, intent, active, pending, failed, lifeVars>>
  BY DEF UserCalls, environmentVars
<1> DEFINE r == [Idle EXCEPT !.at = "queued", !.op = op]
<1>0. op \in Operations
  BY AutoResumeAssumption DEF IInv, Shapes
<1>2. r \in Activities /\ r.at = "queued" /\ r.via = "none"
  <2>1. "queued" \in Stages
    BY DEF Stages
  <2>2. op \in Names
    BY <1>0 DEF Names
  <2> QED BY <2>1, <2>2, Constructed
<1>3. pressed' \in Seq({"power", "auto", "manual"})
  BY <1>1 DEF IInv, Shapes
<1> HIDE DEF r
<1>4. act' = [act EXCEPT ![u] = r]
  BY <1>1 DEF r
<1>5. /\ u \in Managed /\ u # "reconcile" /\ u \notin Pushes
      /\ pending' \in BOOLEAN /\ (failed => pending' = pending)
  BY <1>1, Roster DEF IInv, Shapes
<1> QED BY <1>1, <1>2, <1>3, <1>4, <1>5, AskingKeepsInv

------------------------------------------------------------------------------
\* Notifications

\* Nobody moves but the reconciliation task that is scheduled.
LEMMA NobodyMovesKeepsInv ==
    ASSUME IInv, act' \in [Actors -> Activities], \A b \in Actors : Alike(b),
           managerQueue' = managerQueue,
           pressed' \in Seq({"power", "auto", "manual"}), deviceOn' \in BOOLEAN,
           seen' \in [on : BOOLEAN, auto : BOOLEAN],
           pending' \in BOOLEAN, failed' \in BOOLEAN,
           failed' => failed /\ pending' = pending /\ act'["reconcile"].at = act["reconcile"].at,
           act'["reconcile"].at # act["reconcile"].at => ~stopped /\ phase # "out",
           UNCHANGED <<plan, intent, active, lifeVars>>
    PROVE  IInv'
<1>1. \A b \in Actors : /\ InOperation(b)' <=> InOperation(b)
                        /\ InCommand(b)' <=> InCommand(b)
                        /\ InCommand(b) => InOperation(b)
  BY AlikeKeepsPlace DEF InCommand, InOperation
<1>2. Shapes'
  BY DEF IInv, Shapes, lifeVars
<1>3. Queued'
  BY Held, Roster DEF IInv, Locks
<1>4. \A b \in Actors : InOperation(b) => /\ act'[b].at = act[b].at
                                          /\ act'[b].via = act[b].via
                                          /\ act'[b].goal = act[b].goal
                                          /\ act'[b].owned = act[b].owned
                                          /\ act'[b].calledOn = act[b].calledOn
  BY AlikeKeepsPlace
<1>5. \A b \in Actors : b # "reconcile" => act'[b].at = act[b].at /\ act'[b].via = act[b].via
  BY DEF Alike
<1>6. \A b \in Actors : act'[b].at = "lock" => InOperation(b)
  BY <1>1 DEF InOperation
<1>7. Roles'
  BY <1>1, <1>4, <1>5, <1>6, Roster DEF IInv, Locks, Roles
<1>8. Ownership'
  BY <1>1, <1>4, Roster DEF IInv, Ownership, lifeVars
<1>9. Reconciles'
  BY <1>1, <1>4, <1>6, Roster DEF IInv, Reconciles
<1>10. Life'
  <2>1. UsersIdle' <=> UsersIdle
    BY <1>5, Roster DEF UsersIdle
  <2>2. stopped \/ phase = "out" => act'["reconcile"].at = act["reconcile"].at
    OBVIOUS
  <2>3. /\ \A p \in Pushes : act'[p].at = act[p].at
        /\ act'["evaluator"].at = act["evaluator"].at
    BY <1>5, Roster
  <2> QED BY <2>1, <2>2, <2>3, Roster DEF IInv, Life, lifeVars
<1> QED BY <1>2, <1>3, <1>7, <1>8, <1>9, <1>10 DEF IInv, Locks

\* What a publication does to the actors as they are in next.
LEMMA Notified ==
    ASSUME Shapes, NEW observed \in BOOLEAN, NEW next \in [Actors -> Activities],
           Notify(observed, next)
    PROVE  /\ act' \in [Actors -> Activities]
           /\ \A b \in Actors : \/ act'[b] = next[b]
                                \/ /\ b = "reconcile" /\ next[b].at = "idle"
                                   /\ act'[b].at = "scheduled" /\ act'[b].via = "none"
                                   /\ observed /\ ~stopped
           /\ pending' \in BOOLEAN /\ failed' \in BOOLEAN
           /\ failed' => failed /\ ~observed /\ pending' = pending /\ act' = next
<1>1. [Idle EXCEPT !.at = "scheduled"] \in Activities
      /\ [Idle EXCEPT !.at = "scheduled"].at = "scheduled"
      /\ [Idle EXCEPT !.at = "scheduled"].via = "none"
  <2>1. "scheduled" \in Stages
    BY DEF Stages
  <2> QED BY <2>1, Constructed DEF Activities
<1>2. pending \in BOOLEAN /\ stopped \in BOOLEAN /\ failed \in BOOLEAN
  BY DEF Shapes
<1>3. pending' \in BOOLEAN /\ failed' \in BOOLEAN
  BY <1>2 DEF Notify, Reacts
<1>4. ~Reacts(observed) => pending' = pending /\ act' = next
  BY <1>2 DEF Notify
<1>5. failed' => failed /\ ~observed
  BY DEF Notify
<1>6. ~observed => ~Reacts(observed)
  BY DEF Reacts
<1>7. /\ act' \in [Actors -> Activities]
      /\ \A b \in Actors : \/ act'[b] = next[b]
                           \/ /\ b = "reconcile" /\ next[b].at = "idle"
                              /\ act'[b].at = "scheduled" /\ act'[b].via = "none"
                              /\ observed /\ ~stopped
  BY <1>1, <1>4, Roster DEF Notify, Reacts
<1> QED BY <1>3, <1>4, <1>5, <1>6, <1>7

LEMMA PowerPressedKeepsInv ==
    ASSUME IInv, PowerPressed
    PROVE  IInv'
<1>1. /\ pressed # <<>> /\ pressed' = Tail(pressed) /\ deviceOn' = ~deviceOn
      /\ UNCHANGED <<plan, intent, active, managerQueue, lifeVars>>
  BY DEF PowerPressed
<1>2. pressed' \in Seq({"power", "auto", "manual"}) /\ deviceOn' \in BOOLEAN
  BY <1>1, HeadTailProperties DEF IInv, Shapes
<1>3. CASE UNCHANGED <<seen, pending, failed, act>>
  <2>1. \A b \in Actors : Alike(b)
    BY <1>3 DEF Alike
  <2>2. /\ act' \in [Actors -> Activities] /\ seen' \in [on : BOOLEAN, auto : BOOLEAN]
        /\ pending' \in BOOLEAN /\ failed' \in BOOLEAN
    BY <1>3 DEF IInv, Shapes
  <2> QED BY <1>1, <1>2, <1>3, <2>1, <2>2, NobodyMovesKeepsInv
<1>4. CASE ~UNCHANGED <<seen, pending, failed, act>>
  <2> DEFINE next == [a \in Actors |-> [act[a] EXCEPT !.powerPushed = InCommand(a)]]
  <2>1. /\ pushOn
        /\ seen' = [on |-> ~deviceOn, auto |-> seen.auto /\ ~deviceOn]
        /\ Notify(TRUE, next)
    BY <1>4 DEF PowerPressed
  <2>2. ASSUME NEW b \in Actors
        PROVE  /\ next[b] \in Activities /\ next[b].at = act[b].at
               /\ next[b].via = act[b].via /\ next[b].goal = act[b].goal
               /\ next[b].owned = act[b].owned /\ next[b].calledOn = act[b].calledOn
    <3>1. act[b] \in Activities /\ InCommand(b) \in BOOLEAN
      BY DEF IInv, Shapes, InCommand
    <3> QED BY <3>1 DEF Activities
  <2>3. next \in [Actors -> Activities]
    BY <2>2
  <2> HIDE DEF next
  <2>8. /\ act' \in [Actors -> Activities]
        /\ \A b \in Actors : \/ act'[b] = next[b]
                             \/ /\ b = "reconcile" /\ next[b].at = "idle"
                                /\ act'[b].at = "scheduled" /\ ~stopped
        /\ pending' \in BOOLEAN /\ failed' \in BOOLEAN /\ ~failed'
    <3>1. PICK o \in BOOLEAN : o /\ Notify(o, next)
      BY <2>1, Zenon
    <3>2. Shapes
      BY DEF IInv
    <3>3. /\ act' \in [Actors -> Activities]
          /\ \A b \in Actors : \/ act'[b] = next[b]
                               \/ /\ b = "reconcile" /\ next[b].at = "idle"
                                  /\ act'[b].at = "scheduled" /\ act'[b].via = "none"
                                  /\ o /\ ~stopped
          /\ pending' \in BOOLEAN /\ failed' \in BOOLEAN
          /\ failed' => failed /\ ~o /\ pending' = pending /\ act' = next
      BY <3>1, <3>2, <2>3, Notified
    <3> QED BY <3>1, <3>3
  <2>4. \A b \in Actors : Alike(b)
    BY <2>2, <2>8 DEF Alike
  <2>5. /\ act' \in [Actors -> Activities] /\ pending' \in BOOLEAN /\ failed' \in BOOLEAN
        /\ ~failed'
        /\ act'["reconcile"].at # act["reconcile"].at => ~stopped
    BY <2>2, <2>8, Roster
  <2>6. seen' \in [on : BOOLEAN, auto : BOOLEAN]
    BY <2>1 DEF IInv, Shapes
  <2>7. phase # "out"
    BY <2>1 DEF IInv, Life
  <2> QED BY <1>1, <1>2, <2>4, <2>5, <2>6, <2>7, NobodyMovesKeepsInv
<1> QED BY <1>3, <1>4

\* A publication in which nobody does anything else.
LEMMA PublicationKeepsInv ==
    ASSUME IInv, NEW observed \in BOOLEAN, Notify(observed, act), phase # "out",
           seen' \in [on : BOOLEAN, auto : BOOLEAN],
           UNCHANGED <<environmentVars, deviceOn, intent, active, managerQueue, lifeVars>>
    PROVE  IInv'
<1>1. UNCHANGED <<plan, pressed, deviceOn>>
  BY DEF environmentVars
<1>2. act \in [Actors -> Activities]
  BY DEF IInv, Shapes
<1>3. \A b \in Actors : Alike(b)
  BY <1>2, Notified DEF Alike, IInv
<1>4. /\ act' \in [Actors -> Activities] /\ pending' \in BOOLEAN /\ failed' \in BOOLEAN
      /\ failed' => failed /\ pending' = pending /\ act' = act
      /\ act'["reconcile"].at # act["reconcile"].at => ~stopped
  BY <1>2, Notified, Roster DEF IInv
<1>5. pressed' \in Seq({"power", "auto", "manual"}) /\ deviceOn' \in BOOLEAN
  BY <1>1 DEF IInv, Shapes
<1> QED BY <1>1, <1>3, <1>4, <1>5, NobodyMovesKeepsInv

LEMMA PollSucceedsKeepsInv ==
    ASSUME IInv, PollSucceeds
    PROVE  IInv'
<1>1. seen' \in [on : BOOLEAN, auto : BOOLEAN]
  BY DEF PollSucceeds, IInv, Shapes
<1> QED BY <1>1, PublicationKeepsInv DEF PollSucceeds

LEMMA RepublishedKeepsInv ==
    ASSUME IInv, Republished
    PROVE  IInv'
<1>1. seen' \in [on : BOOLEAN, auto : BOOLEAN]
  BY DEF Republished, IInv, Shapes
<1> QED BY <1>1, PublicationKeepsInv DEF Republished

LEMMA ReconcileStartsKeepsInv ==
    ASSUME IInv, ReconcileStarts
    PROVE  IInv'
<1> DEFINE a == "reconcile"
<1>1. /\ act[a].at = "scheduled"
      /\ UNCHANGED <<plan, pressed, deviceOn, seen, intent, active, failed, lifeVars>>
  BY DEF ReconcileStarts, environmentVars
<1>2. a \in Managed /\ a \in Actors /\ a \notin Pushes /\ a \notin Users
  BY Roster
<1>3. ~stopped /\ phase # "out" /\ ~failed
  BY <1>1 DEF IInv, Life, Reconciles
<1>4. CASE pending
  <2>1. /\ pending' = FALSE
        /\ act' = [act EXCEPT ![a].at = "queued"]
        /\ managerQueue' = Append(managerQueue, a)
    BY <1>3, <1>4 DEF ReconcileStarts
  <2> DEFINE r == [act[a] EXCEPT !.at = "queued"]
  <2>2. r \in Activities /\ r.at = "queued" /\ act' = [act EXCEPT ![a] = r]
    <3>1. act[a] \in Activities
      BY <1>2 DEF IInv, Shapes
    <3> QED BY <3>1, <2>1, <1>2 DEF Activities, Stages
  <2> HIDE DEF r
  <2>3. pending' \in BOOLEAN /\ pressed' \in Seq({"power", "auto", "manual"})
    BY <1>1, <2>1 DEF IInv, Shapes
  <2> QED BY <1>1, <1>2, <1>3, <2>1, <2>2, <2>3, AskingKeepsInv
<1>5. CASE ~pending
  <2>1. /\ act' = [act EXCEPT ![a] = Idle]
        /\ UNCHANGED <<pending, managerQueue>>
    BY <1>5 DEF ReconcileStarts
  <2>2. /\ act' \in [Actors -> Activities] /\ act'[a] = Idle
        /\ \A b \in Actors \ {a} : act'[b] = act[b]
    <3>1. Idle \in Activities /\ act \in [Actors -> Activities]
      BY Constructed DEF IInv, Shapes
    <3> QED BY <3>1, <2>1, <1>2
  <2>3. \A b \in Actors : /\ InOperation(b)' <=> InOperation(b)
                          /\ InCommand(b)' <=> InCommand(b)
                          /\ act'[b].at = "queued" <=> act[b].at = "queued"
    BY <1>1, <2>2, Constructed DEF InOperation, InCommand
  <2>4. ~InOperation(a) /\ ~InCommand(a) /\ act'[a].at = "idle"
    BY <1>1, <2>2, Constructed DEF InOperation, InCommand
  <2>5. Shapes'
    BY <1>1, <2>1, <2>2 DEF IInv, Shapes, lifeVars
  <2>6. Queued'
    BY <2>1, <2>3, Roster DEF IInv, Locks, Queued
  <2>7. Roles'
    BY <1>1, <2>2, <2>3, <2>4, Roster DEF IInv, Locks, Roles
  <2>8. Ownership'
    BY <1>1, <2>2, <2>3, <2>4, Roster DEF IInv, Ownership, lifeVars
  <2>9. Reconciles'
    BY <1>1, <1>2, <1>3, <2>3, <2>4 DEF Reconciles
  <2>10. UsersIdle' <=> UsersIdle
    BY <1>2, <2>2, Roster DEF UsersIdle
  <2>11. Life'
    BY <1>1, <2>2, <2>4, <2>10, Roster DEF IInv, Life, lifeVars
  <2> QED BY <2>5, <2>6, <2>7, <2>8, <2>9, <2>11 DEF IInv, Locks
<1> QED BY <1>4, <1>5

------------------------------------------------------------------------------
\* The three ways on from where an actor is

\* The operation of a, which has the manager's lock, is over.
LEMMA OperationOver ==
    ASSUME IInv, NEW a \in Managed, act[a].at = "queued" \/ InOperation(a),
           Head(managerQueue) = a, managerQueue' = Tail(managerQueue),
           NEW r \in Activities, act' = [act EXCEPT ![a] = r],
           r.at \in {"idle", "done", "scheduled"}, r.at = "scheduled" => pending,
           a \in Pushes => r.at = "idle" /\ r.via = "none" /\ ~active',
           intent' \in WellFormed, active' \in BOOLEAN,
           InCommand("evaluator") => active',
           ~stopped /\ active' => intent' = Custom,
           seen' \in [on : BOOLEAN, auto : BOOLEAN], failed' \in BOOLEAN,
           failed' => IF a = "reconcile" THEN r.at = "idle" /\ ~pending ELSE failed,
           UNCHANGED <<environmentVars, deviceOn, pending, lifeVars>>
    PROVE  IInv'
<1>1. /\ act' \in [Actors -> Activities] /\ act'[a] = r
      /\ \A b \in Actors \ {a} : act'[b] = act[b]
  BY Roster DEF IInv, Shapes
<1>2. \A b \in Actors \ {a} : Alike(b)
  BY <1>1 DEF Alike
<1>3. \A b \in Actors \ {a} : /\ InOperation(b)' <=> InOperation(b)
                              /\ InCommand(b)' <=> InCommand(b)
  BY <1>2, AlikeKeepsPlace
<1>4. /\ ~InOperation(a)' /\ ~InCommand(a)' /\ a \in Actors /\ a # "evaluator"
      /\ \A b \in Managed : ~InOperation(b)' /\ ~InCommand(b)'
      /\ \A b \in Managed : act'[b].at # "lock"
  <2>1. ~InOperation(a)' /\ ~InCommand(a)' /\ a \in Actors /\ a # "evaluator"
    BY <1>1, Roster DEF InOperation, InCommand
  <2>2. \A b \in Managed \ {a} : ~InOperation(b) /\ ~InCommand(b)
    BY OneOperation DEF IInv, Locks
  <2>3. \A b \in Managed : ~InOperation(b)' /\ ~InCommand(b)'
    BY <1>3, <2>1, <2>2, Roster
  <2> QED BY <2>1, <2>3 DEF InOperation
<1>5. Shapes'
  BY <1>1 DEF IInv, Shapes, lifeVars, environmentVars
<1>6. Queued'
  BY <1>1, <1>2, Released, Roster DEF IInv, Locks
<1>7. Roles'
  BY <1>1, <1>3, <1>4, Roster DEF IInv, Locks, Roles
<1>8. Ownership'
  BY <1>4 DEF Ownership, lifeVars
<1>9. Reconciles'
  <2>1. ~InCommand("reconcile")' /\ act'["reconcile"].at # "lock"
    BY <1>4, Roster
  <2>2. failed' => act'["reconcile"].at = "idle" /\ ~pending'
    BY <1>1, Roster DEF IInv, Reconciles
  <2> QED BY <2>1, <2>2 DEF Reconciles
<1>10. Life'
  <2>1. a = "reconcile" => ~stopped /\ phase # "out"
    BY DEF IInv, Life, InOperation
  <2>2. a \in Users => ~UsersIdle
    BY DEF UsersIdle, InOperation
  <2>3. a \notin Users => (UsersIdle' <=> UsersIdle)
    BY <1>1, Roster DEF UsersIdle
  <2>4. a \in Users \/ a \in Pushes \/ a = "reconcile"
    BY DEF Managed
  <2> QED BY <1>1, <1>4, <2>1, <2>2, <2>3, <2>4, Roster DEF IInv, Life, lifeVars
<1> QED BY <1>5, <1>6, <1>7, <1>8, <1>9, <1>10 DEF IInv, Locks

\* It goes on: it waits for the controller's lock or is in a command.
LEMMA OperationGoesOn ==
    ASSUME IInv, NEW a \in Managed, act[a].at = "queued" \/ InOperation(a),
           Head(managerQueue) = a, managerQueue' = managerQueue,
           NEW r \in Activities, act' = [act EXCEPT ![a] = r],
           r.at \in {"lock", "waiting", "decided", "applied"},
           a \in Pushes => r.at = "lock" /\ r.via = "none" /\ active' = active,
           a \notin Pushes =>
             IF r.at = "lock" THEN r.via \in {"handoff", "activate", "deactivate"}
             ELSE r.via \in {"plain", "handoff", "activate", "reassert"},
           r.via = "activate" => r.goal = Custom,
           r.at # "lock" /\ r.via # "plain" => ~InCommand("evaluator"),
           a = "reconcile" =>
             IF r.at = "lock" THEN r.via = "deactivate"
             ELSE r.via \in {"plain", "activate"} /\ r.calledOn,
           intent' \in WellFormed, active' \in BOOLEAN, deviceOn' \in BOOLEAN,
           InCommand("evaluator") => active',
           ~stopped /\ active' => intent' = Custom \/ r.via = "activate",
           ~stopped /\ r.via = "plain" => ~active',
           ~stopped /\ r.at # "lock" /\ r.via = "handoff" /\ ~r.owned => ~active',
           UNCHANGED <<environmentVars, seen, pending, failed, lifeVars>>
    PROVE  IInv'
<1>1. /\ act' \in [Actors -> Activities] /\ act'[a] = r
      /\ \A b \in Actors \ {a} : act'[b] = act[b]
  BY Roster DEF IInv, Shapes
<1>2. \A b \in Actors \ {a} : Alike(b)
  BY <1>1 DEF Alike
<1>3. \A b \in Actors \ {a} : /\ InOperation(b)' <=> InOperation(b)
                              /\ InCommand(b)' <=> InCommand(b)
  BY <1>2, AlikeKeepsPlace
<1>4. /\ a \in Actors /\ a # "evaluator" /\ InOperation(a)'
      /\ InCommand(a)' <=> r.at # "lock"
  BY <1>1, Roster DEF InOperation, InCommand
<1>11. \A b \in Managed \ {a} : /\ ~InOperation(b)' /\ ~InCommand(b)'
                                /\ act'[b].at # "lock"
  <2>1. \A b \in Managed \ {a} : ~InOperation(b) /\ ~InCommand(b)
    BY OneOperation DEF IInv, Locks
  <2>2. \A b \in Managed \ {a} : ~InOperation(b)' /\ ~InCommand(b)'
    BY <1>3, <2>1, Roster
  <2> QED BY <2>2 DEF InOperation
<1>5. Shapes'
  BY <1>1 DEF IInv, Shapes, lifeVars, environmentVars
<1>6. Queued'
  <2>1. \A b \in Managed \ {a} : Alike(b)
    BY <1>2, Roster
  <2> QED BY <1>4, <2>1, Held DEF IInv, Locks
<1>7. Roles'
  BY <1>1, <1>3, <1>4, <1>11, Roster DEF IInv, Locks, Roles
<1>8. Ownership'
  BY <1>1, <1>4, <1>11 DEF Ownership, lifeVars
<1>9. Reconciles'
  <2>1. CASE a = "reconcile"
    <3>1. ~failed
      BY <2>1 DEF IInv, Reconciles, InOperation
    <3> QED BY <2>1, <3>1, <1>1, <1>4 DEF Reconciles
  <2>2. CASE a # "reconcile"
    BY <2>2, <1>1, <1>11, Roster DEF IInv, Reconciles
  <2> QED BY <2>1, <2>2
<1>10. Life'
  <2>1. a = "reconcile" => ~stopped /\ phase # "out"
    BY DEF IInv, Life, InOperation
  <2>2. a \in Users => ~UsersIdle
    BY DEF UsersIdle, InOperation
  <2>3. a \notin Users => (UsersIdle' <=> UsersIdle)
    BY <1>1, Roster DEF UsersIdle
  <2>4. a \in Users \/ a \in Pushes \/ a = "reconcile"
    BY DEF Managed
  <2>5. a \in Pushes => pushOn
    BY DEF IInv, Life, InOperation
  <2>6. phase = "closing" => stopped
    BY DEF IInv, Life
  <2>7. phase \in {"closing", "out"} /\ ~outlived => a \in Pushes
    BY <2>1, <2>2, <2>4, <2>6 DEF IInv, Life
  <2> QED BY <1>1, <2>1, <2>3, <2>4, <2>5, <2>7, Roster DEF IInv, Life, lifeVars
<1> QED BY <1>5, <1>6, <1>7, <1>8, <1>9, <1>10 DEF IInv, Locks

\* The evaluator begins, goes on with or ends a command of an active controller.
LEMMA EvaluatorMoves ==
    ASSUME IInv, active \/ InCommand("evaluator"),
           managerQueue' = managerQueue,
           NEW r \in Activities, act' = [act EXCEPT !["evaluator"] = r],
           r.at \in {"idle", "waiting", "decided", "applied"},
           r.at # "idle" =>
             /\ r.via = "evaluate" /\ active'
             /\ InCommand("evaluator") \/ ControllerFree,
           active' \in BOOLEAN, active' => active,
           seen' \in [on : BOOLEAN, auto : BOOLEAN], deviceOn' \in BOOLEAN,
           UNCHANGED <<environmentVars, intent, pending, failed, lifeVars>>
    PROVE  IInv'
<1> DEFINE a == "evaluator"
<1>1. /\ act' \in [Actors -> Activities] /\ act'[a] = r
      /\ \A b \in Managed : act'[b] = act[b]
  BY Roster DEF IInv, Shapes
<1>2. \A b \in Managed : Alike(b)
  BY <1>1 DEF Alike
<1>3. \A b \in Managed : /\ InOperation(b)' <=> InOperation(b)
                         /\ InCommand(b)' <=> InCommand(b)
  BY <1>2, AlikeKeepsPlace, Roster
<1>5. Shapes'
  BY <1>1 DEF IInv, Shapes, lifeVars, environmentVars
<1>6. Queued'
  BY <1>2, Held, Roster DEF IInv, Locks
<1>7. Roles'
  <2>1. InCommand(a)' <=> r.at # "idle"
    BY <1>1 DEF InCommand
  <2>2. r.at # "idle" => \A b \in Managed : InCommand(b) => act[b].via = "plain"
    BY Roster DEF IInv, Locks, Roles, ControllerFree
  <2> QED BY <1>1, <1>3, <2>1, <2>2, Roster DEF IInv, Locks, Roles
<1>8. Ownership'
  BY <1>1, <1>3 DEF IInv, Ownership, lifeVars
<1>9. Reconciles'
  BY <1>1, <1>3, Roster DEF IInv, Reconciles
<1>10. Life'
  <2>1. UsersIdle' <=> UsersIdle
    BY <1>1, Roster DEF UsersIdle
  <2>2. ~(phase \in {"closing", "out"} /\ ~outlived)
    BY DEF IInv, Life, InCommand
  <2> QED BY <1>1, <2>1, <2>2, Roster DEF IInv, Life, lifeVars
<1> QED BY <1>5, <1>6, <1>7, <1>8, <1>9, <1>10 DEF IInv, Locks

------------------------------------------------------------------------------
\* Commands

LEMMA DecideTyped ==
    ASSUME Shapes, NEW r \in Activities
    PROVE  /\ Decide(r) \in Activities /\ Decide(r).at = "decided"
           /\ Decide(r).via = r.via /\ Decide(r).goal = r.goal
           /\ Decide(r).owned = r.owned /\ Decide(r).calledOn = r.calledOn
<1> DEFINE p == r.kind \in {"auto", "manual"} /\ ~seen.on
<1>1. p \in BOOLEAN /\ seen.on \in BOOLEAN /\ "decided" \in Stages
  BY DEF Shapes, Stages
<1>2. Decide(r) = [r EXCEPT !.at = "decided", !.before = seen.on, !.powers = p]
  BY DEF Decide
<1> HIDE DEF p
<1> QED BY <1>1, <1>2 DEF Activities

LEMMA CallMade ==
    ASSUME Shapes, NEW a \in Actors, NEW r \in Activities, Call(a, r)
    PROVE  \E c \in Activities :
             /\ act' = [act EXCEPT ![a] = c]
             /\ c.at \in {"waiting", "decided"}
             /\ c.via = r.via /\ c.goal = r.goal /\ c.owned = r.owned
             /\ c.calledOn = seen.on
<1> DEFINE called == [r EXCEPT !.calledOn = seen.on]
           waits == [called EXCEPT !.at = "waiting"]
<1>1. seen.on \in BOOLEAN /\ "waiting" \in Stages
  BY DEF Shapes, Stages
<1>2. /\ called \in Activities /\ called.via = r.via /\ called.goal = r.goal
      /\ called.owned = r.owned /\ called.calledOn = seen.on
  BY <1>1 DEF Activities
<1> HIDE DEF called
<1>3. /\ waits \in Activities /\ waits.via = called.via /\ waits.goal = called.goal
      /\ waits.owned = called.owned /\ waits.calledOn = called.calledOn
      /\ waits.at = "waiting"
  BY <1>1, <1>2 DEF Activities
<1>4. act' = [act EXCEPT ![a] = IF CommandFree THEN Decide(called) ELSE waits]
  BY DEF Call, called
<1> HIDE DEF waits
<1>5. CASE CommandFree
  <2>1. PICK c : c = Decide(called)
    OBVIOUS
  <2>2. /\ c \in Activities /\ c.at = "decided" /\ c.via = r.via /\ c.goal = r.goal
        /\ c.owned = r.owned /\ c.calledOn = seen.on
    BY <1>2, <2>1, DecideTyped
  <2>3. act' = [act EXCEPT ![a] = c]
    BY <1>4, <1>5, <2>1
  <2> QED BY <2>2, <2>3
<1>6. CASE ~CommandFree
  BY <1>2, <1>3, <1>4, <1>6
<1> QED BY <1>5, <1>6

\* A command goes on: the lock is taken, the purifier executes it.
LEMMA CommandGoesOn ==
    ASSUME IInv, NEW a \in Actors, InCommand(a),
           NEW r \in Activities, act' = [act EXCEPT ![a] = r],
           r.at \in {"decided", "applied"}, r.via = act[a].via, r.goal = act[a].goal,
           r.owned = act[a].owned, r.calledOn = act[a].calledOn,
           deviceOn' \in BOOLEAN,
           UNCHANGED <<environmentVars, seen, intent, active, managerQueue, pending,
                       failed, lifeVars>>
    PROVE  IInv'
<1>1. /\ intent' \in WellFormed /\ active' \in BOOLEAN
      /\ seen' \in [on : BOOLEAN, auto : BOOLEAN]
  BY DEF IInv, Shapes
<1>2. CASE a = "evaluator"
  <2>1. r.via = "evaluate" /\ active'
    BY <1>2 DEF IInv, Locks, Roles
  <2> QED BY <1>1, <1>2, <2>1, EvaluatorMoves
<1>3. CASE a # "evaluator"
  <2>1. a \in Managed /\ InOperation(a)
    BY <1>3, Roster DEF InCommand, InOperation
  <2>2. Head(managerQueue) = a /\ a \notin Pushes
    BY <2>1 DEF IInv, Locks, Queued, Roles, InCommand
  <2>3. /\ r.via \in {"plain", "handoff", "activate", "reassert"}
        /\ r.via = "activate" => r.goal = Custom
        /\ r.via # "plain" => ~InCommand("evaluator")
        /\ InCommand("evaluator") => active'
    BY <2>1, <2>2 DEF IInv, Locks, Roles
  <2>4. a = "reconcile" => r.via \in {"plain", "activate"} /\ r.calledOn
    BY DEF IInv, Reconciles
  <2>5. \A b \in Managed : InOperation(b) => b = a
    BY <2>1, <2>2 DEF IInv, Locks, Queued
  <2>6. /\ ~stopped /\ active' => intent' = Custom \/ r.via = "activate"
        /\ ~stopped /\ r.via = "plain" => ~active'
        /\ ~stopped /\ r.via = "handoff" /\ ~r.owned => ~active'
    BY <2>1, <2>5 DEF IInv, Ownership
  <2> QED BY <1>1, <2>1, <2>2, <2>3, <2>4, <2>6, OperationGoesOn
<1> QED BY <1>2, <1>3

LEMMA CommandLocksKeepsInv ==
    ASSUME IInv, NEW a \in Actors, CommandLocks(a)
    PROVE  IInv'
<1>1. /\ act[a].at = "waiting" /\ act' = [act EXCEPT ![a] = Decide(act[a])]
      /\ UNCHANGED <<environmentVars, deviceOn, seen, intent, active, managerQueue, pending,
                     failed, lifeVars>>
  BY DEF CommandLocks, beyondManager
<1>2. act[a] \in Activities /\ Shapes /\ deviceOn' \in BOOLEAN /\ InCommand(a)
  BY <1>1 DEF IInv, Shapes, InCommand
<1>3. PICK r : r = Decide(act[a])
  OBVIOUS
<1>4. /\ r \in Activities /\ r.at = "decided" /\ r.via = act[a].via /\ r.goal = act[a].goal
      /\ r.owned = act[a].owned /\ r.calledOn = act[a].calledOn
  BY <1>2, <1>3, DecideTyped
<1> QED BY <1>1, <1>2, <1>3, <1>4, CommandGoesOn

LEMMA CommandAppliesKeepsInv ==
    ASSUME IInv, NEW a \in Actors, CommandApplies(a)
    PROVE  IInv'
<1>1. /\ act[a].at = "decided" /\ act' = [act EXCEPT ![a].at = "applied"]
      /\ deviceOn' = CASE act[a].kind = "off" -> FALSE
                       [] act[a].kind = "on" \/ act[a].powers -> TRUE
                       [] OTHER -> deviceOn
      /\ UNCHANGED <<environmentVars, seen, intent, active, managerQueue, pending,
                     failed, lifeVars>>
  BY DEF CommandApplies
<1>2. act[a] \in Activities /\ InCommand(a) /\ deviceOn \in BOOLEAN
  BY <1>1 DEF IInv, Shapes, InCommand
<1>5. deviceOn' \in BOOLEAN
  BY <1>1, <1>2
<1> DEFINE r == [act[a] EXCEPT !.at = "applied"]
<1>3. act' = [act EXCEPT ![a] = r]
  BY <1>1
<1>4. /\ r \in Activities /\ r.at = "applied" /\ r.via = act[a].via /\ r.goal = act[a].goal
      /\ r.owned = act[a].owned /\ r.calledOn = act[a].calledOn
  BY <1>2 DEF Activities, Stages
<1> HIDE DEF r
<1> QED BY <1>1, <1>2, <1>3, <1>4, <1>5, CommandGoesOn

\* What holds of the operation that has a command.
LEMMA OperationInCommand ==
    ASSUME IInv, NEW a \in Actors, a # "evaluator", InCommand(a)
    PROVE  /\ a \in Managed /\ InOperation(a) /\ Head(managerQueue) = a /\ a \notin Pushes
           /\ act[a].via \in {"plain", "handoff", "activate", "reassert"}
           /\ act[a].via = "activate" => act[a].goal = Custom
           /\ act[a].via # "plain" => ~InCommand("evaluator")
           /\ InCommand("evaluator") => active
           /\ ~stopped =>
                /\ active => intent = Custom \/ act[a].via = "activate"
                /\ act[a].via = "plain" => ~active
                /\ act[a].via = "handoff" /\ ~act[a].owned => ~active
<1>1. a \in Managed /\ InOperation(a)
  BY Roster DEF InCommand, InOperation
<1>2. Head(managerQueue) = a /\ a \notin Pushes
  BY <1>1 DEF IInv, Locks, Queued, Roles, InCommand
<1>3. \A b \in Managed : InOperation(b) => b = a
  BY <1>1, <1>2 DEF IInv, Locks, Queued
<1> QED BY <1>1, <1>2, <1>3 DEF IInv, Locks, Roles, Ownership

LEMMA CommandConfirmedKeepsInv ==
    ASSUME IInv, NEW a \in Actors, CommandConfirmed(a)
    PROVE  IInv'
<1>1. /\ act[a].at = "applied" /\ seen' = Confirmed(a)
      /\ UNCHANGED <<environmentVars, deviceOn, lifeVars>>
  BY DEF CommandConfirmed
<1>2. /\ act \in [Actors -> Activities] /\ act[a] \in Activities /\ InCommand(a)
      /\ failed \in BOOLEAN /\ pending \in BOOLEAN
  BY <1>1 DEF IInv, Shapes, InCommand
<1>3. seen' \in [on : BOOLEAN, auto : BOOLEAN]
  <2>1. /\ seen.on \in BOOLEAN /\ seen.auto \in BOOLEAN
        /\ act[a].powers \in BOOLEAN /\ act[a].before \in BOOLEAN
        /\ act[a].powerPushed \in BOOLEAN
    BY <1>2 DEF Activities, IInv, Shapes
  <2>2. Confirmed(a).on \in BOOLEAN
    BY <2>1 DEF Confirmed
  <2>3. Confirmed(a).auto \in BOOLEAN
    BY <2>1 DEF Confirmed
  <2>4. Confirmed(a) = [on |-> Confirmed(a).on, auto |-> Confirmed(a).auto]
    BY DEF Confirmed
  <2> QED BY <1>1, <2>2, <2>3, <2>4
<1>4. ASSUME NEW next, Notify(FALSE, next)
      PROVE  act' = next /\ pending' = pending /\ failed' = failed
  BY <1>2, <1>4 DEF Notify, Reacts
<1>5. CASE a = "evaluator"
  <2> DEFINE again == [Idle EXCEPT !.at = "waiting", !.op = "again", !.via = "evaluate",
                              !.kind = "manual", !.calledOn = Confirmed(a).on]
  <2>1. again \in Activities /\ again.at = "waiting" /\ again.via = "evaluate"
    <3>1. Confirmed(a).on \in BOOLEAN
      BY <1>1, <1>3
    <3>2. /\ "waiting" \in Stages /\ "again" \in Names /\ "evaluate" \in Vias
          /\ "manual" \in Kinds
      BY DEF Stages, Names, Vias, Kinds
    <3>3. Idle \in Activities
      BY Constructed
    <3>4. again = WithCommand(Idle, "waiting", "again", "evaluate", "manual", Confirmed(a).on)
      BY DEF WithCommand
    <3> HIDE DEF again
    <3> QED BY <3>1, <3>2, <3>3, <3>4, AssignedCommand
  <2> HIDE DEF again
  <2>2. PICK next \in {Idle, again} : Notify(FALSE, [act EXCEPT ![a] = next])
    BY <1>5 DEF CommandConfirmed, again
  <2>3. UNCHANGED <<intent, active, managerQueue>>
    BY <1>5 DEF CommandConfirmed
  <2>4. act' = [act EXCEPT ![a] = next] /\ pending' = pending /\ failed' = failed
    BY <2>2, <1>4
  <2>5. /\ next \in Activities /\ next.at \in {"idle", "waiting"}
        /\ next.at # "idle" => next.via = "evaluate"
    BY <2>1, Constructed
  <2>6. active /\ deviceOn' \in BOOLEAN /\ active' \in BOOLEAN
    BY <1>1, <1>2, <1>5, <2>3 DEF IInv, Shapes, Locks, Roles
  <2> QED BY <1>1, <1>2, <1>3, <1>5, <2>3, <2>4, <2>5, <2>6, EvaluatorMoves
<1>6. CASE a # "evaluator"
  <2>1. /\ Notify(FALSE, [act EXCEPT ![a] = After(a)])
        /\ active' = (active /\ act[a].via # "handoff")
        /\ intent' = IF act[a].via = "reassert" THEN intent ELSE act[a].goal
        /\ managerQueue' = Tail(managerQueue)
    BY <1>6 DEF CommandConfirmed
  <2>2. act' = [act EXCEPT ![a] = After(a)] /\ pending' = pending /\ failed' = failed
    BY <2>1, <1>4
  <2>3. a \in Managed /\ InOperation(a) /\ Head(managerQueue) = a /\ a \notin Pushes
    BY <1>2, <1>6, OperationInCommand
  <2>4. active' \in BOOLEAN /\ intent' \in WellFormed
    <3>1. active \in BOOLEAN /\ intent \in WellFormed /\ act[a].goal \in WellFormed
      BY <1>2 DEF Activities, IInv, Shapes
    <3> QED BY <3>1, <2>1
  <2>5. InCommand("evaluator") => active'
    BY <1>2, <1>6, <2>1, OperationInCommand
  <2>6. ~stopped /\ active' => intent' = Custom
    BY <1>2, <1>6, <2>1, OperationInCommand
  <2>7. failed' \in BOOLEAN /\ (a = "reconcile" => ~failed)
    BY <1>1, <1>2, <2>2 DEF IInv, Reconciles
  <2>8. PICK r : r = After(a)
    OBVIOUS
  <2>9. /\ r \in Activities /\ r.at \in {"idle", "done", "scheduled"}
        /\ r.at = "scheduled" => pending
    BY <2>8, Afterwards
  <2>10. /\ act' = [act EXCEPT ![a] = r] /\ failed' = failed /\ pending' = pending
    BY <2>2, <2>8
  <2>11. UNCHANGED <<environmentVars, deviceOn, pending, lifeVars>>
    BY <1>1, <2>2
  <2> QED BY <1>3, <2>1, <2>3, <2>4, <2>5, <2>6, <2>7, <2>9, <2>10, <2>11, OperationOver
<1> QED BY <1>5, <1>6

LEMMA CommandFailsKeepsInv ==
    ASSUME IInv, NEW a \in Actors, CommandFails(a)
    PROVE  IInv'
<1> DEFINE reassert == [Idle EXCEPT !.at = "waiting", !.op = act[a].op, !.via = "reassert",
                                 !.kind = "manual", !.calledOn = seen.on]
           Reasserts == act[a].via = "handoff" /\ act[a].owned
<1>1. /\ InCommand(a)
      /\ act' = [act EXCEPT ![a] = IF Reasserts THEN reassert ELSE After(a)]
      /\ active' = (active /\ act[a].via # "activate")
      /\ managerQueue' = IF a = "evaluator" \/ Reasserts
                         THEN managerQueue ELSE Tail(managerQueue)
      /\ failed' = IF a = "reconcile" THEN ~pending ELSE failed
      /\ UNCHANGED <<environmentVars, deviceOn, seen, intent, pending, lifeVars>>
  BY DEF CommandFails
<1>2. /\ act \in [Actors -> Activities] /\ act[a] \in Activities
      /\ act[a].owned \in BOOLEAN
      /\ failed \in BOOLEAN /\ pending \in BOOLEAN /\ active \in BOOLEAN
      /\ seen' \in [on : BOOLEAN, auto : BOOLEAN] /\ seen.on \in BOOLEAN
      /\ intent' \in WellFormed /\ deviceOn' \in BOOLEAN
  <2>1. act \in [Actors -> Activities] /\ act[a] \in Activities
    BY DEF IInv, Shapes
  <2>2. act[a].owned \in BOOLEAN
    BY <2>1 DEF Activities
  <2> QED BY <2>1, <2>2, <1>1 DEF IInv, Shapes
<1>3. active' \in BOOLEAN /\ failed' \in BOOLEAN
  BY <1>1, <1>2
<1>4. /\ reassert \in Activities /\ reassert.at = "waiting" /\ reassert.via = "reassert"
  <2>1. act[a].op \in Names
    BY <1>2 DEF Activities
  <2>2. /\ "waiting" \in Stages /\ "reassert" \in Vias /\ "manual" \in Kinds
    BY DEF Stages, Vias, Kinds
  <2>3. Idle \in Activities
    BY Constructed
  <2>4. seen.on \in BOOLEAN
    BY <1>2
  <2>5. reassert = WithCommand(Idle, "waiting", act[a].op, "reassert", "manual", seen.on)
    BY DEF WithCommand
  <2> HIDE DEF reassert
  <2> QED BY <2>1, <2>2, <2>3, <2>4, <2>5, AssignedCommand
<1> HIDE DEF reassert
<1>5. CASE a = "evaluator"
  <2>1. act[a].via = "evaluate" /\ active
    BY <1>1, <1>5 DEF IInv, Locks, Roles
  <2>2. PICK r : r = After(a)
    OBVIOUS
  <2>3. r \in Activities /\ r.at = "idle"
    BY <2>2, <1>5, Afterwards
  <2>4. /\ act' = [act EXCEPT !["evaluator"] = r] /\ managerQueue' = managerQueue
        /\ active' => active
        /\ UNCHANGED <<environmentVars, intent, pending, failed, lifeVars>>
    BY <1>1, <1>5, <2>1, <2>2
  <2> QED BY <1>2, <1>3, <2>1, <2>3, <2>4, EvaluatorMoves
<1>6. CASE a # "evaluator" /\ Reasserts
  <2>1. /\ act' = [act EXCEPT ![a] = reassert] /\ active' = active
        /\ managerQueue' = managerQueue
    BY <1>1, <1>2, <1>6
  <2>2. /\ a \in Managed /\ InOperation(a) /\ Head(managerQueue) = a /\ a \notin Pushes
        /\ ~InCommand("evaluator")
        /\ ~stopped /\ active => intent = Custom
    BY <1>1, <1>6, OperationInCommand
  <2>3. a # "reconcile"
    BY <1>1, <1>6 DEF IInv, Reconciles
  <2>4. UNCHANGED <<environmentVars, seen, pending, failed, lifeVars>>
    BY <1>1, <2>3
  <2>5. ~stopped /\ active' => intent' = Custom
    BY <1>1, <2>1, <2>2
  <2> QED BY <1>2, <1>3, <1>4, <2>1, <2>2, <2>3, <2>4, <2>5, OperationGoesOn
<1>7. CASE a # "evaluator" /\ ~Reasserts
  <2>1. /\ act' = [act EXCEPT ![a] = After(a)] /\ managerQueue' = Tail(managerQueue)
    BY <1>1, <1>7
  <2>2. /\ a \in Managed /\ InOperation(a) /\ Head(managerQueue) = a /\ a \notin Pushes
        /\ act[a].via # "plain" => ~InCommand("evaluator")
        /\ InCommand("evaluator") => active
    BY <1>1, <1>7, OperationInCommand
  <2>3. ~stopped /\ active' => intent' = Custom
    BY <1>1, <1>7, OperationInCommand
  <2>4. InCommand("evaluator") => active'
    BY <1>1, <2>2
  <2>5. PICK r : r = After(a)
    OBVIOUS
  <2>6. /\ r \in Activities /\ r.at \in {"idle", "done", "scheduled"}
        /\ r.at = "scheduled" <=> a = "reconcile" /\ pending
        /\ r.at = "done" <=> a \in Users
    BY <2>5, Afterwards
  <2>7. failed' => IF a = "reconcile" THEN r.at = "idle" /\ ~pending ELSE failed
    BY <1>1, <2>6, Roster
  <2>8. act' = [act EXCEPT ![a] = r]
    BY <2>1, <2>5
  <2>9. UNCHANGED <<environmentVars, deviceOn, pending, lifeVars>>
    BY <1>1
  <2> QED BY <1>2, <1>3, <2>1, <2>2, <2>3, <2>4, <2>6, <2>7, <2>8, <2>9, OperationOver
<1> QED BY <1>5, <1>6, <1>7

------------------------------------------------------------------------------
\* The operations of the manager

\* What an operation may ask the controller or the coordinator for; state is
\* the intent meanwhile.
Legit(a, r, state) ==
    /\ r \in Activities /\ state \in WellFormed
    /\ r.via \in {"plain", "handoff", "activate", "deactivate"}
    /\ r.via = "activate" => r.goal = Custom
    /\ ~stopped => /\ r.via = "plain" => ~active
                   /\ active /\ r.via # "activate" => state = Custom
    /\ a = "reconcile" => \/ r.via = "deactivate"
                          \/ r.via \in {"plain", "activate"} /\ seen.on

\* Who has the manager's lock and knows what it wants.
Acts(a) ==
    /\ a \in Managed \ Pushes
    /\ act[a].at = "queued" \/ act[a].at = "lock"
    /\ Head(managerQueue) = a

\* The operation calls the coordinator.
LEMMA CallKeepsInv ==
    ASSUME IInv, NEW a, Acts(a), NEW r \in Activities, NEW state,
           Legit(a, r, state), Call(a, r),
           r.via \in {"plain", "handoff", "activate"},
           r.via # "plain" => ControllerFree,
           r.via = "handoff" => r.owned = active,
           active' = (active \/ r.via = "activate"), intent' = state,
           UNCHANGED <<environmentVars, deviceOn, seen, managerQueue, pending, failed,
                       lifeVars>>
    PROVE  IInv'
<1>1. /\ a \in Managed /\ a \in Actors /\ a \notin Pushes
      /\ act[a].at = "queued" \/ InOperation(a)
      /\ Head(managerQueue) = a /\ managerQueue' = managerQueue
  BY Roster DEF Acts, InOperation
<1>2. Shapes
  BY DEF IInv
<1>3. PICK c \in Activities :
             /\ act' = [act EXCEPT ![a] = c]
             /\ c.at \in {"waiting", "decided"}
             /\ c.via = r.via /\ c.goal = r.goal /\ c.owned = r.owned
             /\ c.calledOn = seen.on
  BY <1>1, <1>2, CallMade
<1>4. active \in BOOLEAN /\ active' \in BOOLEAN /\ deviceOn' \in BOOLEAN
  BY <1>2 DEF Shapes
<1>5. r.via # "plain" => ~InCommand("evaluator")
  BY Roster DEF IInv, Locks, Roles, ControllerFree
<1>6. InCommand("evaluator") => active'
  BY DEF IInv, Locks, Roles
<1>7. /\ c.at \in {"lock", "waiting", "decided", "applied"} /\ c.at # "lock"
      /\ c.via \in {"plain", "handoff", "activate", "reassert"}
      /\ c.via = "activate" => c.goal = Custom
      /\ c.via # "plain" => ~InCommand("evaluator")
      /\ a = "reconcile" => c.via \in {"plain", "activate"} /\ c.calledOn
      /\ ~stopped /\ active' => intent' = Custom \/ c.via = "activate"
      /\ ~stopped /\ c.via = "plain" => ~active'
      /\ ~stopped /\ c.via = "handoff" /\ ~c.owned => ~active'
      /\ intent' \in WellFormed
  BY <1>3, <1>4, <1>5 DEF Legit
<1>8. UNCHANGED <<environmentVars, seen, pending, failed, lifeVars>>
  OBVIOUS
<1> QED BY <1>1, <1>3, <1>4, <1>6, <1>7, <1>8, OperationGoesOn

\* The operation is over without a command, or after giving up the controller.
LEMMA FinishKeepsInv ==
    ASSUME IInv, NEW a, Acts(a), NEW state \in WellFormed, Finish(a, state),
           active' \in BOOLEAN, InCommand("evaluator") => active',
           ~stopped /\ active' => state = Custom,
           UNCHANGED <<environmentVars, deviceOn, seen, pending, failed, lifeVars>>
    PROVE  IInv'
<1>1. /\ a \in Managed /\ a \in Actors /\ a \notin Pushes
      /\ act[a].at = "queued" \/ InOperation(a)
      /\ Head(managerQueue) = a
  BY Roster DEF Acts, InOperation
<1>2. PICK r : r = After(a)
  OBVIOUS
<1>3. /\ r \in Activities /\ r.at \in {"idle", "done", "scheduled"}
      /\ r.at = "scheduled" => pending
  BY <1>1, <1>2, Afterwards
<1>4. /\ act' = [act EXCEPT ![a] = r] /\ managerQueue' = Tail(managerQueue)
      /\ intent' = state
  BY <1>2 DEF Finish
<1>5. /\ failed' \in BOOLEAN /\ seen' \in [on : BOOLEAN, auto : BOOLEAN]
      /\ failed' = failed
  BY DEF IInv, Shapes
<1>6. a = "reconcile" => ~failed
  BY <1>1 DEF IInv, Reconciles, InOperation
<1>7. /\ failed' => IF a = "reconcile" THEN r.at = "idle" /\ ~pending ELSE failed
      /\ ~stopped /\ active' => intent' = Custom
      /\ intent' \in WellFormed
  BY <1>4, <1>5, <1>6
<1>8. UNCHANGED <<environmentVars, deviceOn, pending, lifeVars>>
  OBVIOUS
<1> QED BY <1>1, <1>3, <1>4, <1>5, <1>7, <1>8, OperationOver

LEMMA ControllerKeepsInv ==
    ASSUME IInv, NEW a, Acts(a), NEW r \in Activities, NEW state,
           Legit(a, r, state), ControllerFree, Controller(a, r, state),
           UNCHANGED <<beyondManager, seen>>
    PROVE  IInv'
<1>1. /\ UNCHANGED <<environmentVars, deviceOn, seen, pending, failed, lifeVars>>
      /\ ~InCommand("evaluator") /\ active \in BOOLEAN /\ r.goal \in WellFormed
  BY Roster DEF beyondManager, IInv, Shapes, Locks, Roles, ControllerFree, Activities
<1>2. CASE r.via = "deactivate"
  <2>1. active' = FALSE /\ Finish(a, r.goal)
    BY <1>2 DEF Controller
  <2> QED BY <1>1, <2>1, FinishKeepsInv
<1>3. CASE r.via = "handoff"
  <2> DEFINE owning == [r EXCEPT !.owned = active]
  <2>1. /\ Call(a, owning) /\ intent' = state /\ UNCHANGED <<active, managerQueue>>
    BY <1>3 DEF Controller
  <2>2. /\ owning \in Activities /\ owning.via = r.via /\ owning.goal = r.goal
        /\ owning.owned = active
    BY <1>1 DEF Activities
  <2> HIDE DEF owning
  <2>3. Legit(a, owning, state)
    BY <1>3, <2>2 DEF Legit
  <2>4. active' = (active \/ owning.via = "activate")
    BY <1>1, <1>3, <2>1, <2>2
  <2> QED BY <1>1, <1>3, <2>1, <2>2, <2>3, <2>4, CallKeepsInv
<1>4. CASE r.via = "activate"
  <2>1. active' = TRUE
    BY <1>4 DEF Controller
  <2>2. CASE Finish(a, r.goal)
    BY <1>1, <1>4, <2>1, <2>2, FinishKeepsInv DEF Legit
  <2>3. CASE Call(a, r) /\ intent' = state /\ UNCHANGED managerQueue
    <3>1. active' = (active \/ r.via = "activate")
      BY <1>1, <1>4, <2>1
    <3> QED BY <1>1, <1>4, <2>3, <3>1, CallKeepsInv
  <2> QED BY <1>4, <2>2, <2>3 DEF Controller
<1> QED BY <1>2, <1>3, <1>4 DEF Controller

\* An operation that begins does what it wants, or waits for the controller.
\* Where reconciliation might have to wait it finds the controller active.
LEMMA ProceedKeepsInv ==
    ASSUME IInv, NEW a, Acts(a), act[a].at = "queued", NEW r, NEW state,
           Legit(a, r, state), Proceed(a, r, state),
           UNCHANGED <<beyondManager, seen>>,
           a = "reconcile" /\ r.via = "activate" => ~active
    PROVE  IInv'
<1>1. UNCHANGED <<environmentVars, deviceOn, seen, pending, failed, lifeVars>>
      /\ r \in Activities
  BY DEF beyondManager, Legit
<1>2. CASE r.via = "plain"
  <2>1. Call(a, r) /\ intent' = state /\ UNCHANGED <<active, managerQueue>>
    BY <1>2 DEF Proceed
  <2>2. active' = (active \/ r.via = "activate")
    BY <1>2, <2>1 DEF IInv, Shapes
  <2> QED BY <1>1, <1>2, <2>1, <2>2, CallKeepsInv
<1>3. CASE r.via # "plain" /\ ControllerFree
  <2>1. Controller(a, r, state)
    BY <1>3 DEF Proceed
  <2> QED BY <1>1, <1>3, <2>1, ControllerKeepsInv
<1>4. CASE r.via # "plain" /\ ~ControllerFree
  <2> DEFINE c == [r EXCEPT !.at = "lock"]
  <2>1. act' = [act EXCEPT ![a] = c] /\ intent' = state /\ UNCHANGED <<active, managerQueue>>
    BY <1>4 DEF Proceed
  <2>2. c \in Activities /\ c.at = "lock" /\ c.via = r.via /\ c.goal = r.goal
    BY <1>1 DEF Activities, Stages
  <2> HIDE DEF c
  <2>3. /\ a \in Managed /\ a \in Actors /\ a \notin Pushes
        /\ Head(managerQueue) = a
    BY Roster DEF Acts
  <2>4. InCommand("evaluator")
    <3>1. \A b \in Managed : ~InCommand(b)
      BY <2>3, OneOperation DEF IInv, Locks
    <3> QED BY <1>4, <3>1, Roster DEF ControllerFree
  <2>5. active /\ active' \in BOOLEAN /\ deviceOn' \in BOOLEAN
    BY <1>1, <2>1, <2>4 DEF IInv, Locks, Roles, Shapes
  <2>6. /\ c.via \in {"handoff", "activate", "deactivate"}
        /\ c.via = "activate" => c.goal = Custom
        /\ a = "reconcile" => c.via = "deactivate"
        /\ ~stopped /\ active' => intent' = Custom \/ c.via = "activate"
        /\ intent' \in WellFormed
    BY <1>4, <2>1, <2>2, <2>5 DEF Legit
  <2>7. UNCHANGED <<environmentVars, seen, pending, failed, lifeVars>>
    BY <1>1
  <2> QED BY <2>1, <2>2, <2>3, <2>5, <2>6, <2>7, OperationGoesOn
<1> QED BY <1>2, <1>3, <1>4

\* With the manager's lock just taken, nobody is in an operation.
LEMMA Beginning ==
    ASSUME IInv, NEW a \in Managed, Holds(a)
    PROVE  /\ act[a].at = "queued" /\ Head(managerQueue) = a
           /\ a \notin Pushes => Acts(a)
           /\ ~stopped /\ active => intent = Custom
           /\ \A b \in Managed : ~InOperation(b) /\ ~InCommand(b)
           /\ a = "reconcile" => ~stopped
           /\ InCommand("evaluator") => active
           /\ intent \in WellFormed /\ active \in BOOLEAN /\ seen.on \in BOOLEAN
<1>1. act[a].at = "queued" /\ Head(managerQueue) = a
  BY DEF Holds
<1>2. \A b \in Managed : ~InOperation(b) /\ ~InCommand(b)
  BY <1>1, OneOperation DEF IInv, Locks
<1>3. ~stopped /\ active => intent = Custom
  BY <1>2 DEF IInv, Ownership
<1>4. a = "reconcile" => ~stopped
  BY <1>1 DEF IInv, Life
<1>5. intent \in WellFormed /\ active \in BOOLEAN /\ seen.on \in BOOLEAN
  BY DEF IInv, Shapes
<1> QED BY <1>1, <1>2, <1>3, <1>4, <1>5 DEF IInv, Locks, Roles, Acts

LEMMA RequestTyped ==
    ASSUME IInv, NEW a \in Actors, NEW v \in Vias, NEW k \in Kinds, NEW f \in BOOLEAN,
           NEW g \in WellFormed
    PROVE  /\ Request(a, v, k, f, g) \in Activities
           /\ Request(a, v, k, f, g).via = v
           /\ Request(a, v, k, f, g).goal = g
<1>1. act[a].op \in Names
  BY DEF IInv, Shapes, Activities
<1>2. [Idle EXCEPT !.op = act[a].op, !.via = v] \in Activities
  BY <1>1, Constructed DEF Activities
<1>3. PICK z \in Activities : z = [Idle EXCEPT !.op = act[a].op, !.via = v]
  BY <1>2
<1>4. z.via = v
  BY <1>3, Constructed DEF Activities
<1>5. Request(a, v, k, f, g) = [z EXCEPT !.kind = k, !.force = f, !.goal = g]
  BY <1>3 DEF Request
<1>6. /\ [z EXCEPT !.kind = k, !.force = f, !.goal = g] \in Activities
      /\ [z EXCEPT !.kind = k, !.force = f, !.goal = g].via = z.via
      /\ [z EXCEPT !.kind = k, !.force = f, !.goal = g].goal = g
  BY DEF Activities
<1> QED BY <1>4, <1>5, <1>6

LEMMA HandOffKeepsInv ==
    ASSUME IInv, NEW a \in Users, Holds(a), NEW k \in Kinds, NEW g \in WellFormed,
           HandOff(a, k, g), UNCHANGED <<beyondManager, seen>>
    PROVE  IInv'
<1>1. PICK v : v = IF active THEN "handoff" ELSE "plain"
  OBVIOUS
<1>2. PICK r : r = Request(a, v, k, FALSE, g)
  OBVIOUS
<1>3. Proceed(a, r, intent)
  BY <1>1, <1>2 DEF HandOff
<1>4. /\ a \in Managed /\ a \in Actors /\ a \notin Pushes /\ a # "reconcile"
  BY Roster
<1>5. r \in Activities /\ r.via = v
  <2>1. v \in Vias
    BY <1>1 DEF Vias
  <2>2. PICK f \in BOOLEAN : r = Request(a, v, k, f, g)
    BY <1>2, Zenon
  <2> QED BY ONLY IInv, k \in Kinds, g \in WellFormed, f \in BOOLEAN, <1>4, <2>1, <2>2,
                  RequestTyped
<1>6. Legit(a, r, intent)
  BY <1>1, <1>4, <1>5, Beginning DEF Legit
<1> QED BY <1>3, <1>4, <1>6, Beginning, ProceedKeepsInv

LEMMA ResumeKeepsInv ==
    ASSUME IInv, NEW a \in Managed \ Pushes, Holds(a), NEW state \in WellFormed,
           NEW f \in BOOLEAN, Resume(a, state, f), UNCHANGED <<beyondManager, seen>>,
           ~stopped /\ state.mode = "hardware" => ~active,
           a = "reconcile" => seen.on /\ ~active
    PROVE  IInv'
<1>1. a \in Actors /\ a \in Managed /\ act[a].at = "queued" /\ Acts(a)
  BY Roster, Beginning
<1>2. Intent("hardware", FALSE) \in WellFormed /\ Custom \in WellFormed
  BY Constructed DEF Intent, WellFormed, Intents, Modes
<1>3. {"plain", "activate"} \subseteq Vias /\ {"auto", "manual"} \subseteq Kinds
  BY DEF Vias, Kinds
<1>4. CASE state.mode = "hardware"
  <2>1. PICK r : r = Request(a, "plain", "auto", f, Intent("hardware", FALSE))
    OBVIOUS
  <2>2. Proceed(a, r, state)
    BY <1>4, <2>1 DEF Resume
  <2>3. r \in Activities /\ r.via = "plain"
    <3>1. PICK g : g = Intent("hardware", FALSE)
      OBVIOUS
    <3>2. r = Request(a, "plain", "auto", f, g) /\ g \in WellFormed
      BY <1>2, <2>1, <3>1
    <3> QED BY ONLY IInv, f \in BOOLEAN, <1>1, <1>3, <3>2, RequestTyped
  <2>4. Legit(a, r, state)
    BY <1>4, <2>3 DEF Legit
  <2> QED BY <1>1, <2>2, <2>3, <2>4, ProceedKeepsInv
<1>5. CASE state.mode # "hardware"
  <2>1. PICK r : r = Request(a, "activate", "manual", f, Custom)
    OBVIOUS
  <2>2. Proceed(a, r, state)
    BY <1>5, <2>1 DEF Resume, Custom
  <2>3. r \in Activities /\ r.via = "activate" /\ r.goal = Custom
    BY <1>1, <1>2, <1>3, <2>1, RequestTyped
  <2>4. Legit(a, r, state)
    BY <2>3 DEF Legit
  <2> QED BY <1>1, <2>2, <2>3, <2>4, ProceedKeepsInv
<1> QED BY <1>4, <1>5

\* An operation that has nothing to do, or just notes an intent.
LEMMA NotedKeepsInv ==
    ASSUME IInv, NEW a \in Managed \ Pushes, Holds(a), NEW state \in WellFormed,
           Finish(a, state), active' = active, UNCHANGED <<beyondManager, seen>>,
           ~stopped /\ active => state = Custom
    PROVE  IInv'
<1>1. UNCHANGED <<environmentVars, deviceOn, seen, pending, failed, lifeVars>>
  BY DEF beyondManager
<1>2. Acts(a) /\ (InCommand("evaluator") => active') /\ active' \in BOOLEAN
  BY Beginning
<1> QED BY <1>1, <1>2, FinishKeepsInv

LEMMA TurnOnKeepsInv ==
    ASSUME IInv, NEW u \in Users, TurnOn(u)
    PROVE  IInv'
<1> DEFINE s == Intent(intent.mode, intent.suspended \/ ~seen.on)
<1>1. /\ u \in Managed \ Pushes /\ u \in Actors /\ u # "reconcile" /\ Holds(u)
      /\ UNCHANGED <<beyondManager, seen>>
      /\ IF /\ intent.mode # "none"
            /\ s.suspended \/ (intent.mode = "custom" /\ ~active)
         THEN Resume(u, s, s.suspended)
         ELSE IF seen.on THEN Return(u)
         ELSE Proceed(u, Request(u, "plain", "on", FALSE, intent), intent)
  BY Roster DEF TurnOn
<1>2. /\ intent \in WellFormed /\ active \in BOOLEAN /\ seen.on \in BOOLEAN
      /\ ~stopped /\ active => intent = Custom
      /\ Acts(u) /\ act[u].at = "queued"
  BY <1>1, Beginning
<1>3. s.mode = intent.mode /\ (s.suspended <=> intent.suspended \/ ~seen.on)
      /\ s.suspended \in BOOLEAN
  BY <1>2 DEF Intent, WellFormed, Intents
<1>4. CASE intent.mode # "none" /\ (s.suspended \/ (intent.mode = "custom" /\ ~active))
  <2>1. s \in WellFormed
    BY <1>2, <1>4 DEF Intent, WellFormed, Intents
  <2>2. Resume(u, s, s.suspended)
    BY <1>1, <1>4
  <2>3. ~stopped /\ s.mode = "hardware" => ~active
    BY <1>2, <1>3 DEF Custom, Intent
  <2> HIDE DEF s
  <2> QED BY <1>1, <1>3, <2>1, <2>2, <2>3, ResumeKeepsInv
<1>5. CASE ~(intent.mode # "none" /\ (s.suspended \/ (intent.mode = "custom" /\ ~active)))
  <2>1. CASE seen.on
    <3>1. Finish(u, intent) /\ active' = active
      BY <1>1, <1>5, <2>1 DEF Return
    <3> QED BY <1>1, <1>2, <3>1, NotedKeepsInv
  <2>2. CASE ~seen.on
    <3>1. PICK r : r = Request(u, "plain", "on", FALSE, intent)
      OBVIOUS
    <3>2. Proceed(u, r, intent)
      BY <1>1, <1>5, <2>2, <3>1
    <3>3. r \in Activities /\ r.via = "plain"
      <4>1. u \in Actors /\ "plain" \in Vias /\ "on" \in Kinds /\ intent \in WellFormed
        BY <1>1, <1>2 DEF Vias, Kinds
      <4>2. PICK f \in BOOLEAN : r = Request(u, "plain", "on", f, intent)
        BY <3>1, Zenon
      <4> QED BY ONLY IInv, f \in BOOLEAN, <4>1, <4>2, RequestTyped
    <3>4. intent.mode = "none"
      BY <1>3, <1>5, <2>2
    <3>5. ~stopped => ~active
      BY <1>2, <3>4 DEF Custom, Intent
    <3>6. Legit(u, r, intent)
      BY <1>1, <1>2, <3>3, <3>5 DEF Legit
    <3> QED BY <1>1, <1>2, <3>2, <3>3, <3>6, ProceedKeepsInv
  <2> QED BY <2>1, <2>2
<1> QED BY <1>4, <1>5

LEMMA TurnOffKeepsInv ==
    ASSUME IInv, NEW u \in Users, TurnOff(u)
    PROVE  IInv'
<1>1. PICK mode : mode = IF active THEN "custom"
                         ELSE IF intent.mode = "none" /\ seen.auto THEN "hardware"
                         ELSE intent.mode
  OBVIOUS
<1>2. /\ Holds(u) /\ HandOff(u, "off", Intent(mode, mode # "none"))
      /\ UNCHANGED <<beyondManager, seen>>
  BY <1>1 DEF TurnOff
<1>3. Intent(mode, mode # "none") \in WellFormed
  BY <1>1 DEF Intent, WellFormed, Intents, Modes, IInv, Shapes
<1>4. "off" \in Kinds
  BY DEF Kinds
<1> QED BY <1>2, <1>3, <1>4, HandOffKeepsInv

LEMMA SelectionsKeepInv ==
    ASSUME IInv, NEW u \in Users,
           SetManualMode(u) \/ SetHardwareAuto(u) \/ EnableCustomAuto(u) \/ DisableCustomAuto(u)
    PROVE  IInv'
<1>1. /\ NoIntent \in WellFormed /\ Custom \in WellFormed
      /\ Intent("hardware", FALSE) \in WellFormed /\ Intent("hardware", TRUE) \in WellFormed
  BY Constructed DEF Intent, WellFormed, Intents, Modes
<1>2. "manual" \in Kinds /\ "auto" \in Kinds /\ "activate" \in Vias
  BY DEF Kinds, Vias
<1>3. /\ Holds(u) /\ u \in Managed \ Pushes /\ u \in Actors /\ u # "reconcile"
      /\ UNCHANGED <<beyondManager, seen>>
  BY Roster DEF SetManualMode, SetHardwareAuto, EnableCustomAuto, DisableCustomAuto
<1>4. /\ intent \in WellFormed /\ active \in BOOLEAN /\ Acts(u) /\ act[u].at = "queued"
      /\ ~stopped /\ active => intent = Custom
  BY <1>3, Beginning
<1>5. CASE SetManualMode(u)
  BY <1>1, <1>2, <1>3, <1>5, HandOffKeepsInv DEF SetManualMode
<1>6. CASE SetHardwareAuto(u)
  BY <1>1, <1>2, <1>3, <1>6, HandOffKeepsInv DEF SetHardwareAuto
<1>7. CASE EnableCustomAuto(u)
  <2>1. CASE active
    <3>1. Finish(u, Custom) /\ active' = active
      BY <1>7, <2>1 DEF EnableCustomAuto, SetState, Custom
    <3> QED BY <1>1, <1>3, <3>1, NotedKeepsInv
  <2>2. CASE ~active
    <3>1. PICK r : r = Request(u, "activate", "manual", FALSE, Custom)
      OBVIOUS
    <3>2. Proceed(u, r, intent)
      BY <1>7, <2>2, <3>1 DEF EnableCustomAuto, Custom
    <3>3. r \in Activities /\ r.via = "activate" /\ r.goal = Custom
      <4>1. /\ u \in Actors /\ "activate" \in Vias /\ "manual" \in Kinds
            /\ Custom \in WellFormed
        BY <1>1, <1>2, <1>3
      <4>2. PICK f \in BOOLEAN : r = Request(u, "activate", "manual", f, Custom)
        BY <3>1, Zenon
      <4> QED BY ONLY IInv, f \in BOOLEAN, <4>1, <4>2, RequestTyped
    <3>4. Legit(u, r, intent)
      BY <1>3, <1>4, <3>3 DEF Legit
    <3> QED BY <1>3, <1>4, <3>2, <3>3, <3>4, ProceedKeepsInv
  <2> QED BY <2>1, <2>2
<1>8. CASE DisableCustomAuto(u)
  <2>1. CASE Return(u)
    BY <1>3, <1>4, <2>1, NotedKeepsInv DEF Return
  <2>2. CASE ~active /\ SetState(u, Intent("hardware", TRUE))
    BY <1>1, <1>3, <2>2, NotedKeepsInv DEF SetState
  <2>3. CASE HandOff(u, "auto", Intent("hardware", FALSE))
    BY <1>1, <1>2, <1>3, <2>3, HandOffKeepsInv
  <2> QED BY <1>8, <2>1, <2>2, <2>3 DEF DisableCustomAuto
<1> QED BY <1>5, <1>6, <1>7, <1>8

LEMMA ReconcileKeepsInv ==
    ASSUME IInv, Reconcile
    PROVE  IInv'
<1> DEFINE r == "reconcile"
<1>1. /\ r \in Managed \ Pushes /\ r \in Actors /\ r \in Managed /\ Holds(r)
      /\ UNCHANGED <<beyondManager, seen>>
  BY Roster DEF Reconcile
<1>2. /\ intent \in WellFormed /\ active \in BOOLEAN /\ Acts(r) /\ act[r].at = "queued"
      /\ ~stopped /\ (active => intent = Custom)
  BY <1>1, Beginning
<1>3. CASE Return(r)
  BY <1>1, <1>2, <1>3, NotedKeepsInv DEF Return
<1>4. ASSUME MayResume, Resume(r, intent, TRUE), intent.suspended
      PROVE  IInv'
  <2>1. ~active /\ seen.on
    BY <1>2, <1>4 DEF Custom, Intent, MayResume
  <2>2. TRUE \in BOOLEAN
    OBVIOUS
  <2> QED BY <1>1, <1>2, <1>4, <2>1, <2>2, ResumeKeepsInv
<1>5. ASSUME MayResume, Resume(r, intent, FALSE), ~active
      PROVE  IInv'
  <2>1. FALSE \in BOOLEAN
    OBVIOUS
  <2> QED BY <1>1, <1>2, <1>5, <2>1, ResumeKeepsInv DEF MayResume
<1>6. ASSUME intent.mode # "none", Suspend(r)
      PROVE  IInv'
  <2>1. CASE intent.mode = "custom" /\ active
    <3>1. PICK c : c = Request(r, "deactivate", "none", FALSE, Intent("custom", TRUE))
      OBVIOUS
    <3>2. Proceed(r, c, intent)
      BY <1>6, <2>1, <3>1 DEF Suspend
    <3>3. c \in Activities /\ c.via = "deactivate"
      <4>1. PICK g : g = Intent("custom", TRUE)
        OBVIOUS
      <4>2. c = Request(r, "deactivate", "none", FALSE, g)
        BY <3>1, <4>1, Zenon
      <4>3. PICK f \in BOOLEAN : c = Request(r, "deactivate", "none", f, g)
        BY <4>2, Zenon
      <4>4. /\ r \in Actors /\ "deactivate" \in Vias /\ "none" \in Kinds
            /\ g \in WellFormed
        BY <1>1, <4>1 DEF Vias, Kinds, Intent, WellFormed, Intents, Modes
      <4> HIDE DEF r
      <4> QED BY ONLY IInv, f \in BOOLEAN, <4>3, <4>4, RequestTyped
    <3>4. Legit(r, c, intent)
      BY <1>2, <3>3 DEF Legit
    <3> QED BY <1>1, <1>2, <3>2, <3>3, <3>4, ProceedKeepsInv
  <2>2. CASE ~(intent.mode = "custom" /\ active)
    <3>1. Finish(r, Intent(intent.mode, TRUE)) /\ active' = active
      BY <1>6, <2>2 DEF Suspend, SetState
    <3>2. Intent(intent.mode, TRUE) \in WellFormed
      BY <1>2, <1>6 DEF Intent, WellFormed, Intents
    <3>3. ~active
      BY <1>2, <2>2 DEF Custom, Intent
    <3> QED BY <1>1, <3>1, <3>2, <3>3, NotedKeepsInv
  <2> QED BY <2>1, <2>2
<1> QED BY <1>3, <1>4, <1>5, <1>6 DEF Reconcile

LEMMA ControllerLockedKeepsInv ==
    ASSUME IInv, NEW a \in Actors, ControllerLocked(a)
    PROVE  IInv'
<1>1. /\ a \notin Pushes /\ act[a].at = "lock" /\ ControllerFree
      /\ Controller(a, act[a], intent) /\ UNCHANGED <<beyondManager, seen>>
  BY DEF ControllerLocked
<1>2. a # "evaluator" /\ a \in Managed /\ InOperation(a)
  BY <1>1, Roster DEF IInv, Locks, Roles, InOperation
<1>3. Head(managerQueue) = a /\ Acts(a)
  BY <1>1, <1>2 DEF IInv, Locks, Queued, Acts
<1>4. act[a] \in Activities /\ intent \in WellFormed
  BY DEF IInv, Shapes
<1>5. /\ act[a].via \in {"handoff", "activate", "deactivate"}
      /\ act[a].via = "activate" => act[a].goal = Custom
      /\ a = "reconcile" => act[a].via = "deactivate"
  BY <1>1, <1>2 DEF IInv, Locks, Roles, Reconciles
<1>6. ~stopped /\ active /\ act[a].via # "activate" => intent = Custom
  BY <1>2, <1>3 DEF IInv, Locks, Queued, Ownership
<1>7. PICK r : r = act[a]
  OBVIOUS
<1>8. Legit(a, r, intent)
  BY <1>4, <1>5, <1>6, <1>7 DEF Legit
<1> QED BY <1>1, <1>3, <1>4, <1>7, <1>8, ControllerKeepsInv

------------------------------------------------------------------------------
\* Push tasks, and the evaluator

\* A push task that has the manager's lock.
LEMMA PushHolds ==
    ASSUME IInv, NEW p \in Pushes, Holds(p) \/ act[p].at = "lock"
    PROVE  /\ p \in Managed /\ p \in Actors /\ p # "reconcile" /\ p # "evaluator"
           /\ act[p].at = "queued" \/ InOperation(p)
           /\ Head(managerQueue) = p /\ act[p].via = "none" /\ act[p] \in Activities
           /\ \A b \in Managed \ {p} : ~InOperation(b) /\ ~InCommand(b)
           /\ ~InCommand(p)
<1>1. p \in Managed /\ p \in Actors /\ p # "reconcile" /\ p # "evaluator"
  BY Roster
<1>2. (act[p].at = "queued" \/ InOperation(p)) /\ Head(managerQueue) = p
  BY <1>1 DEF Holds, InOperation, IInv, Locks, Queued
<1>3. act[p].via = "none" /\ act[p] \in Activities /\ ~InCommand(p)
  BY <1>1 DEF IInv, Shapes, Locks, Roles, InCommand
<1> QED BY <1>1, <1>2, <1>3, OneOperation DEF IInv, Locks

LEMMA PushHandledKeepsInv ==
    ASSUME IInv, NEW p \in Pushes, PushHandled(p)
    PROVE  IInv'
<1>1. /\ \/ Holds(p) /\ (active => ControllerFree)
         \/ act[p].at = "lock" /\ ControllerFree
      /\ active' = FALSE
      /\ intent' = IF act[p].op = "auto" THEN Intent("hardware", FALSE) ELSE NoIntent
      /\ managerQueue' = Tail(managerQueue)
      /\ seen' = [seen EXCEPT !.auto = act[p].op = "auto"]
      /\ Notify(FALSE, [act EXCEPT ![p] = Idle])
      /\ UNCHANGED <<environmentVars, deviceOn, lifeVars>>
  BY DEF PushHandled, PushDone
<1>2. /\ p \in Managed /\ p # "reconcile"
      /\ act[p].at = "queued" \/ InOperation(p)
      /\ Head(managerQueue) = p
  BY <1>1, PushHolds
<1>3. /\ pending \in BOOLEAN /\ failed \in BOOLEAN /\ active \in BOOLEAN
      /\ active' \in BOOLEAN /\ ~active'
  BY <1>1 DEF IInv, Shapes
<1>4. act' = [act EXCEPT ![p] = Idle] /\ pending' = pending /\ failed' = failed
  BY <1>1, <1>3 DEF Notify, Reacts
<1>5. ~InCommand("evaluator")
  BY <1>1, Roster DEF IInv, Locks, Roles, ControllerFree
<1>6. /\ Idle \in Activities /\ Idle.at = "idle" /\ Idle.via = "none"
      /\ intent' \in WellFormed
  BY <1>1, Constructed DEF Intent, WellFormed, Intents, Modes
<1>7. seen' \in [on : BOOLEAN, auto : BOOLEAN]
  <2>1. PICK b \in BOOLEAN : seen' = [seen EXCEPT !.auto = b]
    BY <1>1
  <2> QED BY <2>1 DEF IInv, Shapes
<1>8. failed' \in BOOLEAN /\ (failed' => failed)
  BY <1>3, <1>4
<1>9. UNCHANGED <<environmentVars, deviceOn, pending, lifeVars>>
  BY <1>1, <1>4
<1>10. managerQueue' = Tail(managerQueue)
  BY <1>1
<1> QED BY ONLY IInv, <1>2, <1>3, <1>4, <1>5, <1>6, <1>7, <1>8, <1>9, <1>10, OperationOver

LEMMA PushWaitsKeepsInv ==
    ASSUME IInv, NEW p \in Pushes, PushWaits(p)
    PROVE  IInv'
<1>1. /\ Holds(p) /\ active /\ ~ControllerFree
      /\ act' = [act EXCEPT ![p].at = "lock"]
      /\ UNCHANGED <<environmentVars, deviceOn, pending, failed, lifeVars, seen, intent,
                     active, managerQueue>>
  BY DEF PushWaits, beyondManager
<1>2. /\ p \in Managed /\ p # "reconcile" /\ act[p].at = "queued" /\ Head(managerQueue) = p
      /\ act[p].via = "none" /\ act[p] \in Activities
      /\ \A b \in Managed : ~InOperation(b)
  BY <1>1, PushHolds, OneOperation DEF IInv, Locks, Holds
<1> DEFINE r == [act[p] EXCEPT !.at = "lock"]
<1>3. r \in Activities /\ r.at = "lock" /\ r.via = "none"
  BY <1>2 DEF Activities, Stages
<1>4. act' = [act EXCEPT ![p] = r]
  BY <1>1
<1> HIDE DEF r
<1>5. ~stopped /\ active' => intent' = Custom
  BY <1>1, <1>2 DEF IInv, Ownership
<1>6. intent' \in WellFormed /\ active' \in BOOLEAN /\ deviceOn' \in BOOLEAN
  BY <1>1 DEF IInv, Shapes
<1>7. UNCHANGED <<environmentVars, seen, pending, failed, lifeVars>> /\ active' = active
      /\ managerQueue' = managerQueue
  BY <1>1
<1>8. (InCommand("evaluator") => active') /\ p \in Pushes
  BY <1>1
<1> QED BY ONLY IInv, <1>2, <1>3, <1>4, <1>5, <1>6, <1>7, <1>8, OperationGoesOn

LEMMA EvaluatorActsKeepsInv ==
    ASSUME IInv, EvaluatorActs
    PROVE  IInv'
<1> DEFINE e == "evaluator"
<1>1. /\ active /\ act[e].at = "idle" /\ ControllerFree
      /\ IF seen.on
         THEN /\ Call(e, [Idle EXCEPT !.via = "evaluate", !.kind = "manual"])
              /\ UNCHANGED active
         ELSE active' = FALSE /\ UNCHANGED act
      /\ UNCHANGED <<environmentVars, deviceOn, pending, failed, lifeVars, seen, intent,
                     managerQueue>>
  BY DEF EvaluatorActs, beyondManager
<1>2. /\ seen' \in [on : BOOLEAN, auto : BOOLEAN] /\ deviceOn' \in BOOLEAN
      /\ act \in [Actors -> Activities] /\ Shapes
  BY <1>1 DEF IInv, Shapes
<1>3. /\ managerQueue' = managerQueue
      /\ UNCHANGED <<environmentVars, intent, pending, failed, lifeVars>>
  BY <1>1
<1>4. CASE seen.on
  <2>1. PICK r : r = [Idle EXCEPT !.via = "evaluate", !.kind = "manual"]
    OBVIOUS
  <2>2. r \in Activities /\ r.via = "evaluate"
    <3>1. "evaluate" \in Vias /\ "manual" \in Kinds /\ Idle \in Activities
      BY Constructed DEF Vias, Kinds
    <3>2. r = With(Idle, "evaluate", "manual")
      BY <2>1 DEF With
    <3> QED BY <3>1, <3>2, AssignedTwo
  <2>3. Call(e, r) /\ active' = active
    BY <1>1, <1>4, <2>1
  <2>4. PICK c \in Activities : /\ act' = [act EXCEPT ![e] = c]
                                /\ c.at \in {"waiting", "decided"} /\ c.via = r.via
    BY <1>2, <2>2, <2>3, CallMade, Roster
  <2>5. active' \in BOOLEAN /\ active'
    BY <1>1, <2>3 DEF IInv, Shapes
  <2> QED BY <1>1, <1>2, <1>3, <2>2, <2>4, <2>5, EvaluatorMoves
<1>5. CASE ~seen.on
  <2>1. active' \in BOOLEAN /\ ~active' /\ act' = act
    BY <1>1, <1>5
  <2>2. act' = [act EXCEPT ![e] = act[e]] /\ act[e] \in Activities
    BY <1>2, <2>1, Roster
  <2>3. PICK r \in Activities : r = act[e]
    BY <2>2
  <2>4. act' = [act EXCEPT ![e] = r] /\ r.at = "idle"
    BY <1>1, <2>2, <2>3
  <2> QED BY <1>1, <1>2, <1>3, <2>1, <2>4, EvaluatorMoves
<1> QED BY <1>4, <1>5

------------------------------------------------------------------------------
\* The life of an entry

LEMMA EmptyQueue == IsQueueOf(<<>>, Managed) /\ ToSet(<<>>) = {}
BY DEF IsQueueOf, ToSet, IsInjective

\* Some tasks are cancelled; the others stay where they are.
LEMMA Cancelled ==
    ASSUME Queued, NEW T \in SUBSET Managed, managerQueue' = Remaining(managerQueue, T),
           \A a \in T : act'[a] = Idle, \A b \in Managed \ T : Alike(b)
    PROVE  Queued'
<1>1. /\ IsQueueOf(managerQueue', Managed)
      /\ ToSet(managerQueue') = ToSet(managerQueue) \ T
      /\ managerQueue # <<>> /\ Head(managerQueue) \notin T =>
           Head(managerQueue') = Head(managerQueue)
  BY RemainingQueue DEF Queued
<1>2. \A a \in T : act'[a].at # "queued" /\ ~InOperation(a)'
  BY Constructed DEF InOperation
<1>3. \A b \in Managed \ T : /\ InOperation(b)' <=> InOperation(b)
                             /\ act'[b].at = "queued" <=> act[b].at = "queued"
  BY AlikeKeepsPlace, Roster
<1>4. ToSet(managerQueue') = {a \in Managed : act'[a].at = "queued" \/ InOperation(a)'}
  BY <1>1, <1>2, <1>3 DEF Queued
<1>5. ASSUME NEW a \in Managed, InOperation(a)' PROVE Head(managerQueue') = a
  <2>1. a \notin T /\ InOperation(a)
    BY <1>2, <1>3, <1>5
  <2>2. a \in ToSet(managerQueue) /\ Head(managerQueue) = a
    BY <2>1 DEF Queued
  <2>3. managerQueue # <<>>
    BY <2>2 DEF ToSet
  <2> QED BY <1>1, <2>1, <2>2, <2>3
<1> QED BY <1>1, <1>4, <1>5 DEF Queued

\* Nobody is in an operation, and the evaluator has no command, where all are idle.
LEMMA OutIsQuiet ==
    ASSUME IInv, phase = "out", UsersIdle, act["evaluator"].at = "idle"
    PROVE  \A a \in Actors : /\ ~InOperation(a) /\ ~InCommand(a)
                             /\ act[a].at \in {"idle", "done"}
<1>1. \A a \in Actors : act[a].at \in {"idle", "done"}
  BY Roster DEF IInv, Life, UsersIdle, Managed
<1> QED BY <1>1 DEF InOperation, InCommand

LEMMA SetupKeepsInv ==
    ASSUME IInv, Setup
    PROVE  IInv'
<1> DEFINE s == IF ResumeDue(saved, deviceOn) THEN "scheduled" ELSE "idle"
           r == [act["reconcile"] EXCEPT !.at = s]
<1>1. /\ phase = "out" /\ UsersIdle /\ act["evaluator"].at = "idle"
      /\ phase' = "forwarding" /\ seen' = [on |-> deviceOn, auto |-> FALSE]
      /\ intent' = Restored(saved, deviceOn)
      /\ active' = FALSE /\ stopped' = FALSE /\ pushOn' = TRUE
      /\ pending' = ResumeDue(saved, deviceOn)
      /\ act' = [act EXCEPT !["reconcile"] = r]
      /\ failed' = FALSE /\ outlived' = FALSE
      /\ UNCHANGED <<plan, pressed, deviceOn, saved, managerQueue>>
  BY DEF Setup, environmentVars
<1>2. \A a \in Actors : /\ ~InOperation(a) /\ ~InCommand(a)
                        /\ act[a].at \in {"idle", "done"}
  BY <1>1, OutIsQuiet
<1>3. s \in {"scheduled", "idle"} /\ s \in Stages
  BY DEF Stages
<1>4. /\ saved \in WellFormed /\ deviceOn \in BOOLEAN /\ act["reconcile"] \in Activities
      /\ act["reconcile"].at = "idle"
  BY <1>1, Roster DEF IInv, Shapes, Life
<1> HIDE DEF s
<1>5. /\ r \in Activities /\ r.at = s /\ r.via = act["reconcile"].via
      /\ r.goal = act["reconcile"].goal /\ r.owned = act["reconcile"].owned
      /\ r.calledOn = act["reconcile"].calledOn
  BY <1>3, <1>4 DEF Activities
<1> HIDE DEF r
<1>6. /\ act' \in [Actors -> Activities] /\ act'["reconcile"] = r
      /\ \A b \in Actors \ {"reconcile"} : act'[b] = act[b]
  BY <1>1, <1>5, Roster DEF IInv, Shapes
<1>7. \A b \in Actors : Alike(b)
  BY <1>3, <1>4, <1>5, <1>6 DEF Alike
<1>8. intent' \in WellFormed
  BY <1>1, <1>4 DEF Restored, Intent, WellFormed, Intents
<1>9. pending' \in BOOLEAN
  BY <1>1, <1>4 DEF ResumeDue, WellFormed, Intents
<1>10. Shapes'
  BY <1>1, <1>6, <1>8, <1>9 DEF IInv, Shapes
<1>11. Queued'
  BY <1>1, <1>7, Held, Roster DEF IInv, Locks
<1>12. \A b \in Actors : ~InOperation(b)' /\ ~InCommand(b)' /\ act'[b].at # "lock"
  BY <1>2, <1>7, AlikeKeepsPlace DEF InOperation
<1>13. Roles'
  BY <1>6, <1>12, Roster DEF IInv, Locks, Roles
<1>14. Ownership' /\ Reconciles'
  BY <1>1, <1>12, Roster DEF Ownership, Reconciles
<1>15. Life'
  BY <1>1 DEF Life
<1> QED BY <1>10, <1>11, <1>13, <1>14, <1>15 DEF IInv, Locks

\* The entry is loaded, rolled back or recorded: nobody moves.
LEMMA PhasesKeepInv ==
    ASSUME IInv, Loaded \/ RecordSaved \/ Rollback
    PROVE  IInv'
<1>1. /\ phase \in {"forwarding", "loaded"}
      /\ phase' \in {"loaded", "stopping"} /\ saved' \in {saved, intent}
      /\ UNCHANGED <<plan, pressed, deviceOn, seen, intent, active, managerQueue,
                     act, pending, stopped, pushOn, failed, outlived>>
  BY DEF Loaded, RecordSaved, Rollback, environmentVars
<1>2. Shapes'
  BY <1>1 DEF IInv, Shapes
<1>3. Queued' /\ Roles'
  BY <1>1 DEF IInv, Locks, Queued, Roles, InOperation, InCommand
<1>4. Ownership' /\ Reconciles'
  BY <1>1 DEF IInv, Ownership, Reconciles, InOperation, InCommand
<1>5. Life'
  BY <1>1 DEF IInv, Life
<1> QED BY <1>2, <1>3, <1>4, <1>5 DEF IInv, Locks

\* The push tasks are cancelled, with the entry unloaded or its client closed.
LEMMA PushesCancelled ==
    ASSUME IInv, phase # "out",
           act' = [a \in Actors |-> IF a \in Pushes THEN Idle ELSE act[a]],
           managerQueue' = Remaining(managerQueue, Pushes),
           pushOn' = FALSE, saved' \in {saved, intent},
           \/ phase = "loaded" /\ phase' = "stopping"
           \/ phase = "closing" /\ phase' = "out",
           UNCHANGED <<plan, pressed, deviceOn, seen, intent, active, pending, stopped,
                       failed, outlived>>
    PROVE  IInv'
<1>1. /\ \A p \in Pushes : act'[p] = Idle
      /\ \A b \in Actors \ Pushes : act'[b] = act[b]
      /\ act' \in [Actors -> Activities]
  BY Roster, Constructed DEF IInv, Shapes
<1>2. \A b \in Actors \ Pushes : Alike(b) /\ b \notin Pushes
  BY <1>1 DEF Alike
<1>3. /\ \A b \in Actors \ Pushes : /\ InOperation(b)' <=> InOperation(b)
                                    /\ InCommand(b)' <=> InCommand(b)
      /\ \A p \in Pushes : ~InOperation(p)' /\ ~InCommand(p)'
  BY <1>1, <1>2, AlikeKeepsPlace, Constructed DEF InOperation, InCommand
<1>4. \A p \in Pushes : ~InCommand(p) /\ act[p].via = "none"
  BY DEF IInv, Locks, Roles, InCommand
<1>5. Shapes'
  <2>1. pushOn' \in BOOLEAN
    OBVIOUS
  <2> QED BY <1>1, <2>1 DEF IInv, Shapes
<1>6. Queued'
  BY <1>1, <1>2, Cancelled, Roster DEF IInv, Locks
<1>7. Roles'
  BY <1>1, <1>3, <1>4, Constructed, Roster DEF IInv, Locks, Roles
<1>8. Ownership'
  BY <1>1, <1>3, <1>4, Roster DEF IInv, Ownership
<1>9. Reconciles'
  BY <1>1, <1>3, Roster DEF IInv, Reconciles
<1>10. Life'
  <2>1. UsersIdle' <=> UsersIdle
    BY <1>1, Roster DEF UsersIdle
  <2> QED BY <1>1, <2>1, Constructed, Roster DEF IInv, Life
<1> QED BY <1>5, <1>6, <1>7, <1>8, <1>9, <1>10 DEF IInv, Locks

LEMMA UnloadKeepsInv ==
    ASSUME IInv, Unload \/ CloseClient
    PROVE  IInv'
BY PushesCancelled DEF Unload, CloseClient, environmentVars

LEMMA StopManagerKeepsInv ==
    ASSUME IInv, StopManager
    PROVE  IInv'
<1> DEFINE a == "reconcile"
<1>1. /\ phase = "stopping" /\ ~stopped /\ stopped' = TRUE
      /\ act' = [act EXCEPT ![a] = Idle]
      /\ active' = (active /\ ~(InCommand(a) /\ act[a].via = "activate"))
      /\ managerQueue' = Remaining(managerQueue, {a})
      /\ UNCHANGED <<plan, pressed, deviceOn, seen, intent, saved, pending, phase, pushOn,
                     failed, outlived>>
  BY DEF StopManager, StopReconcile, environmentVars
<1>2. /\ act'[a] = Idle /\ \A b \in Actors \ {a} : act'[b] = act[b]
      /\ act' \in [Actors -> Activities]
  BY <1>1, Roster, Constructed DEF IInv, Shapes
<1>3. \A b \in Actors \ {a} : Alike(b)
  BY <1>2 DEF Alike
<1>4. /\ \A b \in Actors \ {a} : /\ InOperation(b)' <=> InOperation(b)
                                 /\ InCommand(b)' <=> InCommand(b)
      /\ ~InOperation(a)' /\ ~InCommand(a)'
  BY <1>2, <1>3, AlikeKeepsPlace, Constructed DEF InOperation, InCommand
<1>5. active \in BOOLEAN /\ active' \in BOOLEAN /\ stopped' \in BOOLEAN
  BY <1>1 DEF IInv, Shapes
<1>6. Shapes'
  BY <1>1, <1>2, <1>5 DEF IInv, Shapes
<1>7. Queued'
  BY <1>1, <1>2, <1>3, Cancelled, Roster DEF IInv, Locks
<1>8. Roles'
  <2>1. InCommand("evaluator") => active /\ (InCommand(a) => act[a].via = "plain")
    BY Roster DEF IInv, Locks, Roles
  <2>2. InCommand("evaluator") => active'
    <3>1. CASE InCommand(a) /\ act[a].via = "activate"
      BY <2>1, <3>1
    <3>2. CASE ~(InCommand(a) /\ act[a].via = "activate")
      BY <1>1, <1>5, <2>1, <3>2
    <3> QED BY <3>1, <3>2
  <2>3. act'["reconcile"].at = "idle"
    BY <1>2, Constructed
  <2>4. \A p \in Pushes : /\ act'[p].at \in {"idle", "queued", "lock"}
                          /\ act'[p].via = "none"
    BY <1>2, Roster DEF IInv, Locks, Roles
  <2>5. \A b \in Managed \ Pushes :
          /\ act'[b].at = "lock" => act'[b].via \in {"handoff", "activate", "deactivate"}
          /\ InCommand(b)' => act'[b].via \in {"plain", "handoff", "activate", "reassert"}
          /\ InOperation(b)' /\ act'[b].via = "activate" => act'[b].goal = Custom
    BY <1>2, <1>4, <2>3, Roster DEF IInv, Locks, Roles
  <2>6. act'["evaluator"] = act["evaluator"]
    BY <1>2, Roster
  <2>7. InCommand("evaluator")' => \A b \in Managed : InCommand(b)' => act'[b].via = "plain"
    BY <1>2, <1>4, Roster DEF IInv, Locks, Roles
  <2>8. InCommand("evaluator")' <=> InCommand("evaluator")
    BY <2>6 DEF InCommand
  <2> QED BY <2>2, <2>4, <2>5, <2>6, <2>7, <2>8 DEF IInv, Locks, Roles
<1>9. Ownership'
  BY <1>1 DEF Ownership
<1>10. Reconciles'
  BY <1>1, <1>2, <1>4, Constructed DEF IInv, Reconciles
<1>11. Life'
  BY <1>1, <1>2, Constructed, Roster DEF IInv, Life
<1> QED BY <1>6, <1>7, <1>8, <1>9, <1>10, <1>11 DEF IInv, Locks

LEMMA StopControllerKeepsInv ==
    ASSUME IInv, StopController
    PROVE  IInv'
<1>1. /\ phase = "stopping" /\ stopped /\ ControllerFree
      /\ phase' = "closing" /\ active' = FALSE /\ outlived' = ~UsersIdle
      /\ UNCHANGED <<plan, pressed, deviceOn, seen, intent, saved, managerQueue,
                     act, pending, stopped, pushOn, failed>>
  BY DEF StopController, environmentVars
<1>2. Shapes'
  <2>1. outlived' \in BOOLEAN /\ active' \in BOOLEAN
    BY <1>1 DEF UsersIdle
  <2> QED BY <1>1, <2>1 DEF IInv, Shapes
<1>3. ~InCommand("evaluator") /\ act["evaluator"].at = "idle"
  BY <1>1, Roster DEF IInv, Locks, Roles, ControllerFree, InCommand
<1>4. Queued' /\ Roles'
  BY <1>1, <1>3 DEF IInv, Locks, Queued, Roles, InOperation, InCommand
<1>5. Ownership' /\ Reconciles'
  BY <1>1 DEF IInv, Ownership, Reconciles, InCommand
<1>6. Life'
  BY <1>1, <1>3 DEF IInv, Life, UsersIdle
<1> QED BY <1>2, <1>4, <1>5, <1>6 DEF IInv, Locks

LEMMA CrashKeepsInv ==
    ASSUME IInv, Crash
    PROVE  IInv'
<1>1. /\ phase' = "out"
      /\ intent' = NoIntent /\ active' = FALSE /\ managerQueue' = <<>>
      /\ act' = [a \in Actors |-> IF act[a].at # "idle" /\ a \in Users THEN Done ELSE Idle]
      /\ pending' = FALSE /\ stopped' = FALSE /\ pushOn' = FALSE
      /\ failed' = FALSE /\ outlived' = FALSE
      /\ UNCHANGED <<plan, pressed, deviceOn, seen, saved>>
  BY DEF Crash
<1>2. /\ act' \in [Actors -> Activities]
      /\ \A a \in Actors : /\ act'[a].at \in {"idle", "done"} /\ act'[a].via = "none"
                           /\ a \notin Users => act'[a].at = "idle"
                           /\ ~InOperation(a)' /\ ~InCommand(a)'
  BY <1>1, Constructed DEF InOperation, InCommand
<1>3. Shapes'
  BY <1>1, <1>2, Constructed DEF IInv, Shapes
<1>4. Queued'
  <2>1. IsQueueOf(managerQueue', Managed) /\ ToSet(managerQueue') = {}
    BY <1>1, EmptyQueue
  <2> QED BY <1>2, <2>1, Roster DEF Queued
<1>5. Roles'
  BY <1>2, Roster DEF Roles
<1>6. Ownership' /\ Reconciles'
  BY <1>1, <1>2, Roster DEF Ownership, Reconciles
<1>7. Life'
  BY <1>1, <1>2, Roster DEF Life, UsersIdle
<1> QED BY <1>3, <1>4, <1>5, <1>6, <1>7 DEF IInv, Locks

------------------------------------------------------------------------------
\* The specification

LEMMA InitInv == Init => IInv
<1> SUFFICES ASSUME Init PROVE IInv
  OBVIOUS
<1>1. /\ act = [a \in Actors |-> Idle] /\ managerQueue = <<>>
      /\ plan \in Plans /\ pressed = plan.pressed /\ deviceOn \in BOOLEAN
      /\ seen = [on |-> FALSE, auto |-> FALSE]
      /\ saved \in {NoIntent, Intent("hardware", FALSE), Intent("custom", FALSE)}
      /\ intent = NoIntent /\ active = FALSE /\ pending = FALSE /\ stopped = FALSE
      /\ phase = "out" /\ pushOn = FALSE /\ failed = FALSE /\ outlived = FALSE
  BY DEF Init
<1>2. \A a \in Actors : /\ act[a] = Idle /\ act[a].at = "idle" /\ act[a].via = "none"
                        /\ ~InOperation(a) /\ ~InCommand(a)
  BY <1>1, Constructed DEF InOperation, InCommand
<1>3. Shapes
  <2>1. saved \in WellFormed /\ intent \in WellFormed
    <3>1. /\ Intent("hardware", FALSE) \in WellFormed
          /\ Intent("custom", FALSE) \in WellFormed
      BY DEF Intent, WellFormed, Intents, Modes
    <3> QED BY <1>1, <3>1, Constructed
  <2>2. pressed \in Seq({"power", "auto", "manual"})
    BY <1>1, AutoResumeAssumption
  <2>3. act \in [Actors -> Activities]
    BY <1>1, Constructed
  <2> QED BY <1>1, <2>1, <2>2, <2>3 DEF Shapes
<1>4. Queued
  <2>1. IsQueueOf(managerQueue, Managed) /\ ToSet(managerQueue) = {}
    BY <1>1, EmptyQueue
  <2> QED BY <1>2, <2>1, Roster DEF Queued
<1>5. Roles
  BY <1>2, Roster DEF Roles
<1>6. Ownership /\ Reconciles
  BY <1>1, <1>2, Roster DEF Ownership, Reconciles
<1>7. Life
  BY <1>1, <1>2, Roster DEF Life, UsersIdle
<1> QED BY <1>3, <1>4, <1>5, <1>6, <1>7 DEF IInv, Locks

LEMMA NextKeepsInv == IInv /\ [Next]_vars => IInv'
<1> SUFFICES ASSUME IInv, [Next]_vars PROVE IInv'
  OBVIOUS
<1>1. CASE UNCHANGED vars
  <2>1. UNCHANGED <<plan, pressed, deviceOn, seen, intent, active, managerQueue, act,
                    pending, failed, saved, stopped, phase, pushOn, outlived>>
    BY <1>1 DEF vars, environmentVars, lifeVars
  <2>2. Shapes'
    BY <2>1 DEF IInv, Shapes
  <2>3. Queued' /\ Roles'
    BY <2>1 DEF IInv, Locks, Queued, Roles, InOperation, InCommand
  <2>4. Ownership' /\ Reconciles'
    BY <2>1 DEF IInv, Ownership, Reconciles, InOperation, InCommand
  <2>5. Life'
    BY <2>1 DEF IInv, Life, UsersIdle
  <2> QED BY <2>2, <2>3, <2>4, <2>5 DEF IInv, Locks
<1>2. CASE PowerPressed \/ PollSucceeds \/ Republished
  BY <1>2, PowerPressedKeepsInv, PollSucceedsKeepsInv, RepublishedKeepsInv
<1>3. ASSUME NEW p \in Pushes, ModePressed(p) PROVE IInv'
  BY <1>3, ModePressedKeepsInv
<1>4. ASSUME NEW u \in Users, NEW op \in plan.asks[u], UserCalls(u, op) PROVE IInv'
  BY <1>4, UserCallsKeepsInv
<1>5. ASSUME NEW a \in Actors, ManagerStep(a) PROVE IInv'
  <2>1. CASE a \in Users /\ UserOperation(a)
    BY <2>1, TurnOnKeepsInv, TurnOffKeepsInv, SelectionsKeepInv DEF UserOperation
  <2>2. CASE a \in Pushes /\ (PushHandled(a) \/ PushWaits(a))
    BY <2>2, PushHandledKeepsInv, PushWaitsKeepsInv
  <2>3. CASE a = "reconcile" /\ (ReconcileStarts \/ Reconcile)
    BY <2>3, ReconcileStartsKeepsInv, ReconcileKeepsInv
  <2>4. CASE ControllerLocked(a)
    BY <2>4, ControllerLockedKeepsInv
  <2>5. CASE CommandLocks(a) \/ CommandApplies(a) \/ CommandConfirmed(a) \/ CommandFails(a)
    BY <2>5, CommandLocksKeepsInv, CommandAppliesKeepsInv, CommandConfirmedKeepsInv,
       CommandFailsKeepsInv
  <2> QED BY <1>5, <2>1, <2>2, <2>3, <2>4, <2>5 DEF ManagerStep
<1>6. CASE EvaluatorActs
  BY <1>6, EvaluatorActsKeepsInv
<1>7. CASE Setup \/ Loaded \/ RecordSaved \/ Unload \/ Rollback
  BY <1>7, SetupKeepsInv, PhasesKeepInv, UnloadKeepsInv
<1>8. CASE StopManager \/ StopController \/ CloseClient \/ Crash
  BY <1>8, StopManagerKeepsInv, StopControllerKeepsInv, UnloadKeepsInv, CrashKeepsInv
<1> QED BY <1>1, <1>2, <1>3, <1>4, <1>5, <1>6, <1>7, <1>8 DEF Next

LEMMA InvHolds == Spec => []IInv
BY InitInv, NextKeepsInv, PTL DEF Spec

\* At most one actor is inside the controller.
LEMMA OneInController ==
    ASSUME IInv, NEW a \in Actors, NEW b \in Actors, InCommand(a), InCommand(b),
           act[a].via # "plain", act[b].via # "plain"
    PROVE  a = b
<1>1. ASSUME NEW c \in Managed, InCommand(c), act[c].via # "plain"
      PROVE  Head(managerQueue) = c /\ ~InCommand("evaluator")
  BY <1>1 DEF IInv, Locks, Queued, Roles, InOperation, InCommand
<1> QED BY <1>1, Roster

\* TypeOK: what is selected and stored is an intent, suspended only if there is one; the
\* manager's lock is held by one operation at a time and so is the controller's, for any
\* number of users' calls and push tasks (auto_resume.py:313).
THEOREM Typed == Spec => []TypeOK
<1>1. IInv => TypeOK
  <2> SUFFICES ASSUME IInv PROVE TypeOK
    OBVIOUS
  <2>1. /\ intent \in Intents /\ saved \in Intents
        /\ intent.suspended => intent.mode # "none"
    BY DEF IInv, Shapes, WellFormed
  <2>2. IsInjective(managerQueue)
    BY DEF IInv, Locks, Queued, IsQueueOf
  <2>3. ASSUME NEW a \in Actors \ {"evaluator"}, act[a].at = "lock" \/ InCommand(a)
        PROVE  managerQueue # <<>> /\ Head(managerQueue) = a
    <3>1. a \in Managed /\ InOperation(a)
      BY <2>3, Roster DEF InOperation, InCommand
    <3> QED BY <3>1 DEF IInv, Locks, Queued, ToSet
  <2> QED BY <2>1, <2>2, <2>3, OneInController DEF TypeOK
<1> QED BY <1>1, InvHolds, PTL

\* ActiveIsSelected: whenever no operation is under way, a controller that owns the speed
\* is what the user selected, whatever failed, was handed off or cancelled before.
THEOREM ActiveMeansSelected == Spec => []ActiveIsSelected
<1>1. IInv => ActiveIsSelected
  BY EmptyQueue DEF IInv, Locks, Queued, Ownership, ActiveIsSelected, Custom
<1> QED BY <1>1, InvHolds, PTL

\* ResumesOnlyWhenOn: reconciliation never calls a command for a purifier that is
\* published off.
THEOREM ResumesWhenOn == Spec => []ResumesOnlyWhenOn
<1>1. IInv => ResumesOnlyWhenOn
  BY DEF IInv, Reconciles, ResumesOnlyWhenOn
<1> QED BY <1>1, InvHolds, PTL

\* UnloadLeavesNothing: a closed entry has no reconciliation and no push task, and, if no
\* user's call outlived it, no evaluator and no owner of the speed.
THEOREM NothingLeft == Spec => []UnloadLeavesNothing
<1>1. IInv => UnloadLeavesNothing
  BY DEF IInv, Life, UnloadLeavesNothing, Closed
<1> QED BY <1>1, InvHolds, PTL

------------------------------------------------------------------------------
\* What is done on behalf of others does not touch the reconciliation task, but that
\* it may be scheduled.

LEMMA CallTouchesOne ==
    ASSUME NEW a, NEW r, Call(a, r), act \in [Actors -> Activities]
    PROVE  \A b \in Actors \ {a} : act'[b] = act[b]
BY DEF Call

LEMMA ProceedTouchesOne ==
    ASSUME NEW a, NEW r, NEW state, act \in [Actors -> Activities],
           Proceed(a, r, state) \/ Controller(a, r, state)
    PROVE  \A b \in Actors \ {a} : act'[b] = act[b]
<1>1. ASSUME NEW q, Call(a, q) PROVE \A b \in Actors \ {a} : act'[b] = act[b]
  BY <1>1, CallTouchesOne
<1>2. ASSUME NEW s, Finish(a, s) PROVE \A b \in Actors \ {a} : act'[b] = act[b]
  BY <1>2 DEF Finish
<1>3. CASE Controller(a, r, state)
  BY <1>1, <1>2, <1>3 DEF Controller
<1>4. CASE Proceed(a, r, state) /\ ~Controller(a, r, state)
  <2>1. \/ Call(a, r)
        \/ act' = [act EXCEPT ![a] = [r EXCEPT !.at = "lock"]]
    BY <1>4 DEF Proceed
  <2> QED BY <1>1, <2>1
<1> QED BY <1>3, <1>4

LEMMA NotifyTouches ==
    ASSUME NEW observed \in BOOLEAN, NEW a \in Actors \ {"reconcile"}, NEW r,
           act \in [Actors -> Activities], Notify(observed, [act EXCEPT ![a] = r])
    PROVE  \/ act'["reconcile"] = act["reconcile"]
           \/ act'["reconcile"].at = "scheduled"
<1> DEFINE next == [act EXCEPT ![a] = r]
<1>1. next["reconcile"] = act["reconcile"] /\ DOMAIN next = Actors /\ "reconcile" \in Actors
  BY Roster
<1>2. next = [b \in Actors |-> next[b]]
  BY <1>1
<1> HIDE DEF next
<1>3. \/ act' = next
      \/ act' = [next EXCEPT !["reconcile"] = [Idle EXCEPT !.at = "scheduled"]]
  BY DEF Notify, next
<1>4. [Idle EXCEPT !.at = "scheduled"].at = "scheduled"
  BY DEF Idle
<1> QED BY <1>1, <1>2, <1>3, <1>4

LEMMA UserTouchesOne ==
    ASSUME IInv, NEW u \in Users, UserOperation(u)
    PROVE  act'["reconcile"] = act["reconcile"]
<1>1. act \in [Actors -> Activities] /\ "reconcile" \in Actors \ {u}
  BY Roster DEF IInv, Shapes
<1>2. ASSUME NEW r, NEW state, Proceed(u, r, state)
      PROVE  act'["reconcile"] = act["reconcile"]
  BY <1>1, <1>2, ProceedTouchesOne
<1>3. ASSUME NEW s, Finish(u, s) PROVE act'["reconcile"] = act["reconcile"]
  BY <1>1, <1>3 DEF Finish
<1>4. ASSUME NEW k, NEW g, HandOff(u, k, g) PROVE act'["reconcile"] = act["reconcile"]
  BY <1>2, <1>4 DEF HandOff
<1>5. ASSUME NEW s, NEW f, Resume(u, s, f) PROVE act'["reconcile"] = act["reconcile"]
  <2>1. CASE s.mode = "hardware"
    <3>1. PICK r : r = Request(u, "plain", "auto", f, Intent("hardware", FALSE))
      OBVIOUS
    <3> QED BY <1>2, <1>5, <2>1, <3>1 DEF Resume
  <2>2. CASE s.mode # "hardware"
    <3>1. PICK r : r = Request(u, "activate", "manual", f, Intent("custom", FALSE))
      OBVIOUS
    <3> QED BY <1>2, <1>5, <2>2, <3>1 DEF Resume
  <2> QED BY <2>1, <2>2
<1>6. CASE TurnOn(u)
  <2>1. CASE Return(u)
    BY <1>3, <2>1 DEF Return
  <2>2. CASE ~Return(u)
    <3> DEFINE s == Intent(intent.mode, intent.suspended \/ ~seen.on)
    <3>1. Resume(u, s, s.suspended) \/ Proceed(u, Request(u, "plain", "on", FALSE, intent), intent)
      BY <1>6, <2>2 DEF TurnOn
    <3> QED BY <1>2, <1>5, <3>1
  <2> QED BY <2>1, <2>2
<1>7. CASE TurnOff(u) \/ SetManualMode(u) \/ SetHardwareAuto(u)
  BY <1>4, <1>7 DEF TurnOff, SetManualMode, SetHardwareAuto
<1>8. CASE EnableCustomAuto(u)
  BY <1>2, <1>3, <1>8 DEF EnableCustomAuto, SetState
<1>9. CASE DisableCustomAuto(u)
  BY <1>3, <1>4, <1>9 DEF DisableCustomAuto, SetState, Return
<1> QED BY <1>6, <1>7, <1>8, <1>9 DEF UserOperation

\* A reconciliation task that is idle is scheduled before it commands.
LEMMA IdleIsScheduledFirst ==
    ASSUME IInv, [Next]_vars, act["reconcile"].at = "idle"
    PROVE  ~InCommand("reconcile")'
<1> DEFINE Stays == \/ act'["reconcile"] = act["reconcile"]
                    \/ act'["reconcile"].at \in {"idle", "scheduled"}
<1>1. /\ act \in [Actors -> Activities] /\ "reconcile" \in Actors
      /\ "reconcile" \notin Users /\ "reconcile" \notin Pushes
      /\ Idle \in Activities /\ Idle.at = "idle"
  BY Roster, Constructed DEF IInv, Shapes
<1>2. Stays => ~InCommand("reconcile")'
  BY DEF InCommand
<1>3. CASE UNCHANGED vars
  BY <1>2, <1>3 DEF vars
<1>4. ASSUME NEW o, NEW next, Notify(o, next), next["reconcile"].at = "idle",
             DOMAIN next = Actors
      PROVE  Stays
  BY <1>1, <1>4 DEF Notify, Idle
<1>5. CASE PowerPressed
  <2>1. CASE UNCHANGED act
    BY <1>2, <2>1
  <2>2. ASSUME Notify(TRUE, [a \in Actors |-> [act[a] EXCEPT !.powerPushed = InCommand(a)]])
        PROVE  Stays
    <3> DEFINE next == [a \in Actors |-> [act[a] EXCEPT !.powerPushed = InCommand(a)]]
    <3>1. next["reconcile"].at = "idle" /\ DOMAIN next = Actors
      BY <1>1 DEF Activities
    <3> HIDE DEF next
    <3>2. Notify(TRUE, next)
      BY <2>2 DEF next
    <3> QED BY <1>4, <3>1, <3>2
  <2> QED BY <1>2, <1>5, <2>1, <2>2 DEF PowerPressed
<1>6. CASE PollSucceeds \/ Republished
  BY <1>1, <1>2, <1>4, <1>6 DEF PollSucceeds, Republished
<1>7. ASSUME NEW p \in Pushes, ModePressed(p) PROVE Stays
  BY <1>1, <1>7 DEF ModePressed
<1>8. ASSUME NEW u \in Users, NEW op, UserCalls(u, op) PROVE Stays
  BY <1>1, <1>8 DEF UserCalls
<1>9. ASSUME NEW a \in Actors, ManagerStep(a) PROVE Stays
  <2>1. CASE a \in Users /\ UserOperation(a)
    BY <2>1, UserTouchesOne
  <2>2. CASE a \in Pushes /\ PushHandled(a)
    <3>1. \E o \in BOOLEAN : Notify(o, [act EXCEPT ![a] = Idle])
      BY <2>2, Zenon DEF PushHandled
    <3> QED BY <1>1, <2>2, <3>1, NotifyTouches
  <2>3. CASE a \in Pushes /\ PushWaits(a)
    BY <1>1, <2>3 DEF PushWaits
  <2>4. CASE a = "reconcile" /\ (ReconcileStarts \/ Reconcile)
    BY <2>4 DEF ReconcileStarts, Reconcile, Holds
  <2>5. CASE ControllerLocked(a)
    <3>1. a # "reconcile" /\ Controller(a, act[a], intent)
      BY <2>5 DEF ControllerLocked
    <3> QED BY <1>1, <3>1, ProceedTouchesOne
  <2>6. CASE CommandLocks(a) \/ CommandApplies(a) \/ CommandFails(a)
    <3>1. a # "reconcile"
      BY <2>6 DEF CommandLocks, CommandApplies, CommandFails, InCommand
    <3> QED BY <1>1, <2>6, <3>1 DEF CommandLocks, CommandApplies, CommandFails
  <2>7. CASE CommandConfirmed(a)
    <3>1. a # "reconcile"
      BY <2>7 DEF CommandConfirmed
    <3>2. \E r : Notify(FALSE, [act EXCEPT ![a] = r])
      BY <2>7, Zenon DEF CommandConfirmed
    <3>3. \E o \in BOOLEAN : \E r : Notify(o, [act EXCEPT ![a] = r])
      BY <3>2, Zenon
    <3> QED BY <1>1, <3>1, <3>3, NotifyTouches
  <2> QED BY <1>9, <2>1, <2>2, <2>3, <2>4, <2>5, <2>6, <2>7 DEF ManagerStep
<1>10. CASE EvaluatorActs
  <2>1. \/ act' = act
        \/ Call("evaluator", [Idle EXCEPT !.via = "evaluate", !.kind = "manual"])
    BY <1>10 DEF EvaluatorActs
  <2>2. Stays
    BY <1>1, <2>1, CallTouchesOne, Roster
  <2> QED BY <1>2, <2>2
<1>11. CASE Setup \/ Loaded \/ RecordSaved \/ Unload \/ Rollback
  <2>1. Stays
    BY <1>1, <1>11 DEF Setup, Loaded, RecordSaved, Unload, Rollback, Activities
  <2> QED BY <1>2, <2>1
<1>12. CASE StopManager \/ StopController \/ CloseClient \/ Crash
  <2>1. Stays
    BY <1>1, <1>12 DEF StopManager, StopReconcile, StopController, CloseClient, Crash
  <2> QED BY <1>2, <2>1
<1> QED BY <1>2, <1>3, <1>5, <1>6, <1>7, <1>8, <1>9, <1>10, <1>11, <1>12 DEF Next

\* RetriesOnObservation: a resumption that failed is tried again only after the purifier
\* has been observed again.
THEOREM RetriesWhenObserved == Spec => RetriesOnObservation
<1>1. IInv /\ [Next]_vars =>
        [InCommand("reconcile")' /\ ~InCommand("reconcile") => ~failed]_vars
  BY IdleIsScheduledFirst DEF IInv, Reconciles
<1> QED BY <1>1, InvHolds, PTL DEF Spec, RetriesOnObservation

================================================================================
