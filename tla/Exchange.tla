-------------------------------- MODULE Exchange --------------------------------
(***************************************************************************)
(* One GoveeBleClient with its own connection: what a poll or a command    *)
(* does from its call to its answer.  The path to the purifier             *)
(* (client.py:928, transport.py), the transaction lock, the connection     *)
(* attempt and its abandonment, the encrypted session, the notifications   *)
(* and whom they are routed to, the required and optional requests of      *)
(* _transactions.py, the drop after a failure, and the single replay of a  *)
(* poll.  Lease, switch, idle disconnect and close are in SharedConnection.*)
(*                                                                         *)
(* A link is a transport, a new number for each connection attempt.        *)
(* wire[n] are the notifications on their way over link n, in order.  A    *)
(* notification is of a kind, the one a request asks for, and of           *)
(*   "now"     a request of the exchange that is under way                 *)
(*   "old"     one of an exchange that succeeded (without this answer)     *)
(*   "failed"  one of an exchange that was given up                        *)
(*   "push"    nobody's request                                            *)
(* x is the exchange under way: the await its caller is suspended at, the  *)
(* link it works on, and _ExchangeState.                                   *)
(***************************************************************************)
EXTENDS Naturals, Sequences

CONSTANTS Calls, Plans,
          MaxLinks          \* bound: connection attempts

Kinds == {"poll", "power", "light", "both"}
Links == 1..MaxLinks
NoLink == 0
Nobody == "nobody"
Recovery == "recovery"

\* A plan: what is called, of which profile, and what may go wrong how often.
ASSUME ExchangeAssumption ==
    /\ MaxLinks \in Nat /\ Nobody \notin Calls /\ Recovery \notin Calls
    /\ \A p \in Plans :
         /\ p.kind \in [Calls -> Kinds]
         /\ {p.encrypted, p.persistent, p.sequential, p.lightDue} \subseteq BOOLEAN
         /\ {p.faults, p.pushes} \subseteq Nat

VARIABLES
    plan, faults, pushes,    \* faults and pushes still to come
    call,                    \* of each call: where it is, attempt, claimed
    sent,                    \* how often its first request reached the purifier
    holder, x,               \* of the transaction lock; its exchange
    taken,                   \* the required answers of the exchange
    attached, listener, route,  \* GoveeBleSession: client, notifications, route
    recovering,              \* the link with a malformed listener
    radio, asked, leaked,    \* links; asked to disconnect; forgotten
    wire,
    stale, backoff,          \* a fresh advertisement is needed; no wait for one now
    lightDue                 \* the night light is to be polled

environmentVars == <<plan, pushes>>
pathVars == <<stale, backoff>>
sessionVars == <<attached, listener, route, recovering>>
linkVars == <<radio, asked, leaked>>
vars == <<environmentVars, faults, call, sent, holder, x, taken, sessionVars, linkVars,
          wire, pathVars, lightDue>>

Required == [poll |-> <<"power", "status">>, power |-> <<"power">>,
             light |-> <<"light">>, both |-> <<"power", "mode">>]
Optional == <<"light", "rgb">>

Free == [stage |-> "free", conn |-> NoLink, index |-> 0, written |-> FALSE, got |-> "no",
         missing |-> FALSE, optional |-> {}, discard |-> FALSE, after |-> "none"]

Requests == IF holder \in Calls THEN Required[plan.kind[holder]] ELSE <<>>
IsPoll(c) == plan.kind[c] = "poll"

Init ==
    /\ plan \in Plans
    /\ faults = plan.faults /\ pushes = plan.pushes
    /\ call = [c \in Calls |-> [at |-> "off", attempt |-> 0, claimed |-> FALSE]]
    /\ sent = [c \in Calls |-> 0]
    /\ holder = Nobody /\ x = Free /\ taken = {}
    /\ attached = NoLink /\ listener = NoLink /\ route = FALSE /\ recovering = NoLink
    /\ radio = [n \in Links |-> "unused"] /\ asked = {} /\ leaked = {}
    /\ wire = [n \in Links |-> <<>>]
    /\ stale = FALSE /\ backoff = FALSE
    /\ lightDue = plan.lightDue

Up(n) == n # NoLink /\ radio[n] = "up"
Fault == faults > 0 /\ faults' = faults - 1
NoFault == UNCHANGED faults

------------------------------------------------------------------------------
\* The call before it has the lock

\* Mutant of Replays: commands are sent again, too.
ReplaysAnything(c) == call[c].attempt = 0

\* Only a read may be repeated, and once.
Replays(c) == IsPoll(c) /\ call[c].attempt = 0

\* An attempt: the night light is claimed if it is due, an open connection needs no
\* preparation.
Attempt(number, claims, connected) ==
    [at |-> IF connected THEN "lock" ELSE "prepare", attempt |-> number,
     claimed |-> claims]

Start(c) ==
    /\ call[c].at = "off"
    /\ call' = [call EXCEPT ![c] = Attempt(0, IsPoll(c) /\ lightDue, Up(attached))]
    /\ lightDue' = (lightDue /\ ~IsPoll(c))
    /\ UNCHANGED <<environmentVars, faults, sent, holder, x, taken, sessionVars, linkVars,
                   wire, pathVars>>

\* The call ends.  A failed poll releases its claim; if the link was lost the poll
\* begins again, and claims again.
EndsAs(c, outcome) ==
    IF outcome = "lost" /\ Replays(c)
    THEN /\ call' = [call EXCEPT ![c] = Attempt(1, lightDue \/ @.claimed, FALSE)]
         /\ lightDue' = FALSE
    ELSE /\ call' = [call EXCEPT ![c].at = IF outcome = "ok" THEN "ok" ELSE "failed"]
         /\ lightDue' = (lightDue \/ (call[c].claimed /\ outcome # "ok"))

beyondCall == <<environmentVars, sent, holder, x, taken, sessionVars, linkVars, wire>>

\* A connectable path is known, or found by a fresh advertisement.
PathFound(c) ==
    /\ call[c].at = "prepare"
    /\ call' = [call EXCEPT ![c].at = "lock"]
    /\ stale' = FALSE /\ backoff' = FALSE
    /\ UNCHANGED <<beyondCall, faults, lightDue>>

\* The advertisement does not come in time; until a retry is due, nobody waits for it.
PathMissing(c) ==
    /\ call[c].at = "prepare"
    /\ IF stale /\ backoff THEN NoFault ELSE Fault
    /\ backoff' = TRUE
    /\ EndsAs(c, "error")
    /\ UNCHANGED <<beyondCall, stale>>

RetryDue ==
    /\ backoff /\ backoff' = FALSE
    /\ UNCHANGED <<beyondCall, faults, call, stale, lightDue>>

\* Deadline of the transaction lock, or cancelled before it is obtained.
GivesUpWaiting(c) ==
    /\ call[c].at \in {"prepare", "lock"}
    /\ Fault
    /\ EndsAs(c, "error")
    /\ UNCHANGED <<beyondCall, pathVars>>

------------------------------------------------------------------------------
\* Building blocks of an exchange

At(stages) == x.stage \in stages
To(stage) == x' = [x EXCEPT !.stage = stage]

\* The disconnect callback came: every await of the exchange raises.
Signalled == attached # x.conn

\* Calls of the runner go on over link n: start the listener unless it is active.
Enter(n) ==
    IF listener = n
    THEN x' = [Free EXCEPT !.stage = "write", !.conn = n, !.index = 1] /\ route' = TRUE
    ELSE x' = [Free EXCEPT !.stage = "notify", !.conn = n] /\ UNCHANGED route

Marked(of) ==
    [n \in Links |-> [i \in DOMAIN wire[n] |->
        IF wire[n][i].of = "now" THEN [wire[n][i] EXCEPT !.of = of] ELSE wire[n][i]]]

\* The lock is released and the call ends.
Release(outcome) ==
    /\ holder' = Nobody /\ x' = Free /\ taken' = {}
    /\ IF holder \in Calls THEN EndsAs(holder, outcome)
       ELSE UNCHANGED <<call, lightDue>>

\* async_drop: the session forgets the link; listener first, then disconnect().
Drop(outcome) ==
    /\ attached' = NoLink /\ listener' = NoLink /\ route' = FALSE
    /\ IF attached = NoLink
       THEN Release(outcome) /\ UNCHANGED asked
       ELSE LET stops == listener = attached /\ Up(attached) IN
            /\ x' = [Free EXCEPT !.stage = IF stops THEN "dropStop" ELSE "drop",
                                 !.conn = attached, !.after = outcome]
            /\ asked' = IF stops THEN asked ELSE asked \cup {attached}
            /\ taken' = {}
            /\ UNCHANGED <<holder, call, lightDue>>

\* Mutant of Fails: the connection is kept after a failure.
FailsButKeepsLink(outcome) ==
    /\ wire' = Marked("failed")
    /\ route' = FALSE
    /\ Release(outcome)
    /\ UNCHANGED <<attached, listener, asked>>

\* An exchange or its handshake is given up: _async_execute_once.
Fails(outcome) ==
    /\ wire' = Marked("failed")
    /\ Drop(outcome)

\* _was_disconnected: any error counts as a lost link then.
LinkDown == Signalled \/ ~Up(x.conn)

\* async_drop_after_error: if the link seems to be up, one turn of the event loop lets
\* its callback run.  The route is unbound by now, the listener is still active.
AllowsCallback(outcome) ==
    /\ x' = [x EXCEPT !.stage = "yield", !.after = outcome]
    /\ route' = FALSE
    /\ UNCHANGED <<call, holder, taken, attached, listener, asked, wire, lightDue>>

beyondExchange == <<environmentVars, sent, recovering, pathVars>>

------------------------------------------------------------------------------
\* The lock, and the connection

\* async_run with the lock: refused during a recovery, on the open link, or a new one.
Locks(c) ==
    /\ call[c].at = "lock" /\ holder = Nobody
    /\ \/ /\ recovering # NoLink
          /\ EndsAs(c, "error")
          /\ UNCHANGED <<holder, x, attached, listener, route, radio>>
       \/ /\ recovering = NoLink /\ Up(attached)
          /\ holder' = c
          /\ call' = [call EXCEPT ![c].at = "working"]
          /\ Enter(attached)
          /\ UNCHANGED <<attached, listener, radio, lightDue>>
       \/ /\ recovering = NoLink /\ ~Up(attached)
          /\ \E n \in Links :
               /\ radio[n] = "unused" /\ \A m \in 1..(n - 1) : radio[m] # "unused"
               /\ radio' = [radio EXCEPT ![n] = "trying"]
               /\ x' = [Free EXCEPT !.stage = "connect", !.conn = n]
          /\ attached' = NoLink /\ listener' = NoLink /\ route' = FALSE
          /\ holder' = c
          /\ call' = [call EXCEPT ![c].at = "working"]
          /\ UNCHANGED lightDue
    /\ UNCHANGED <<beyondExchange, faults, taken, asked, leaked, wire>>

Establishes ==
    /\ At({"connect"})
    /\ radio' = [radio EXCEPT ![x.conn] = "up"]
    /\ attached' = x.conn
    /\ IF plan.encrypted THEN To("handshake") /\ UNCHANGED route ELSE Enter(x.conn)
    /\ UNCHANGED <<beyondExchange, faults, call, holder, taken, listener, asked, leaked,
                   wire, lightDue>>

\* The backend fails; the session has nothing to forget.
EstablishFails ==
    /\ At({"connect"})
    /\ Fault
    /\ radio' = [radio EXCEPT ![x.conn] = "gone"]
    /\ Release("error")
    /\ UNCHANGED <<beyondExchange, attached, listener, route, asked, leaked, wire>>

\* It connects and is down as it is attached: dropped at once.
EstablishedDown ==
    /\ At({"connect"})
    /\ Fault
    /\ radio' = [radio EXCEPT ![x.conn] = "gone"]
    /\ asked' = asked \cup {x.conn}
    /\ x' = [x EXCEPT !.stage = "drop", !.after = "lost"]
    /\ UNCHANGED <<beyondExchange, call, holder, taken, attached, listener, route, leaked,
                   wire, lightDue>>

\* Deadline or cancellation: the attempt is cancelled and not waited for.  If it
\* ended in the same turn of the event loop, its link is nobody's.
AbandonsAttempt ==
    /\ At({"connect"})
    /\ Fault
    /\ \/ radio' = [radio EXCEPT ![x.conn] = "abandoned"] /\ UNCHANGED leaked
       \/ radio' = [radio EXCEPT ![x.conn] = "up"] /\ leaked' = leaked \cup {x.conn}
    /\ Release("error")
    /\ UNCHANGED <<beyondExchange, sessionVars, asked, wire>>

\* Mutant of LateLink: the late link is left alone.
LateLinkUnseen(n) == UNCHANGED asked

\* _observe_abandoned_connection_attempt
LateLink(n) == asked' = asked \cup {n}

AttemptEndsLate(n) ==
    /\ radio[n] = "abandoned"
    /\ \/ radio' = [radio EXCEPT ![n] = "up"] /\ LateLink(n)
       \/ radio' = [radio EXCEPT ![n] = "gone"] /\ UNCHANGED asked
    /\ UNCHANGED <<beyondExchange, faults, call, holder, x, taken, attached, listener,
                   route, leaked, wire, lightDue>>

\* The session key is negotiated; a second answer to e7 02 may follow late.
Negotiates ==
    /\ At({"handshake"}) /\ ~Signalled /\ Up(x.conn)
    /\ \/ NoFault /\ UNCHANGED wire
       \/ Fault /\ wire' = [wire EXCEPT ![x.conn] = Append(@, [kind |-> "e7", of |-> "push"])]
    /\ Enter(x.conn)
    /\ UNCHANGED <<beyondExchange, call, holder, taken, attached, listener, linkVars,
                   lightDue>>

------------------------------------------------------------------------------
\* The exchange: TransactionRunner

\* async_start_notifications, bind_route
Listens ==
    /\ At({"notify"}) /\ ~Signalled /\ Up(x.conn) /\ recovering # x.conn
    /\ listener' = x.conn /\ route' = TRUE
    /\ x' = [x EXCEPT !.stage = "write", !.index = 1]
    /\ UNCHANGED <<beyondExchange, faults, call, holder, taken, attached, linkVars, wire,
                   lightDue>>

Writing == At({"write", "optWrite"})
Asked == IF At({"write", "wait"}) THEN Requests[x.index] ELSE Optional[x.index]

\* The purifier gets the request and answers it, or does not, or garbled.
Executes ==
    LET answer(kind) == wire' = [wire EXCEPT ![x.conn] =
                                   Append(@, [kind |-> kind, of |-> "now"])] IN
    /\ Writing /\ ~x.written /\ ~Signalled /\ Up(x.conn)
    /\ \/ NoFault /\ answer(Asked) /\ x' = [x EXCEPT !.written = TRUE]
       \/ /\ Fault /\ (answer("garbled") \/ UNCHANGED wire)
          /\ x' = [x EXCEPT !.written = TRUE, !.missing = TRUE]
    /\ sent' = IF At({"write"}) /\ x.index = 1 THEN [sent EXCEPT ![holder] = @ + 1]
               ELSE sent
    /\ UNCHANGED <<environmentVars, call, holder, taken, sessionVars, linkVars, pathVars,
                   lightDue>>

Waits ==
    /\ At({"write"}) /\ x.written /\ ~Signalled
    /\ To("wait")
    /\ UNCHANGED <<beyondExchange, faults, call, holder, taken, attached, listener, route,
                   linkVars, wire, lightDue>>

\* Mutant of Completes: the route stays bound.
CompletesBound(discard) ==
    /\ wire' = Marked("old")
    /\ IF discard \/ Signalled \/ ~Up(x.conn) THEN Drop("ok")
       ELSE /\ UNCHANGED <<attached, asked, route>>
            /\ IF plan.persistent THEN Release("ok") /\ UNCHANGED listener
               ELSE /\ To("stop") /\ listener' = NoLink
                    /\ UNCHANGED <<call, holder, taken, lightDue>>

\* The exchange is complete: the route is unbound, a listener that is not to stay is
\* stopped, a session that cannot be trusted is dropped.
Completes(discard) ==
    /\ wire' = Marked("old")
    /\ IF discard \/ Signalled \/ ~Up(x.conn) THEN Drop("ok")
       ELSE /\ route' = FALSE
            /\ UNCHANGED <<attached, asked>>
            /\ IF plan.persistent THEN Release("ok") /\ UNCHANGED listener
               ELSE /\ To("stop") /\ listener' = NoLink
                    /\ UNCHANGED <<call, holder, taken, lightDue>>

\* The next request is to be written.  A missing optional answer stays missing.
Asks(stage, index) ==
    x' = [x EXCEPT !.stage = stage, !.index = index, !.written = FALSE, !.got = "no",
                   !.missing = @ /\ stage = "optWrite" /\ index > 1]

\* A required answer is there: the next request, the optional ones, or the end.
Answered ==
    /\ At({"wait"}) /\ x.got = "yes" /\ ~Signalled
    /\ IF x.index < Len(Requests) \/ call[holder].claimed
       THEN /\ IF x.index < Len(Requests) THEN Asks("write", x.index + 1)
               ELSE Asks("optWrite", 1)
            /\ UNCHANGED <<call, holder, taken, attached, listener, route, asked, wire,
                           lightDue>>
       ELSE Completes(x.discard)
    /\ UNCHANGED <<beyondExchange, faults, radio, leaked>>

\* An optional request is written: sequential requests are waited for one by one.
OptionalWritten ==
    /\ At({"optWrite"}) /\ x.written /\ ~Signalled
    /\ IF plan.sequential \/ x.index = Len(Optional) THEN To("optWait")
       ELSE Asks("optWrite", x.index + 1)
    /\ UNCHANGED <<beyondExchange, faults, call, holder, taken, attached, listener, route,
                   linkVars, wire, lightDue>>

OptionalAnswered ==
    /\ At({"optWait"}) /\ ~Signalled
    /\ IF plan.sequential THEN x.index \in x.optional
       ELSE x.optional = DOMAIN Optional
    /\ IF plan.sequential /\ x.index < Len(Optional)
       THEN /\ Asks("optWrite", x.index + 1)
            /\ UNCHANGED <<call, holder, taken, attached, listener, route, asked, wire,
                           lightDue>>
       ELSE Completes(x.discard)
    /\ UNCHANGED <<beyondExchange, faults, radio, leaked>>

\* A late or missing optional answer, a failed write or a lost link end the optional
\* part; the required answers are kept.
OptionalGivenUp ==
    /\ At({"optWrite", "optWait"})
    /\ IF Signalled \/ ~Up(x.conn) \/ (x.missing /\ At({"optWait"})) THEN NoFault ELSE Fault
    /\ Completes(x.discard \/ At({"optWrite"}) \/ Signalled)
    /\ UNCHANGED <<beyondExchange, radio, leaked>>

\* stop_notify of a listener that is not to stay; a failure discards the session.
Stopped ==
    /\ At({"stop"})
    /\ \/ /\ NoFault /\ Up(x.conn) /\ Release("ok")
          /\ wire' = [wire EXCEPT ![x.conn] = <<>>]
          /\ UNCHANGED <<attached, listener, route, asked>>
       \/ /\ IF Up(x.conn) THEN Fault ELSE NoFault
          /\ Drop("ok")
          /\ UNCHANGED wire
    /\ UNCHANGED <<beyondExchange, radio, leaked>>

\* A lost link; a corrupt or missing answer; a listener that was invalidated while it
\* started, which the code takes for a lost link; a failing await or a deadline.
GivesUp ==
    /\ At({"handshake", "notify", "write", "wait"})
    /\ \/ LinkDown /\ NoFault /\ Fails("lost")
       \/ /\ ~LinkDown
          /\ \/ /\ At({"wait"}) /\ (x.got = "error" \/ (x.got = "no" /\ x.missing))
                /\ NoFault /\ AllowsCallback("error")
             \/ /\ At({"notify"}) /\ recovering = x.conn
                /\ NoFault /\ AllowsCallback("lost")
             \/ /\ At({"wait"}) => x.got = "no"
                /\ Fault /\ AllowsCallback("error")
    /\ UNCHANGED <<beyondExchange, radio, leaked>>

\* The turn is over: the link is looked at once more, and dropped.
CallbackAllowed ==
    /\ At({"yield"})
    /\ Fails(IF LinkDown THEN "lost" ELSE x.after)
    /\ UNCHANGED <<beyondExchange, faults, radio, leaked>>

\* The caller is cancelled.  (During the connection attempt: AbandonsAttempt.)
Cancelled ==
    /\ holder \in Calls
    /\ Fault
    /\ \/ /\ At({"handshake", "notify", "write", "wait", "yield",
                "optWrite", "optWait", "stop"})
          /\ Fails("error") /\ UNCHANGED leaked
       \/ /\ At({"dropStop", "drop"})
          /\ leaked' = IF At({"dropStop"}) THEN leaked \cup {x.conn} ELSE leaked
          /\ Release("error")
          /\ UNCHANGED <<attached, listener, route, asked, wire>>
    /\ UNCHANGED <<beyondExchange, radio>>

DropStopped ==
    /\ At({"dropStop"})
    /\ asked' = asked \cup {x.conn}
    /\ To("drop")
    /\ UNCHANGED <<beyondExchange, faults, call, holder, taken, attached, listener, route,
                   radio, leaked, wire, lightDue>>

\* Mutant of EndsRecovery: a finished recovery still counts as active.
EndsRecoveryNever == UNCHANGED recovering

\* _clear_notification_recovery
EndsRecovery == recovering' = NoLink

\* disconnect() returned, or its deadline passed.
Dropped ==
    /\ At({"drop"})
    /\ Release(x.after)
    /\ stale' = TRUE
    /\ IF holder = Recovery THEN EndsRecovery ELSE UNCHANGED recovering
    /\ UNCHANGED <<environmentVars, faults, sent, attached, listener, route, linkVars, wire,
                   backoff>>

------------------------------------------------------------------------------
\* Links and notifications

LinkLost(n) ==
    /\ Up(n)
    /\ IF n \in asked \cup leaked THEN NoFault ELSE Fault
    /\ radio' = [radio EXCEPT ![n] = IF n = attached THEN "lost" ELSE "gone"]
    /\ UNCHANGED <<beyondExchange, call, holder, x, taken, attached, listener, route, asked,
                   leaked, wire, lightDue>>

\* handle_disconnect: only the link it names is forgotten.
DisconnectCallback(n) ==
    /\ radio[n] = "lost"
    /\ radio' = [radio EXCEPT ![n] = "gone"]
    /\ IF attached = n
       THEN /\ attached' = NoLink /\ listener' = NoLink /\ route' = FALSE
            /\ stale' = TRUE
       ELSE UNCHANGED <<attached, listener, route, stale>>
    /\ UNCHANGED <<environmentVars, faults, call, sent, holder, x, taken, recovering, asked,
                   leaked, wire, backoff, lightDue>>

\* A button is pressed on a purifier that is listened to; its report may be garbled.
Push ==
    /\ pushes > 0 /\ pushes' = pushes - 1
    /\ \E n \in Links :
         /\ Up(n) /\ (listener = n \/ (At({"notify"}) /\ x.conn = n))
         /\ \E kind \in {"power", "garbled"} :
              wire' = [wire EXCEPT ![n] = Append(@, [kind |-> kind, of |-> "push"])]
    /\ UNCHANGED <<plan, faults, call, sent, holder, x, taken, sessionVars, linkVars,
                   pathVars, lightDue>>

\* A callback of the attached link whose listener is active, starting or stopping, and
\* was not invalidated.
Current(n) ==
    /\ attached = n /\ recovering # n
    /\ listener = n \/ (At({"notify", "stop", "yield"}) /\ x.conn = n)

\* The optional requests this kind of notification may answer.
OptionalFor(kind) ==
    {i \in 1..x.index : Optional[i] = kind /\ i \notin x.optional}

\* An active required wait fails, an optional one is quarantined; outside of an
\* exchange the listener is invalidated and recovered.
Corrupt(n) ==
    IF route
    THEN /\ x' = [x EXCEPT !.discard = TRUE,
                           !.got = IF At({"write", "wait"}) /\ @ = "no" THEN "error" ELSE @]
         /\ UNCHANGED <<taken, listener, recovering>>
    ELSE /\ recovering' = n /\ listener' = NoLink
         /\ UNCHANGED <<x, taken>>

\* A frame goes to the exchange if it matches, to the coordinator otherwise.  What
\* was not asked for now may have another value than the command waits for.
Frame(n, frame) ==
    \/ /\ route /\ At({"write", "wait"}) /\ x.got = "no" /\ frame.kind = Asked
       /\ x' = [x EXCEPT !.got = "yes"]
       /\ taken' = taken \cup {<<frame.of, n>>}
    \/ /\ route /\ At({"optWrite", "optWait"})
       /\ \E i \in OptionalFor(frame.kind) : x' = [x EXCEPT !.optional = @ \cup {i}]
       /\ UNCHANGED taken
    \/ /\ \/ ~route
          \/ At({"write", "wait"})
             /\ \/ x.got # "no" \/ frame.kind # Asked
                \/ frame.of # "now" /\ ~IsPoll(holder)
          \/ At({"optWrite", "optWait"}) /\ OptionalFor(frame.kind) = {}
       /\ UNCHANGED <<x, taken>>

Notification(n) ==
    LET frame == Head(wire[n]) IN
    /\ wire[n] # <<>>
    /\ wire' = [wire EXCEPT ![n] = Tail(@)]
    /\ IF ~Current(n) \/ frame.kind = "e7"
       THEN UNCHANGED <<x, taken, listener, recovering>>
       ELSE IF frame.kind = "garbled" THEN Corrupt(n)
       ELSE Frame(n, frame) /\ UNCHANGED <<listener, recovering>>
    /\ UNCHANGED <<environmentVars, faults, call, sent, holder, attached, route, linkVars,
                   pathVars, lightDue>>

\* _async_recover_notifications takes the lock; a link that is still the session's has
\* its listener stopped, if it is up, and is dropped.
RecoveryStarts ==
    /\ recovering # NoLink /\ holder = Nobody
    /\ \/ /\ attached # recovering
          /\ EndsRecovery /\ UNCHANGED <<holder, x, attached, asked>>
       \/ /\ attached = recovering
          /\ holder' = Recovery
          /\ x' = [Free EXCEPT !.stage = IF Up(attached) THEN "recoverStop" ELSE "drop",
                               !.conn = attached]
          /\ IF Up(attached) THEN UNCHANGED <<attached, asked>>
             ELSE attached' = NoLink /\ asked' = asked \cup {attached}
          /\ UNCHANGED recovering
    /\ UNCHANGED <<environmentVars, faults, call, sent, taken, listener, route, radio,
                   leaked, wire, pathVars, lightDue>>

\* stop_notify is over, however it ended; the disconnect callback may have come.
RecoveryStopped ==
    /\ At({"recoverStop"})
    /\ Drop("none")
    /\ IF attached = NoLink THEN EndsRecovery ELSE UNCHANGED recovering
    /\ UNCHANGED <<environmentVars, faults, sent, radio, leaked, wire, pathVars>>

\* The recovery does not get the lock before its deadline.
RecoveryGivesUp ==
    /\ recovering # NoLink /\ holder \in Calls
    /\ Fault
    /\ EndsRecovery
    /\ UNCHANGED <<environmentVars, call, sent, holder, x, taken, attached, listener, route,
                   linkVars, wire, pathVars, lightDue>>

------------------------------------------------------------------------------

CallSteps ==
    \/ \E c \in Calls : PathFound(c) \/ PathMissing(c) \/ GivesUpWaiting(c) \/ Locks(c)
    \/ Establishes \/ EstablishFails \/ EstablishedDown \/ AbandonsAttempt
    \/ Negotiates \/ Listens
    \/ Executes \/ Waits \/ Answered
    \/ OptionalWritten \/ OptionalAnswered \/ OptionalGivenUp
    \/ Stopped \/ GivesUp \/ CallbackAllowed \/ Cancelled \/ DropStopped \/ Dropped

LinkSteps ==
    \/ \E n \in Links :
         AttemptEndsLate(n) \/ LinkLost(n) \/ DisconnectCallback(n) \/ Notification(n)
    \/ RecoveryStarts \/ RecoveryStopped \/ RecoveryGivesUp \/ RetryDue

\* Every call ended, nobody holds anything.  (Anywhere else to stop is a deadlock.)
Rests ==
    /\ \A c \in Calls : call[c].at \in {"ok", "failed"}
    /\ holder = Nobody /\ recovering = NoLink
    /\ UNCHANGED vars

Next == (\E c \in Calls : Start(c)) \/ Push \/ CallSteps \/ LinkSteps \/ Rests

Spec == Init /\ [][Next]_vars

\* What was begun goes on: timers expire, callbacks and notifications are delivered,
\* a purifier that can answers.  Nobody has to call or press a button.
FairSpec == Spec /\ WF_vars(CallSteps \/ LinkSteps)

------------------------------------------------------------------------------
\* Properties

Working == {"notify", "write", "wait", "yield", "optWrite", "optWait", "stop"}
Stages == Working \cup {"free", "connect", "handshake", "dropStop", "drop", "recoverStop"}

\* Types; and what the code raises on otherwise: no route is bound while another one
\* is ("A BLE transaction route is already active"), nothing is attached over a
\* link, a route belongs to the exchange that is under way.
TypeOK ==
    /\ plan \in Plans /\ faults \in 0..plan.faults /\ pushes \in 0..plan.pushes
    /\ call \in [Calls -> [at : {"off", "prepare", "lock", "working", "ok", "failed"},
                          attempt : 0..1, claimed : BOOLEAN]]
    /\ sent \in [Calls -> 0..2]
    /\ holder \in Calls \cup {Nobody, Recovery}
    /\ x.stage \in Stages /\ x.conn \in {NoLink} \cup Links
    /\ (x.stage = "free") <=> (holder = Nobody)
    /\ {attached, listener, recovering} \subseteq {NoLink} \cup Links
    /\ listener \in {NoLink, attached}
    /\ radio \in [Links -> {"unused", "trying", "abandoned", "up", "lost", "gone"}]
    /\ asked \cup leaked \subseteq Links
    /\ {stale, backoff, lightDue} \subseteq BOOLEAN
    /\ route => At({"write", "wait", "optWrite", "optWait"})
    /\ At({"connect"}) => attached = NoLink

\* A required answer is never one to a request of an exchange that was given up, nor
\* from a former link (client.py:535, _connection.py:222-237): a query that timed out
\* is not answered into the next poll or command.
FailedIsForgotten ==
    \A answer \in taken : answer[1] # "failed" /\ answer[2] = x.conn

\* A command reaches the purifier at most once however the call goes; a poll twice
\* at most, and only after its link was lost (client.py:417-424).
ReplaysOnlyReads ==
    \A c \in Calls :
        sent[c] <= 1 \/ (IsPoll(c) /\ sent[c] = 2 /\ call[c].attempt = 1)

\* Every link that is up is the session's, is about to be disconnected or was asked to
\* disconnect; an attempt given up never keeps a connection slot (transport.py:94).
\* The exceptions are in "leaked": an attempt that ends in the turn of the loop in
\* which it is given up, and a caller cancelled while the listener is stopped.
LinksAccounted ==
    \A n \in Links :
        radio[n] = "up" => \/ n = attached
                           \/ n \in asked \cup leaked
                           \/ At({"dropStop"}) /\ x.conn = n

\* Nothing else is under way, nothing is on its way, and no failure is still to come.
Quiet(c) ==
    /\ faults = 0 /\ pushes = 0
    /\ holder = Nobody /\ recovering = NoLink /\ ~backoff
    /\ \A n \in Links : wire[n] = <<>> /\ radio[n] # "lost"
    /\ \A d \in Calls \ {c} : call[d].at \in {"off", "ok", "failed"}

\* Whatever went wrong before, a malformed listener is recovered from, and a call in
\* quiet times succeeds: no former failure leaves anything in its way.
Recovers ==
    /\ recovering # NoLink ~> recovering = NoLink
    /\ \A c \in Calls :
         (Quiet(c) /\ call[c].at \in {"prepare", "lock"}) ~> call[c].at = "ok"

==============================================================================
