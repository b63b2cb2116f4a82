----------------------------- MODULE ExchangeProofs -----------------------------
(***************************************************************************)
(* The safety properties of an exchange, for any number of calls and links *)
(* and whatever is planned: types, FailedIsForgotten, ReplaysOnlyReads and *)
(* LinksAccounted.                                                         *)
(*                                                                         *)
(* FailedIsForgotten rests on the drop after every failure: what was on    *)
(* its way is for a link that the session forgot, and the next link is a   *)
(* new one (Forgotten).  ReplaysOnlyReads rests on where a call may be     *)
(* while its first request is not sent (OncePerAttempt).  Both are in      *)
(* IInv.  Types and LinksAccounted build on it: SessionInv has what the    *)
(* session, its listener and its route are at each stage.                  *)
(*                                                                         *)
(* XKeepsInv is the lemma that action X keeps IInv, SessionX that it keeps *)
(* SessionInv.                                                             *)
(***************************************************************************)
EXTENDS Exchange, TLAPS

FrameKinds == {"power", "status", "light", "mode", "rgb", "e7", "garbled"}
Frames == [kind : FrameKinds, of : {"now", "old", "failed", "push"}]

CallFields == {"at", "attempt", "claimed"}
ExchangeFields == {"stage", "conn", "index", "written", "got", "missing", "optional",
                   "discard", "after"}

\* The records have their fields, what is used as a number or a link is one.
CallShapes ==
    /\ plan \in Plans
    /\ call = [c \in Calls |-> call[c]]
    /\ \A c \in Calls : /\ call[c] = [f \in CallFields |-> call[c][f]]
                        /\ call[c].attempt \in {0, 1}
    /\ sent \in [Calls -> Nat]
    /\ x = [f \in ExchangeFields |-> x[f]]
    /\ x.conn \in {NoLink} \cup Links

LinkShapes ==
    /\ attached \in {NoLink} \cup Links
    /\ radio = [n \in Links |-> radio[n]]
    /\ wire \in [Links -> Seq(Frames)]

\* Past the lock a call is the holder of the lock, and only then.
Engaged == Working \cup {"connect", "handshake"}
LockHeld ==
    /\ holder \in Calls \cup {Nobody, Recovery}
    /\ x.stage = "free" <=> holder = Nobody
    /\ x.stage \in Engaged => holder \in Calls
    /\ \A c \in Calls : call[c].at = "working" <=> holder = c
    /\ x.stage \in {"write", "wait"} => x.index \in DOMAIN Requests
    /\ x.stage \in {"optWrite", "optWait"} => x.index \in DOMAIN Optional

\* The first request of the attempt has not been written.
Unsent == \/ x.stage \in {"connect", "handshake", "notify"}
          \/ x.stage = "write" /\ x.index = 1 /\ ~x.written

\* One request for each attempt, and a second attempt for polls only.
OncePerAttempt(c) ==
    /\ call[c].at = "off" => sent[c] = 0
    /\ call[c].at \in {"off", "prepare", "lock"} => sent[c] <= call[c].attempt
    /\ holder = c /\ Unsent => sent[c] <= call[c].attempt
    /\ sent[c] <= call[c].attempt + 1
    /\ call[c].attempt = 1 => IsPoll(c)

\* Nothing given up is on its way over the link of the session; a link that is not
\* established yet carries nothing.
Forgotten ==
    /\ attached # NoLink => \A i \in DOMAIN wire[attached] : wire[attached][i].of # "failed"
    /\ \A n \in Links : radio[n] \in {"unused", "trying", "abandoned"} => wire[n] = <<>>
    /\ x.stage = "connect" => x.conn \in Links /\ radio[x.conn] = "trying"
    /\ x.stage \in Engaged => x.conn \in Links
    /\ x.stage \in Engaged \ {"connect"} => attached \in {NoLink, x.conn}

\* What was taken was taken by the exchange that is under way.
Taken == FailedIsForgotten /\ (x.stage = "free" => taken = {})

CallInv == CallShapes /\ LockHeld /\ (\A c \in Calls : OncePerAttempt(c)) /\ Taken
LinkInv == LinkShapes /\ Forgotten
IInv == CallInv /\ LinkInv

\* Notifications that are marked are as many as before.
LEMMA MarkedWire ==
    ASSUME LinkInv, NEW of \in {"old", "failed"}
    PROVE  /\ Marked(of) \in [Links -> Seq(Frames)]
           /\ \A n \in Links :
                /\ wire[n] = <<>> => Marked(of)[n] = <<>>
                /\ DOMAIN Marked(of)[n] = DOMAIN wire[n]
                /\ \A i \in DOMAIN wire[n] : Marked(of)[n][i].of \in {wire[n][i].of, of}
<1>1. wire \in [Links -> Seq(Frames)]
  BY DEF LinkInv, LinkShapes
<1>2. ASSUME NEW n \in Links
      PROVE  /\ Marked(of)[n] \in Seq(Frames)
             /\ wire[n] = <<>> => Marked(of)[n] = <<>>
             /\ DOMAIN Marked(of)[n] = DOMAIN wire[n]
             /\ \A i \in DOMAIN wire[n] : Marked(of)[n][i].of \in {wire[n][i].of, of}
  <2> DEFINE mark(f) == IF f.of = "now" THEN [f EXCEPT !.of = of] ELSE f
  <2>1. wire[n] \in Seq(Frames) /\ DOMAIN wire[n] = 1..Len(wire[n]) /\ Len(wire[n]) \in Nat
    BY <1>1
  <2>2. Marked(of)[n] = [i \in 1..Len(wire[n]) |-> mark(wire[n][i])]
    BY <2>1 DEF Marked
  <2>3. \A f \in Frames : mark(f) \in Frames /\ mark(f).of \in {f.of, of}
    BY DEF Frames
  <2>4. \A i \in 1..Len(wire[n]) : wire[n][i] \in Frames
    BY <2>1
  <2> HIDE DEF mark
  <2>5. Marked(of)[n] \in Seq(Frames)
    BY <2>1, <2>2, <2>3, <2>4
  <2>6. wire[n] = <<>> => Marked(of)[n] = <<>>
    BY <2>1, <2>2, <2>5
  <2>7. QED BY <2>1, <2>2, <2>3, <2>4, <2>5, <2>6
<1>3. QED BY <1>1, <1>2 DEF Marked

\* A call that ends has sent no more than its attempts, and a poll that begins
\* again has an attempt to go.
LEMMA CallEnds ==
    ASSUME CallInv, NEW c \in Calls, NEW outcome, EndsAs(c, outcome)
    PROVE  /\ call' = [d \in Calls |-> call'[d]]
           /\ \A d \in Calls : d # c => call'[d] = call[d]
           /\ call'[c] = [f \in CallFields |-> call'[c][f]]
           /\ call'[c].attempt \in {0, 1}
           /\ call'[c].at \in {"prepare", "ok", "failed"}
           /\ call'[c].at = "prepare" => sent[c] <= call'[c].attempt
           /\ sent[c] <= call'[c].attempt + 1
           /\ call'[c].attempt = 1 => IsPoll(c)
<1>1. /\ call = [d \in Calls |-> call[d]]
      /\ call[c] = [f \in CallFields |-> call[c][f]] /\ call[c].attempt \in {0, 1}
      /\ sent[c] \in Nat /\ OncePerAttempt(c)
  BY DEF CallInv, CallShapes
<1>2. CASE outcome = "lost" /\ Replays(c)
  <2>1. /\ call' = [call EXCEPT ![c] = Attempt(1, lightDue \/ call[c].claimed, FALSE)]
        /\ IsPoll(c) /\ call[c].attempt = 0
    BY <1>2 DEF EndsAs, Replays
  <2> DEFINE again == Attempt(1, lightDue \/ call[c].claimed, FALSE)
  <2>2. /\ again = [f \in CallFields |-> again[f]]
        /\ again.at = "prepare" /\ again.attempt = 1
    BY DEF Attempt, CallFields
  <2>3. sent[c] <= 1
    BY <1>1, <2>1 DEF OncePerAttempt
  <2>4. call' = [call EXCEPT ![c] = again]
    BY <2>1
  <2> HIDE DEF again
  <2>5. /\ call'[c] = again /\ \A d \in Calls : d # c => call'[d] = call[d]
        /\ call' = [d \in Calls |-> call'[d]]
    BY <1>1, <2>4
  <2>6. sent[c] <= call'[c].attempt /\ sent[c] <= call'[c].attempt + 1
    BY <1>1, <2>2, <2>3, <2>5
  <2>7. QED BY <2>1, <2>2, <2>5, <2>6
<1>3. CASE ~(outcome = "lost" /\ Replays(c))
  <2> DEFINE at == IF outcome = "ok" THEN "ok" ELSE "failed"
  <2>1. call' = [call EXCEPT ![c].at = at]
    BY <1>3 DEF EndsAs
  <2>2. QED BY <1>1, <2>1 DEF CallFields, OncePerAttempt
<1>4. QED BY <1>2, <1>3

LEMMA ReleaseKeepsCalls ==
    ASSUME CallInv, NEW outcome, Release(outcome), UNCHANGED <<plan, sent>>
    PROVE  CallInv' /\ x'.stage = "free" /\ holder' = Nobody
<1>1. /\ x' = [stage |-> "free", conn |-> NoLink, index |-> 0, written |-> FALSE,
               got |-> "no", missing |-> FALSE, optional |-> {}, discard |-> FALSE,
               after |-> "none"]
      /\ holder' = Nobody /\ taken' = {}
  BY DEF Release, Free
<1>2. /\ x'.stage = "free" /\ x'.conn = NoLink
      /\ x' = [f \in ExchangeFields |-> x'[f]]
  BY <1>1 DEF ExchangeFields
<1>3. Taken'
  BY <1>1, <1>2 DEF Taken, FailedIsForgotten
<1>4. Nobody \notin Calls
  BY ExchangeAssumption
<1>5. ASSUME NEW c \in Calls, holder = c
      PROVE  CallShapes' /\ LockHeld' /\ \A d \in Calls : OncePerAttempt(d)'
  <2>1. EndsAs(c, outcome)
    BY <1>5 DEF Release
  <2>2. CallShapes'
    BY <1>2, <2>1, CallEnds DEF CallInv, CallShapes
  <2>3. \A d \in Calls : call'[d].at # "working"
    BY <1>5, <2>1, CallEnds DEF CallInv, LockHeld
  <2>4. LockHeld'
    BY <1>1, <1>2, <1>4, <2>3 DEF LockHeld, Engaged, Working
  <2>5. \A d \in Calls : OncePerAttempt(d)'
    BY <1>1, <1>4, <2>1, CallEnds DEF CallInv, OncePerAttempt, IsPoll
  <2>6. QED BY <2>2, <2>4, <2>5
<1>6. ASSUME holder \notin Calls
      PROVE  CallShapes' /\ LockHeld' /\ \A d \in Calls : OncePerAttempt(d)'
  <2>1. call' = call
    BY <1>6 DEF Release
  <2>2. CallShapes'
    BY <1>2, <2>1 DEF CallInv, CallShapes
  <2>3. \A d \in Calls : call'[d].at # "working"
    BY <1>6, <2>1 DEF CallInv, LockHeld
  <2>4. LockHeld'
    BY <1>1, <1>2, <1>4, <2>3 DEF LockHeld, Engaged, Working
  <2>5. \A d \in Calls : OncePerAttempt(d)'
    BY <1>1, <1>4, <2>1 DEF CallInv, OncePerAttempt, IsPoll
  <2>6. QED BY <2>2, <2>4, <2>5
<1>7. QED BY <1>1, <1>2, <1>3, <1>5, <1>6 DEF CallInv

LEMMA DropKeepsCalls ==
    ASSUME IInv, x.stage # "free", NEW outcome, Drop(outcome), UNCHANGED <<plan, sent>>
    PROVE  CallInv' /\ x'.stage \notin Engaged /\ attached' = NoLink
<1>1. CASE attached = NoLink
  <2>1. Release(outcome) /\ attached' = NoLink
    BY <1>1 DEF Drop
  <2>2. QED BY <2>1, ReleaseKeepsCalls DEF IInv, Engaged, Working
<1>2. CASE attached # NoLink
  <2>1. PICK stage \in {"dropStop", "drop"} :
          x' = [Free EXCEPT !.stage = stage, !.conn = attached, !.after = outcome]
    BY <1>2 DEF Drop
  <2>2. /\ x' = [f \in ExchangeFields |-> x'[f]]
        /\ x'.stage \in {"dropStop", "drop"} /\ x'.conn = attached
    BY <2>1 DEF Free, ExchangeFields
  <2>3. taken' = {} /\ UNCHANGED <<holder, call>> /\ attached' = NoLink
    BY <1>2 DEF Drop
  <2>4. CallShapes'
    BY <2>2, <2>3 DEF IInv, CallInv, CallShapes, LinkInv, LinkShapes
  <2>5. LockHeld'
    BY <2>2, <2>3 DEF IInv, CallInv, LockHeld, Engaged, Working
  <2>6. \A c \in Calls : OncePerAttempt(c)'
    BY <2>2, <2>3 DEF IInv, CallInv, OncePerAttempt, IsPoll, Unsent
  <2>7. Taken'
    BY <2>2, <2>3 DEF Taken, FailedIsForgotten
  <2>8. QED BY <2>2, <2>3, <2>4, <2>5, <2>6, <2>7 DEF CallInv, Engaged, Working
<1>3. QED BY <1>1, <1>2

\* Once the session forgot its link, whatever is on its way is harmless.
LEMMA ForgetfulSession ==
    ASSUME LinkInv, attached' = NoLink, radio' = radio,
           wire' \in {wire, Marked("old"), Marked("failed")},
           x'.stage \notin Engaged
    PROVE  LinkInv'
<1>1. /\ wire' \in [Links -> Seq(Frames)]
      /\ \A n \in Links : wire[n] = <<>> => wire'[n] = <<>>
  BY MarkedWire DEF LinkInv, LinkShapes
<1>2. LinkShapes'
  BY <1>1 DEF LinkInv, LinkShapes
<1>3. Forgotten'
  BY <1>1 DEF LinkInv, Forgotten, Engaged
<1>4. QED BY <1>2, <1>3 DEF LinkInv

\* The session keeps its link, and what is on its way was not given up.
LEMMA FaithfulSession ==
    ASSUME LinkInv, attached' = attached, radio' = radio,
           wire' \in {wire, Marked("old")},
           x'.stage \in Engaged => x.stage \in Engaged /\ x'.conn = x.conn,
           x'.stage = "connect" <=> x.stage = "connect"
    PROVE  LinkInv'
<1>1. /\ wire' \in [Links -> Seq(Frames)]
      /\ \A n \in Links :
           /\ wire[n] = <<>> => wire'[n] = <<>>
           /\ DOMAIN wire'[n] = DOMAIN wire[n]
           /\ \A i \in DOMAIN wire[n] : wire'[n][i].of \in {wire[n][i].of, "old"}
  BY MarkedWire DEF LinkInv, LinkShapes
<1>2. LinkShapes'
  BY <1>1 DEF LinkInv, LinkShapes
<1>3. attached # NoLink =>
        \A i \in DOMAIN wire'[attached] : wire'[attached][i].of # "failed"
  BY <1>1 DEF LinkInv, LinkShapes, Forgotten
<1>4. Forgotten'
  BY <1>1, <1>3 DEF LinkInv, Forgotten, Engaged, Working
<1>5. QED BY <1>2, <1>4 DEF LinkInv

\* The exchange goes on without another first request.
LEMMA ExchangeGoesOn ==
    ASSUME CallInv, UNCHANGED <<plan, call, sent, holder, taken>>,
           x' = [f \in ExchangeFields |-> x'[f]], x'.conn = x.conn,
           x.stage # "free", x'.stage # "free",
           x'.stage \in Engaged => x.stage \in Engaged,
           x'.stage \in {"write", "wait"} => x'.index \in DOMAIN Requests,
           x'.stage \in {"optWrite", "optWait"} => x'.index \in DOMAIN Optional,
           Unsent' => Unsent
    PROVE  CallInv'
<1>1. CallShapes'
  BY DEF CallInv, CallShapes
<1>2. LockHeld'
  BY DEF CallInv, LockHeld, Requests
<1>3. \A c \in Calls : OncePerAttempt(c)'
  BY DEF CallInv, OncePerAttempt, IsPoll
<1>4. Taken'
  BY DEF CallInv, Taken, FailedIsForgotten
<1>5. QED BY <1>1, <1>2, <1>3, <1>4 DEF CallInv

LEMMA CallsUnmoved ==
    ASSUME CallInv, UNCHANGED <<plan, call, sent, holder, x, taken>>
    PROVE  CallInv'
BY DEF CallInv, CallShapes, LockHeld, OncePerAttempt, Taken, FailedIsForgotten, Requests,
       IsPoll, Unsent

LEMMA LinksUnmoved ==
    ASSUME LinkInv, UNCHANGED <<attached, radio, wire, x>>
    PROVE  LinkInv'
BY FaithfulSession

\* A call that does not have the lock.
LEMMA CallMoves ==
    ASSUME CallInv, NEW c \in Calls, holder # c, UNCHANGED <<plan, sent, holder, x, taken>>,
           call' = [d \in Calls |-> call'[d]],
           \A d \in Calls : d # c => call'[d] = call[d],
           call'[c] = [f \in CallFields |-> call'[c][f]],
           call'[c].attempt \in {0, 1},
           call'[c].at \in {"prepare", "lock", "ok", "failed"},
           call'[c].at \in {"prepare", "lock"} => sent[c] <= call'[c].attempt,
           sent[c] <= call'[c].attempt + 1,
           call'[c].attempt = 1 => IsPoll(c)
    PROVE  CallInv'
<1>1. CallShapes'
  BY DEF CallInv, CallShapes
<1>2. LockHeld'
  BY DEF CallInv, LockHeld, Requests
<1>3. \A d \in Calls : OncePerAttempt(d)'
  BY DEF CallInv, OncePerAttempt, IsPoll, Unsent
<1>4. Taken'
  BY DEF CallInv, Taken, FailedIsForgotten
<1>5. QED BY <1>1, <1>2, <1>3, <1>4 DEF CallInv

LEMMA OutsideTheLock ==
    ASSUME IInv, NEW c \in Calls,
           Start(c) \/ PathFound(c) \/ PathMissing(c) \/ GivesUpWaiting(c)
    PROVE  IInv'
<1>1. /\ UNCHANGED <<plan, sent, holder, x, taken, attached, radio, wire>>
      /\ call[c].at \in {"off", "prepare", "lock"}
  BY DEF Start, PathFound, PathMissing, GivesUpWaiting, beyondCall, environmentVars,
         sessionVars, linkVars
<1> SUFFICES CallInv'
  BY <1>1, LinksUnmoved DEF IInv
<1>2. holder # c
  BY <1>1 DEF IInv, CallInv, LockHeld
<1>3. /\ call = [d \in Calls |-> call[d]]
      /\ call[c] = [f \in CallFields |-> call[c][f]] /\ call[c].attempt \in {0, 1}
      /\ sent[c] \in Nat /\ OncePerAttempt(c)
  BY DEF IInv, CallInv, CallShapes
<1>4. CASE \E outcome \in {"error"} : EndsAs(c, outcome)
  BY <1>1, <1>2, <1>4, CallEnds, CallMoves DEF IInv
<1>5. CASE Start(c)
  <2> DEFINE first == Attempt(0, IsPoll(c) /\ lightDue, Up(attached))
  <2>1. call' = [call EXCEPT ![c] = first] /\ sent[c] = 0
    BY <1>3, <1>5 DEF Start, OncePerAttempt
  <2>2. /\ first = [f \in CallFields |-> first[f]]
        /\ first.at \in {"prepare", "lock"} /\ first.attempt = 0
    BY DEF Attempt, CallFields
  <2> HIDE DEF first
  <2>3. /\ call'[c] = first /\ \A d \in Calls : d # c => call'[d] = call[d]
        /\ call' = [d \in Calls |-> call'[d]]
    BY <1>3, <2>1
  <2>4. /\ call'[c] = [f \in CallFields |-> call'[c][f]]
        /\ call'[c].at \in {"prepare", "lock"} /\ call'[c].attempt = 0
        /\ sent[c] <= call'[c].attempt /\ sent[c] <= call'[c].attempt + 1
    BY <2>1, <2>2, <2>3
  <2>5. QED BY <1>1, <1>2, <2>3, <2>4, CallMoves DEF IInv
<1>6. CASE PathFound(c)
  <2>1. call' = [call EXCEPT ![c].at = "lock"] /\ call[c].at = "prepare"
    BY <1>6 DEF PathFound
  <2>2. /\ call'[c].at = "lock" /\ call'[c].attempt = call[c].attempt
        /\ call'[c] = [f \in CallFields |-> call'[c][f]]
        /\ call' = [d \in Calls |-> call'[d]]
        /\ \A d \in Calls : d # c => call'[d] = call[d]
    BY <1>3, <2>1 DEF CallFields
  <2>3. QED
    <3>1. /\ sent[c] <= call'[c].attempt /\ sent[c] <= call'[c].attempt + 1
          /\ call'[c].attempt = 1 => IsPoll(c)
      BY <1>3, <2>1, <2>2 DEF OncePerAttempt
    <3>2. QED BY <1>1, <1>2, <1>3, <2>2, <3>1, CallMoves DEF IInv
<1>7. QED BY <1>4, <1>5, <1>6 DEF PathMissing, GivesUpWaiting

LEMMA RequestsKnown ==
    ASSUME NEW p \in Plans, NEW c \in Calls
    PROVE  /\ 1 \in DOMAIN Required[p.kind[c]]
           /\ \A i \in DOMAIN Required[p.kind[c]] : Required[p.kind[c]][i] \in FrameKinds
           /\ Len(Required[p.kind[c]]) \in Nat
           /\ DOMAIN Required[p.kind[c]] = 1..Len(Required[p.kind[c]])
<1>1. p.kind[c] \in Kinds
  BY ExchangeAssumption
<1>2. \A k \in Kinds : Required[k] \in {<<"power", "status">>, <<"power">>, <<"light">>,
                                        <<"power", "mode">>}
  BY DEF Kinds, Required
<1>3. QED BY <1>1, <1>2 DEF FrameKinds

\* An exchange that has a link enters its first stages.
LEMMA Entered ==
    ASSUME NEW n,
           \/ x' = [Free EXCEPT !.stage = "write", !.conn = n, !.index = 1]
           \/ x' = [Free EXCEPT !.stage = "notify", !.conn = n]
    PROVE  /\ x' = [f \in ExchangeFields |-> x'[f]] /\ x'.conn = n
           /\ x'.stage \in {"notify", "write"}
           /\ x'.stage = "write" => x'.index = 1
<1>1. ASSUME x' = [Free EXCEPT !.stage = "write", !.conn = n, !.index = 1]
      PROVE  x' = [stage |-> "write", conn |-> n, index |-> 1, written |-> FALSE,
                   got |-> "no", missing |-> FALSE, optional |-> {}, discard |-> FALSE,
                   after |-> "none"]
  BY <1>1, ZenonT(30) DEF Free
<1>2. ASSUME x' = [Free EXCEPT !.stage = "notify", !.conn = n]
      PROVE  x' = [stage |-> "notify", conn |-> n, index |-> 0, written |-> FALSE,
                   got |-> "no", missing |-> FALSE, optional |-> {}, discard |-> FALSE,
                   after |-> "none"]
  BY <1>2, ZenonT(30) DEF Free
<1>3. QED BY <1>1, <1>2 DEF ExchangeFields

LEMMA TakesTheLock ==
    ASSUME CallInv, NEW c \in Calls, call[c].at = "lock", holder = Nobody, holder' = c,
           call' = [call EXCEPT ![c].at = "working"], UNCHANGED <<plan, sent, taken>>,
           x' = [f \in ExchangeFields |-> x'[f]], x'.conn \in Links,
           x'.stage \in {"connect", "notify", "write"},
           x'.stage = "write" => x'.index = 1
    PROVE  CallInv'
<1>1. /\ call = [d \in Calls |-> call[d]]
      /\ call[c] = [f \in CallFields |-> call[c][f]] /\ call[c].attempt \in {0, 1}
      /\ OncePerAttempt(c) /\ Nobody \notin Calls
  BY ExchangeAssumption DEF CallInv, CallShapes
<1>2. /\ call' = [d \in Calls |-> call'[d]]
      /\ \A d \in Calls : d # c => call'[d] = call[d]
      /\ call'[c] = [f \in CallFields |-> call'[c][f]]
      /\ call'[c].at = "working" /\ call'[c].attempt = call[c].attempt
  BY <1>1 DEF CallFields
<1>3. CallShapes'
  BY <1>1, <1>2 DEF CallInv, CallShapes
<1>4. 1 \in DOMAIN Requests'
  BY RequestsKnown DEF CallInv, CallShapes, Requests
<1>5. LockHeld'
  BY <1>1, <1>2, <1>4 DEF CallInv, LockHeld
<1>6. \A d \in Calls : OncePerAttempt(d)'
  BY <1>1, <1>2 DEF CallInv, OncePerAttempt, IsPoll
<1>7. x.stage = "free" /\ taken = {}
  BY DEF CallInv, LockHeld, Taken
<1>8. Taken'
  BY <1>7 DEF Taken, FailedIsForgotten
<1>9. QED BY <1>3, <1>5, <1>6, <1>8 DEF CallInv

LEMMA RadioMoves ==
    ASSUME LinkInv, attached' \in {attached, NoLink}, wire' = wire,
           NEW n \in Links, NEW r, radio' = [radio EXCEPT ![n] = r],
           r \in {"unused", "trying", "abandoned"} =>
             radio[n] \in {"unused", "trying", "abandoned"},
           \/ x' = x /\ (x.stage = "connect" => x.conn # n)
           \/ x'.stage \notin Engaged
    PROVE  LinkInv'
<1>1. \A m \in Links : radio'[m] = IF m = n THEN r ELSE radio[m]
  BY DEF LinkInv, LinkShapes
<1>2. LinkShapes'
  BY DEF LinkInv, LinkShapes
<1>3. Forgotten'
  BY <1>1 DEF LinkInv, Forgotten, Engaged
<1>4. QED BY <1>2, <1>3 DEF LinkInv

LEMMA LocksKeepsInv ==
    ASSUME IInv, NEW c \in Calls, Locks(c)
    PROVE  IInv'
<1>1. /\ UNCHANGED <<plan, sent, taken, wire>>
      /\ call[c].at = "lock" /\ holder = Nobody /\ c # Nobody
  BY ExchangeAssumption DEF Locks, beyondExchange, environmentVars
<1>2. CASE EndsAs(c, "error") /\ UNCHANGED <<holder, x, attached, radio>>
  <2>1. CallInv'
    BY <1>1, <1>2, CallEnds, CallMoves DEF IInv
  <2>2. QED BY <1>1, <1>2, <2>1, LinksUnmoved DEF IInv
<1>3. CASE /\ Up(attached) /\ holder' = c /\ call' = [call EXCEPT ![c].at = "working"]
           /\ Enter(attached) /\ UNCHANGED <<attached, radio>>
  <2>1. attached \in Links
    BY <1>3 DEF Up, IInv, LinkInv, LinkShapes
  <2>0. /\ x' = [f \in ExchangeFields |-> x'[f]] /\ x'.conn = attached
        /\ x'.stage \in {"notify", "write"}
        /\ x'.stage = "write" => x'.index = 1
    <3>1. PICK n \in Links : n = attached
      BY <2>1
    <3>2. \/ x' = [Free EXCEPT !.stage = "write", !.conn = n, !.index = 1]
          \/ x' = [Free EXCEPT !.stage = "notify", !.conn = n]
      BY <1>3, <3>1 DEF Enter
    <3>3. QED BY <3>1, <3>2, Entered
  <2>2. CallInv'
    BY <1>1, <1>3, <2>1, <2>0, TakesTheLock DEF IInv
  <2>3. LinkShapes'
    BY <1>1, <1>3 DEF IInv, LinkInv, LinkShapes
  <2>4. Forgotten'
    BY <1>1, <1>3, <2>1, <2>0 DEF IInv, LinkInv, Forgotten, Engaged, Working
  <2>5. QED BY <2>2, <2>3, <2>4 DEF IInv, LinkInv
<1>4. ASSUME NEW n \in Links, radio[n] = "unused", radio' = [radio EXCEPT ![n] = "trying"],
             x' = [Free EXCEPT !.stage = "connect", !.conn = n],
             attached' = NoLink, holder' = c, call' = [call EXCEPT ![c].at = "working"]
      PROVE  IInv'
  <2>1. /\ x' = [f \in ExchangeFields |-> x'[f]]
        /\ x'.conn = n /\ x'.stage = "connect"
    BY <1>4 DEF Free, ExchangeFields
  <2>2. CallInv'
    BY <1>1, <1>4, <2>1, TakesTheLock DEF IInv
  <2>3. /\ \A m \in Links : radio'[m] = IF m = n THEN "trying" ELSE radio[m]
        /\ radio' = [m \in Links |-> radio'[m]]
    BY <1>4 DEF IInv, LinkInv, LinkShapes
  <2>4. LinkShapes'
    BY <1>1, <1>4, <2>3 DEF IInv, LinkInv, LinkShapes
  <2>5. Forgotten'
    BY <1>1, <1>4, <2>1, <2>3 DEF IInv, LinkInv, Forgotten, Engaged, Working
  <2>6. QED BY <2>2, <2>4, <2>5 DEF IInv, LinkInv
<1>5. QED BY <1>2, <1>3, <1>4 DEF Locks

LEMMA AttemptKeepsInv ==
    ASSUME IInv, EstablishFails \/ EstablishedDown \/ AbandonsAttempt
    PROVE  IInv'
<1>1. /\ x.stage = "connect" /\ UNCHANGED <<plan, sent, attached, wire>>
      /\ \E r \in {"gone", "abandoned", "up"} : radio' = [radio EXCEPT ![x.conn] = r]
  BY DEF EstablishFails, EstablishedDown, AbandonsAttempt, At, beyondExchange,
         environmentVars, sessionVars
<1>2. CallInv' /\ x'.stage \notin Engaged
  <2>1. CASE Release("error")
    BY <1>1, <2>1, ReleaseKeepsCalls DEF IInv, Engaged, Working
  <2>2. CASE EstablishedDown
    <3>1. /\ x' = [x EXCEPT !.stage = "drop", !.after = "lost"]
          /\ UNCHANGED <<call, holder, taken>>
      BY <2>2 DEF EstablishedDown
    <3>2. /\ x' = [f \in ExchangeFields |-> x'[f]] /\ x'.conn = x.conn /\ x'.stage = "drop"
      BY <3>1 DEF IInv, CallInv, CallShapes, ExchangeFields
    <3>3. QED BY <1>1, <3>1, <3>2, ExchangeGoesOn DEF IInv, Engaged, Working, Unsent
  <2>3. QED BY <2>1, <2>2 DEF EstablishFails, AbandonsAttempt
<1>3. x.conn \in Links /\ radio[x.conn] = "trying"
  BY <1>1 DEF IInv, LinkInv, Forgotten
<1>4. LinkInv'
  BY <1>1, <1>2, <1>3, RadioMoves DEF IInv
<1>5. QED BY <1>2, <1>4 DEF IInv

LEMMA EstablishesKeepsInv ==
    ASSUME IInv, Establishes
    PROVE  IInv'
<1>1. /\ x.stage = "connect" /\ radio' = [radio EXCEPT ![x.conn] = "up"]
      /\ attached' = x.conn
      /\ UNCHANGED <<plan, call, sent, holder, taken, wire>>
  BY DEF Establishes, At, beyondExchange, environmentVars
<1>2. /\ x.conn \in Links /\ radio[x.conn] = "trying" /\ wire[x.conn] = <<>>
      /\ holder \in Calls
  BY <1>1 DEF IInv, LinkInv, Forgotten, CallInv, LockHeld, Engaged
<1>3. /\ x' = [f \in ExchangeFields |-> x'[f]] /\ x'.conn = x.conn
      /\ x'.stage \in {"handshake", "notify", "write"}
      /\ x'.stage = "write" => x'.index = 1
  <2>1. CASE To("handshake")
    BY <2>1 DEF To, IInv, CallInv, CallShapes, ExchangeFields
  <2>2. CASE Enter(x.conn)
    <3>1. PICK n \in Links : n = x.conn
      BY <1>2
    <3>2. \/ x' = [Free EXCEPT !.stage = "write", !.conn = n, !.index = 1]
          \/ x' = [Free EXCEPT !.stage = "notify", !.conn = n]
      BY <2>2, <3>1 DEF Enter
    <3>3. /\ x' = [f \in ExchangeFields |-> x'[f]] /\ x'.conn = n
          /\ x'.stage \in {"notify", "write"}
          /\ x'.stage = "write" => x'.index = 1
      BY <3>2, Entered, Zenon
    <3>4. QED BY <3>1, <3>3
  <2>3. QED BY <2>1, <2>2 DEF Establishes
<1>4. 1 \in DOMAIN Requests
  BY <1>2, RequestsKnown DEF IInv, CallInv, CallShapes, Requests
<1>5. CallInv'
  BY <1>1, <1>3, <1>4, ExchangeGoesOn DEF IInv, Engaged, Working, Unsent
<1>6. /\ \A m \in Links : radio'[m] = IF m = x.conn THEN "up" ELSE radio[m]
      /\ radio' = [m \in Links |-> radio'[m]]
  BY <1>1 DEF IInv, LinkInv, LinkShapes
<1>7. LinkShapes'
  BY <1>1, <1>2, <1>6 DEF IInv, LinkInv, LinkShapes
<1>8. Forgotten'
  BY <1>1, <1>2, <1>3, <1>6 DEF IInv, LinkInv, Forgotten, Engaged, Working
<1>9. QED BY <1>5, <1>7, <1>8 DEF IInv, LinkInv

LEMMA FailsKeepsInv ==
    ASSUME IInv, x.stage # "free", NEW outcome, Fails(outcome),
           UNCHANGED <<plan, sent, radio>>
    PROVE  IInv'
<1>1. wire' = Marked("failed") /\ Drop(outcome)
  BY DEF Fails
<1>2. CallInv' /\ x'.stage \notin Engaged /\ attached' = NoLink
  BY <1>1, DropKeepsCalls
<1>3. LinkInv'
  BY <1>1, <1>2, ForgetfulSession DEF IInv
<1>4. QED BY <1>2, <1>3 DEF IInv

LEMMA CompletesKeepsInv ==
    ASSUME IInv, x.stage \in {"wait", "optWrite", "optWait"}, NEW discard,
           Completes(discard), UNCHANGED <<plan, sent, radio>>
    PROVE  IInv'
<1>1. wire' = Marked("old")
  BY DEF Completes
<1>2. CASE Drop("ok")
  <2>1. CallInv' /\ x'.stage \notin Engaged /\ attached' = NoLink
    BY <1>2, DropKeepsCalls
  <2>2. LinkInv'
    BY <1>1, <2>1, ForgetfulSession DEF IInv
  <2>3. QED BY <2>1, <2>2 DEF IInv
<1>3. CASE Release("ok") /\ attached' = attached
  <2>1. CallInv' /\ x'.stage = "free"
    BY <1>3, ReleaseKeepsCalls DEF IInv
  <2>2. LinkInv'
    BY <1>1, <1>3, <2>1, FaithfulSession DEF IInv, Engaged, Working
  <2>3. QED BY <2>1, <2>2 DEF IInv
<1>4. CASE To("stop") /\ attached' = attached /\ UNCHANGED <<call, holder, taken>>
  <2>1. /\ x' = [f \in ExchangeFields |-> x'[f]] /\ x'.conn = x.conn
        /\ x'.stage = "stop"
    BY <1>4 DEF To, IInv, CallInv, CallShapes, ExchangeFields
  <2>2. x.stage \in Engaged
    BY DEF Engaged, Working
  <2>3. CallInv'
    BY <1>4, <2>1, <2>2, ExchangeGoesOn DEF IInv, Unsent
  <2>4. LinkInv'
    BY <1>1, <1>4, <2>1, <2>2, FaithfulSession DEF IInv
  <2>5. QED BY <2>3, <2>4 DEF IInv
<1>5. QED BY <1>2, <1>3, <1>4 DEF Completes

\* Something that was not given up is on its way over a link that is up.
LEMMA FrameComes ==
    ASSUME LinkInv, NEW n \in Links, radio[n] = "up", NEW frame \in Frames,
           frame.of # "failed", wire' = [wire EXCEPT ![n] = Append(@, frame)],
           attached' = attached, radio' = radio,
           x'.stage \in Engaged => x.stage \in Engaged /\ x'.conn = x.conn,
           x'.stage = "connect" <=> x.stage = "connect"
    PROVE  LinkInv'
<1>1. wire \in [Links -> Seq(Frames)] /\ wire[n] \in Seq(Frames)
  BY DEF LinkInv, LinkShapes
<1>2. Append(wire[n], frame) \in Seq(Frames)
  BY <1>1
<1>3. /\ wire' \in [Links -> Seq(Frames)]
      /\ \A m \in Links : m # n => wire'[m] = wire[m]
      /\ wire'[n] = Append(wire[n], frame)
  BY <1>1, <1>2
<1>4. LinkShapes'
  BY <1>3 DEF LinkInv, LinkShapes
<1>5. ASSUME attached # NoLink
      PROVE  \A i \in DOMAIN wire'[attached] : wire'[attached][i].of # "failed"
  <2>1. \A i \in DOMAIN wire[attached] : wire[attached][i].of # "failed"
    BY <1>5 DEF LinkInv, Forgotten
  <2>2. attached \in Links
    BY <1>5 DEF LinkInv, LinkShapes
  <2>3. CASE attached # n
    BY <1>3, <2>1, <2>2, <2>3
  <2>4. CASE attached = n
    BY <1>1, <1>3, <2>1, <2>4
  <2>5. QED BY <2>3, <2>4
<1>6. Forgotten'
  BY <1>3, <1>5 DEF LinkInv, Forgotten, Engaged, Working
<1>7. QED BY <1>4, <1>6 DEF LinkInv

LEMMA StartsKeepInv ==
    ASSUME IInv, Negotiates \/ Listens
    PROVE  IInv'
<1>1. /\ x.stage \in {"handshake", "notify"} /\ Up(x.conn)
      /\ UNCHANGED <<plan, call, sent, holder, taken, attached, radio>>
  BY DEF Negotiates, Listens, At, beyondExchange, environmentVars, linkVars
<1>2. /\ x.conn \in Links /\ radio[x.conn] = "up" /\ holder \in Calls
  BY <1>1 DEF Up, IInv, LinkInv, Forgotten, CallInv, LockHeld, Engaged, Working
<1>3. /\ x' = [f \in ExchangeFields |-> x'[f]] /\ x'.conn = x.conn
      /\ x'.stage \in {"notify", "write"}
      /\ x'.stage = "write" => x'.index = 1
  <2>1. CASE Enter(x.conn)
    <3>1. PICK n \in Links : n = x.conn
      BY <1>2
    <3>2. \/ x' = [Free EXCEPT !.stage = "write", !.conn = n, !.index = 1]
          \/ x' = [Free EXCEPT !.stage = "notify", !.conn = n]
      BY <2>1, <3>1 DEF Enter
    <3>3. /\ x' = [f \in ExchangeFields |-> x'[f]] /\ x'.conn = n
          /\ x'.stage \in {"notify", "write"}
          /\ x'.stage = "write" => x'.index = 1
      BY <3>2, Entered, Zenon
    <3>4. QED BY <3>1, <3>3
  <2>2. CASE x' = [x EXCEPT !.stage = "write", !.index = 1]
    BY <2>2 DEF IInv, CallInv, CallShapes, ExchangeFields
  <2>3. QED BY <2>1, <2>2 DEF Negotiates, Listens
<1>4. 1 \in DOMAIN Requests
  BY <1>2, RequestsKnown DEF IInv, CallInv, CallShapes, Requests
<1>5. CallInv'
  BY <1>1, <1>3, <1>4, ExchangeGoesOn DEF IInv, Engaged, Working, Unsent
<1>6. CASE wire' = wire
  BY <1>1, <1>3, <1>5, <1>6, FaithfulSession DEF IInv, Engaged, Working
<1>7. CASE wire' = [wire EXCEPT ![x.conn] = Append(@, [kind |-> "e7", of |-> "push"])]
  <2>1. [kind |-> "e7", of |-> "push"] \in Frames
    BY DEF Frames, FrameKinds
  <2>2. PICK n \in Links, frame \in Frames :
           n = x.conn /\ frame = [kind |-> "e7", of |-> "push"]
    BY <1>2, <2>1
  <2>3. wire' = [wire EXCEPT ![n] = Append(@, frame)] /\ frame.of # "failed"
    BY <1>7, <2>2
  <2>4. LinkInv'
    BY <1>1, <1>2, <1>3, <2>2, <2>3, FrameComes DEF IInv, Engaged, Working
  <2>5. QED BY <1>5, <2>4 DEF IInv
<1>8. QED BY <1>6, <1>7 DEF Negotiates, Listens

LEMMA PushKeepsInv ==
    ASSUME IInv, Push
    PROVE  IInv'
<1>1. UNCHANGED <<plan, call, sent, holder, x, taken, attached, radio>>
  BY DEF Push, sessionVars, linkVars
<1>2. CallInv'
  BY <1>1, CallsUnmoved DEF IInv
<1>3. PICK n \in Links, kind \in {"power", "garbled"} :
        Up(n) /\ wire' = [wire EXCEPT ![n] = Append(@, [kind |-> kind, of |-> "push"])]
  BY DEF Push
<1>4. PICK frame \in Frames : frame = [kind |-> kind, of |-> "push"]
  BY DEF Frames, FrameKinds
<1>5. LinkInv'
  BY <1>1, <1>3, <1>4, FrameComes DEF IInv, Up
<1>6. QED BY <1>2, <1>5 DEF IInv

LEMMA ExecutesKeepsInv ==
    ASSUME IInv, Executes
    PROVE  IInv'
<1>1. /\ x.stage \in {"write", "optWrite"} /\ ~x.written /\ attached = x.conn
      /\ radio[x.conn] = "up" /\ x.conn # NoLink
      /\ UNCHANGED <<plan, call, holder, taken, attached, radio>>
  BY DEF Executes, Writing, At, Signalled, Up, environmentVars, sessionVars, linkVars
<1>2. /\ x.conn \in Links /\ holder \in Calls
      /\ x = [f \in ExchangeFields |-> x[f]]
  BY <1>1 DEF IInv, LinkInv, Forgotten, CallInv, CallShapes, LockHeld, Engaged, Working
<1>3. /\ x' = [f \in ExchangeFields |-> x'[f]] /\ x'.conn = x.conn
      /\ x'.stage = x.stage /\ x'.index = x.index /\ x'.written
  <2>1. CASE x' = [x EXCEPT !.written = TRUE]
    BY <1>2, <2>1 DEF ExchangeFields
  <2>2. CASE x' = [x EXCEPT !.written = TRUE, !.missing = TRUE]
    BY <1>2, <2>2 DEF ExchangeFields
  <2>3. QED BY <2>1, <2>2 DEF Executes
<1>4. CallInv'
  <2>1. sent' = IF x.stage = "write" /\ x.index = 1 THEN [sent EXCEPT ![holder] = @ + 1]
                ELSE sent
    BY DEF Executes, At
  <2>2. /\ sent \in [Calls -> Nat] /\ sent' \in [Calls -> Nat]
        /\ \A c \in Calls : c # holder => sent'[c] = sent[c]
        /\ IF x.stage = "write" /\ x.index = 1 THEN sent'[holder] = sent[holder] + 1
           ELSE sent'[holder] = sent[holder]
    BY <1>2, <2>1 DEF IInv, CallInv, CallShapes
  <2>3. CallShapes'
    BY <1>1, <1>3, <2>2 DEF IInv, CallInv, CallShapes
  <2>4. LockHeld'
    BY <1>1, <1>3 DEF IInv, CallInv, LockHeld, Requests
  <2>5. ASSUME NEW c \in Calls
        PROVE  OncePerAttempt(c)'
    <3>1. CASE c # holder
      BY <1>1, <2>2, <3>1 DEF IInv, CallInv, OncePerAttempt, IsPoll
    <3>2. CASE c = holder
      <4>1. call[c].at = "working" /\ call[c].attempt \in {0, 1} /\ sent[c] \in Nat
        BY <2>2, <3>2 DEF IInv, CallInv, CallShapes, LockHeld
      <4>2. x.stage = "write" /\ x.index = 1 => sent[c] <= call[c].attempt
        BY <1>1, <3>2 DEF IInv, CallInv, OncePerAttempt, Unsent
      <4>3. sent'[c] <= call[c].attempt + 1
        BY <2>2, <3>2, <4>1, <4>2 DEF IInv, CallInv, OncePerAttempt
      <4>4. ~Unsent'
        BY <1>1, <1>3 DEF Unsent
      <4>5. QED BY <1>1, <4>1, <4>3, <4>4 DEF IInv, CallInv, OncePerAttempt, IsPoll
    <3>3. QED BY <3>1, <3>2
  <2>6. Taken'
    BY <1>1, <1>3 DEF IInv, CallInv, Taken, FailedIsForgotten
  <2>7. QED BY <2>3, <2>4, <2>5, <2>6 DEF CallInv
<1>5. Asked \in FrameKinds
  <2>1. CASE x.stage = "write"
    <3>1. Asked = Requests[x.index] /\ x.index \in DOMAIN Requests
      BY <2>1 DEF Asked, At, IInv, CallInv, LockHeld
    <3>2. Requests = Required[plan.kind[holder]] /\ plan \in Plans
      BY <1>2 DEF Requests, IInv, CallInv, CallShapes
    <3>3. QED BY <1>2, <3>1, <3>2, RequestsKnown
  <2>2. CASE x.stage = "optWrite"
    <3>1. Asked = Optional[x.index] /\ x.index \in DOMAIN Optional
      BY <2>2 DEF Asked, At, IInv, CallInv, LockHeld
    <3>2. QED BY <3>1 DEF Optional, FrameKinds
  <2>3. QED BY <1>1, <2>1, <2>2
<1>6. \/ wire' = wire
      \/ \E kind \in FrameKinds :
           wire' = [wire EXCEPT ![x.conn] = Append(@, [kind |-> kind, of |-> "now"])]
  <2>1. "garbled" \in FrameKinds
    BY DEF FrameKinds
  <2>2. QED BY <1>5, <2>1 DEF Executes
<1>7. CASE wire' = wire
  BY <1>1, <1>3, <1>4, <1>7, FaithfulSession DEF IInv
<1>8. ASSUME NEW kind \in FrameKinds,
             wire' = [wire EXCEPT ![x.conn] = Append(@, [kind |-> kind, of |-> "now"])]
      PROVE  IInv'
  <2>1. PICK n \in Links, frame \in Frames :
           n = x.conn /\ frame = [kind |-> kind, of |-> "now"]
    BY <1>2 DEF Frames
  <2>2. wire' = [wire EXCEPT ![n] = Append(@, frame)] /\ frame.of # "failed"
    BY <1>8, <2>1
  <2>3. LinkInv'
    BY <1>1, <1>2, <1>3, <2>1, <2>2, FrameComes DEF IInv
  <2>4. QED BY <1>4, <2>3 DEF IInv
<1>9. QED BY <1>6, <1>7, <1>8

\* An exchange goes on over its link, to another request or to wait for an answer.
LEMMA MovesKeepInv ==
    ASSUME IInv, UNCHANGED <<plan, call, sent, holder, taken, attached, radio, wire>>,
           x' = [f \in ExchangeFields |-> x'[f]], x'.conn = x.conn,
           x.stage \in Working,
           x'.stage \in {"write", "wait", "optWrite", "optWait"},
           x'.stage \in {"write", "wait"} => x'.index \in DOMAIN Requests,
           x'.stage \in {"optWrite", "optWait"} => x'.index \in DOMAIN Optional,
           ~Unsent'
    PROVE  IInv'
<1>1. CallInv'
  BY ExchangeGoesOn DEF IInv, Engaged, Working
<1>2. LinkInv'
  BY FaithfulSession DEF IInv, Engaged, Working
<1>3. QED BY <1>1, <1>2 DEF IInv

LEMMA AsksNext ==
    ASSUME CallShapes, NEW stage, NEW index, Asks(stage, index)
    PROVE  /\ x' = [f \in ExchangeFields |-> x'[f]] /\ x'.conn = x.conn
           /\ x'.stage = stage /\ x'.index = index
<1>1. x = [f \in ExchangeFields |-> x[f]]
  BY DEF CallShapes
<1> DEFINE missing == x.missing /\ stage = "optWrite" /\ index > 1
<1>2. x' = [x EXCEPT !.stage = stage, !.index = index, !.written = FALSE, !.got = "no",
                     !.missing = missing]
  BY DEF Asks
<1> HIDE DEF missing
<1>3. QED BY <1>1, <1>2 DEF ExchangeFields

LEMMA WaitsKeepsInv ==
    ASSUME IInv, Waits
    PROVE  IInv'
<1>1. /\ x.stage = "write" /\ x' = [x EXCEPT !.stage = "wait"]
      /\ UNCHANGED <<plan, call, sent, holder, taken, attached, radio, wire>>
  BY DEF Waits, At, To, beyondExchange, environmentVars, linkVars
<1>2. /\ x' = [f \in ExchangeFields |-> x'[f]] /\ x'.conn = x.conn
      /\ x'.stage = "wait" /\ x'.index = x.index
  BY <1>1 DEF IInv, CallInv, CallShapes, ExchangeFields
<1>3. x'.index \in DOMAIN Requests
  BY <1>1, <1>2 DEF IInv, CallInv, LockHeld
<1>4. QED BY <1>1, <1>2, <1>3, MovesKeepInv DEF Working, Unsent

LEMMA AnsweredKeepsInv ==
    ASSUME IInv, Answered
    PROVE  IInv'
<1>1. x.stage = "wait" /\ UNCHANGED <<plan, sent, radio>>
  BY DEF Answered, At, beyondExchange, environmentVars
<1>2. /\ x.index \in DOMAIN Requests /\ holder \in Calls
      /\ DOMAIN Requests = 1..Len(Requests) /\ Len(Requests) \in Nat
  <2>1. holder \in Calls /\ plan \in Plans /\ x.index \in DOMAIN Requests
    BY <1>1 DEF IInv, CallInv, CallShapes, LockHeld, Engaged, Working
  <2>2. QED BY <2>1, RequestsKnown DEF Requests
<1>3. CASE Completes(x.discard)
  <2>1. PICK discard : discard = x.discard /\ Completes(discard)
    BY <1>3
  <2>2. QED BY <1>1, <2>1, CompletesKeepsInv
<1>4. CASE /\ \/ x.index < Len(Requests) /\ Asks("write", x.index + 1)
              \/ Asks("optWrite", 1)
           /\ UNCHANGED <<call, holder, taken, attached, wire>>
  <2>1. PICK stage \in {"write", "optWrite"}, index \in Nat :
          /\ Asks(stage, index)
          /\ stage = "write" => index \in DOMAIN Requests /\ index # 1
          /\ stage = "optWrite" => index = 1
    <3>1. CASE Asks("optWrite", 1)
      BY <3>1
    <3>2. CASE x.index < Len(Requests) /\ Asks("write", x.index + 1)
      <4>1. x.index + 1 \in Nat /\ x.index + 1 \in DOMAIN Requests /\ x.index + 1 # 1
        BY <1>2, <3>2
      <4>2. PICK index \in Nat : index = x.index + 1
        BY <4>1
      <4>3. Asks("write", index)
        BY <3>2, <4>2
      <4>4. QED BY <4>1, <4>2, <4>3
    <3>3. QED BY <1>4, <3>1, <3>2
  <2>2. /\ x' = [f \in ExchangeFields |-> x'[f]] /\ x'.conn = x.conn
        /\ x'.stage = stage /\ x'.index = index
    BY <2>1, AsksNext DEF IInv, CallInv
  <2>3. x'.stage \in {"write", "wait"} => x'.index \in DOMAIN Requests
    BY <2>1, <2>2
  <2>4. x'.stage \in {"optWrite", "optWait"} => x'.index \in DOMAIN Optional
    BY <2>1, <2>2 DEF Optional
  <2>5. ~Unsent'
    BY <2>1, <2>2 DEF Unsent
  <2>6. QED BY <1>1, <1>4, <2>1, <2>2, <2>3, <2>4, <2>5, MovesKeepInv DEF Working
<1>5. QED BY <1>3, <1>4 DEF Answered

LEMMA OptionalKeepsInv ==
    ASSUME IInv, OptionalWritten \/ OptionalAnswered \/ OptionalGivenUp
    PROVE  IInv'
<1>1. x.stage \in {"optWrite", "optWait"} /\ UNCHANGED <<plan, sent, radio>>
  BY DEF OptionalWritten, OptionalAnswered, OptionalGivenUp, At, beyondExchange,
         environmentVars, linkVars
<1>2. x.index \in {1, 2} /\ Len(Optional) = 2
  BY <1>1 DEF IInv, CallInv, LockHeld, Optional
<1>3. CASE \E discard \in {x.discard, x.discard \/ At({"optWrite"}) \/ Signalled} :
             Completes(discard)
  BY <1>1, <1>3, CompletesKeepsInv
<1>4. CASE /\ To("optWait") \/ (x.index # 2 /\ Asks("optWrite", x.index + 1))
           /\ UNCHANGED <<call, holder, taken, attached, wire>>
  <2>1. /\ x' = [f \in ExchangeFields |-> x'[f]] /\ x'.conn = x.conn
        /\ x'.stage \in {"optWrite", "optWait"} /\ x'.index \in {1, 2}
    <3>1. CASE To("optWait")
      BY <1>2, <3>1 DEF To, IInv, CallInv, CallShapes, ExchangeFields
    <3>2. CASE x.index # 2 /\ Asks("optWrite", x.index + 1)
      <4>1. x.index + 1 = 2
        BY <1>2, <3>2
      <4>2. Asks("optWrite", 2)
        BY <3>2, <4>1
      <4>3. QED BY <4>2, AsksNext DEF IInv, CallInv
    <3>3. QED BY <1>4, <3>1, <3>2
  <2>2. x'.index \in DOMAIN Optional
    BY <2>1 DEF Optional
  <2>3. QED BY <1>1, <1>4, <2>1, <2>2, MovesKeepInv DEF Working, Unsent
<1>5. CASE OptionalWritten
  BY <1>2, <1>4, <1>5 DEF OptionalWritten, linkVars
<1>6. CASE OptionalAnswered
  BY <1>2, <1>3, <1>4, <1>6 DEF OptionalAnswered
<1>7. CASE OptionalGivenUp
  BY <1>3, <1>7 DEF OptionalGivenUp
<1>8. QED BY <1>5, <1>6, <1>7

LEMMA StoppedKeepsInv ==
    ASSUME IInv, Stopped
    PROVE  IInv'
<1>1. x.stage = "stop" /\ UNCHANGED <<plan, sent, radio>>
  BY DEF Stopped, At, beyondExchange, environmentVars
<1>2. CASE Drop("ok") /\ wire' = wire
  <2>1. CallInv' /\ x'.stage \notin Engaged /\ attached' = NoLink
    BY <1>1, <1>2, DropKeepsCalls
  <2>2. QED BY <1>1, <1>2, <2>1, ForgetfulSession DEF IInv
<1>3. CASE /\ Release("ok") /\ wire' = [wire EXCEPT ![x.conn] = <<>>]
           /\ attached' = attached
  <2>1. CallInv' /\ x'.stage = "free"
    BY <1>1, <1>3, ReleaseKeepsCalls DEF IInv
  <2>2. x.conn \in Links
    BY <1>1 DEF IInv, LinkInv, Forgotten, Engaged, Working
  <2>3. /\ wire' \in [Links -> Seq(Frames)]
        /\ \A n \in Links : wire'[n] = IF n = x.conn THEN <<>> ELSE wire[n]
    BY <1>3, <2>2 DEF IInv, LinkInv, LinkShapes
  <2>4. LinkShapes'
    BY <1>1, <1>3, <2>3 DEF IInv, LinkInv, LinkShapes
  <2>5. Forgotten'
    BY <1>1, <1>3, <2>1, <2>3 DEF IInv, LinkInv, LinkShapes, Forgotten, Engaged, Working
  <2>6. QED BY <2>1, <2>4, <2>5 DEF IInv, LinkInv
<1>4. QED BY <1>2, <1>3 DEF Stopped

LEMMA GivesUpKeepsInv ==
    ASSUME IInv, GivesUp \/ CallbackAllowed
    PROVE  IInv'
<1>1. /\ x.stage \in {"handshake", "notify", "write", "wait", "yield"}
      /\ UNCHANGED <<plan, sent, radio>>
  BY DEF GivesUp, CallbackAllowed, At, beyondExchange, environmentVars
<1>2. CASE \E outcome \in {"lost", x.after} : Fails(outcome)
  BY <1>1, <1>2, FailsKeepsInv
<1>3. CASE GivesUp /\ \E outcome \in {"lost", "error"} : AllowsCallback(outcome)
  <2>1. PICK outcome \in {"lost", "error"} : AllowsCallback(outcome)
    BY <1>3
  <2>2. /\ x' = [x EXCEPT !.stage = "yield", !.after = outcome]
        /\ UNCHANGED <<call, holder, taken, attached, wire>>
    BY <2>1 DEF AllowsCallback
  <2>3. /\ x' = [f \in ExchangeFields |-> x'[f]] /\ x'.conn = x.conn
        /\ x'.stage = "yield"
    BY <2>2 DEF IInv, CallInv, CallShapes, ExchangeFields
  <2>4. CallInv'
    BY <1>1, <2>2, <2>3, ExchangeGoesOn DEF IInv, Engaged, Working, Unsent
  <2>5. LinkInv'
    BY <1>1, <2>2, <2>3, FaithfulSession DEF IInv, Engaged, Working
  <2>6. QED BY <2>4, <2>5 DEF IInv
<1>4. QED BY <1>2, <1>3 DEF GivesUp, CallbackAllowed

LEMMA CancelledKeepsInv ==
    ASSUME IInv, Cancelled
    PROVE  IInv'
<1>1. x.stage \notin {"free", "connect"} /\ UNCHANGED <<plan, sent, radio>>
  BY DEF Cancelled, At, beyondExchange, environmentVars
<1>2. CASE Fails("error")
  BY <1>1, <1>2, FailsKeepsInv
<1>3. CASE Release("error") /\ UNCHANGED <<attached, wire>>
  <2>1. CallInv' /\ x'.stage = "free"
    BY <1>1, <1>3, ReleaseKeepsCalls DEF IInv
  <2>2. LinkInv'
    BY <1>1, <1>3, <2>1, FaithfulSession DEF IInv, Engaged, Working
  <2>3. QED BY <2>1, <2>2 DEF IInv
<1>4. QED BY <1>2, <1>3 DEF Cancelled

LEMMA DropStoppedKeepsInv ==
    ASSUME IInv, DropStopped
    PROVE  IInv'
<1>1. /\ x.stage = "dropStop" /\ x' = [x EXCEPT !.stage = "drop"]
      /\ UNCHANGED <<plan, call, sent, holder, taken, attached, radio, wire>>
  BY DEF DropStopped, At, To, beyondExchange, environmentVars
<1>2. /\ x' = [f \in ExchangeFields |-> x'[f]] /\ x'.conn = x.conn
      /\ x'.stage = "drop"
  BY <1>1 DEF IInv, CallInv, CallShapes, ExchangeFields
<1>3. CallInv'
  BY <1>1, <1>2, ExchangeGoesOn DEF IInv, Engaged, Working, Unsent
<1>4. LinkInv'
  BY <1>1, <1>2, FaithfulSession DEF IInv, Engaged, Working
<1>5. QED BY <1>3, <1>4 DEF IInv

LEMMA DroppedKeepsInv ==
    ASSUME IInv, Dropped
    PROVE  IInv'
<1>1. x.stage = "drop" /\ UNCHANGED <<plan, sent, attached, radio, wire>>
  BY DEF Dropped, At, environmentVars, linkVars
<1>2. PICK outcome : outcome = x.after /\ Release(outcome)
  BY DEF Dropped
<1>3. CallInv' /\ x'.stage = "free"
  BY <1>1, <1>2, ReleaseKeepsCalls DEF IInv
<1>4. LinkInv'
  BY <1>1, <1>3, FaithfulSession DEF IInv, Engaged, Working
<1>5. QED BY <1>3, <1>4 DEF IInv

LEMMA LinkStepKeepsInv ==
    ASSUME IInv, NEW n \in Links, AttemptEndsLate(n) \/ LinkLost(n) \/ DisconnectCallback(n)
    PROVE  IInv'
<1>1. /\ UNCHANGED <<plan, call, sent, holder, x, taken, wire>>
      /\ attached' \in {attached, NoLink} /\ radio[n] # "trying"
  BY DEF AttemptEndsLate, LinkLost, DisconnectCallback, Up, beyondExchange, environmentVars
<1>2. PICK r \in {"up", "gone", "lost"} : radio' = [radio EXCEPT ![n] = r]
  BY DEF AttemptEndsLate, LinkLost, DisconnectCallback
<1>3. CallInv'
  BY <1>1, CallsUnmoved DEF IInv
<1>4. x.stage = "connect" => x.conn # n
  BY <1>1 DEF IInv, LinkInv, Forgotten
<1>5. LinkInv'
  BY <1>1, <1>2, <1>4, RadioMoves DEF IInv
<1>6. QED BY <1>3, <1>5 DEF IInv

\* The recovery gets the lock: it stops the listener first if the link is up.
LEMMA RecoveryTakesTheLock ==
    ASSUME IInv, RecoveryStarts, attached = recovering
    PROVE  IInv'
<1>1. /\ recovering # NoLink /\ holder = Nobody /\ holder' = Recovery
      /\ UNCHANGED <<plan, call, sent, taken, radio, wire>>
  BY DEF RecoveryStarts, environmentVars
<1>2. PICK stage \in {"recoverStop", "drop"} :
        x' = [Free EXCEPT !.stage = stage, !.conn = attached]
  BY DEF RecoveryStarts
<1>3. /\ x' = [f \in ExchangeFields |-> x'[f]]
      /\ x'.conn = attached /\ x'.stage \in {"recoverStop", "drop"}
  BY <1>2 DEF Free, ExchangeFields
<1>4. attached' \in {attached, NoLink}
  BY DEF RecoveryStarts
<1>5. /\ x.stage = "free" /\ taken = {} /\ attached \in Links
      /\ Recovery \notin Calls /\ Nobody \notin Calls /\ Recovery # Nobody
  BY <1>1, ExchangeAssumption
     DEF IInv, CallInv, LockHeld, Taken, LinkInv, LinkShapes, Recovery, Nobody
<1>6. CallShapes'
  BY <1>1, <1>3, <1>5 DEF IInv, CallInv, CallShapes
<1>7. LockHeld'
  BY <1>1, <1>3, <1>5 DEF IInv, CallInv, LockHeld, Engaged, Working
<1>8. \A c \in Calls : OncePerAttempt(c)'
  BY <1>1, <1>5 DEF IInv, CallInv, OncePerAttempt, IsPoll
<1>9. Taken'
  BY <1>1, <1>3, <1>5 DEF Taken, FailedIsForgotten
<1>10. LinkInv'
  BY <1>1, <1>3, <1>4, <1>5, ForgetfulSession, FaithfulSession DEF IInv, Engaged, Working
<1>11. QED BY <1>6, <1>7, <1>8, <1>9, <1>10 DEF IInv, CallInv

LEMMA RecoveryKeepsInv ==
    ASSUME IInv, RecoveryStarts \/ RecoveryStopped \/ RecoveryGivesUp \/ RetryDue \/ Rests
    PROVE  IInv'
<1>1. CASE RecoveryStarts /\ attached = recovering
  BY <1>1, RecoveryTakesTheLock
<1>2. CASE RecoveryStopped
  <2>1. /\ x.stage = "recoverStop" /\ UNCHANGED <<plan, sent, radio, wire>>
    BY <1>2 DEF RecoveryStopped, At, environmentVars
  <2>2. PICK outcome : Drop(outcome)
    BY <1>2 DEF RecoveryStopped
  <2>3. CallInv' /\ x'.stage \notin Engaged /\ attached' = NoLink
    BY <2>1, <2>2, DropKeepsCalls
  <2>4. QED BY <2>1, <2>3, ForgetfulSession DEF IInv
<1>3. CASE ~(RecoveryStarts /\ attached = recovering) /\ ~RecoveryStopped
  <2>1. UNCHANGED <<plan, call, sent, holder, x, taken, attached, radio, wire>>
    BY <1>3 DEF RecoveryStarts, RecoveryGivesUp, RetryDue, Rests, vars, beyondCall,
                environmentVars, sessionVars, linkVars
  <2>2. QED BY <2>1, CallsUnmoved, LinksUnmoved DEF IInv
<1>4. QED BY <1>1, <1>2, <1>3

\* What a notification changes in the exchange is neither its stage nor its link, and
\* what it answers was not given up.
LEMMA NotificationTakes ==
    ASSUME IInv, NEW n \in Links, Notification(n)
    PROVE  /\ x' = [f \in ExchangeFields |-> x'[f]] /\ x'.conn = x.conn
           /\ x'.stage = x.stage /\ x'.index = x.index /\ x'.written = x.written
           /\ \A answer \in taken' : answer[1] # "failed" /\ answer[2] = x.conn
           /\ x.stage = "free" => taken' = {}
<1>1. x = [f \in ExchangeFields |-> x[f]] /\ FailedIsForgotten
  BY DEF IInv, CallInv, CallShapes, Taken
<1>2. CASE UNCHANGED <<x, taken>>
  BY <1>1, <1>2 DEF IInv, CallInv, Taken, FailedIsForgotten
<1>3. CASE Corrupt(n)
  <2>1. CASE UNCHANGED <<x, taken>>
    BY <1>2, <2>1
  <2> DEFINE got == IF At({"write", "wait"}) /\ x.got = "no" THEN "error" ELSE x.got
  <2>2. CASE x' = [x EXCEPT !.discard = TRUE, !.got = got] /\ taken' = taken
    <3> HIDE DEF got
    <3>1. /\ x' = [f \in ExchangeFields |-> x'[f]] /\ x'.conn = x.conn
          /\ x'.stage = x.stage /\ x'.index = x.index /\ x'.written = x.written
      BY <1>1, <2>2 DEF ExchangeFields
    <3>2. QED BY <1>1, <2>2, <3>1 DEF IInv, CallInv, Taken, FailedIsForgotten
  <2>3. QED BY <1>3, <2>1, <2>2 DEF Corrupt
<1>4. CASE Current(n) /\ wire[n] # <<>> /\ Frame(n, Head(wire[n]))
  <2>1. CASE x' = [x EXCEPT !.got = "yes"] /\ At({"write", "wait"})
             /\ taken' = taken \cup {<<Head(wire[n]).of, n>>}
    <3>1. /\ x' = [f \in ExchangeFields |-> x'[f]] /\ x'.conn = x.conn
          /\ x'.stage = x.stage /\ x'.index = x.index /\ x'.written = x.written
      BY <1>1, <2>1 DEF ExchangeFields
    <3>2. x.stage \in {"write", "wait"} /\ attached = n /\ n # NoLink
      BY <1>4, <2>1 DEF Current, At, Links, NoLink
    <3>3. x.conn = n
      BY <3>2 DEF IInv, LinkInv, Forgotten, Engaged, Working
    <3>4. wire[n] \in Seq(Frames) /\ wire[n] # <<>>
      BY <1>4 DEF IInv, LinkInv, LinkShapes
    <3>5. 1 \in DOMAIN wire[n] /\ Head(wire[n]) = wire[n][1]
      BY <3>4
    <3>6. Head(wire[n]).of # "failed"
      BY <3>2, <3>5 DEF IInv, LinkInv, Forgotten
    <3>7. \A answer \in taken' : answer[1] # "failed" /\ answer[2] = x.conn
      BY <1>1, <2>1, <3>3, <3>6 DEF FailedIsForgotten
    <3>8. QED BY <3>1, <3>2, <3>7
  <2>2. CASE (\E i \in OptionalFor(Head(wire[n]).kind) :
                  x' = [x EXCEPT !.optional = @ \cup {i}]) /\ taken' = taken
    <3>1. PICK done : x' = [x EXCEPT !.optional = done]
      BY <2>2
    <3>2. /\ x' = [f \in ExchangeFields |-> x'[f]] /\ x'.conn = x.conn
          /\ x'.stage = x.stage /\ x'.index = x.index /\ x'.written = x.written
      BY <1>1, <3>1 DEF ExchangeFields
    <3>3. QED BY <1>1, <2>2, <3>2 DEF IInv, CallInv, Taken, FailedIsForgotten
  <2>3. QED BY <1>2, <1>4, <2>1, <2>2 DEF Frame
<1>5. QED BY <1>2, <1>3, <1>4 DEF Notification

LEMMA NotificationKeepsInv ==
    ASSUME IInv, NEW n \in Links, Notification(n)
    PROVE  IInv'
<1>1. /\ wire[n] # <<>> /\ wire' = [wire EXCEPT ![n] = Tail(@)]
      /\ UNCHANGED <<plan, call, sent, holder, attached, radio>>
  BY DEF Notification, environmentVars, linkVars
<1>2. /\ x' = [f \in ExchangeFields |-> x'[f]] /\ x'.conn = x.conn
      /\ x'.stage = x.stage /\ x'.index = x.index /\ x'.written = x.written
      /\ \A answer \in taken' : answer[1] # "failed" /\ answer[2] = x.conn
      /\ x.stage = "free" => taken' = {}
  BY NotificationTakes
<1>3. CallShapes'
  BY <1>1, <1>2 DEF IInv, CallInv, CallShapes
<1>4. LockHeld'
  BY <1>1, <1>2 DEF IInv, CallInv, LockHeld, Requests
<1>5. \A c \in Calls : OncePerAttempt(c)'
  BY <1>1, <1>2 DEF IInv, CallInv, OncePerAttempt, IsPoll, Unsent
<1>6. Taken'
  BY <1>2 DEF Taken, FailedIsForgotten
<1>7. wire[n] \in Seq(Frames)
  BY DEF IInv, LinkInv, LinkShapes
<1>8. /\ Tail(wire[n]) \in Seq(Frames)
      /\ \A i \in DOMAIN Tail(wire[n]) :
           i + 1 \in DOMAIN wire[n] /\ Tail(wire[n])[i] = wire[n][i + 1]
  BY <1>1, <1>7
<1>9. /\ wire' \in [Links -> Seq(Frames)]
      /\ \A m \in Links : m # n => wire'[m] = wire[m]
      /\ wire'[n] = Tail(wire[n])
  BY <1>1, <1>8 DEF IInv, LinkInv, LinkShapes
<1>10. LinkShapes'
  BY <1>1, <1>9 DEF IInv, LinkInv, LinkShapes
<1>11. ASSUME attached # NoLink
       PROVE  \A i \in DOMAIN wire'[attached] : wire'[attached][i].of # "failed"
  <2>1. \A i \in DOMAIN wire[attached] : wire[attached][i].of # "failed"
    BY <1>11 DEF IInv, LinkInv, Forgotten
  <2>2. attached \in Links
    BY <1>11 DEF IInv, LinkInv, LinkShapes
  <2>3. CASE attached # n
    BY <1>9, <2>1, <2>2, <2>3
  <2>4. CASE attached = n
    BY <1>8, <1>9, <2>1, <2>4
  <2>5. QED BY <2>3, <2>4
<1>12. Forgotten'
  BY <1>1, <1>2, <1>9, <1>11 DEF IInv, LinkInv, Forgotten, Engaged, Working
<1>13. QED BY <1>3, <1>4, <1>5, <1>6, <1>10, <1>12 DEF IInv, CallInv, LinkInv

LEMMA InitIsInv ==
    ASSUME Init
    PROVE  IInv
<1>1. /\ plan \in Plans /\ x = Free /\ taken = {} /\ attached = NoLink /\ holder = Nobody
      /\ call = [c \in Calls |-> [at |-> "off", attempt |-> 0, claimed |-> FALSE]]
      /\ sent = [c \in Calls |-> 0]
      /\ radio = [n \in Links |-> "unused"] /\ wire = [n \in Links |-> <<>>]
  BY DEF Init
<1>2. /\ x = [f \in ExchangeFields |-> x[f]] /\ x.stage = "free" /\ x.conn = NoLink
  BY <1>1 DEF Free, ExchangeFields
<1>3. /\ call = [c \in Calls |-> call[c]]
      /\ \A c \in Calls : /\ call[c] = [f \in CallFields |-> call[c][f]]
                          /\ call[c].attempt = 0 /\ call[c].at = "off" /\ sent[c] = 0
  BY <1>1 DEF CallFields
<1>4. CallShapes
  BY <1>1, <1>2, <1>3 DEF CallShapes
<1>5. LockHeld
  BY <1>1, <1>2, <1>3, ExchangeAssumption DEF LockHeld, Engaged, Working
<1>6. \A c \in Calls : OncePerAttempt(c)
  <2>1. ~Unsent
    BY <1>2 DEF Unsent
  <2>2. ASSUME NEW c \in Calls
        PROVE  OncePerAttempt(c)
    <3>1. call[c].attempt = 0 /\ sent[c] = 0
      BY <1>3
    <3>2. QED BY <2>1, <3>1 DEF OncePerAttempt
  <2>3. QED BY <2>2
<1>7. Taken
  BY <1>1 DEF Taken, FailedIsForgotten
<1>8. LinkShapes
  BY <1>1 DEF LinkShapes
<1>9. Forgotten
  BY <1>1, <1>2 DEF Forgotten, Engaged, Working
<1>10. QED BY <1>4, <1>5, <1>6, <1>7, <1>8, <1>9 DEF IInv, CallInv, LinkInv

LEMMA NextKeepsInv ==
    ASSUME IInv, [Next]_vars
    PROVE  IInv'
<1>1. CASE UNCHANGED vars
  <2>1. UNCHANGED <<plan, call, sent, holder, x, taken, attached, radio, wire>>
    BY <1>1 DEF vars, environmentVars, sessionVars, linkVars
  <2>2. QED BY <2>1, CallsUnmoved, LinksUnmoved DEF IInv
<1>2. CASE Rests
  BY <1>2, RecoveryKeepsInv
<1>3. CASE Push
  BY <1>3, PushKeepsInv
<1>4. CASE \E c \in Calls : Start(c)
  BY <1>4, OutsideTheLock
<1>5. CASE CallSteps
  <2>1. CASE \E c \in Calls : \/ PathFound(c) \/ PathMissing(c) \/ GivesUpWaiting(c)
                              \/ Locks(c)
    BY <2>1, OutsideTheLock, LocksKeepsInv
  <2>2. CASE Establishes \/ EstablishFails \/ EstablishedDown \/ AbandonsAttempt
    BY <2>2, EstablishesKeepsInv, AttemptKeepsInv
  <2>3. CASE Negotiates \/ Listens \/ Executes \/ Waits \/ Answered
    BY <2>3, StartsKeepInv, ExecutesKeepsInv, WaitsKeepsInv, AnsweredKeepsInv
  <2>4. CASE OptionalWritten \/ OptionalAnswered \/ OptionalGivenUp \/ Stopped
    BY <2>4, OptionalKeepsInv, StoppedKeepsInv
  <2>5. CASE GivesUp \/ CallbackAllowed \/ Cancelled \/ DropStopped \/ Dropped
    BY <2>5, GivesUpKeepsInv, CancelledKeepsInv, DropStoppedKeepsInv, DroppedKeepsInv
  <2>6. QED BY <1>5, <2>1, <2>2, <2>3, <2>4, <2>5 DEF CallSteps
<1>6. CASE LinkSteps
  <2>1. CASE \E n \in Links : \/ AttemptEndsLate(n) \/ LinkLost(n) \/ DisconnectCallback(n)
                              \/ Notification(n)
    BY <2>1, LinkStepKeepsInv, NotificationKeepsInv
  <2>2. CASE RecoveryStarts \/ RecoveryStopped \/ RecoveryGivesUp \/ RetryDue
    BY <2>2, RecoveryKeepsInv
  <2>3. QED BY <1>6, <2>1, <2>2 DEF LinkSteps
<1>7. QED BY <1>1, <1>2, <1>3, <1>4, <1>5, <1>6 DEF Next

\* IInv is an invariant of the exchange.
LEMMA Inductive == Spec => []IInv
<1>1. Init => IInv
  BY InitIsInv
<1>2. IInv /\ [Next]_vars => IInv'
  BY NextKeepsInv
<1>3. QED BY <1>1, <1>2, PTL DEF Spec

\* A required answer is never one to a request of an exchange that was given up, nor
\* from another link (client.py:535, _connection.py:222-237), whatever the calls, the
\* failures and the links.
THEOREM FailedStaysForgotten == Spec => []FailedIsForgotten
<1>1. IInv => FailedIsForgotten
  BY DEF IInv, CallInv, Taken
<1>2. QED BY <1>1, Inductive, PTL

\* No command reaches the purifier twice, and no poll three times; twice only when it
\* was begun again (client.py:417-424).
THEOREM OnlyReadsAreReplayed == Spec => []ReplaysOnlyReads
<1>1. IInv => ReplaysOnlyReads
  <2> SUFFICES ASSUME IInv, NEW c \in Calls
               PROVE  sent[c] <= 1 \/ (IsPoll(c) /\ sent[c] = 2 /\ call[c].attempt = 1)
    BY DEF ReplaysOnlyReads
  <2>1. sent[c] \in Nat /\ call[c].attempt \in {0, 1} /\ OncePerAttempt(c)
    BY DEF IInv, CallInv, CallShapes
  <2>2. QED BY <2>1 DEF OncePerAttempt
<1>2. QED BY <1>1, Inductive, PTL

------------------------------------------------------------------------------
\* The session, its listener and its route; every link that is up.

LinkStates == {"unused", "trying", "abandoned", "up", "lost", "gone"}

SessionShapes ==
    /\ x.stage \in Stages
    /\ listener \in {NoLink, attached} /\ recovering \in {NoLink} \cup Links
    /\ listener = NoLink \/ listener # recovering
    /\ radio \in [Links -> LinkStates]
    /\ asked \subseteq Links /\ leaked \subseteq Links
    /\ route => x.stage \in {"write", "wait", "optWrite", "optWait"}
    /\ x.stage = "connect" => attached = NoLink
    /\ x.stage = "dropStop" => x.conn \in Links

SessionInv == SessionShapes /\ LinksAccounted

\* The session keeps its link; a link in dropStop is asked to disconnect, or leaked.
LEMMA SessionStays ==
    ASSUME SessionInv, UNCHANGED <<attached, radio>>, x'.stage \in Stages,
           listener' \in {NoLink, attached}, recovering' \in {NoLink} \cup Links,
           listener' = NoLink \/ listener' # recovering',
           asked \subseteq asked', asked' \subseteq Links,
           leaked \subseteq leaked', leaked' \subseteq Links,
           route' => x'.stage \in {"write", "wait", "optWrite", "optWait"},
           x'.stage = "connect" => x.stage = "connect",
           x'.stage = "dropStop" => x.stage = "dropStop" /\ x'.conn = x.conn,
           x.stage = "dropStop" => \/ x'.stage = "dropStop" /\ x'.conn = x.conn
                                   \/ x.conn \in asked' \cup leaked'
    PROVE  SessionInv'
<1>1. SessionShapes'
  BY DEF SessionInv, SessionShapes
<1>2. ASSUME NEW n \in Links, radio'[n] = "up"
      PROVE  \/ n = attached' \/ n \in asked' \cup leaked'
             \/ x'.stage = "dropStop" /\ x'.conn = n
  BY <1>2 DEF SessionInv, LinksAccounted, At
<1>3. LinksAccounted'
  BY <1>2 DEF LinksAccounted, At
<1>4. QED BY <1>1, <1>3 DEF SessionInv

LEMMA SessionDrops ==
    ASSUME IInv, SessionInv, x.stage \notin {"connect", "dropStop"}, NEW outcome,
           Drop(outcome), UNCHANGED <<radio, leaked>>, recovering' \in {NoLink, recovering}
    PROVE  SessionInv'
<1>1. /\ attached' = NoLink /\ listener' = NoLink /\ ~route'
      /\ attached \in {NoLink} \cup Links
  BY DEF Drop, IInv, LinkInv, LinkShapes
<1>2. CASE attached = NoLink
  <2>1. x' = Free /\ asked' = asked
    BY <1>2 DEF Drop, Release
  <2>2. x'.stage = "free"
    BY <2>1 DEF Free
  <2>3. QED BY <1>1, <1>2, <2>1, <2>2, SessionStays DEF SessionInv, SessionShapes, Stages
<1>3. CASE attached # NoLink
  <2>1. PICK stage \in {"dropStop", "drop"} :
          /\ x' = [Free EXCEPT !.stage = stage, !.conn = attached, !.after = outcome]
          /\ asked' = IF stage = "dropStop" THEN asked ELSE asked \cup {attached}
    BY <1>3 DEF Drop
  <2>2. x'.stage = stage /\ x'.conn = attached
    BY <2>1 DEF Free
  <2>3. SessionShapes'
    BY <1>1, <1>3, <2>1, <2>2 DEF SessionInv, SessionShapes, Stages
  <2>4. LinksAccounted'
    BY <1>1, <1>3, <2>1, <2>2 DEF SessionInv, LinksAccounted, At
  <2>5. QED BY <2>3, <2>4 DEF SessionInv
<1>4. QED BY <1>2, <1>3

LEMMA SessionReleases ==
    ASSUME IInv, SessionInv, x.stage \notin {"dropStop"}, NEW outcome, Release(outcome),
           UNCHANGED <<attached, radio, asked, leaked>>,
           listener' \in {NoLink, listener}, ~route', recovering' \in {NoLink, recovering}
    PROVE  SessionInv'
<1>1. x'.stage = "free"
  BY DEF Release, Free
<1>2. QED BY <1>1, SessionStays DEF SessionInv, SessionShapes, Stages

LEMMA SessionFails ==
    ASSUME IInv, SessionInv, x.stage \notin {"connect", "dropStop"}, NEW outcome,
           Fails(outcome), UNCHANGED <<radio, leaked, recovering>>
    PROVE  SessionInv'
BY SessionDrops DEF Fails

LEMMA SessionCompletes ==
    ASSUME IInv, SessionInv, x.stage \in {"wait", "optWrite", "optWait"}, NEW discard,
           Completes(discard), UNCHANGED <<radio, leaked, recovering>>
    PROVE  SessionInv'
<1>1. CASE Drop("ok")
  BY <1>1, SessionDrops
<1>2. CASE Release("ok") /\ UNCHANGED <<attached, asked, listener>> /\ ~route'
  BY <1>2, SessionReleases
<1>3. CASE To("stop") /\ UNCHANGED <<attached, asked>> /\ listener' = NoLink /\ ~route'
  <2>1. x'.stage = "stop"
    BY <1>3 DEF To, IInv, CallInv, CallShapes, ExchangeFields
  <2>2. QED BY <1>3, <2>1, SessionStays DEF SessionInv, SessionShapes, Stages, Working
<1>4. QED BY <1>1, <1>2, <1>3 DEF Completes

\* Outside of an exchange.
LEMMA SessionUnmoved ==
    ASSUME SessionInv, UNCHANGED <<x, attached, listener, route, recovering, linkVars>>
    PROVE  SessionInv'
BY SessionStays DEF SessionInv, SessionShapes, linkVars

LEMMA EnterStage ==
    ASSUME NEW n, Enter(n), ~route
    PROVE  /\ x'.conn = n /\ x'.stage \in {"notify", "write"}
           /\ route' => x'.stage = "write"
<1>1. CASE listener = n
  <2>1. x' = [Free EXCEPT !.stage = "write", !.conn = n, !.index = 1]
    BY <1>1 DEF Enter
  <2>2. QED BY <2>1, Entered, Zenon DEF Enter, Free
<1>2. CASE listener # n
  <2>1. x' = [Free EXCEPT !.stage = "notify", !.conn = n] /\ route' = route
    BY <1>2 DEF Enter
  <2>2. QED BY <2>1 DEF Free
<1>3. QED BY <1>1, <1>2

LEMMA SessionLocks ==
    ASSUME IInv, SessionInv, NEW c \in Calls, Locks(c)
    PROVE  SessionInv'
<1>1. /\ x.stage = "free" /\ ~route
      /\ UNCHANGED <<recovering, asked, leaked>>
  BY DEF Locks, IInv, CallInv, LockHeld, SessionInv, SessionShapes, beyondExchange
<1>2. CASE UNCHANGED <<x, attached, listener, route, radio>>
  BY <1>1, <1>2, SessionUnmoved DEF linkVars
<1>3. CASE Enter(attached) /\ UNCHANGED <<attached, listener, radio>>
  <2>1. PICK n : n = attached /\ Enter(n)
    BY <1>3
  <2>2. /\ x'.stage \in {"notify", "write"}
        /\ route' => x'.stage = "write"
    BY <1>1, <2>1, EnterStage
  <2>3. QED BY <1>1, <1>3, <2>2, SessionStays DEF SessionInv, SessionShapes, Stages, Working
<1>4. CASE /\ ~Up(attached) /\ attached' = NoLink /\ listener' = NoLink /\ route' = FALSE
           /\ \E n \in Links : /\ radio' = [radio EXCEPT ![n] = "trying"]
                               /\ x' = [Free EXCEPT !.stage = "connect", !.conn = n]
  <2>1. PICK n \in Links : /\ radio' = [radio EXCEPT ![n] = "trying"]
                           /\ x' = [Free EXCEPT !.stage = "connect", !.conn = n]
    BY <1>4
  <2>2. x'.stage = "connect"
    BY <2>1 DEF Free
  <2>3. SessionShapes'
    BY <1>1, <1>4, <2>1, <2>2 DEF SessionInv, SessionShapes, LinkStates, Stages
  <2>4. ASSUME NEW m \in Links, radio'[m] = "up"
        PROVE  m \in asked \cup leaked
    <3>1. radio[m] = "up" /\ m # attached
      BY <1>4, <2>1, <2>4 DEF SessionInv, SessionShapes, Up, Links, NoLink
    <3>2. QED BY <1>1, <3>1 DEF SessionInv, LinksAccounted, At
  <2>5. LinksAccounted'
    BY <1>1, <2>4 DEF LinksAccounted, At
  <2>6. QED BY <2>3, <2>5 DEF SessionInv
<1>5. QED BY <1>2, <1>3, <1>4 DEF Locks

LEMMA SessionEstablishes ==
    ASSUME IInv, SessionInv, Establishes
    PROVE  SessionInv'
<1>1. /\ x.stage = "connect" /\ attached = NoLink /\ listener = NoLink /\ ~route
      /\ attached' = x.conn /\ radio' = [radio EXCEPT ![x.conn] = "up"]
      /\ UNCHANGED <<listener, recovering, asked, leaked>> /\ x.conn \in Links
  BY DEF Establishes, At, SessionInv, SessionShapes, beyondExchange, IInv, LinkInv,
         Forgotten
<1>2. /\ x'.stage \in {"handshake", "notify", "write"}
      /\ route' => x'.stage = "write"
  <2>1. CASE To("handshake") /\ UNCHANGED route
    BY <1>1, <2>1 DEF To, IInv, CallInv, CallShapes, ExchangeFields
  <2>2. CASE Enter(x.conn)
    <3>1. PICK n : n = x.conn /\ Enter(n)
      BY <2>2
    <3>2. QED BY <1>1, <3>1, EnterStage
  <2>3. QED BY <2>1, <2>2 DEF Establishes
<1>3. SessionShapes'
  BY <1>1, <1>2 DEF SessionInv, SessionShapes, LinkStates, Stages, Working
<1>4. LinksAccounted'
  BY <1>1 DEF SessionInv, SessionShapes, LinksAccounted, At, Links, NoLink
<1>5. QED BY <1>3, <1>4 DEF SessionInv

LEMMA SessionAttemptEnds ==
    ASSUME IInv, SessionInv, EstablishFails \/ EstablishedDown \/ AbandonsAttempt
    PROVE  SessionInv'
<1>1. x.stage = "connect" /\ x.conn \in Links /\ ~route
  <2>1. x.stage = "connect"
    BY DEF EstablishFails, EstablishedDown, AbandonsAttempt, At
  <2>2. QED BY <2>1 DEF IInv, LinkInv, Forgotten, SessionInv, SessionShapes
<1>2. /\ UNCHANGED <<attached, listener, route, recovering>>
      /\ asked' \in {asked, asked \cup {x.conn}}
      /\ \/ leaked' = leaked /\ \E r \in {"gone", "abandoned"} :
                                  radio' = [radio EXCEPT ![x.conn] = r]
         \/ leaked' = leaked \cup {x.conn} /\ radio' = [radio EXCEPT ![x.conn] = "up"]
  BY DEF EstablishFails, EstablishedDown, AbandonsAttempt, beyondExchange, sessionVars
<1>3. x'.stage \in {"free", "drop"}
  <2>1. CASE x' = Free
    BY <2>1 DEF Free
  <2>2. CASE x' = [x EXCEPT !.stage = "drop", !.after = "lost"]
    BY <2>2 DEF IInv, CallInv, CallShapes, ExchangeFields
  <2>3. QED BY <2>1, <2>2 DEF EstablishFails, EstablishedDown, AbandonsAttempt, Release
<1>4. SessionShapes'
  BY <1>1, <1>2, <1>3 DEF SessionInv, SessionShapes, LinkStates, Stages
<1>5. LinksAccounted'
  BY <1>1, <1>2 DEF SessionInv, SessionShapes, LinksAccounted, At
<1>6. QED BY <1>4, <1>5 DEF SessionInv

LEMMA SessionLinkStep ==
    ASSUME IInv, SessionInv, NEW n \in Links,
           AttemptEndsLate(n) \/ LinkLost(n) \/ DisconnectCallback(n)
    PROVE  SessionInv'
<1>1. /\ UNCHANGED <<x, recovering, leaked>>
      /\ asked' \in {asked, asked \cup {n}}
      /\ \E r \in LinkStates : /\ radio' = [radio EXCEPT ![n] = r]
                               /\ r = "up" => n \in asked'
  BY DEF AttemptEndsLate, LinkLost, DisconnectCallback, beyondExchange, LateLink, LinkStates
<1>2. \/ UNCHANGED <<attached, listener, route>>
      \/ /\ attached = n /\ radio'[n] = "gone"
         /\ attached' = NoLink /\ listener' = NoLink /\ ~route'
  BY DEF AttemptEndsLate, LinkLost, DisconnectCallback, SessionInv, SessionShapes
<1>3. SessionShapes'
  BY <1>1, <1>2 DEF SessionInv, SessionShapes
<1>4. LinksAccounted'
  BY <1>1, <1>2 DEF SessionInv, SessionShapes, LinksAccounted, At
<1>5. QED BY <1>3, <1>4 DEF SessionInv

LEMMA SessionStarts ==
    ASSUME IInv, SessionInv, Negotiates \/ Listens
    PROVE  SessionInv'
<1>1. /\ x.stage \in {"handshake", "notify"} /\ ~route /\ attached = x.conn
      /\ UNCHANGED <<attached, recovering, linkVars>>
      /\ listener' = listener \/ (listener' = x.conn /\ recovering # x.conn)
  <2>1. x.stage \in {"handshake", "notify"}
    BY DEF Negotiates, Listens, At
  <2>2. QED BY <2>1 DEF Negotiates, Listens, Signalled, beyondExchange, SessionInv,
                        SessionShapes
<1>2. x'.stage \in {"notify", "write"} /\ (route' => x'.stage = "write")
  <2>1. CASE Enter(x.conn)
    <3>1. PICK n : n = x.conn /\ Enter(n)
      BY <2>1
    <3>2. QED BY <1>1, <3>1, EnterStage
  <2>2. CASE x' = [x EXCEPT !.stage = "write", !.index = 1]
    BY <2>2 DEF IInv, CallInv, CallShapes, ExchangeFields
  <2>3. QED BY <2>1, <2>2 DEF Negotiates, Listens
<1>3. QED BY <1>1, <1>2, SessionStays
          DEF SessionInv, SessionShapes, Stages, Working, linkVars

LEMMA SessionRequests ==
    ASSUME IInv, SessionInv, \/ Executes \/ Waits \/ Answered
                             \/ OptionalWritten \/ OptionalAnswered
                             \/ OptionalGivenUp
    PROVE  SessionInv'
<1> DEFINE exchanging == {"write", "wait", "optWrite", "optWait"}
<1>1. /\ x.stage \in exchanging /\ UNCHANGED <<radio, leaked, recovering>>
      /\ x = [f \in ExchangeFields |-> x[f]]
  BY DEF Executes, Waits, Answered, OptionalWritten, OptionalAnswered, OptionalGivenUp,
         Writing, At, beyondExchange, linkVars, sessionVars, IInv, CallInv, CallShapes
<1>2. CASE /\ x.stage \in {"wait", "optWrite", "optWait"}
           /\ \E discard \in {x.discard, x.discard \/ At({"optWrite"}) \/ Signalled} :
                Completes(discard)
  BY <1>1, <1>2, SessionCompletes
<1>3. CASE x'.stage \in exchanging /\ UNCHANGED <<attached, listener, route, asked>>
  BY <1>1, <1>3, SessionStays DEF SessionInv, SessionShapes, Stages, Working
<1>4. CASE Executes
  <2>1. /\ UNCHANGED <<attached, listener, route, asked>>
        /\ \/ x' = [x EXCEPT !.written = TRUE]
           \/ x' = [x EXCEPT !.written = TRUE, !.missing = TRUE]
    BY <1>4 DEF Executes, sessionVars, linkVars
  <2>2. x'.stage = x.stage
    BY <1>1, <2>1 DEF ExchangeFields
  <2>3. QED BY <1>1, <1>3, <2>1, <2>2
<1>5. ASSUME \/ To("wait") \/ To("optWait")
             \/ \E stage \in exchanging, index \in {1, x.index + 1} : Asks(stage, index)
      PROVE  x'.stage \in exchanging
  <2>1. CASE To("wait") \/ To("optWait")
    BY <1>1, <2>1 DEF To, ExchangeFields
  <2>2. CASE \E stage \in exchanging, index \in {1, x.index + 1} : Asks(stage, index)
    BY <2>2, AsksNext DEF IInv, CallInv
  <2>3. QED BY <1>5, <2>1, <2>2
<1>6. CASE Waits \/ OptionalWritten
  <2>1. /\ UNCHANGED <<attached, listener, route, asked>>
        /\ \/ To("wait") \/ To("optWait")
           \/ \E stage \in exchanging, index \in {1, x.index + 1} : Asks(stage, index)
    BY <1>6 DEF Waits, OptionalWritten, linkVars
  <2>2. x'.stage \in exchanging
    BY <1>5, <2>1
  <2>3. QED BY <1>3, <2>1, <2>2
<1>7. CASE Answered \/ OptionalAnswered \/ OptionalGivenUp
  <2>1. x.stage \in {"wait", "optWrite", "optWait"}
    BY <1>7 DEF Answered, OptionalAnswered, OptionalGivenUp, At
  <2>2. \/ \E discard \in {x.discard, x.discard \/ At({"optWrite"}) \/ Signalled} :
             Completes(discard)
        \/ /\ UNCHANGED <<attached, listener, route, asked>>
           /\ \E stage \in exchanging, index \in {1, x.index + 1} : Asks(stage, index)
    BY <1>7 DEF Answered, OptionalAnswered, OptionalGivenUp
  <2>3. QED BY <1>2, <1>3, <1>5, <2>1, <2>2
<1>8. QED BY <1>4, <1>6, <1>7

LEMMA SessionEnds ==
    ASSUME IInv, SessionInv,
           Stopped \/ GivesUp \/ CallbackAllowed \/ Cancelled \/ DropStopped \/ Dropped
    PROVE  SessionInv'
<1>1. CASE Stopped
  <2>1. x.stage = "stop" /\ ~route /\ UNCHANGED <<radio, leaked, recovering>>
    BY <1>1 DEF Stopped, At, SessionInv, SessionShapes, beyondExchange
  <2>2. CASE Drop("ok")
    BY <2>1, <2>2, SessionDrops
  <2>3. CASE Release("ok") /\ UNCHANGED <<attached, listener, route, asked>>
    BY <2>1, <2>3, SessionReleases
  <2>4. QED BY <1>1, <2>2, <2>3 DEF Stopped
<1>2. CASE GivesUp \/ CallbackAllowed
  <2>1. /\ x.stage \in {"handshake", "notify", "write", "wait", "yield"}
        /\ UNCHANGED <<radio, leaked, recovering>>
    BY <1>2 DEF GivesUp, CallbackAllowed, At, beyondExchange
  <2>2. CASE \E outcome \in {"lost", x.after} : Fails(outcome)
    BY <2>1, <2>2, SessionFails
  <2>3. CASE \E outcome \in {"lost", "error"} : AllowsCallback(outcome)
    <3>1. ~route' /\ x'.stage = "yield" /\ UNCHANGED <<attached, listener, asked>>
      BY <2>3 DEF AllowsCallback, IInv, CallInv, CallShapes, ExchangeFields
    <3>2. QED BY <2>1, <3>1, SessionStays DEF SessionInv, SessionShapes, Stages, Working
  <2>4. QED BY <1>2, <2>2, <2>3 DEF GivesUp, CallbackAllowed
<1>3. CASE Cancelled
  <2>1. UNCHANGED <<radio, recovering>>
    BY <1>3 DEF Cancelled, beyondExchange
  <2>2. CASE /\ At({"handshake", "notify", "write", "wait", "yield",
                     "optWrite", "optWait", "stop"})
             /\ Fails("error") /\ UNCHANGED leaked
    BY <2>1, <2>2, SessionFails DEF At
  <2>3. CASE /\ At({"dropStop", "drop"}) /\ x' = Free
             /\ leaked' = IF At({"dropStop"}) THEN leaked \cup {x.conn} ELSE leaked
             /\ UNCHANGED <<attached, listener, route, asked>>
    <3>1. x'.stage = "free" /\ ~route
      BY <2>3 DEF Free, At, SessionInv, SessionShapes
    <3>2. CASE x.stage = "dropStop"
      BY <2>1, <2>3, <3>1, <3>2, SessionStays DEF SessionInv, SessionShapes, Stages, At
    <3>3. CASE x.stage # "dropStop"
      BY <2>1, <2>3, <3>1, <3>3, SessionStays DEF SessionInv, SessionShapes, Stages, At
    <3>4. QED BY <3>2, <3>3
  <2>4. QED BY <1>3, <2>2, <2>3 DEF Cancelled, Release
<1>4. CASE DropStopped
  <2>1. /\ x.stage = "dropStop" /\ asked' = asked \cup {x.conn} /\ To("drop")
        /\ UNCHANGED <<attached, listener, route, recovering, radio, leaked>>
    BY <1>4 DEF DropStopped, At, beyondExchange
  <2>2. x'.stage = "drop" /\ ~route
    BY <2>1 DEF To, IInv, CallInv, CallShapes, ExchangeFields, SessionInv, SessionShapes
  <2>3. QED BY <2>1, <2>2, SessionStays DEF SessionInv, SessionShapes, Stages
<1>5. CASE Dropped
  <2>1. /\ x.stage = "drop" /\ ~route /\ recovering' \in {NoLink, recovering}
        /\ UNCHANGED <<attached, listener, route, linkVars>>
    BY <1>5 DEF Dropped, At, EndsRecovery, SessionInv, SessionShapes
  <2>2. PICK outcome : outcome = x.after /\ Release(outcome)
    BY <1>5 DEF Dropped
  <2>3. QED BY <2>1, <2>2, SessionReleases DEF linkVars
<1>6. QED BY <1>1, <1>2, <1>3, <1>4, <1>5

LEMMA SessionNotification ==
    ASSUME IInv, SessionInv, NEW n \in Links, Notification(n)
    PROVE  SessionInv'
<1>1. x'.stage = x.stage /\ x'.conn = x.conn
  BY NotificationTakes
<1>2. /\ UNCHANGED <<attached, route, linkVars>>
      /\ UNCHANGED <<listener, recovering>> \/ (listener' = NoLink /\ recovering' = n)
  BY DEF Notification, Corrupt
<1>3. QED BY <1>1, <1>2, SessionStays DEF SessionInv, SessionShapes, linkVars

LEMMA SessionRecovery ==
    ASSUME IInv, SessionInv,
           RecoveryStarts \/ RecoveryStopped \/ RecoveryGivesUp \/ RetryDue \/ Rests
    PROVE  SessionInv'
<1>1. CASE RecoveryStarts /\ attached = recovering
  <2>1. /\ holder = Nobody /\ UNCHANGED <<recovering, listener, route, radio, leaked>>
        /\ attached \in Links
    BY <1>1 DEF RecoveryStarts, SessionInv, SessionShapes
  <2>2. x.stage = "free" /\ ~route /\ listener = NoLink
    BY <1>1, <2>1 DEF IInv, CallInv, LockHeld, SessionInv, SessionShapes
  <2>3. x'.stage \in {"recoverStop", "drop"}
    BY <1>1 DEF RecoveryStarts, Free
  <2>4. \/ UNCHANGED <<attached, asked>>
        \/ attached' = NoLink /\ asked' = asked \cup {attached}
    BY <1>1 DEF RecoveryStarts
  <2>5. SessionShapes'
    BY <2>1, <2>2, <2>3, <2>4 DEF SessionInv, SessionShapes, Stages
  <2>6. LinksAccounted'
    BY <2>1, <2>2, <2>3, <2>4 DEF SessionInv, LinksAccounted, At
  <2>7. QED BY <2>5, <2>6 DEF SessionInv
<1>2. CASE RecoveryStopped
  <2>1. /\ x.stage = "recoverStop" /\ UNCHANGED <<radio, leaked>>
        /\ recovering' \in {NoLink, recovering}
    BY <1>2 DEF RecoveryStopped, At, EndsRecovery
  <2>2. PICK outcome : Drop(outcome)
    BY <1>2 DEF RecoveryStopped
  <2>3. QED BY <2>1, <2>2, SessionDrops
<1>3. CASE ~(RecoveryStarts /\ attached = recovering) /\ ~RecoveryStopped
  <2>1. /\ UNCHANGED <<x, attached, listener, route, linkVars>>
        /\ recovering' \in {NoLink, recovering}
    BY <1>3 DEF RecoveryStarts, RecoveryGivesUp, RetryDue, Rests, EndsRecovery, vars,
                beyondCall, sessionVars, linkVars
  <2>2. QED BY <2>1, SessionStays DEF SessionInv, SessionShapes, linkVars
<1>4. QED BY <1>1, <1>2, <1>3

------------------------------------------------------------------------------
\* Types of what is left.

CallType == [at : {"off", "prepare", "lock", "working", "ok", "failed"},
             attempt : 0..1, claimed : BOOLEAN]

CallTypes == call \in [Calls -> CallType] /\ lightDue \in BOOLEAN
Budgets == faults \in 0..plan.faults /\ pushes \in 0..plan.pushes
PathTypes == stale \in BOOLEAN /\ backoff \in BOOLEAN

TypesInv == CallTypes /\ Budgets /\ PathTypes

\* A failure or a button is taken from what may still come.
Spends ==
    /\ plan' = plan
    /\ faults' = faults \/ (faults > 0 /\ faults' = faults - 1)
    /\ pushes' = pushes \/ (pushes > 0 /\ pushes' = pushes - 1)

LEMMA BudgetsKept ==
    ASSUME IInv, Budgets, Spends
    PROVE  Budgets'
<1>1. plan \in Plans /\ plan.faults \in Nat /\ plan.pushes \in Nat
  BY ExchangeAssumption DEF IInv, CallInv, CallShapes
<1>2. QED BY <1>1 DEF Budgets, Spends

LEMMA EndsTyped ==
    ASSUME CallTypes, NEW c \in Calls, NEW outcome, EndsAs(c, outcome)
    PROVE  CallTypes'
<1>1. call[c] \in CallType /\ call[c].claimed \in BOOLEAN /\ lightDue \in BOOLEAN
  BY DEF CallTypes, CallType
<1>2. CASE outcome = "lost" /\ Replays(c)
  <2> DEFINE again == Attempt(1, lightDue \/ call[c].claimed, FALSE)
  <2>1. call' = [call EXCEPT ![c] = again] /\ lightDue' = FALSE
    BY <1>2 DEF EndsAs
  <2>2. again \in CallType
    BY <1>1 DEF Attempt, CallType
  <2> HIDE DEF again
  <2>3. QED BY <2>1, <2>2 DEF CallTypes
<1>3. CASE ~(outcome = "lost" /\ Replays(c))
  <2> DEFINE at == IF outcome = "ok" THEN "ok" ELSE "failed"
             due == lightDue \/ (call[c].claimed /\ outcome # "ok")
  <2>1. call' = [call EXCEPT ![c].at = at] /\ lightDue' = due
    BY <1>3 DEF EndsAs
  <2>2. due \in BOOLEAN /\ at \in {"ok", "failed"}
    OBVIOUS
  <2> HIDE DEF at, due
  <2>3. QED BY <1>1, <2>1, <2>2 DEF CallTypes, CallType
<1>4. QED BY <1>2, <1>3

LEMMA ReleaseTyped ==
    ASSUME CallTypes, NEW outcome, Release(outcome)
    PROVE  CallTypes'
<1>1. CASE holder \in Calls
  <2>1. PICK c \in Calls : c = holder /\ EndsAs(c, outcome)
    BY <1>1 DEF Release
  <2>2. QED BY <2>1, EndsTyped
<1>2. CASE holder \notin Calls
  BY <1>2 DEF Release, CallTypes
<1>3. QED BY <1>1, <1>2

LEMMA DropTyped ==
    ASSUME CallTypes, NEW outcome, Drop(outcome)
    PROVE  CallTypes'
<1>1. CASE attached = NoLink
  BY <1>1, ReleaseTyped DEF Drop
<1>2. CASE attached # NoLink
  BY <1>2 DEF Drop, CallTypes
<1>3. QED BY <1>1, <1>2

LEMMA CompletesTyped ==
    ASSUME CallTypes, NEW discard, Completes(discard)
    PROVE  CallTypes'
<1>1. CASE Drop("ok")
  BY <1>1, DropTyped
<1>2. CASE Release("ok")
  BY <1>2, ReleaseTyped
<1>3. CASE UNCHANGED <<call, lightDue>>
  BY <1>3 DEF CallTypes
<1>4. QED BY <1>1, <1>2, <1>3 DEF Completes

\* The call before it has the lock, and when it gets it.
LEMMA CallTyped ==
    ASSUME CallTypes, NEW c \in Calls,
           Start(c) \/ PathFound(c) \/ PathMissing(c) \/ GivesUpWaiting(c) \/ Locks(c)
    PROVE  CallTypes'
<1>1. call[c] \in CallType /\ lightDue \in BOOLEAN
  BY DEF CallTypes
<1>2. CASE EndsAs(c, "error")
  BY <1>2, EndsTyped
<1>3. CASE /\ \E at \in {"lock", "working"} : call' = [call EXCEPT ![c].at = at]
           /\ lightDue' = lightDue
  BY <1>1, <1>3 DEF CallTypes, CallType
<1>4. CASE Start(c)
  <2> DEFINE first == Attempt(0, IsPoll(c) /\ lightDue, Up(attached))
             due == lightDue /\ ~IsPoll(c)
  <2>1. call' = [call EXCEPT ![c] = first] /\ lightDue' = due
    BY <1>4 DEF Start
  <2>2. due \in BOOLEAN /\ (IsPoll(c) /\ lightDue) \in BOOLEAN
    OBVIOUS
  <2>3. first \in CallType
    BY <2>2 DEF Attempt, CallType
  <2> HIDE DEF first, due
  <2>4. QED BY <2>1, <2>2, <2>3 DEF CallTypes
<1>5. QED BY <1>2, <1>3, <1>4 DEF PathFound, PathMissing, GivesUpWaiting, Locks

LEMMA StepTyped ==
    ASSUME CallTypes, Next
    PROVE  CallTypes'
<1>1. CASE UNCHANGED <<call, lightDue>>
  BY <1>1 DEF CallTypes
<1>2. CASE \E c \in Calls : \/ Start(c) \/ PathFound(c) \/ PathMissing(c)
                            \/ GivesUpWaiting(c) \/ Locks(c)
  BY <1>2, CallTyped
<1>3. CASE \/ EstablishFails \/ AbandonsAttempt \/ GivesUp \/ CallbackAllowed
           \/ Cancelled \/ Stopped \/ RecoveryStopped
  <2>1. \/ \E outcome \in {"error", "lost", "ok", "none", x.after} :
             Release(outcome) \/ Drop(outcome)
        \/ UNCHANGED <<call, lightDue>>
    BY <1>3 DEF EstablishFails, AbandonsAttempt, GivesUp, CallbackAllowed, AllowsCallback,
                Cancelled, Stopped, RecoveryStopped, Fails
  <2>2. QED BY <1>1, <2>1, ReleaseTyped, DropTyped
<1>4. CASE Dropped
  <2>1. PICK outcome : outcome = x.after /\ Release(outcome)
    BY <1>4 DEF Dropped
  <2>2. QED BY <2>1, ReleaseTyped
<1>5. CASE Answered \/ OptionalAnswered \/ OptionalGivenUp
  <2>1. \/ \E discard \in {x.discard, x.discard \/ At({"optWrite"}) \/ Signalled} :
             Completes(discard)
        \/ UNCHANGED <<call, lightDue>>
    BY <1>5 DEF Answered, OptionalAnswered, OptionalGivenUp
  <2>2. QED BY <1>1, <2>1, CompletesTyped
<1>6. CASE \/ Establishes \/ EstablishedDown \/ Negotiates \/ Listens \/ Executes \/ Waits
           \/ OptionalWritten
           \/ DropStopped \/ RecoveryStarts \/ RecoveryGivesUp \/ RetryDue \/ Push \/ Rests
           \/ \E n \in Links : \/ AttemptEndsLate(n) \/ LinkLost(n) \/ DisconnectCallback(n)
                               \/ Notification(n)
  <2>1. UNCHANGED <<call, lightDue>>
    BY <1>6 DEF Establishes, EstablishedDown, Negotiates, Listens, Executes, Waits,
       OptionalWritten, DropStopped, RecoveryStarts, RecoveryGivesUp, RetryDue, Push, Rests,
       AttemptEndsLate, LinkLost, DisconnectCallback, Notification, vars
  <2>2. QED BY <1>1, <2>1
<1>7. QED BY <1>2, <1>3, <1>4, <1>5, <1>6 DEF Next, CallSteps, LinkSteps

LEMMA StepSpends ==
    ASSUME Next
    PROVE  Spends
<1>1. CASE Push
  BY <1>1 DEF Push, Spends
<1>2. CASE Rests
  BY <1>2 DEF Rests, vars, environmentVars, Spends
<1>3. CASE \E c \in Calls : \/ Start(c) \/ PathFound(c) \/ PathMissing(c)
                            \/ GivesUpWaiting(c) \/ Locks(c)
  BY <1>3 DEF Start, PathFound, PathMissing, GivesUpWaiting, Locks, Fault, NoFault,
     beyondCall, beyondExchange, environmentVars, Spends
<1>4. CASE \/ Establishes \/ EstablishFails \/ EstablishedDown \/ AbandonsAttempt
           \/ Negotiates \/ Listens \/ Executes \/ Waits \/ Answered
  BY <1>4 DEF Establishes, EstablishFails, EstablishedDown, AbandonsAttempt, Negotiates,
     Listens, Executes, Waits, Answered, Fault, NoFault, beyondExchange, environmentVars, Spends
<1>5. CASE \/ OptionalWritten \/ OptionalAnswered \/ OptionalGivenUp \/ Stopped \/ GivesUp
           \/ CallbackAllowed \/ Cancelled \/ DropStopped \/ Dropped
  BY <1>5 DEF OptionalWritten, OptionalAnswered, OptionalGivenUp, Stopped, GivesUp,
     CallbackAllowed, Cancelled, DropStopped, Dropped, Fault, NoFault, beyondExchange,
     environmentVars, Spends
<1>6. CASE \/ RecoveryStarts \/ RecoveryStopped \/ RecoveryGivesUp \/ RetryDue
           \/ \E n \in Links : \/ AttemptEndsLate(n) \/ LinkLost(n) \/ DisconnectCallback(n)
                               \/ Notification(n)
  BY <1>6 DEF RecoveryStarts, RecoveryStopped, RecoveryGivesUp, RetryDue, AttemptEndsLate,
     LinkLost, DisconnectCallback, Notification, Fault, NoFault, beyondCall, beyondExchange,
     environmentVars, Spends
<1>7. QED BY <1>1, <1>2, <1>3, <1>4, <1>5, <1>6 DEF Next, CallSteps, LinkSteps

LEMMA StepKeepsPaths ==
    ASSUME PathTypes, Next
    PROVE  PathTypes'
<1>1. /\ stale' \in {stale, TRUE, FALSE} /\ backoff' \in {backoff, TRUE, FALSE}
  <2>1. CASE UNCHANGED pathVars
    BY <2>1 DEF pathVars
  <2>2. CASE \E c \in Calls : PathFound(c) \/ PathMissing(c)
    BY <2>2 DEF PathFound, PathMissing
  <2>3. CASE RecoveryStopped \/ EstablishFails \/ EstablishedDown \/ CallbackAllowed
    BY <2>1, <2>3 DEF RecoveryStopped, EstablishFails, EstablishedDown, CallbackAllowed,
                      beyondExchange
  <2>4. CASE Dropped \/ RetryDue \/ \E n \in Links : DisconnectCallback(n)
    BY <2>4 DEF Dropped, RetryDue, DisconnectCallback
  <2>5. CASE \E c \in Calls : Start(c) \/ GivesUpWaiting(c) \/ Locks(c)
    BY <2>1, <2>5 DEF Start, GivesUpWaiting, Locks, beyondExchange
  <2>6. CASE \/ Establishes \/ AbandonsAttempt \/ Negotiates \/ Listens \/ Executes \/ Waits
             \/ Answered \/ OptionalWritten \/ OptionalAnswered \/ OptionalGivenUp
             \/ Stopped \/ GivesUp \/ Cancelled \/ DropStopped \/ RecoveryStarts
             \/ RecoveryGivesUp \/ Push \/ Rests
             \/ \E n \in Links : AttemptEndsLate(n) \/ LinkLost(n) \/ Notification(n)
    BY <2>1, <2>6 DEF Establishes, AbandonsAttempt, Negotiates, Listens, Executes, Waits,
       Answered, OptionalWritten, OptionalAnswered, OptionalGivenUp, Stopped, GivesUp,
       Cancelled, DropStopped, RecoveryStarts, RecoveryGivesUp, Push, Rests,
       AttemptEndsLate, LinkLost, Notification, beyondExchange, vars
  <2>7. QED BY <2>2, <2>3, <2>4, <2>5, <2>6 DEF Next, CallSteps, LinkSteps
<1>2. QED BY <1>1 DEF PathTypes

LEMMA StepKeepsSession ==
    ASSUME IInv, SessionInv, Next
    PROVE  SessionInv'
<1>1. CASE Push
  BY <1>1, SessionUnmoved DEF Push, sessionVars
<1>2. CASE \E c \in Calls : Start(c) \/ PathFound(c) \/ PathMissing(c) \/ GivesUpWaiting(c)
  BY <1>2, SessionUnmoved DEF Start, PathFound, PathMissing, GivesUpWaiting, beyondCall,
                              sessionVars
<1>3. CASE \E c \in Calls : Locks(c)
  BY <1>3, SessionLocks
<1>4. CASE \/ Establishes \/ EstablishFails \/ EstablishedDown \/ AbandonsAttempt
           \/ Negotiates \/ Listens
  BY <1>4, SessionEstablishes, SessionAttemptEnds, SessionStarts
<1>5. CASE \/ Executes \/ Waits \/ Answered \/ OptionalWritten \/ OptionalAnswered
           \/ OptionalGivenUp
  BY <1>5, SessionRequests
<1>6. CASE Stopped \/ GivesUp \/ CallbackAllowed \/ Cancelled \/ DropStopped \/ Dropped
  BY <1>6, SessionEnds
<1>7. CASE \E n \in Links : \/ AttemptEndsLate(n) \/ LinkLost(n) \/ DisconnectCallback(n)
                            \/ Notification(n)
  BY <1>7, SessionLinkStep, SessionNotification
<1>8. CASE RecoveryStarts \/ RecoveryStopped \/ RecoveryGivesUp \/ RetryDue \/ Rests
  BY <1>8, SessionRecovery
<1>9. QED BY <1>1, <1>2, <1>3, <1>4, <1>5, <1>6, <1>7, <1>8 DEF Next, CallSteps, LinkSteps

LEMMA SessionAndTypes == Spec => [](SessionInv /\ TypesInv)
<1>1. Init => SessionInv /\ TypesInv
  <2> SUFFICES ASSUME Init PROVE SessionInv /\ TypesInv
    OBVIOUS
  <2>1. SessionShapes
    BY DEF Init, Free, SessionShapes, Stages, LinkStates
  <2>2. LinksAccounted
    BY DEF Init, LinksAccounted
  <2>3. /\ plan \in Plans /\ plan.lightDue \in BOOLEAN
        /\ plan.faults \in Nat /\ plan.pushes \in Nat
    BY ExchangeAssumption DEF Init
  <2>4. TypesInv
    <3>1. [at |-> "off", attempt |-> 0, claimed |-> FALSE] \in CallType
      BY DEF CallType
    <3>2. CallTypes
      BY <2>3, <3>1 DEF Init, CallTypes
    <3>3. Budgets
      BY <2>3 DEF Init, Budgets
    <3>4. PathTypes
      BY DEF Init, PathTypes
    <3>5. QED BY <3>2, <3>3, <3>4 DEF TypesInv
  <2>5. QED BY <2>1, <2>2, <2>4 DEF SessionInv
<1>2. ASSUME IInv, SessionInv /\ TypesInv, [Next]_vars
      PROVE  (SessionInv /\ TypesInv)'
  <2>1. CASE Next
    BY <1>2, <2>1, StepKeepsSession, StepTyped, StepSpends, BudgetsKept, StepKeepsPaths
       DEF TypesInv
  <2>2. CASE UNCHANGED vars
    <3>1. /\ UNCHANGED <<x, attached, listener, route, recovering, linkVars>>
          /\ UNCHANGED <<call, lightDue, plan, faults, pushes, stale, backoff>>
      BY <2>2 DEF vars, sessionVars, environmentVars, pathVars
    <3>2. QED BY <1>2, <3>1, SessionUnmoved DEF TypesInv, CallTypes, Budgets, PathTypes
  <2>3. QED BY <1>2, <2>1, <2>2
<1>3. QED BY <1>1, <1>2, Inductive, PTL DEF Spec

\* Types, and what the code raises on otherwise: no route is bound outside of an
\* exchange, nothing is attached over a link, no listener is left behind.
THEOREM TypesHold == Spec => []TypeOK
<1>1. IInv /\ SessionInv /\ TypesInv => TypeOK
  <2> SUFFICES ASSUME IInv, SessionInv, TypesInv PROVE TypeOK
    OBVIOUS
  <2>1. sent \in [Calls -> 0..2]
    <3>1. ASSUME NEW c \in Calls PROVE sent[c] \in 0..2
      <4>1. sent[c] \in Nat /\ call[c].attempt \in {0, 1} /\ sent[c] <= call[c].attempt + 1
        BY DEF IInv, CallInv, CallShapes, OncePerAttempt
      <4>2. QED BY <4>1
    <3>2. QED BY <3>1 DEF IInv, CallInv, CallShapes
  <2>2. /\ plan \in Plans /\ holder \in Calls \cup {Nobody, Recovery}
        /\ x.conn \in {NoLink} \cup Links /\ (x.stage = "free" <=> holder = Nobody)
        /\ attached \in {NoLink} \cup Links
    BY DEF IInv, CallInv, CallShapes, LockHeld, LinkInv, LinkShapes
  <2>3. {attached, listener, recovering} \subseteq {NoLink} \cup Links
    BY <2>2 DEF SessionInv, SessionShapes
  <2>4. QED BY <2>1, <2>2, <2>3
     DEF TypeOK, SessionInv, SessionShapes, TypesInv, CallTypes, CallType, Budgets,
         PathTypes, LinkStates, At
<1>2. QED BY <1>1, Inductive, SessionAndTypes, PTL

\* Every link that is up is the session's, is about to be disconnected or was asked to
\* disconnect, but for the two exceptions in "leaked" (transport.py:94): however many
\* attempts are given up, none of them keeps a connection slot.
THEOREM NoLinkIsForgotten == Spec => []LinksAccounted
<1>1. SessionInv => LinksAccounted
  BY DEF SessionInv
<1>2. QED BY <1>1, SessionAndTypes, PTL

=================================================================================
