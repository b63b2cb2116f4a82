---------------------------- MODULE CustomAutoProofs ----------------------------
(***************************************************************************)
(* Proofs about CustomAuto, for any number of speeds, thresholds, readings *)
(* and samples.  Three layers, each invariant by itself given the ones     *)
(* before it:                                                              *)
(*   Bookkeeping   types, who owns the lock, what is queued;               *)
(*   Evidence      what timers, mature targets and readings rest on;       *)
(*   Progress      that work at hand has its evaluator.                    *)
(***************************************************************************)
EXTENDS CustomAuto, QueueLemmas

------------------------------------------------------------------------------
\* Bookkeeping

\* Who awaits a command or runs has the lock; only an active controller
\* evaluates or awaits its activation.
LockHeldOnce ==
    /\ evaluation \in Evaluating => operation = "none" /\ active
    /\ operation \in {"activating", "reasserting"} => active

\* An active controller knows its speed, and one to fall back to.
SpeedKnown ==
    /\ active => currentSpeed # NoSpeed
    /\ evaluation \in {"upshift", "downshift"} => command.previous # NoSpeed

\* A successful last update brought a valid sample.
SampleAtHand == pm25Ok => revision # 0 /\ pm25 \in PM

\* The queue ends with the newest revision and has no gap; what was observed
\* last comes right before it.
QueueConsecutive ==
    /\ \A i \in 1..Len(samples) :
           samples[i].revision = revision - Len(samples) + i
    /\ lastRevision # 0 => lastRevision = revision - Len(samples)

\* The history holds at most two samples, and one only if its revision is known.
HistoryOK ==
    /\ seen \in Seq(PM)
    /\ Len(seen) <= 2
    /\ seen # <<>> => lastRevision # 0

Bookkeeping ==
    /\ TypeOK
    /\ LockHeldOnce
    /\ SpeedKnown
    /\ SampleAtHand
    /\ InactiveIsClean
    /\ QueueConsecutive
    /\ HistoryOK

------------------------------------------------------------------------------
\* Evidence

\* A running timer or a mature target is covered by the last valid sample.
TargetsCovered ==
    \A s \in timers \cup mature : seen # <<>> /\ Last(seen) <= Thresholds[s]

\* The sample an activation will apply is the one it observed.
ActivationObserved ==
    operation = "activating" /\ command.sample # NoSample =>
        seen # <<>> /\ Head(command.sample) = Last(seen)

\* An upshift goes to what the last valid sample requires.
UpshiftMeetsSample ==
    evaluation = "upshift" => seen # <<>> /\ currentSpeed = SpeedForPm(Last(seen))

\* While samples are evaluated there is no downshift on old data in reach: an
\* update that failed meanwhile found nothing lower mature.
StaleHasNoTarget ==
    evaluation = "evaluating" /\ (~pm25Ok \/ waiting) => Eligible = {}

\* The speed readings are counted against: the recorded one, or the one an
\* automatic command comes from.
BaseSpeed ==
    IF evaluation \in {"upshift", "downshift"} THEN command.previous ELSE currentSpeed

\* A counted reading exceeds that speed.
ReadingsExceed ==
    readings # 0 => seen # <<>> /\ SpeedForPm(Last(seen)) > BaseSpeed

Evidence ==
    /\ TargetsCovered
    /\ ActivationObserved
    /\ UpshiftMeetsSample
    /\ DownshiftsCovered
    /\ StaleHasNoTarget
    /\ ReadingsExceed
    /\ UpshiftsConfirmed

------------------------------------------------------------------------------
\* Progress

Work == active /\ isOn /\ pm25Ok /\ ~waiting /\ (samples # <<>> \/ Eligible # {})

\* The evaluator will look at the work there is.
WorkScheduled == Work => evaluation # "none" /\ (evaluation = "scheduled" => pending)

------------------------------------------------------------------------------
\* The policy

\* speed_for_pm finds a speed for every reading: the boundary below it is
\* exceeded and none above it is.
LEMMA SpeedForPmMeets ==
    ASSUME NEW p \in Nat
    PROVE  /\ SpeedForPm(p) \in Speeds
           /\ SpeedForPm(p) = 1 \/ p > Thresholds[SpeedForPm(p) - 1]
           /\ \A u \in Speeds : u > SpeedForPm(p) => p <= Thresholds[u - 1]
<1> USE CustomAutoAssumption
<1> DEFINE Exceeded(s) == s = 1 \/ p > Thresholds[s - 1]
           T == {n \in 0..(TopSpeed - 1) : Exceeded(TopSpeed - n)}
<1>1. TopSpeed - 1 \in T
  OBVIOUS
<1>6. T \in SUBSET Nat
  OBVIOUS
<1> HIDE DEF T
<1>2. PICK n \in T : \A m \in T : n <= m
  BY <1>1, <1>6, LeastExists
<1> USE DEF T
<1> DEFINE s == TopSpeed - n
<1>3. s \in Speeds /\ Exceeded(s)
  BY <1>2 DEF Speeds
<1>4. ASSUME NEW u \in Speeds, u > s
      PROVE  p <= Thresholds[u - 1]
  <2>1. /\ TopSpeed - u \in 0..(TopSpeed - 1) /\ TopSpeed - u < n
        /\ TopSpeed - (TopSpeed - u) = u
    BY <1>4 DEF Speeds
  <2>2. ~Exceeded(u)
    BY <1>2, <2>1
  <2>3. u - 1 \in LowerSpeeds
    BY <2>2 DEF Speeds, LowerSpeeds
  <2>4. Thresholds[u - 1] \in Nat
    BY <2>3
  <2> QED BY <2>2, <2>4
<1> HIDE DEF s
<1>5. \E r \in Speeds : /\ r = 1 \/ p > Thresholds[r - 1]
                        /\ \A u \in Speeds : u > r => p <= Thresholds[u - 1]
  BY <1>3, <1>4
<1> QED BY <1>5 DEF SpeedForPm

\* A reading not above the boundary of a speed needs no more than that speed.
LEMMA SpeedForPmBound ==
    ASSUME NEW p \in Nat, NEW s \in LowerSpeeds, p <= Thresholds[s]
    PROVE  SpeedForPm(p) <= s
<1> USE CustomAutoAssumption
<1> DEFINE r == SpeedForPm(p)
<1>1. /\ r \in Speeds
      /\ r = 1 \/ p > Thresholds[r - 1]
  BY SpeedForPmMeets
<1> HIDE DEF r
<1>6. r \in Nat /\ s \in Nat /\ (r > s => FALSE) => r <= s
  BY <1>1 DEF Speeds, LowerSpeeds
<1>2. SUFFICES ASSUME r > s PROVE FALSE
  BY <1>1, <1>6 DEF r, Speeds, LowerSpeeds
<1>3. r - 1 \in LowerSpeeds /\ s <= r - 1
  BY <1>1, <1>2 DEF Speeds, LowerSpeeds
<1>4. Thresholds[s] <= Thresholds[r - 1]
  <2>1. CASE s = r - 1
    BY <2>1, <1>3
  <2>2. CASE s < r - 1
    BY <2>2, <1>3
  <2> QED BY <2>1, <2>2, <1>3 DEF LowerSpeeds
<1>5. /\ Thresholds[s] \in Nat /\ Thresholds[r - 1] \in Nat
      /\ r # 1
  BY <1>3 DEF LowerSpeeds
<1> QED BY <1>1, <1>4, <1>5

\* The downshift target is the lowest of the eligible ones.
LEMMA LowestEligibleMember ==
    ASSUME TypeOK, Eligible # {}
    PROVE  LowestEligible \in Eligible
<1>3. \A s \in LowerSpeeds : s \in Nat
  BY CustomAutoAssumption DEF LowerSpeeds
<1>4. mature \subseteq LowerSpeeds
  BY DEF TypeOK
<1>1. Eligible \in SUBSET Nat
  BY <1>3, <1>4 DEF Eligible
<1>2. \E s \in Eligible : \A u \in Eligible : s <= u
  BY <1>1, LeastExists
<1> QED BY <1>2 DEF LowestEligible

------------------------------------------------------------------------------
\* Bookkeeping is kept

\* The coordinator's data changed as by a poll that brought a sample, or is the
\* same, possibly of a failed update now.
DataMoved ==
    \/ /\ revision' = revision /\ pm25' = pm25
       /\ pm25Ok' \in {FALSE, pm25Ok}
    \/ /\ revision < MaxRevision /\ revision' = revision + 1
       /\ pm25' \in PM /\ pm25Ok'

LEMMA DataKept ==
    ASSUME Bookkeeping, DataMoved
    PROVE  /\ revision' \in 0..MaxRevision
           /\ pm25' \in PM \cup {0}
           /\ pm25Ok' \in BOOLEAN
           /\ SampleAtHand'
<1> USE CustomAutoAssumption
<1>3. /\ revision \in 0..MaxRevision /\ pm25 \in PM \cup {0} /\ pm25Ok \in BOOLEAN
      /\ pm25Ok => revision # 0 /\ pm25 \in PM
  BY DEF Bookkeeping, TypeOK, SampleAtHand
<1> USE DEF SampleAtHand
<1>1. CASE revision' = revision /\ pm25' = pm25 /\ pm25Ok' \in {FALSE, pm25Ok}
  <2>1. pm25Ok' \in BOOLEAN
    BY <1>1, <1>3
  <2>2. pm25Ok' => pm25Ok
    BY <1>1
  <2>3. SampleAtHand'
    BY <1>1, <1>3, <2>2
  <2> QED BY <1>1, <1>3, <2>1, <2>3
<1>2. CASE /\ revision < MaxRevision /\ revision' = revision + 1
           /\ pm25' \in PM /\ pm25Ok'
  <2>1. pm25Ok' \in BOOLEAN
    BY <1>2
  <2> QED BY <1>2, <1>3, <2>1
<1> QED BY <1>1, <1>2 DEF DataMoved

\* The listener keeps the queue consecutive, whatever it is told.
LEMMA NotifyKeepsQueue ==
    ASSUME Bookkeeping, DataMoved, Notify, lastRevision' = lastRevision
    PROVE  /\ samples' \in Seq(Samples)
           /\ waiting' \in BOOLEAN
           /\ pending' \in BOOLEAN
           /\ QueueConsecutive'
           /\ ~active => UNCHANGED inputVars
<1>0. Bookkeeping /\ DataMoved /\ lastRevision' = lastRevision
  OBVIOUS
<1>1. /\ samples \in Seq(Samples) /\ Len(samples) \in Nat
      /\ revision \in Nat /\ lastRevision \in Nat /\ revision' \in 0..MaxRevision
      /\ waiting \in BOOLEAN /\ pending \in BOOLEAN /\ MaxRevision \in Nat
  BY CustomAutoAssumption, DataKept DEF Bookkeeping, TypeOK
<1>2. ASSUME Hears
      PROVE  /\ samples' \in Seq(Samples)
             /\ waiting' \in BOOLEAN
             /\ pending' \in BOOLEAN
             /\ QueueConsecutive'
  <2>1. active /\ QueueSample /\ waiting' = (waiting /\ ~pm25Ok') /\ pending' = TRUE
    BY <1>2 DEF Notify, Hears
  <2>2. waiting' \in BOOLEAN /\ pending' \in BOOLEAN
    BY <2>1
  <2> DEFINE e == [revision |-> revision', pm25 |-> pm25']
  <2>3. CASE samples' = samples
    <3>1. /\ \A i \in 1..Len(samples) :
                 samples[i].revision = revision - Len(samples) + i
          /\ lastRevision # 0 => lastRevision = revision - Len(samples)
      BY DEF Bookkeeping, QueueConsecutive
    <3>2. revision' = revision
      <4>1. SUFFICES ASSUME /\ revision' = revision + 1
                            /\ pm25' \in PM /\ pm25Ok'
                     PROVE  FALSE
        BY DEF DataMoved
      <4>2. lastRevision # revision'
        BY <1>1, <3>1, <4>1
      <4>3. samples # <<>> => Last(samples).revision # revision'
        <5>1. ASSUME samples # <<>> PROVE Last(samples).revision = revision
          BY <1>1, <3>1, <5>1 DEF Last
        <5> QED BY <5>1, <4>1, <1>1
      <4>4. samples' = Append(samples, e)
        BY <2>1, <4>1, <4>2, <4>3 DEF QueueSample
      <4>5. e \in Samples
        BY <4>1, <1>1 DEF Samples
      <4>6. Len(samples') = Len(samples) + 1
        BY <4>4, <4>5, <1>1, AppendIndex
      <4> QED BY <4>6, <2>3, <1>1
    <3> QED BY <2>2, <2>3, <3>1, <3>2, <1>1 DEF QueueConsecutive
  <2>4. CASE samples' # samples
    <3>1. /\ samples' = Append(samples, e) /\ pm25Ok' /\ revision' # lastRevision
          /\ samples = <<>> \/ Last(samples).revision # revision'
      BY <2>1, <2>4 DEF QueueSample
    <3>9. revision' \in 1..MaxRevision /\ pm25' \in PM
      BY <3>1, <1>1, DataKept DEF SampleAtHand
    <3>2. e \in Samples
      BY <3>9 DEF Samples
    <3>3. /\ \A i \in 1..Len(samples) :
                 samples[i].revision = revision - Len(samples) + i
          /\ lastRevision # 0 => lastRevision = revision - Len(samples)
      BY DEF Bookkeeping, QueueConsecutive
    <3>4. \/ revision' = revision + 1
          \/ revision' = revision /\ samples = <<>> /\ lastRevision = 0
      <4>1. CASE samples # <<>>
        <5>1. Last(samples).revision = revision
          BY <1>1, <3>3, <4>1 DEF Last
        <5> QED BY <5>1, <3>1, <4>1 DEF DataMoved
      <4>2. CASE samples = <<>> /\ lastRevision # 0
        <5>1. lastRevision = revision
          BY <3>3, <4>2, <1>1
        <5> QED BY <5>1, <3>1 DEF DataMoved
      <4> QED BY <4>1, <4>2 DEF DataMoved
    <3>5. /\ samples' \in Seq(Samples)
          /\ Len(samples') = Len(samples) + 1
          /\ \A i \in 1..Len(samples) : samples'[i] = samples[i]
          /\ samples'[Len(samples) + 1] = e
      BY <3>1, <3>2, <1>1, AppendIndex
    <3>6. e.revision = revision'
      OBVIOUS
    <3> HIDE DEF e
    <3>7. \A i \in 1..Len(samples') :
              samples'[i].revision = revision' - Len(samples') + i
      <4>1. CASE revision' = revision + 1
        <5>1. TAKE i \in 1..Len(samples')
        <5>2. CASE i \in 1..Len(samples)
          BY <5>2, <4>1, <3>3, <3>5, <1>1
        <5>3. CASE i = Len(samples) + 1
          BY <5>3, <3>5, <3>6, <1>1
        <5> QED BY <5>2, <5>3, <3>5, <1>1
      <4>2. CASE revision' = revision /\ samples = <<>> /\ lastRevision = 0
        <5>1. Len(samples') = 1 /\ samples'[1].revision = revision
          BY <4>2, <3>5, <3>6
        <5> QED BY <5>1, <4>2, <1>1
      <4> QED BY <3>4, <4>1, <4>2
    <3>8. lastRevision' # 0 => lastRevision' = revision' - Len(samples')
      BY <3>3, <3>4, <3>5, <1>0, <1>1
    <3> QED BY <2>2, <3>5, <3>7, <3>8 DEF QueueConsecutive
  <2> QED BY <2>3, <2>4
<1>3. ASSUME ~Hears
      PROVE  /\ samples' = samples
             /\ waiting' = waiting
             /\ pending' = pending
             /\ QueueConsecutive'
  <2>1. UNCHANGED inputVars
    BY <1>3 DEF Notify
  <2>2. samples' = samples /\ waiting' = waiting /\ pending' = pending
    BY <2>1 DEF inputVars
  <2>3. /\ \A i \in 1..Len(samples) :
               samples[i].revision = revision - Len(samples) + i
        /\ lastRevision # 0 => lastRevision = revision - Len(samples)
    BY DEF Bookkeeping, QueueConsecutive
  <2>4. CASE ~active
    <3>1. samples = <<>> /\ lastRevision = 0
      BY <2>4 DEF Bookkeeping, InactiveIsClean
    <3>2. Len(samples) = 0 /\ samples' = <<>> /\ lastRevision' = 0
      BY <3>1, <2>2, <1>0
    <3> QED BY <3>1, <3>2, <2>2 DEF QueueConsecutive
  <2>5. CASE active
    <3>1. ~pm25Ok'
      BY <2>5, <1>3 DEF Hears
    <3>2. revision' = revision
      BY <3>1 DEF DataMoved
    <3> QED BY <2>2, <2>3, <3>2, <1>0 DEF QueueConsecutive
  <2> QED BY <2>2, <2>4, <2>5
<1>4. ~active => ~Hears
  BY DEF Hears
<1>5. ~Hears => UNCHANGED inputVars
  BY DEF Notify
<1>6. /\ samples' \in Seq(Samples)
      /\ waiting' \in BOOLEAN
      /\ pending' \in BOOLEAN
      /\ QueueConsecutive'
  <2>1. CASE Hears
    BY <2>1, <1>2
  <2>2. CASE ~Hears
    BY <2>2, <1>1, <1>3
  <2> QED BY <2>1, <2>2
<1> QED BY <1>4, <1>5, <1>6

\* Observing a queued or current sample.
LEMMA ObserveKeepsHistory ==
    ASSUME Bookkeeping, NEW sample \in Samples, NEW speed \in Nat,
           Observe(sample, speed)
    PROVE  /\ lastRevision' = sample.revision
           /\ readings' \in 0..2
           /\ confirmation' \in [stage : {"none", "sleeping", "refreshing"},
                                 revision : 0..MaxRevision]
           /\ HistoryOK'
<1>1. /\ sample.revision \in 1..MaxRevision /\ sample.pm25 \in PM
      /\ seen \in Seq(PM) /\ Len(seen) <= 2 /\ Len(seen) \in Nat
      /\ readings \in 0..2
      /\ confirmation \in [stage : {"none", "sleeping", "refreshing"},
                           revision : 0..MaxRevision]
      /\ seen # <<>> => lastRevision # 0
      /\ MaxRevision \in Nat
  BY CustomAutoAssumption DEF Samples, Bookkeeping, TypeOK, HistoryOK
<1>2. CASE sample.revision = lastRevision
  BY <1>1, <1>2 DEF Observe, upshiftVars, HistoryOK
<1>3. CASE sample.revision # lastRevision
  <2> DEFINE s == Append(seen, sample.pm25)
  <2>1. /\ lastRevision' = sample.revision
        /\ seen' = IF Len(s) > 2 THEN Tail(s) ELSE s
        /\ \/ ClearUpshift
           \/ /\ readings' = NextReadings
              /\ confirmation' = IF readings = 0
                                 THEN [stage |-> "sleeping",
                                       revision |-> sample.revision]
                                 ELSE confirmation
    BY <1>3 DEF Observe
  <2>2. /\ s \in Seq(PM) /\ Len(s) = Len(seen) + 1
        /\ Tail(s) \in Seq(PM) /\ Len(Tail(s)) = Len(seen)
    BY <1>1, AppendIndex, TailIndex, EmptySeq
  <2>3. HistoryOK'
    BY <2>1, <2>2, <1>1 DEF HistoryOK
  <2>4. [stage |-> "sleeping", revision |-> sample.revision] \in
            [stage : {"none", "sleeping", "refreshing"}, revision : 0..MaxRevision]
    BY <1>1
  <2>5. /\ readings' \in 0..2
        /\ confirmation' \in [stage : {"none", "sleeping", "refreshing"},
                              revision : 0..MaxRevision]
    <3>1. CASE ClearUpshift
      BY <3>1, <1>1 DEF ClearUpshift, NoConfirmation
    <3>2. CASE /\ readings' = NextReadings
               /\ confirmation' = IF readings = 0
                                  THEN [stage |-> "sleeping",
                                        revision |-> sample.revision]
                                  ELSE confirmation
      BY <3>2, <2>4, <1>1 DEF NextReadings
    <3> QED BY <2>1, <3>1, <3>2
  <2> QED BY <2>1, <2>3, <2>5
<1> QED BY <1>2, <1>3

\* Giving ownership up keeps the books.
LEMMA DeactivateClears ==
    ASSUME Deactivate
    PROVE  /\ active' = FALSE /\ waiting' = FALSE /\ pending' = FALSE
           /\ samples' = <<>> /\ lastRevision' = 0 /\ readings' = 0
           /\ confirmation' = NoConfirmation /\ timers' = {} /\ mature' = {}
           /\ InactiveIsClean' /\ QueueConsecutive' /\ HistoryOK'
<1>1. /\ active' = FALSE /\ waiting' = FALSE /\ pending' = FALSE
      /\ samples' = <<>> /\ lastRevision' = 0 /\ readings' = 0 /\ seen' = <<>>
      /\ confirmation' = NoConfirmation /\ timers' = {} /\ mature' = {}
  BY DEF Deactivate, ClearUpshift
<1>2. Len(samples') = 0 /\ Len(seen') = 0 /\ seen' \in Seq(PM)
  BY <1>1
<1> QED BY <1>1, <1>2 DEF InactiveIsClean, QueueConsecutive, HistoryOK

\* What TypeOK says of the timers' sets, after a sample was applied to them.
LEMMA TimersKeepType ==
    ASSUME Bookkeeping, NEW value, UpdateDownshiftTimers(value)
    PROVE  timers' \subseteq LowerSpeeds /\ mature' \subseteq LowerSpeeds \ timers'
  BY DEF Bookkeeping, TypeOK, UpdateDownshiftTimers

\* The head of the queue is the sample after the one observed last.
LEMMA NextSample ==
    ASSUME Bookkeeping, samples # <<>>
    PROVE  /\ Head(samples) \in Samples
           /\ Head(samples).revision # lastRevision
           /\ Head(samples).revision = revision - Len(Tail(samples))
<1>1. /\ samples \in Seq(Samples) /\ revision \in Nat /\ lastRevision \in Nat
      /\ \A i \in 1..Len(samples) :
             samples[i].revision = revision - Len(samples) + i
      /\ lastRevision # 0 => lastRevision = revision - Len(samples)
  <2>1. TypeOK /\ QueueConsecutive
    BY DEF Bookkeeping
  <2>2. /\ samples \in Seq(Samples) /\ revision \in 0..MaxRevision
        /\ lastRevision \in 0..MaxRevision
    BY ONLY <2>1, Zenon DEF TypeOK
  <2>3. revision \in Nat /\ lastRevision \in Nat
    BY ONLY <2>2, CustomAutoAssumption
  <2> QED BY ONLY <2>1, <2>2, <2>3, Zenon DEF QueueConsecutive
<1>2. /\ Len(samples) \in Nat \ {0} /\ Head(samples) = samples[1]
      /\ Head(samples) \in Samples /\ Len(Tail(samples)) = Len(samples) - 1
  <2>1. samples \in Seq(Samples) /\ samples # <<>>
    BY <1>1
  <2> QED BY ONLY <2>1, TailIndex
<1>3. Head(samples).revision = revision - Len(samples) + 1
  BY <1>1, <1>2
<1>4. Head(samples).revision # 0
  BY <1>2 DEF Samples
<1> QED BY <1>1, <1>2, <1>3, <1>4

LEMMA EvaluateSampleKeepsBooks ==
    ASSUME Bookkeeping, EvaluateSample
    PROVE  Bookkeeping'
<1> USE CustomAutoAssumption
<1> DEFINE sample == Head(samples)
<1>1. /\ evaluation = "evaluating" /\ samples # <<>> /\ samples' = Tail(samples)
      /\ UpdateDownshiftTimers(sample.pm25)
      /\ Observe(sample, currentSpeed)
      /\ UNCHANGED <<active, waiting, pending, operation, coordinatorVars>>
  BY DEF EvaluateSample
<1>2. /\ sample \in Samples
      /\ sample.revision # lastRevision
      /\ sample.revision = revision - Len(samples')
  BY <1>1, NextSample
<1>3. /\ active /\ operation = "none" /\ currentSpeed \in Nat /\ currentSpeed # NoSpeed
  BY <1>1 DEF Bookkeeping, TypeOK, LockHeldOnce, SpeedKnown, Evaluating
<1> HIDE DEF sample
<1>4. /\ lastRevision' = sample.revision
      /\ readings' \in 0..2
      /\ confirmation' \in [stage : {"none", "sleeping", "refreshing"},
                            revision : 0..MaxRevision]
      /\ HistoryOK'
  BY <1>1, <1>2, <1>3, ObserveKeepsHistory
<1>5. \/ UNCHANGED <<currentSpeed, command, evaluation>>
      \/ /\ currentSpeed' = SpeedForPm(sample.pm25)
         /\ command' = [speed |-> currentSpeed', previous |-> currentSpeed,
                        sample |-> NoSample]
         /\ evaluation' = "upshift"
  BY DEF EvaluateSample, SetSpeed, sample
<1>6. SpeedForPm(sample.pm25) \in Speeds
  BY <1>2, SpeedForPmMeets DEF Samples
<1>7. /\ currentSpeed' \in 0..TopSpeed /\ currentSpeed' # NoSpeed
      /\ command' \in [speed : 0..TopSpeed, previous : 0..TopSpeed,
                       sample : {NoSample} \cup {<<q>> : q \in PM}]
      /\ evaluation' \in {"evaluating", "upshift"}
      /\ evaluation' = "upshift" => command'.previous # NoSpeed
  <2>1. CASE UNCHANGED <<currentSpeed, command, evaluation>>
    BY <2>1, <1>1, <1>3 DEF Bookkeeping, TypeOK
  <2>2. CASE /\ currentSpeed' = SpeedForPm(sample.pm25)
             /\ command' = [speed |-> currentSpeed', previous |-> currentSpeed,
                            sample |-> NoSample]
             /\ evaluation' = "upshift"
    <3>1. currentSpeed' \in 0..TopSpeed /\ currentSpeed' # NoSpeed
      BY <2>2, <1>6 DEF Speeds, NoSpeed
    <3>2. currentSpeed \in 0..TopSpeed
      BY DEF Bookkeeping, TypeOK
    <3>3. command' \in [speed : 0..TopSpeed, previous : 0..TopSpeed,
                        sample : {NoSample} \cup {<<q>> : q \in PM}]
      BY <2>2, <3>1, <3>2
    <3> QED BY <2>2, <1>3, <3>1, <3>3
  <2> QED BY <1>5, <2>1, <2>2
<1>8. /\ samples' \in Seq(Samples)
      /\ Len(samples') = Len(samples) - 1 /\ Len(samples) \in Nat \ {0}
      /\ \A i \in 1..Len(samples') : samples'[i] = samples[i + 1]
  BY <1>1, TailIndex DEF Bookkeeping, TypeOK
<1>9. TypeOK'
  <2>1. timers' \subseteq LowerSpeeds /\ mature' \subseteq LowerSpeeds \ timers'
    BY <1>1, TimersKeepType
  <2>2. lastRevision' \in 0..MaxRevision
    BY <1>2, <1>4 DEF Samples
  <2> QED BY <1>1, <1>4, <1>7, <1>8, <2>1, <2>2
     DEF coordinatorVars, Bookkeeping, TypeOK, Evaluations, Evaluating
<1>10. LockHeldOnce' /\ SpeedKnown'
  BY <1>1, <1>3, <1>7 DEF LockHeldOnce, SpeedKnown
<1>11. SampleAtHand'
  BY <1>1 DEF coordinatorVars, Bookkeeping, SampleAtHand
<1>12. InactiveIsClean'
  BY <1>1, <1>3 DEF InactiveIsClean
<1>13. QueueConsecutive'
  <2>1. revision' = revision /\ revision \in Nat
    BY <1>1 DEF coordinatorVars, Bookkeeping, TypeOK
  <2>2. \A i \in 1..Len(samples) : samples[i].revision = revision - Len(samples) + i
    BY DEF Bookkeeping, QueueConsecutive
  <2>3. \A i \in 1..Len(samples') :
            samples'[i].revision = revision - Len(samples') + i
    <3>1. TAKE i \in 1..Len(samples')
    <3>2. i + 1 \in 1..Len(samples) /\ samples'[i] = samples[i + 1]
      BY <1>8
    <3>3. samples[i + 1].revision = revision - Len(samples) + (i + 1)
      BY <3>2, <2>2
    <3> QED BY <3>2, <3>3, <2>1, <1>8
  <2> QED BY <2>1, <2>3, <1>2, <1>4 DEF QueueConsecutive
<1> QED BY <1>4, <1>9, <1>10, <1>11, <1>12, <1>13 DEF Bookkeeping

\* An activation of a controller that was clean.
LEMMA ActivateKeepsBooks ==
    ASSUME Bookkeeping, NEW restored \in 0..TopSpeed, NEW force \in BOOLEAN,
           NEW mode \in 0..TopSpeed, Activate(restored, force, mode)
    PROVE  Bookkeeping'
<1> USE CustomAutoAssumption
<1> DEFINE speed == IF restored # NoSpeed THEN restored
                    ELSE IF currentSpeed # NoSpeed THEN currentSpeed
                    ELSE IF mode # 0 THEN mode ELSE 1
           sample == [revision |-> revision, pm25 |-> pm25]
           upshift == pm25Ok /\ Confirmed(sample, speed)
           target == IF upshift THEN SpeedForPm(pm25) ELSE speed
<1>1. /\ LockFree /\ ~active /\ active' = TRUE /\ waiting' = ~pm25Ok
      /\ currentSpeed' = target
      /\ IF pm25Ok THEN Observe(sample, speed) ELSE UNCHANGED upshiftVars
      /\ \/ /\ IF pm25Ok THEN UpdateDownshiftTimers(pm25)
                         ELSE UNCHANGED downshiftVars
            /\ UNCHANGED <<operation, command>>
         \/ /\ operation' = "activating"
            /\ command' = [speed |-> target, previous |-> currentSpeed,
                           sample |-> IF pm25Ok THEN <<pm25>> ELSE NoSample]
            /\ UNCHANGED downshiftVars
      /\ UNCHANGED <<samples, pending, evaluation, coordinatorVars>>
  BY DEF Activate
<1>2. /\ speed \in 1..TopSpeed /\ currentSpeed \in 0..TopSpeed
  BY DEF Bookkeeping, TypeOK, NoSpeed
<1>3. pm25Ok => sample \in Samples /\ pm25 \in PM /\ pm25 \in Nat
  <2>1. SUFFICES ASSUME pm25Ok PROVE sample \in Samples /\ pm25 \in PM /\ pm25 \in Nat
    OBVIOUS
  <2>2. revision \in 1..MaxRevision /\ pm25 \in PM
    BY <2>1 DEF Bookkeeping, TypeOK, SampleAtHand
  <2> QED BY <2>2 DEF Samples
<1>4. target \in 1..TopSpeed
  BY <1>2, <1>3, SpeedForPmMeets DEF Speeds
<1>14. sample.revision = revision
  OBVIOUS
<1>15. upshift => pm25Ok
  OBVIOUS
<1> HIDE DEF speed, sample, upshift, target
<1>5. /\ samples = <<>> /\ lastRevision = 0 /\ readings = 0 /\ seen \in Seq(PM)
      /\ Len(seen) <= 2 /\ confirmation = NoConfirmation /\ timers = {} /\ mature = {}
      /\ seen = <<>> /\ ~pending
  BY <1>1 DEF Bookkeeping, InactiveIsClean, HistoryOK
<1>6. /\ lastRevision' \in 0..MaxRevision
      /\ pm25Ok => lastRevision' = revision
      /\ ~pm25Ok => lastRevision' = 0
      /\ readings' \in 0..2
      /\ confirmation' \in [stage : {"none", "sleeping", "refreshing"},
                            revision : 0..MaxRevision]
      /\ HistoryOK'
  <2>1. CASE pm25Ok
    <3>1. /\ lastRevision' = sample.revision
          /\ readings' \in 0..2
          /\ confirmation' \in [stage : {"none", "sleeping", "refreshing"},
                                revision : 0..MaxRevision]
          /\ HistoryOK'
      BY <2>1, <1>1, <1>2, <1>3, ObserveKeepsHistory
    <3> QED BY <3>1, <2>1, <1>14 DEF Bookkeeping, TypeOK
  <2>2. CASE ~pm25Ok
    <3>1. UNCHANGED upshiftVars
      BY <2>2, <1>1
    <3> QED BY <3>1, <2>2, <1>5
       DEF upshiftVars, Bookkeeping, TypeOK, HistoryOK
  <2> QED BY <2>1, <2>2
<1>7. command' \in [speed : 0..TopSpeed, previous : 0..TopSpeed,
                    sample : {NoSample} \cup {<<q>> : q \in PM}]
  <2> DEFINE s == IF pm25Ok THEN <<pm25>> ELSE NoSample
  <2>1. s \in {NoSample} \cup {<<q>> : q \in PM}
    BY <1>3
  <2>2. \/ UNCHANGED command
        \/ command' = [speed |-> target, previous |-> currentSpeed, sample |-> s]
    BY <1>1
  <2> HIDE DEF s
  <2>3. target \in 0..TopSpeed
    BY <1>4
  <2> QED BY <2>1, <2>2, <2>3, <1>2 DEF Bookkeeping, TypeOK
<1>8. timers' \subseteq LowerSpeeds /\ mature' \subseteq LowerSpeeds \ timers'
  BY <1>1, TimersKeepType DEF downshiftVars, Bookkeeping, TypeOK
<1>16. waiting' \in BOOLEAN
  BY <1>1 DEF Bookkeeping, TypeOK
<1>9. TypeOK'
  BY <1>1, <1>4, <1>6, <1>7, <1>8, <1>16
  DEF coordinatorVars, Bookkeeping, TypeOK, Operations
<1>10. LockHeldOnce' /\ SpeedKnown' /\ SampleAtHand' /\ InactiveIsClean'
  BY <1>1, <1>4
  DEF coordinatorVars, Bookkeeping, LockFree, Evaluating, LockHeldOnce, SpeedKnown,
      SampleAtHand, InactiveIsClean, NoSpeed
<1>11. QueueConsecutive'
  <2>1. samples' = <<>> /\ Len(samples') = 0 /\ revision' = revision /\ revision \in Nat
    BY <1>1, <1>5 DEF coordinatorVars, Bookkeeping, TypeOK
  <2> QED BY <2>1, <1>6 DEF QueueConsecutive
<1> QED BY <1>6, <1>9, <1>10, <1>11 DEF Bookkeeping

\* Every step keeps the books.
LEMMA BookkeepingStep ==
    ASSUME Bookkeeping, [Next]_vars
    PROVE  Bookkeeping'
<1> USE CustomAutoAssumption DEF NoSpeed, NoSample, NoCommand, NoConfirmation, Evaluating,
            Evaluations, Operations, LockFree
<1>1. ASSUME EvaluationStarts PROVE Bookkeeping'
  <2>1. TypeOK'
    BY <1>1
    DEF EvaluationStarts, policyVars, coordinatorVars, upshiftVars, downshiftVars,
        Bookkeeping, TypeOK
  <2>2. LockHeldOnce' /\ SpeedKnown' /\ SampleAtHand'
    BY <1>1
    DEF EvaluationStarts, policyVars, coordinatorVars, upshiftVars, downshiftVars,
        Bookkeeping, LockHeldOnce, SpeedKnown, SampleAtHand, TypeOK
  <2>3. InactiveIsClean'
    BY <1>1
    DEF EvaluationStarts, policyVars, coordinatorVars, upshiftVars, downshiftVars,
        Bookkeeping, InactiveIsClean, LockHeldOnce, TypeOK
  <2>4. QueueConsecutive' /\ HistoryOK'
    BY <1>1
    DEF EvaluationStarts, policyVars, coordinatorVars, upshiftVars, downshiftVars,
        Bookkeeping, QueueConsecutive, InactiveIsClean, HistoryOK, TypeOK
  <2> QED BY <2>1, <2>2, <2>3, <2>4 DEF Bookkeeping
<1>2. ASSUME EvaluationLocks PROVE Bookkeeping'
  <2>1. TypeOK'
    <3>1. CASE Deactivate /\ evaluation' = NextRound
      BY <1>2, <3>1, DeactivateClears
      DEF EvaluationLocks, NextRound, coordinatorVars, Bookkeeping, TypeOK
    <3>2. CASE /\ evaluation' \in {"none", "evaluating", NextRound}
               /\ UNCHANGED <<active, inputVars, policyVars>>
      BY <1>2, <3>2
      DEF EvaluationLocks, NextRound, coordinatorVars, inputVars, policyVars,
          upshiftVars, downshiftVars, Bookkeeping, TypeOK
    <3> QED BY <1>2, <3>1, <3>2 DEF EvaluationLocks
  <2>2. LockHeldOnce' /\ SpeedKnown' /\ SampleAtHand'
    BY <1>2, DeactivateClears
    DEF EvaluationLocks, inputVars, policyVars, NextRound, coordinatorVars,
        upshiftVars, downshiftVars, Deactivate, Bookkeeping, LockHeldOnce,
        SpeedKnown, SampleAtHand, TypeOK
  <2>3. InactiveIsClean'
    <3>1. CASE Deactivate
      BY <3>1, DeactivateClears
    <3>2. CASE UNCHANGED <<active, inputVars, policyVars>>
      BY <1>2, <3>2
      DEF inputVars, policyVars, upshiftVars, downshiftVars, Bookkeeping, InactiveIsClean
    <3> QED BY <1>2, <3>1, <3>2 DEF EvaluationLocks
  <2>4. QueueConsecutive' /\ HistoryOK'
    BY <1>2, DeactivateClears
    DEF EvaluationLocks, inputVars, policyVars, NextRound, coordinatorVars,
        upshiftVars, downshiftVars, Bookkeeping, QueueConsecutive, InactiveIsClean,
        HistoryOK, TypeOK
  <2> QED BY <2>1, <2>2, <2>3, <2>4 DEF Bookkeeping
<1>3. ASSUME EvaluateDownshift PROVE Bookkeeping'
  <2>1. TypeOK'
    <3>1. CASE Eligible # {}
      <4>3. LowestEligible \in mature /\ mature \subseteq LowerSpeeds
        BY <3>1, LowestEligibleMember DEF Eligible, Bookkeeping, TypeOK
      <4>1. LowestEligible \in 0..TopSpeed /\ currentSpeed \in 0..TopSpeed
        BY <4>3 DEF LowerSpeeds, Bookkeeping, TypeOK
      <4>2. command' \in [speed : 0..TopSpeed, previous : 0..TopSpeed,
                          sample : {NoSample} \cup {<<q>> : q \in PM}]
        BY <1>3, <3>1, <4>1 DEF EvaluateDownshift, SetSpeed
      <4> QED BY <1>3, <3>1, <4>1, <4>2
         DEF EvaluateDownshift, SetSpeed, inputVars, policyVars, upshiftVars,
             downshiftVars, coordinatorVars, Bookkeeping, TypeOK
    <3>2. CASE Eligible = {}
      BY <1>3, <3>2
      DEF EvaluateDownshift, NextRound, inputVars, policyVars, upshiftVars,
          downshiftVars, coordinatorVars, Bookkeeping, TypeOK
    <3> QED BY <3>1, <3>2
  <2>2. LockHeldOnce' /\ SampleAtHand'
    BY <1>3
    DEF EvaluateDownshift, Eligible, SetSpeed, NextRound, inputVars, policyVars,
        coordinatorVars, upshiftVars, downshiftVars, Bookkeeping, LockHeldOnce,
        SampleAtHand, TypeOK
  <2>3. SpeedKnown'
    <3>1. active /\ currentSpeed # NoSpeed
      BY <1>3 DEF EvaluateDownshift, Bookkeeping, LockHeldOnce, SpeedKnown
    <3>2. CASE Eligible # {}
      <4>1. LowestEligible # NoSpeed
        BY <3>2, LowestEligibleMember DEF Eligible, LowerSpeeds, Bookkeeping, TypeOK
      <4>2. currentSpeed' = LowestEligible /\ command'.previous = currentSpeed
        BY <1>3, <3>2 DEF EvaluateDownshift, SetSpeed
      <4> QED BY <3>1, <4>1, <4>2 DEF SpeedKnown
    <3>3. CASE Eligible = {}
      BY <1>3, <3>1, <3>3 DEF EvaluateDownshift, NextRound, SpeedKnown
    <3> QED BY <3>2, <3>3
  <2>4. InactiveIsClean'
    BY <1>3
    DEF EvaluateDownshift, Eligible, SetSpeed, NextRound, inputVars, policyVars,
        coordinatorVars, upshiftVars, downshiftVars, Bookkeeping, InactiveIsClean,
        LockHeldOnce, TypeOK
  <2>5. QueueConsecutive' /\ HistoryOK'
    BY <1>3
    DEF EvaluateDownshift, Eligible, SetSpeed, NextRound, inputVars, policyVars,
        coordinatorVars, upshiftVars, downshiftVars, Bookkeeping, QueueConsecutive,
        InactiveIsClean, HistoryOK, TypeOK
  <2> QED BY <2>1, <2>2, <2>3, <2>4, <2>5 DEF Bookkeeping
<1>4. ASSUME AutomaticCommandSucceeds PROVE Bookkeeping'
  <2>1. TypeOK'
    <3>1. isOn' \in BOOLEAN
      BY <1>4 DEF AutomaticCommandSucceeds, Published, coordinatorVars, Bookkeeping, TypeOK
    <3>2. NoCommand \in [speed : 0..TopSpeed, previous : 0..TopSpeed,
                         sample : {NoSample} \cup {<<q>> : q \in PM}]
      BY DEF NoCommand
    <3>3. DataMoved /\ Notify /\ lastRevision' = lastRevision
      BY <1>4 DEF AutomaticCommandSucceeds, Published, policyVars, upshiftVars, DataMoved
    <3>4. /\ samples' \in Seq(Samples) /\ waiting' \in BOOLEAN /\ pending' \in BOOLEAN
          /\ revision' \in 0..MaxRevision /\ pm25' \in PM \cup {0}
          /\ pm25Ok' \in BOOLEAN
      BY <3>3, NotifyKeepsQueue, DataKept
    <3> QED BY <1>4, <3>1, <3>2, <3>4
       DEF AutomaticCommandSucceeds, ClearUpshift, NextRound, downshiftVars,
           Bookkeeping, TypeOK
  <2>2. LockHeldOnce' /\ SpeedKnown' /\ SampleAtHand'
    BY <1>4, NotifyKeepsQueue, DataKept
    DEF AutomaticCommandSucceeds, Published, ClearUpshift, NextRound, downshiftVars,
        DataMoved, Bookkeeping, LockHeldOnce, SpeedKnown, SampleAtHand, TypeOK
  <2>3. InactiveIsClean'
    BY <1>4, NotifyKeepsQueue, DataKept
    DEF AutomaticCommandSucceeds, Published, ClearUpshift, NextRound, downshiftVars,
        DataMoved, Bookkeeping, InactiveIsClean, LockHeldOnce, TypeOK
  <2>4. QueueConsecutive' /\ HistoryOK'
    BY <1>4, NotifyKeepsQueue, DataKept
    DEF AutomaticCommandSucceeds, Published, ClearUpshift, NextRound, downshiftVars,
        DataMoved, Bookkeeping, QueueConsecutive, InactiveIsClean, HistoryOK, TypeOK
  <2> QED BY <2>1, <2>2, <2>3, <2>4 DEF Bookkeeping
<1>5. ASSUME AutomaticCommandFails PROVE Bookkeeping'
  <2>1. TypeOK'
    <3>1. NoCommand \in [speed : 0..TopSpeed, previous : 0..TopSpeed,
                         sample : {NoSample} \cup {<<q>> : q \in PM}]
      BY DEF NoCommand
    <3>2. command.previous \in 0..TopSpeed
      BY DEF Bookkeeping, TypeOK
    <3> QED BY <1>5, <3>1, <3>2
       DEF AutomaticCommandFails, policyVars, upshiftVars, downshiftVars,
           coordinatorVars, Bookkeeping, TypeOK
  <2>2. LockHeldOnce' /\ SpeedKnown' /\ SampleAtHand'
    BY <1>5
    DEF AutomaticCommandFails, policyVars, coordinatorVars, upshiftVars,
        downshiftVars, Bookkeeping, LockHeldOnce, SpeedKnown, SampleAtHand, TypeOK
  <2>3. InactiveIsClean'
    BY <1>5
    DEF AutomaticCommandFails, policyVars, coordinatorVars, upshiftVars,
        downshiftVars, Bookkeeping, InactiveIsClean, LockHeldOnce, TypeOK
  <2>4. QueueConsecutive' /\ HistoryOK'
    BY <1>5
    DEF AutomaticCommandFails, policyVars, coordinatorVars, upshiftVars,
        downshiftVars, Bookkeeping, QueueConsecutive, InactiveIsClean, HistoryOK,
        TypeOK
  <2> QED BY <2>1, <2>2, <2>3, <2>4 DEF Bookkeeping
<1>6. ASSUME EvaluationFails PROVE Bookkeeping'
  <2>1. TypeOK'
    BY <1>6
    DEF EvaluationFails, policyVars, coordinatorVars, upshiftVars, downshiftVars,
        Bookkeeping, TypeOK
  <2>2. LockHeldOnce' /\ SpeedKnown' /\ SampleAtHand'
    BY <1>6
    DEF EvaluationFails, policyVars, coordinatorVars, upshiftVars, downshiftVars,
        Bookkeeping, LockHeldOnce, SpeedKnown, SampleAtHand, TypeOK
  <2>3. InactiveIsClean'
    BY <1>6
    DEF EvaluationFails, policyVars, coordinatorVars, upshiftVars, downshiftVars,
        Bookkeeping, InactiveIsClean, LockHeldOnce, TypeOK
  <2>4. QueueConsecutive' /\ HistoryOK'
    BY <1>6
    DEF EvaluationFails, policyVars, coordinatorVars, upshiftVars, downshiftVars,
        Bookkeeping, QueueConsecutive, InactiveIsClean, HistoryOK, TypeOK
  <2> QED BY <2>1, <2>2, <2>3, <2>4 DEF Bookkeeping
<1>7. ASSUME ActivationSucceeds PROVE Bookkeeping'
  <2>1. TypeOK'
    <3>1. isOn' \in BOOLEAN
      BY <1>7 DEF ActivationSucceeds, Published, coordinatorVars, Bookkeeping, TypeOK
    <3>2. NoCommand \in [speed : 0..TopSpeed, previous : 0..TopSpeed,
                         sample : {NoSample} \cup {<<q>> : q \in PM}]
      BY DEF NoCommand
    <3>3. DataMoved /\ Notify /\ lastRevision' = lastRevision
      BY <1>7 DEF ActivationSucceeds, Published, policyVars, upshiftVars, DataMoved
    <3>4. /\ samples' \in Seq(Samples) /\ waiting' \in BOOLEAN /\ pending' \in BOOLEAN
          /\ revision' \in 0..MaxRevision /\ pm25' \in PM \cup {0}
          /\ pm25Ok' \in BOOLEAN
      BY <3>3, NotifyKeepsQueue, DataKept
    <3>5. timers' \subseteq LowerSpeeds /\ mature' \subseteq LowerSpeeds \ timers'
      BY <1>7, TimersKeepType
      DEF ActivationSucceeds, downshiftVars, Bookkeeping, TypeOK
    <3>6. evaluation' \in Evaluations
      BY <1>7 DEF ActivationSucceeds, AfterNotify, Scheduled, Bookkeeping, TypeOK
    <3> QED BY <1>7, <3>1, <3>2, <3>4, <3>5, <3>6
       DEF ActivationSucceeds, upshiftVars, Bookkeeping, TypeOK
  <2>2. LockHeldOnce' /\ SpeedKnown' /\ SampleAtHand'
    BY <1>7, NotifyKeepsQueue, DataKept
    DEF ActivationSucceeds, Published, AfterNotify, downshiftVars, upshiftVars,
        Scheduled, DataMoved, Bookkeeping, LockHeldOnce, SpeedKnown, SampleAtHand,
        TypeOK
  <2>3. InactiveIsClean'
    BY <1>7, NotifyKeepsQueue, DataKept
    DEF ActivationSucceeds, Published, AfterNotify, downshiftVars, upshiftVars,
        Scheduled, DataMoved, Bookkeeping, InactiveIsClean, LockHeldOnce, TypeOK
  <2>4. QueueConsecutive' /\ HistoryOK'
    BY <1>7, NotifyKeepsQueue, DataKept
    DEF ActivationSucceeds, Published, AfterNotify, downshiftVars, upshiftVars,
        Scheduled, DataMoved, Bookkeeping, QueueConsecutive, InactiveIsClean,
        HistoryOK, TypeOK
  <2> QED BY <2>1, <2>2, <2>3, <2>4 DEF Bookkeeping
<1>8. ASSUME Reassert PROVE Bookkeeping'
  <2>1. TypeOK'
    BY <1>8
    DEF Reassert, inputVars, policyVars, coordinatorVars, upshiftVars,
        downshiftVars, Bookkeeping, TypeOK
  <2>2. LockHeldOnce' /\ SpeedKnown' /\ SampleAtHand'
    BY <1>8
    DEF Reassert, inputVars, policyVars, coordinatorVars, upshiftVars,
        downshiftVars, Bookkeeping, LockHeldOnce, SpeedKnown, SampleAtHand, TypeOK
  <2>3. InactiveIsClean'
    BY <1>8
    DEF Reassert, inputVars, policyVars, coordinatorVars, upshiftVars,
        downshiftVars, Bookkeeping, InactiveIsClean, LockHeldOnce, TypeOK
  <2>4. QueueConsecutive' /\ HistoryOK'
    BY <1>8
    DEF Reassert, inputVars, policyVars, coordinatorVars, upshiftVars,
        downshiftVars, Bookkeeping, QueueConsecutive, InactiveIsClean, HistoryOK,
        TypeOK
  <2> QED BY <2>1, <2>2, <2>3, <2>4 DEF Bookkeeping
<1>9. ASSUME ReassertSucceeds PROVE Bookkeeping'
  <2>1. TypeOK'
    <3>1. isOn' \in BOOLEAN
      BY <1>9 DEF ReassertSucceeds, Published, coordinatorVars, Bookkeeping, TypeOK
    <3>2. NoCommand \in [speed : 0..TopSpeed, previous : 0..TopSpeed,
                         sample : {NoSample} \cup {<<q>> : q \in PM}]
      BY DEF NoCommand
    <3>3. DataMoved /\ Notify /\ lastRevision' = lastRevision
      BY <1>9 DEF ReassertSucceeds, Published, policyVars, upshiftVars, DataMoved
    <3>4. /\ samples' \in Seq(Samples) /\ waiting' \in BOOLEAN /\ pending' \in BOOLEAN
          /\ revision' \in 0..MaxRevision /\ pm25' \in PM \cup {0}
          /\ pm25Ok' \in BOOLEAN
      BY <3>3, NotifyKeepsQueue, DataKept
    <3>5. evaluation' \in Evaluations
      BY <1>9 DEF ReassertSucceeds, AfterNotify, Scheduled, Bookkeeping, TypeOK
    <3> QED BY <1>9, <3>1, <3>2, <3>4, <3>5
       DEF ReassertSucceeds, policyVars, upshiftVars, downshiftVars, Bookkeeping, TypeOK
  <2>2. LockHeldOnce' /\ SpeedKnown' /\ SampleAtHand'
    BY <1>9, NotifyKeepsQueue, DataKept
    DEF ReassertSucceeds, Published, AfterNotify, policyVars, Scheduled,
        upshiftVars, downshiftVars, DataMoved, Bookkeeping, LockHeldOnce,
        SpeedKnown, SampleAtHand, TypeOK
  <2>3. InactiveIsClean'
    BY <1>9, NotifyKeepsQueue, DataKept
    DEF ReassertSucceeds, Published, AfterNotify, policyVars, Scheduled,
        upshiftVars, downshiftVars, DataMoved, Bookkeeping, InactiveIsClean,
        LockHeldOnce, TypeOK
  <2>4. QueueConsecutive' /\ HistoryOK'
    BY <1>9, NotifyKeepsQueue, DataKept
    DEF ReassertSucceeds, Published, AfterNotify, policyVars, Scheduled,
        upshiftVars, downshiftVars, DataMoved, Bookkeeping, QueueConsecutive,
        InactiveIsClean, HistoryOK, TypeOK
  <2> QED BY <2>1, <2>2, <2>3, <2>4 DEF Bookkeeping
<1>10. ASSUME ActivationFails PROVE Bookkeeping'
  <2>1. TypeOK'
    BY <1>10, DeactivateClears
    DEF ActivationFails, coordinatorVars, Bookkeeping, TypeOK
  <2>2. LockHeldOnce' /\ SpeedKnown' /\ SampleAtHand'
    BY <1>10, DeactivateClears
    DEF ActivationFails, coordinatorVars, Deactivate, Bookkeeping, LockHeldOnce,
        SpeedKnown, SampleAtHand, TypeOK
  <2>3. InactiveIsClean'
    BY <1>10, DeactivateClears
    DEF ActivationFails, coordinatorVars, Bookkeeping, InactiveIsClean,
        LockHeldOnce, TypeOK
  <2>4. QueueConsecutive' /\ HistoryOK'
    BY <1>10, DeactivateClears
    DEF ActivationFails, coordinatorVars, Bookkeeping, QueueConsecutive,
        InactiveIsClean, HistoryOK, TypeOK
  <2> QED BY <2>1, <2>2, <2>3, <2>4 DEF Bookkeeping
<1>11. ASSUME Handoff PROVE Bookkeeping'
  <2>1. TypeOK'
    BY <1>11
    DEF Handoff, inputVars, policyVars, coordinatorVars, upshiftVars, downshiftVars,
        Bookkeeping, TypeOK
  <2>2. LockHeldOnce' /\ SpeedKnown' /\ SampleAtHand'
    BY <1>11
    DEF Handoff, inputVars, policyVars, coordinatorVars, upshiftVars, downshiftVars,
        Bookkeeping, LockHeldOnce, SpeedKnown, SampleAtHand, TypeOK
  <2>3. InactiveIsClean'
    BY <1>11
    DEF Handoff, inputVars, policyVars, coordinatorVars, upshiftVars, downshiftVars,
        Bookkeeping, InactiveIsClean, LockHeldOnce, TypeOK
  <2>4. QueueConsecutive' /\ HistoryOK'
    BY <1>11
    DEF Handoff, inputVars, policyVars, coordinatorVars, upshiftVars, downshiftVars,
        Bookkeeping, QueueConsecutive, InactiveIsClean, HistoryOK, TypeOK
  <2> QED BY <2>1, <2>2, <2>3, <2>4 DEF Bookkeeping
<1>12. ASSUME HandoffSucceeds PROVE Bookkeeping'
  <2>1. TypeOK'
    BY <1>12, DeactivateClears
    DEF HandoffSucceeds, AfterNotify, Scheduled, Bookkeeping, TypeOK
  <2>2. LockHeldOnce' /\ SpeedKnown' /\ SampleAtHand'
    BY <1>12, DeactivateClears
    DEF HandoffSucceeds, AfterNotify, Scheduled, Deactivate, Bookkeeping,
        LockHeldOnce, SpeedKnown, SampleAtHand, TypeOK
  <2>3. InactiveIsClean'
    BY <1>12, DeactivateClears
    DEF HandoffSucceeds, AfterNotify, Scheduled, Bookkeeping, InactiveIsClean,
        LockHeldOnce, TypeOK
  <2>4. QueueConsecutive' /\ HistoryOK'
    BY <1>12, DeactivateClears
    DEF HandoffSucceeds, AfterNotify, Scheduled, Bookkeeping, QueueConsecutive,
        InactiveIsClean, HistoryOK, TypeOK
  <2> QED BY <2>1, <2>2, <2>3, <2>4 DEF Bookkeeping
<1>13. ASSUME HandoffFails PROVE Bookkeeping'
  <2>1. TypeOK'
    BY <1>13
    DEF HandoffFails, inputVars, policyVars, coordinatorVars, upshiftVars,
        downshiftVars, Bookkeeping, TypeOK
  <2>2. LockHeldOnce' /\ SpeedKnown' /\ SampleAtHand'
    BY <1>13
    DEF HandoffFails, inputVars, policyVars, coordinatorVars, upshiftVars,
        downshiftVars, Bookkeeping, LockHeldOnce, SpeedKnown, SampleAtHand, TypeOK
  <2>3. InactiveIsClean'
    BY <1>13
    DEF HandoffFails, inputVars, policyVars, coordinatorVars, upshiftVars,
        downshiftVars, Bookkeeping, InactiveIsClean, LockHeldOnce, TypeOK
  <2>4. QueueConsecutive' /\ HistoryOK'
    BY <1>13
    DEF HandoffFails, inputVars, policyVars, coordinatorVars, upshiftVars,
        downshiftVars, Bookkeeping, QueueConsecutive, InactiveIsClean, HistoryOK,
        TypeOK
  <2> QED BY <2>1, <2>2, <2>3, <2>4 DEF Bookkeeping
<1>14. ASSUME FallbackEnds PROVE Bookkeeping'
  <2>1. TypeOK'
    <3>1. /\ operation' = "none" /\ UNCHANGED <<active, currentSpeed, policyVars, command>>
          /\ \/ Published /\ Notify /\ evaluation' = AfterNotify
             \/ UNCHANGED <<coordinatorVars, inputVars, evaluation>>
      BY <1>14 DEF FallbackEnds
    <3>2. CASE UNCHANGED <<coordinatorVars, inputVars, evaluation>>
      BY <3>1, <3>2
      DEF coordinatorVars, inputVars, policyVars, upshiftVars, downshiftVars,
          Bookkeeping, TypeOK
    <3>3. CASE Published /\ Notify /\ evaluation' = AfterNotify
      <4>1. /\ Bookkeeping /\ DataMoved /\ Notify /\ lastRevision' = lastRevision
            /\ isOn' \in BOOLEAN /\ evaluation' \in {evaluation, "scheduled"}
        BY <3>1, <3>3
        DEF Published, DataMoved, AfterNotify, Scheduled, policyVars, upshiftVars,
            downshiftVars, Bookkeeping, TypeOK
      <4>2. /\ samples' \in Seq(Samples) /\ waiting' \in BOOLEAN /\ pending' \in BOOLEAN
            /\ revision' \in 0..MaxRevision /\ pm25' \in PM \cup {0} /\ pm25Ok' \in BOOLEAN
        BY <4>1, NotifyKeepsQueue, DataKept
      <4> QED BY <3>1, <4>1, <4>2
              DEF policyVars, upshiftVars, downshiftVars, Bookkeeping, TypeOK
    <3> QED BY <3>1, <3>2, <3>3
  <2>2. LockHeldOnce' /\ SpeedKnown' /\ SampleAtHand'
    BY <1>14, NotifyKeepsQueue, DataKept
    DEF FallbackEnds, Published, AfterNotify, coordinatorVars, inputVars,
        policyVars, Scheduled, upshiftVars, downshiftVars, DataMoved, Bookkeeping,
        LockHeldOnce, SpeedKnown, SampleAtHand, TypeOK
  <2>3. InactiveIsClean'
    BY <1>14, NotifyKeepsQueue, DataKept
    DEF FallbackEnds, Published, AfterNotify, coordinatorVars, inputVars,
        policyVars, Scheduled, upshiftVars, downshiftVars, DataMoved, Bookkeeping,
        InactiveIsClean, LockHeldOnce, TypeOK
  <2>4. QueueConsecutive' /\ HistoryOK'
    BY <1>14, NotifyKeepsQueue, DataKept
    DEF FallbackEnds, Published, AfterNotify, coordinatorVars, inputVars,
        policyVars, Scheduled, upshiftVars, downshiftVars, DataMoved, Bookkeeping,
        QueueConsecutive, InactiveIsClean, HistoryOK, TypeOK
  <2> QED BY <2>1, <2>2, <2>3, <2>4 DEF Bookkeeping
<1>15. ASSUME Stop PROVE Bookkeeping'
  <2>1. TypeOK'
    BY <1>15, DeactivateClears DEF Stop, coordinatorVars, Bookkeeping, TypeOK
  <2>2. LockHeldOnce' /\ SpeedKnown' /\ SampleAtHand'
    BY <1>15, DeactivateClears
    DEF Stop, coordinatorVars, Deactivate, Bookkeeping, LockHeldOnce, SpeedKnown,
        SampleAtHand, TypeOK
  <2>3. InactiveIsClean'
    BY <1>15, DeactivateClears
    DEF Stop, coordinatorVars, Bookkeeping, InactiveIsClean, LockHeldOnce, TypeOK
  <2>4. QueueConsecutive' /\ HistoryOK'
    BY <1>15, DeactivateClears
    DEF Stop, coordinatorVars, Bookkeeping, QueueConsecutive, InactiveIsClean,
        HistoryOK, TypeOK
  <2> QED BY <2>1, <2>2, <2>3, <2>4 DEF Bookkeeping
<1>16. ASSUME ConfirmationDue PROVE Bookkeeping'
  <2>1. TypeOK'
    BY <1>16
    DEF ConfirmationDue, inputVars, downshiftVars, coordinatorVars, Bookkeeping,
        TypeOK
  <2>2. LockHeldOnce' /\ SpeedKnown' /\ SampleAtHand'
    BY <1>16
    DEF ConfirmationDue, inputVars, downshiftVars, coordinatorVars, Bookkeeping,
        LockHeldOnce, SpeedKnown, SampleAtHand, TypeOK
  <2>3. InactiveIsClean'
    BY <1>16
    DEF ConfirmationDue, inputVars, downshiftVars, coordinatorVars, Bookkeeping,
        InactiveIsClean, LockHeldOnce, TypeOK
  <2>4. QueueConsecutive' /\ HistoryOK'
    BY <1>16
    DEF ConfirmationDue, inputVars, downshiftVars, coordinatorVars, Bookkeeping,
        QueueConsecutive, InactiveIsClean, HistoryOK, TypeOK
  <2> QED BY <2>1, <2>2, <2>3, <2>4 DEF Bookkeeping
<1>17. ASSUME ConfirmationEnds PROVE Bookkeeping'
  <2>1. TypeOK'
    BY <1>17
    DEF ConfirmationEnds, inputVars, downshiftVars, coordinatorVars, Bookkeeping,
        TypeOK
  <2>2. LockHeldOnce' /\ SpeedKnown' /\ SampleAtHand'
    BY <1>17
    DEF ConfirmationEnds, inputVars, downshiftVars, coordinatorVars, Bookkeeping,
        LockHeldOnce, SpeedKnown, SampleAtHand, TypeOK
  <2>3. InactiveIsClean'
    BY <1>17
    DEF ConfirmationEnds, inputVars, downshiftVars, coordinatorVars, Bookkeeping,
        InactiveIsClean, LockHeldOnce, TypeOK
  <2>4. QueueConsecutive' /\ HistoryOK'
    BY <1>17
    DEF ConfirmationEnds, inputVars, downshiftVars, coordinatorVars, Bookkeeping,
        QueueConsecutive, InactiveIsClean, HistoryOK, TypeOK
  <2> QED BY <2>1, <2>2, <2>3, <2>4 DEF Bookkeeping
<1>18. ASSUME PollSucceeds PROVE Bookkeeping'
  <2>1. TypeOK'
    BY <1>18, NotifyKeepsQueue, DataKept
    DEF PollSucceeds, AfterNotify, controllerVars, Scheduled, policyVars,
        upshiftVars, downshiftVars, DataMoved, Bookkeeping, TypeOK
  <2>2. LockHeldOnce' /\ SpeedKnown' /\ SampleAtHand'
    BY <1>18, NotifyKeepsQueue, DataKept
    DEF PollSucceeds, AfterNotify, controllerVars, Scheduled, policyVars,
        upshiftVars, downshiftVars, DataMoved, Bookkeeping, LockHeldOnce,
        SpeedKnown, SampleAtHand, TypeOK
  <2>3. InactiveIsClean'
    <3>1. DataMoved /\ Notify /\ UNCHANGED controllerVars
      BY <1>18 DEF PollSucceeds, DataMoved
    <3>2. ~active => UNCHANGED inputVars
      BY <3>1, NotifyKeepsQueue DEF controllerVars, policyVars, upshiftVars
    <3> QED BY <3>1, <3>2
       DEF controllerVars, inputVars, policyVars, upshiftVars, downshiftVars,
           Bookkeeping, InactiveIsClean
  <2>4. QueueConsecutive' /\ HistoryOK'
    BY <1>18, NotifyKeepsQueue, DataKept
    DEF PollSucceeds, AfterNotify, controllerVars, Scheduled, policyVars,
        upshiftVars, downshiftVars, DataMoved, Bookkeeping, QueueConsecutive,
        InactiveIsClean, HistoryOK, TypeOK
  <2> QED BY <2>1, <2>2, <2>3, <2>4 DEF Bookkeeping
<1>19. ASSUME PollWithoutSample PROVE Bookkeeping'
  <2>1. TypeOK'
    <3>1. isOn' \in BOOLEAN /\ evaluation' \in Evaluations
      BY <1>19 DEF PollWithoutSample, AfterNotify, Scheduled, Bookkeeping, TypeOK
    <3>2. DataMoved /\ lastRevision' = lastRevision
      BY <1>19
      DEF PollWithoutSample, controllerVars, policyVars, upshiftVars, DataMoved
    <3>3. samples' \in Seq(Samples) /\ waiting' \in BOOLEAN /\ pending' \in BOOLEAN
      BY <1>19, <3>2, NotifyKeepsQueue
      DEF PollWithoutSample, inputVars, Bookkeeping, TypeOK
    <3>4. /\ revision' \in 0..MaxRevision /\ pm25' \in PM \cup {0}
          /\ pm25Ok' \in BOOLEAN
      BY <3>2, DataKept
    <3> QED BY <1>19, <3>1, <3>3, <3>4
       DEF PollWithoutSample, controllerVars, policyVars, upshiftVars,
           downshiftVars, Bookkeeping, TypeOK
  <2>2. LockHeldOnce' /\ SpeedKnown' /\ SampleAtHand'
    BY <1>19, NotifyKeepsQueue, DataKept
    DEF PollWithoutSample, AfterNotify, inputVars, controllerVars, Scheduled,
        policyVars, upshiftVars, downshiftVars, DataMoved, Bookkeeping,
        LockHeldOnce, SpeedKnown, SampleAtHand, TypeOK
  <2>3. InactiveIsClean'
    BY <1>19, NotifyKeepsQueue, DataKept
    DEF PollWithoutSample, AfterNotify, inputVars, controllerVars, Scheduled,
        policyVars, upshiftVars, downshiftVars, DataMoved, Bookkeeping,
        InactiveIsClean, LockHeldOnce, TypeOK
  <2>4. QueueConsecutive' /\ HistoryOK'
    BY <1>19, NotifyKeepsQueue, DataKept
    DEF PollWithoutSample, AfterNotify, inputVars, controllerVars, Scheduled,
        policyVars, upshiftVars, downshiftVars, DataMoved, Bookkeeping,
        QueueConsecutive, InactiveIsClean, HistoryOK, TypeOK
  <2> QED BY <2>1, <2>2, <2>3, <2>4 DEF Bookkeeping
<1>20. ASSUME Publication PROVE Bookkeeping'
  <2>1. TypeOK'
    BY <1>20, NotifyKeepsQueue, DataKept
    DEF Publication, AfterNotify, controllerVars, Scheduled, policyVars,
        upshiftVars, downshiftVars, DataMoved, Bookkeeping, TypeOK
  <2>2. LockHeldOnce' /\ SpeedKnown' /\ SampleAtHand'
    BY <1>20, NotifyKeepsQueue, DataKept
    DEF Publication, AfterNotify, controllerVars, Scheduled, policyVars,
        upshiftVars, downshiftVars, DataMoved, Bookkeeping, LockHeldOnce,
        SpeedKnown, SampleAtHand, TypeOK
  <2>3. InactiveIsClean'
    <3>1. DataMoved /\ Notify /\ UNCHANGED controllerVars
      BY <1>20 DEF Publication, DataMoved
    <3>2. ~active => UNCHANGED inputVars
      BY <3>1, NotifyKeepsQueue DEF controllerVars, policyVars, upshiftVars
    <3> QED BY <3>1, <3>2
       DEF controllerVars, inputVars, policyVars, upshiftVars, downshiftVars,
           Bookkeeping, InactiveIsClean
  <2>4. QueueConsecutive' /\ HistoryOK'
    BY <1>20, NotifyKeepsQueue, DataKept
    DEF Publication, AfterNotify, controllerVars, Scheduled, policyVars,
        upshiftVars, downshiftVars, DataMoved, Bookkeeping, QueueConsecutive,
        InactiveIsClean, HistoryOK, TypeOK
  <2> QED BY <2>1, <2>2, <2>3, <2>4 DEF Bookkeeping
<1>21. ASSUME NEW s \in LowerSpeeds, DownshiftTimer(s) PROVE Bookkeeping'
  <2>1. /\ active /\ timers' \subseteq LowerSpeeds
        /\ mature' \subseteq LowerSpeeds \ timers'
    BY <1>21 DEF DownshiftTimer, Bookkeeping, TypeOK, InactiveIsClean
  <2>2. evaluation' \in {evaluation, "scheduled"} /\ pending' \in BOOLEAN
    BY <1>21 DEF DownshiftTimer, Scheduled, Bookkeeping, TypeOK
  <2>3. TypeOK'
    BY <1>21, <2>1, <2>2
    DEF DownshiftTimer, upshiftVars, coordinatorVars, Bookkeeping, TypeOK
  <2> QED BY <1>21, <2>1, <2>2, <2>3
     DEF DownshiftTimer, upshiftVars, coordinatorVars, Bookkeeping, LockHeldOnce,
         SpeedKnown, SampleAtHand, InactiveIsClean, QueueConsecutive, HistoryOK
<1>22. ASSUME UNCHANGED vars PROVE Bookkeeping'
  BY <1>22
  DEF vars, inputVars, policyVars, upshiftVars, downshiftVars, coordinatorVars,
      Bookkeeping, TypeOK, LockHeldOnce, SpeedKnown, SampleAtHand, InactiveIsClean,
      QueueConsecutive, HistoryOK
<1> QED BY <1>1, <1>2, <1>3, <1>4, <1>5, <1>6, <1>7, <1>8, <1>9, <1>10, <1>11,
           <1>12, <1>13, <1>14, <1>15, <1>16, <1>17, <1>18, <1>19, <1>20, <1>21,
           <1>22, EvaluateSampleKeepsBooks, ActivateKeepsBooks
   DEF Next, Evaluator, Owner, Timer, Coordinator

------------------------------------------------------------------------------
\* Evidence is kept

LEMMA LastSeen ==
    ASSUME Bookkeeping, seen # <<>>
    PROVE  Last(seen) \in PM /\ Last(seen) \in Nat
<1>1. seen \in Seq(PM) /\ Len(seen) \in Nat \ {0}
  BY LenProperties, EmptySeq DEF Bookkeeping, HistoryOK
<1>2. Last(seen) = seen[Len(seen)] /\ PM \subseteq Nat
  BY CustomAutoAssumption DEF Last
<1>3. seen[Len(seen)] \in PM
  BY <1>1
<1> QED BY <1>2, <1>3

\* A new sample becomes the last one of the history, right after the one before.
LEMMA ObserveRecords ==
    ASSUME Bookkeeping, NEW sample \in Samples, NEW speed \in Nat,
           Observe(sample, speed), sample.revision # lastRevision
    PROVE  /\ seen' # <<>> /\ Last(seen') = sample.pm25
           /\ seen # <<>> => /\ Len(seen') = 2
                             /\ seen'[1] = Last(seen) /\ seen'[2] = sample.pm25
           /\ readings' # 0 => SpeedForPm(sample.pm25) > speed
<1> DEFINE s == Append(seen, sample.pm25)
<1>8. sample.pm25 \in PM /\ seen \in Seq(PM) /\ Len(seen) <= 2 /\ PM \subseteq Nat
  BY CustomAutoAssumption DEF Samples, Bookkeeping, HistoryOK
<1>1. /\ sample.pm25 \in PM /\ sample.pm25 \in Nat
      /\ seen \in Seq(PM) /\ Len(seen) \in 0..2
  <2>1. Len(seen) \in Nat
    BY <1>8, LenProperties
  <2>2. sample.pm25 \in Nat
    BY <1>8, Zenon
  <2>3. \A n \in Nat : n <= 2 => n \in 0..2
    OBVIOUS
  <2>4. Len(seen) <= 2
    BY <1>8
  <2>5. Len(seen) \in 0..2
    BY ONLY <2>1, <2>3, <2>4
  <2> QED BY <1>8, <2>2, <2>5
<1>2. /\ seen' = IF Len(s) > 2 THEN Tail(s) ELSE s
      /\ \/ SpeedForPm(sample.pm25) <= speed /\ readings' = 0
         \/ ~Confirm /\ readings' = 0
         \/ ~(SpeedForPm(sample.pm25) <= speed)
  BY DEF Observe, ClearUpshift
<1>3. /\ s \in Seq(PM) /\ Len(s) = Len(seen) + 1 /\ s # <<>>
      /\ \A i \in 1..Len(seen) : s[i] = seen[i]
      /\ s[Len(seen) + 1] = sample.pm25
  BY <1>1, AppendIndex
<1>4. /\ Tail(s) \in Seq(PM) /\ Len(Tail(s)) = Len(seen)
      /\ \A i \in 1..Len(seen) : Tail(s)[i] = s[i + 1]
  BY <1>1, <1>3, TailIndex
<1> HIDE DEF s
<1>5. SpeedForPm(sample.pm25) \in Nat
  <2>1. SpeedForPm(sample.pm25) \in Speeds
    BY <1>1, SpeedForPmMeets
  <2> QED BY <2>1, CustomAutoAssumption DEF Speeds
<1>6. CASE Len(seen) = 2
  <2>1. seen' = Tail(s) /\ Len(seen') = 2 /\ seen'[1] = seen[2] /\ seen'[2] = s[3]
    <3>1. seen' = Tail(s)
      BY <1>2, <1>3, <1>6
    <3>2. /\ Len(Tail(s)) = 2 /\ Tail(s)[1] = s[2] /\ Tail(s)[2] = s[3]
      <4>1. Len(Tail(s)) = Len(seen) /\ 1 \in 1..Len(seen) /\ 2 \in 1..Len(seen)
        BY ONLY <1>4, <1>6
      <4>2. Tail(s)[1] = s[1 + 1] /\ Tail(s)[2] = s[2 + 1]
        BY <1>4, <4>1, Zenon
      <4> QED BY ONLY <1>6, <4>1, <4>2
    <3>3. s[2] = seen[2]
      BY ONLY <1>3, <1>6
    <3> QED BY ONLY <3>1, <3>2, <3>3
  <2>2. seen' # <<>>
    <3>1. Len(<<>>) = 0
      OBVIOUS
    <3> QED BY <2>1, <3>1
  <2>3. Last(seen) = seen[2] /\ Last(seen') = seen'[2]
    BY <2>1, <1>6 DEF Last
  <2>4. s[3] = sample.pm25
    BY <1>3, <1>6
  <2>5. readings' # 0 => SpeedForPm(sample.pm25) > speed
    BY <1>2, <1>5
  <2> QED BY <2>1, <2>2, <2>3, <2>4, <2>5
<1>7. CASE Len(seen) \in 0..1
  <2>1. seen' = s /\ Len(seen') = Len(seen) + 1
    BY <1>2, <1>3, <1>7
  <2>2. seen # <<>> => Len(seen) = 1
    BY <1>1, <1>7, EmptySeq
  <2>3. ASSUME seen # <<>>
        PROVE  Len(seen') = 2 /\ seen'[1] = Last(seen) /\ seen'[2] = sample.pm25
    <3>1. Len(seen) = 1 /\ Last(seen) = seen[1]
      BY <2>2, <2>3 DEF Last
    <3> QED BY <2>1, <3>1, <1>3
  <2>4. Last(seen') = sample.pm25
    BY <2>1, <1>3 DEF Last
  <2> QED BY <2>1, <2>3, <2>4, <1>2, <1>3, <1>5
<1> QED BY <1>1, <1>6, <1>7

LEMMA EvaluateSampleKeepsEvidence ==
    ASSUME Bookkeeping, Evidence, EvaluateSample
    PROVE  Evidence'
<1> USE CustomAutoAssumption
<1> DEFINE sample == Head(samples)
<1>1. /\ evaluation = "evaluating" /\ samples # <<>>
      /\ UpdateDownshiftTimers(sample.pm25)
      /\ Observe(sample, currentSpeed)
      /\ UNCHANGED <<active, waiting, operation, coordinatorVars>>
  BY DEF EvaluateSample
<1>2. sample \in Samples /\ sample.revision # lastRevision
  BY <1>1, NextSample
<1>3. operation = "none" /\ currentSpeed \in Nat
  BY <1>1 DEF Bookkeeping, TypeOK, LockHeldOnce, Evaluating
<1>4. \/ UNCHANGED <<currentSpeed, command, evaluation>>
      \/ /\ Confirmed(sample, currentSpeed)
         /\ currentSpeed' = SpeedForPm(sample.pm25)
         /\ command'.previous = currentSpeed
         /\ evaluation' = "upshift"
  BY DEF EvaluateSample, SetSpeed
<1> HIDE DEF sample
<1>5. /\ seen' # <<>> /\ Last(seen') = sample.pm25
      /\ seen # <<>> => /\ Len(seen') = 2
                        /\ seen'[1] = Last(seen) /\ seen'[2] = sample.pm25
      /\ readings' # 0 => SpeedForPm(sample.pm25) > currentSpeed
  BY <1>1, <1>2, <1>3, ObserveRecords
<1>6. TargetsCovered'
  BY <1>1, <1>5 DEF UpdateDownshiftTimers, TargetsCovered
<1>7. ActivationObserved' /\ DownshiftsCovered'
  BY <1>1, <1>3, <1>4 DEF ActivationObserved, DownshiftsCovered
<1>8. UpshiftMeetsSample'
  BY <1>1, <1>4, <1>5 DEF UpshiftMeetsSample
<1>9. StaleHasNoTarget'
  <2>1. CASE UNCHANGED <<currentSpeed, command, evaluation>>
    <3>1. mature' \subseteq mature
      BY <1>1 DEF UpdateDownshiftTimers
    <3> QED BY <2>1, <3>1, <1>1
       DEF coordinatorVars, Evidence, StaleHasNoTarget, Eligible
  <2>2. CASE evaluation' = "upshift"
    BY <2>2 DEF StaleHasNoTarget
  <2> QED BY <2>1, <2>2, <1>4
<1>10. BaseSpeed' = currentSpeed
  BY <1>1, <1>4 DEF BaseSpeed
<1>11. ReadingsExceed'
  BY <1>5, <1>10 DEF ReadingsExceed
<1>12. UpshiftsConfirmed'
  <2>1. SUFFICES ASSUME Confirm, evaluation' = "upshift"
                 PROVE  /\ Len(seen') = 2
                        /\ \A i \in 1..2 : SpeedForPm(seen'[i]) > command'.previous
    BY DEF UpshiftsConfirmed
  <2>2. Confirmed(sample, currentSpeed) /\ command'.previous = currentSpeed
    BY <2>1, <1>1, <1>4
  <2>3. readings >= 1 /\ SpeedForPm(sample.pm25) > currentSpeed
    BY <2>1, <2>2 DEF Confirmed
  <2>4. seen # <<>> /\ SpeedForPm(Last(seen)) > currentSpeed
    BY <2>3, <1>1 DEF Evidence, ReadingsExceed, BaseSpeed
  <2> QED BY <2>2, <2>3, <2>4, <1>5
<1> QED BY <1>6, <1>7, <1>8, <1>9, <1>11, <1>12 DEF Evidence

\* The first sample an activation observes confirms nothing by itself.
LEMMA ActivateKeepsEvidence ==
    ASSUME Bookkeeping, Evidence, NEW restored \in 0..TopSpeed, NEW force \in BOOLEAN,
           NEW mode \in 0..TopSpeed, Activate(restored, force, mode)
    PROVE  Evidence'
<1> USE CustomAutoAssumption
<1> DEFINE speed == IF restored # NoSpeed THEN restored
                    ELSE IF currentSpeed # NoSpeed THEN currentSpeed
                    ELSE IF mode # 0 THEN mode ELSE 1
           sample == [revision |-> revision, pm25 |-> pm25]
           upshift == pm25Ok /\ Confirmed(sample, speed)
           target == IF upshift THEN SpeedForPm(pm25) ELSE speed
<1>1. /\ LockFree /\ ~active /\ currentSpeed' = target
      /\ IF pm25Ok THEN Observe(sample, speed) ELSE UNCHANGED upshiftVars
      /\ \/ /\ IF pm25Ok THEN UpdateDownshiftTimers(pm25)
                         ELSE UNCHANGED downshiftVars
            /\ UNCHANGED <<operation, command>>
         \/ /\ operation' = "activating"
            /\ command'.sample = IF pm25Ok THEN <<pm25>> ELSE NoSample
            /\ UNCHANGED downshiftVars
      /\ UNCHANGED evaluation
  BY DEF Activate
<1>2. speed \in Nat
  BY DEF Bookkeeping, TypeOK, NoSpeed
<1>3. /\ readings = 0 /\ timers = {} /\ mature = {} /\ lastRevision = 0
      /\ evaluation \notin {"upshift", "downshift", "evaluating"} /\ operation = "none"
  BY <1>1 DEF Bookkeeping, InactiveIsClean, LockFree, Evaluating
<1>4. pm25Ok => sample \in Samples /\ sample.revision # lastRevision
  <2>1. SUFFICES ASSUME pm25Ok PROVE sample \in Samples /\ sample.revision # lastRevision
    OBVIOUS
  <2>2. revision \in 1..MaxRevision /\ pm25 \in PM
    BY <2>1 DEF Bookkeeping, TypeOK, SampleAtHand
  <2> QED BY <2>2, <1>3 DEF Samples
<1>5. sample.pm25 = pm25
  OBVIOUS
<1>6. upshift => pm25Ok /\ ~Confirm
  BY <1>3 DEF Confirmed
<1>7. ~upshift => target = speed
  OBVIOUS
<1> HIDE DEF speed, sample, upshift, target
<1>8. pm25Ok => /\ seen' # <<>> /\ Last(seen') = pm25
                /\ readings' # 0 => Confirm /\ SpeedForPm(pm25) > speed
  <2>1. SUFFICES ASSUME pm25Ok
                 PROVE  /\ seen' # <<>> /\ Last(seen') = pm25
                        /\ readings' # 0 => Confirm /\ SpeedForPm(pm25) > speed
    OBVIOUS
  <2>2. Observe(sample, speed)
    BY <2>1, <1>1
  <2>3. readings' # 0 => Confirm
    BY <2>1, <2>2, <1>4 DEF Observe, ClearUpshift
  <2> QED BY <2>1, <2>2, <2>3, <1>2, <1>4, <1>5, ObserveRecords
<1>9. ~pm25Ok => seen' = seen /\ readings' = 0
  BY <1>1, <1>3 DEF upshiftVars
<1>10. TargetsCovered'
  <2>1. CASE timers' = {} /\ mature' = {}
    BY <2>1 DEF TargetsCovered
  <2>2. CASE pm25Ok /\ UpdateDownshiftTimers(pm25)
    BY <2>2, <1>8 DEF UpdateDownshiftTimers, TargetsCovered
  <2> QED BY <2>1, <2>2, <1>1, <1>3 DEF downshiftVars
<1>11. ActivationObserved'
  <2>1. CASE operation' = "activating" /\ command'.sample = <<pm25>> /\ pm25Ok
    <3>1. Head(<<pm25>>) = pm25
      OBVIOUS
    <3> QED BY <2>1, <3>1, <1>8 DEF ActivationObserved
  <2>2. CASE operation' # "activating" \/ command'.sample = NoSample
    BY <2>2 DEF ActivationObserved
  <2> QED BY <2>1, <2>2, <1>1, <1>3
<1>12. ReadingsExceed'
  <2>1. SUFFICES ASSUME readings' # 0
                 PROVE  seen' # <<>> /\ SpeedForPm(Last(seen')) > BaseSpeed'
    BY DEF ReadingsExceed
  <2>2. pm25Ok /\ target = speed
    BY <2>1, <1>6, <1>7, <1>8, <1>9
  <2>3. BaseSpeed' = speed
    BY <2>2, <1>1, <1>3 DEF BaseSpeed
  <2> QED BY <2>1, <2>2, <2>3, <1>8
<1> QED BY <1>1, <1>3, <1>10, <1>11, <1>12
   DEF Evidence, UpshiftMeetsSample, DownshiftsCovered, StaleHasNoTarget,
       UpshiftsConfirmed

\* Every step keeps the evidence.
LEMMA EvidenceStep ==
    ASSUME Bookkeeping, Evidence, [Next]_vars
    PROVE  Evidence'
<1> USE CustomAutoAssumption DEF LockFree, Evaluating
<1>1. ASSUME EvaluationStarts PROVE Evidence'
  <2>1. TargetsCovered' /\ ActivationObserved'
    BY <1>1
    DEF EvaluationStarts, policyVars, coordinatorVars, upshiftVars, downshiftVars,
        Evidence, TargetsCovered, ActivationObserved
  <2>2. UpshiftMeetsSample' /\ DownshiftsCovered'
    BY <1>1
    DEF EvaluationStarts, policyVars, coordinatorVars, upshiftVars, downshiftVars,
        Evidence, UpshiftMeetsSample, DownshiftsCovered
  <2>3. StaleHasNoTarget'
    BY <1>1
    DEF EvaluationStarts, policyVars, coordinatorVars, upshiftVars, downshiftVars,
        Evidence, StaleHasNoTarget, Eligible
  <2>4. ReadingsExceed' /\ UpshiftsConfirmed'
    BY <1>1
    DEF EvaluationStarts, policyVars, coordinatorVars, upshiftVars, downshiftVars,
        Evidence, ReadingsExceed, UpshiftsConfirmed, BaseSpeed
  <2> QED BY <2>1, <2>2, <2>3, <2>4 DEF Evidence
<1>2. ASSUME EvaluationLocks PROVE Evidence'
  <2>1. TargetsCovered' /\ ActivationObserved'
    BY <1>2, DeactivateClears
    DEF EvaluationLocks, policyVars, NextRound, NoSpeed, coordinatorVars,
        upshiftVars, downshiftVars, Evidence, TargetsCovered, ActivationObserved
  <2>2. UpshiftMeetsSample' /\ DownshiftsCovered'
    BY <1>2, DeactivateClears
    DEF EvaluationLocks, policyVars, NextRound, NoSpeed, coordinatorVars,
        upshiftVars, downshiftVars, Evidence, UpshiftMeetsSample, DownshiftsCovered
  <2>3. StaleHasNoTarget'
    BY <1>2, DeactivateClears
    DEF EvaluationLocks, inputVars, policyVars, NextRound, NoSpeed, coordinatorVars,
        upshiftVars, downshiftVars, Evidence, StaleHasNoTarget, Eligible
  <2>4. ReadingsExceed' /\ UpshiftsConfirmed'
    BY <1>2, DeactivateClears
    DEF EvaluationLocks, policyVars, NextRound, NoSpeed, coordinatorVars,
        upshiftVars, downshiftVars, Evidence, ReadingsExceed, UpshiftsConfirmed,
        BaseSpeed
  <2> QED BY <2>1, <2>2, <2>3, <2>4 DEF Evidence
<1>3. ASSUME EvaluateDownshift PROVE Evidence'
  <2>1. TargetsCovered' /\ ActivationObserved'
    BY <1>3
    DEF EvaluateDownshift, Eligible, SetSpeed, NextRound, policyVars,
        coordinatorVars, NoSample, upshiftVars, downshiftVars, Evidence,
        TargetsCovered, ActivationObserved
  <2>2. UpshiftMeetsSample'
    BY <1>3
    DEF EvaluateDownshift, Eligible, SetSpeed, NextRound, policyVars,
        coordinatorVars, NoSample, upshiftVars, downshiftVars, Evidence,
        UpshiftMeetsSample
  <2>3. DownshiftsCovered'
    <3>1. CASE Eligible # {}
      <4>1. /\ LowestEligible \in mature
            /\ mature \subseteq LowerSpeeds
        BY <3>1, LowestEligibleMember DEF Eligible, Bookkeeping, TypeOK
      <4>2. seen # <<>> /\ Last(seen) <= Thresholds[LowestEligible]
        BY <4>1 DEF Evidence, TargetsCovered
      <4>3. SpeedForPm(Last(seen)) <= LowestEligible
        BY <4>1, <4>2, LastSeen, SpeedForPmBound
      <4>4. command'.speed = LowestEligible /\ seen' = seen
        BY <1>3, <3>1 DEF EvaluateDownshift, SetSpeed, policyVars, upshiftVars
      <4> QED BY <4>2, <4>3, <4>4 DEF DownshiftsCovered
    <3>2. CASE Eligible = {}
      BY <1>3, <3>2 DEF EvaluateDownshift, NextRound, DownshiftsCovered
    <3> QED BY <3>1, <3>2
  <2>4. StaleHasNoTarget'
    BY <1>3
    DEF EvaluateDownshift, Eligible, SetSpeed, NextRound, inputVars, policyVars,
        coordinatorVars, NoSample, upshiftVars, downshiftVars, Evidence,
        StaleHasNoTarget
  <2>5. ReadingsExceed' /\ UpshiftsConfirmed'
    BY <1>3
    DEF EvaluateDownshift, Eligible, SetSpeed, NextRound, policyVars,
        coordinatorVars, NoSample, upshiftVars, downshiftVars, Evidence,
        ReadingsExceed, UpshiftsConfirmed, BaseSpeed
  <2> QED BY <2>1, <2>2, <2>3, <2>4, <2>5 DEF Evidence
<1>4. ASSUME AutomaticCommandSucceeds PROVE Evidence'
  <2>1. TargetsCovered' /\ ActivationObserved'
    BY <1>4
    DEF AutomaticCommandSucceeds, ClearUpshift, NextRound, NoCommand, downshiftVars,
        NoConfirmation, NoSpeed, NoSample, Evidence, TargetsCovered,
        ActivationObserved
  <2>2. UpshiftMeetsSample' /\ DownshiftsCovered'
    BY <1>4
    DEF AutomaticCommandSucceeds, ClearUpshift, NextRound, NoCommand, downshiftVars,
        NoConfirmation, NoSpeed, NoSample, Evidence, UpshiftMeetsSample,
        DownshiftsCovered
  <2>3. StaleHasNoTarget'
    <3>1. SUFFICES ASSUME evaluation' = "evaluating"
                   PROVE  Eligible' = {}
      BY DEF StaleHasNoTarget
    <3>2. evaluation = "upshift" /\ mature' = mature /\ currentSpeed' = currentSpeed
      BY <1>4, <3>1 DEF AutomaticCommandSucceeds, NextRound, downshiftVars
    <3>3. seen # <<>> /\ currentSpeed = SpeedForPm(Last(seen))
      BY <3>2 DEF Evidence, UpshiftMeetsSample
    <3>4. ASSUME NEW s \in mature
          PROVE  ~ (s < currentSpeed)
      <4>1. s \in LowerSpeeds /\ Last(seen) <= Thresholds[s]
        BY DEF Bookkeeping, TypeOK, Evidence, TargetsCovered
      <4>2. currentSpeed <= s
        BY <3>3, <4>1, LastSeen, SpeedForPmBound
      <4>3. s \in Nat /\ currentSpeed \in Nat
        BY <4>1 DEF LowerSpeeds, Bookkeeping, TypeOK
      <4> QED BY <4>2, <4>3
    <3> QED BY <3>2, <3>4 DEF Eligible
  <2>4. ReadingsExceed' /\ UpshiftsConfirmed'
    BY <1>4
    DEF AutomaticCommandSucceeds, ClearUpshift, NextRound, NoCommand, downshiftVars,
        NoConfirmation, NoSpeed, NoSample, Evidence, ReadingsExceed,
        UpshiftsConfirmed, BaseSpeed
  <2> QED BY <2>1, <2>2, <2>3, <2>4 DEF Evidence
<1>5. ASSUME AutomaticCommandFails PROVE Evidence'
  <2>1. TargetsCovered' /\ ActivationObserved'
    BY <1>5
    DEF AutomaticCommandFails, NoCommand, policyVars, coordinatorVars, NoSpeed,
        NoSample, upshiftVars, downshiftVars, Evidence, TargetsCovered,
        ActivationObserved
  <2>2. UpshiftMeetsSample' /\ DownshiftsCovered'
    BY <1>5
    DEF AutomaticCommandFails, NoCommand, policyVars, coordinatorVars, NoSpeed,
        NoSample, upshiftVars, downshiftVars, Evidence, UpshiftMeetsSample,
        DownshiftsCovered
  <2>3. StaleHasNoTarget'
    BY <1>5
    DEF AutomaticCommandFails, NoCommand, policyVars, coordinatorVars, NoSpeed,
        NoSample, upshiftVars, downshiftVars, Evidence, StaleHasNoTarget, Eligible
  <2>4. ReadingsExceed' /\ UpshiftsConfirmed'
    BY <1>5
    DEF AutomaticCommandFails, NoCommand, policyVars, coordinatorVars, NoSpeed,
        NoSample, upshiftVars, downshiftVars, Evidence, ReadingsExceed,
        UpshiftsConfirmed, BaseSpeed
  <2> QED BY <2>1, <2>2, <2>3, <2>4 DEF Evidence
<1>6. ASSUME EvaluationFails PROVE Evidence'
  <2>1. TargetsCovered' /\ ActivationObserved'
    BY <1>6
    DEF EvaluationFails, policyVars, coordinatorVars, upshiftVars, downshiftVars,
        Evidence, TargetsCovered, ActivationObserved
  <2>2. UpshiftMeetsSample' /\ DownshiftsCovered'
    BY <1>6
    DEF EvaluationFails, policyVars, coordinatorVars, upshiftVars, downshiftVars,
        Evidence, UpshiftMeetsSample, DownshiftsCovered
  <2>3. StaleHasNoTarget'
    BY <1>6
    DEF EvaluationFails, policyVars, coordinatorVars, upshiftVars, downshiftVars,
        Evidence, StaleHasNoTarget, Eligible
  <2>4. ReadingsExceed' /\ UpshiftsConfirmed'
    BY <1>6
    DEF EvaluationFails, policyVars, coordinatorVars, upshiftVars, downshiftVars,
        Evidence, ReadingsExceed, UpshiftsConfirmed, BaseSpeed
  <2> QED BY <2>1, <2>2, <2>3, <2>4 DEF Evidence
<1>7. ASSUME ActivationSucceeds PROVE Evidence'
  <2>1. ActivationObserved'
    BY <1>7
    DEF ActivationSucceeds, AfterNotify, NoSample, downshiftVars, NoCommand,
        upshiftVars, Scheduled, NoSpeed, Evidence, ActivationObserved, Bookkeeping,
        LockHeldOnce
  <2>2. TargetsCovered'
    <3>1. CASE command.sample # NoSample
      <4>1. UpdateDownshiftTimers(Head(command.sample)) /\ seen' = seen
        BY <1>7, <3>1 DEF ActivationSucceeds, upshiftVars
      <4>2. seen # <<>> /\ Head(command.sample) = Last(seen)
        BY <1>7, <3>1 DEF ActivationSucceeds, Evidence, ActivationObserved
      <4> QED BY <4>1, <4>2 DEF UpdateDownshiftTimers, TargetsCovered
    <3>2. CASE command.sample = NoSample
      BY <1>7, <3>2
      DEF ActivationSucceeds, upshiftVars, downshiftVars, Evidence, TargetsCovered
    <3> QED BY <3>1, <3>2
  <2>3. UpshiftMeetsSample' /\ DownshiftsCovered'
    BY <1>7
    DEF ActivationSucceeds, AfterNotify, NoSample, downshiftVars, NoCommand,
        upshiftVars, Scheduled, NoSpeed, Evidence, UpshiftMeetsSample,
        DownshiftsCovered, Bookkeeping, LockHeldOnce
  <2>4. StaleHasNoTarget'
    BY <1>7
    DEF ActivationSucceeds, AfterNotify, NoSample, downshiftVars, NoCommand,
        upshiftVars, Scheduled, NoSpeed, Evidence, StaleHasNoTarget, Bookkeeping,
        LockHeldOnce, Eligible
  <2>5. ReadingsExceed' /\ UpshiftsConfirmed'
    BY <1>7
    DEF ActivationSucceeds, AfterNotify, NoSample, downshiftVars, NoCommand,
        upshiftVars, Scheduled, NoSpeed, Evidence, ReadingsExceed,
        UpshiftsConfirmed, Bookkeeping, LockHeldOnce, BaseSpeed
  <2> QED BY <2>1, <2>2, <2>3, <2>4, <2>5 DEF Evidence
<1>8. ASSUME Reassert PROVE Evidence'
  <2>1. TargetsCovered' /\ ActivationObserved'
    BY <1>8
    DEF Reassert, NoSample, policyVars, coordinatorVars, upshiftVars, downshiftVars,
        Evidence, TargetsCovered, ActivationObserved
  <2>2. UpshiftMeetsSample' /\ DownshiftsCovered'
    BY <1>8
    DEF Reassert, NoSample, policyVars, coordinatorVars, upshiftVars, downshiftVars,
        Evidence, UpshiftMeetsSample, DownshiftsCovered
  <2>3. StaleHasNoTarget'
    BY <1>8
    DEF Reassert, NoSample, inputVars, policyVars, coordinatorVars, upshiftVars,
        downshiftVars, Evidence, StaleHasNoTarget, Eligible
  <2>4. ReadingsExceed' /\ UpshiftsConfirmed'
    BY <1>8
    DEF Reassert, NoSample, policyVars, coordinatorVars, upshiftVars, downshiftVars,
        Evidence, ReadingsExceed, UpshiftsConfirmed, BaseSpeed
  <2> QED BY <2>1, <2>2, <2>3, <2>4 DEF Evidence
<1>9. ASSUME ReassertSucceeds PROVE Evidence'
  <2>1. TargetsCovered' /\ ActivationObserved'
    BY <1>9
    DEF ReassertSucceeds, AfterNotify, NoCommand, policyVars, Scheduled, NoSpeed,
        NoSample, upshiftVars, downshiftVars, Evidence, TargetsCovered,
        ActivationObserved, Bookkeeping, LockHeldOnce
  <2>2. UpshiftMeetsSample' /\ DownshiftsCovered'
    BY <1>9
    DEF ReassertSucceeds, AfterNotify, NoCommand, policyVars, Scheduled, NoSpeed,
        NoSample, upshiftVars, downshiftVars, Evidence, UpshiftMeetsSample,
        DownshiftsCovered, Bookkeeping, LockHeldOnce
  <2>3. StaleHasNoTarget'
    BY <1>9
    DEF ReassertSucceeds, AfterNotify, NoCommand, policyVars, Scheduled, NoSpeed,
        NoSample, upshiftVars, downshiftVars, Evidence, StaleHasNoTarget,
        Bookkeeping, LockHeldOnce, Eligible
  <2>4. ReadingsExceed' /\ UpshiftsConfirmed'
    BY <1>9
    DEF ReassertSucceeds, AfterNotify, NoCommand, policyVars, Scheduled, NoSpeed,
        NoSample, upshiftVars, downshiftVars, Evidence, ReadingsExceed,
        UpshiftsConfirmed, Bookkeeping, LockHeldOnce, BaseSpeed
  <2> QED BY <2>1, <2>2, <2>3, <2>4 DEF Evidence
<1>10. ASSUME ActivationFails PROVE Evidence'
  <2>1. TargetsCovered' /\ ActivationObserved'
    BY <1>10, DeactivateClears
    DEF ActivationFails, NoCommand, coordinatorVars, NoSpeed, NoSample, Evidence,
        TargetsCovered, ActivationObserved, Bookkeeping, LockHeldOnce
  <2>2. UpshiftMeetsSample' /\ DownshiftsCovered'
    BY <1>10, DeactivateClears
    DEF ActivationFails, NoCommand, coordinatorVars, NoSpeed, NoSample, Evidence,
        UpshiftMeetsSample, DownshiftsCovered, Bookkeeping, LockHeldOnce
  <2>3. StaleHasNoTarget'
    BY <1>10, DeactivateClears
    DEF ActivationFails, NoCommand, coordinatorVars, NoSpeed, NoSample, Evidence,
        StaleHasNoTarget, Bookkeeping, LockHeldOnce, Eligible
  <2>4. ReadingsExceed' /\ UpshiftsConfirmed'
    BY <1>10, DeactivateClears
    DEF ActivationFails, NoCommand, coordinatorVars, NoSpeed, NoSample, Evidence,
        ReadingsExceed, UpshiftsConfirmed, Bookkeeping, LockHeldOnce, BaseSpeed
  <2> QED BY <2>1, <2>2, <2>3, <2>4 DEF Evidence
<1>11. ASSUME Handoff PROVE Evidence'
  <2>1. TargetsCovered' /\ ActivationObserved'
    BY <1>11
    DEF Handoff, policyVars, coordinatorVars, upshiftVars, downshiftVars, Evidence,
        TargetsCovered, ActivationObserved
  <2>2. UpshiftMeetsSample' /\ DownshiftsCovered'
    BY <1>11
    DEF Handoff, policyVars, coordinatorVars, upshiftVars, downshiftVars, Evidence,
        UpshiftMeetsSample, DownshiftsCovered
  <2>3. StaleHasNoTarget'
    BY <1>11
    DEF Handoff, inputVars, policyVars, coordinatorVars, upshiftVars, downshiftVars,
        Evidence, StaleHasNoTarget, Eligible
  <2>4. ReadingsExceed' /\ UpshiftsConfirmed'
    BY <1>11
    DEF Handoff, policyVars, coordinatorVars, upshiftVars, downshiftVars, Evidence,
        ReadingsExceed, UpshiftsConfirmed, BaseSpeed
  <2> QED BY <2>1, <2>2, <2>3, <2>4 DEF Evidence
<1>12. ASSUME HandoffSucceeds PROVE Evidence'
  <2>1. TargetsCovered' /\ ActivationObserved'
    BY <1>12, DeactivateClears
    DEF HandoffSucceeds, AfterNotify, Scheduled, Evidence, TargetsCovered,
        ActivationObserved, Bookkeeping, LockHeldOnce
  <2>2. UpshiftMeetsSample' /\ DownshiftsCovered'
    BY <1>12, DeactivateClears
    DEF HandoffSucceeds, AfterNotify, Scheduled, Evidence, UpshiftMeetsSample,
        DownshiftsCovered, Bookkeeping, LockHeldOnce
  <2>3. StaleHasNoTarget'
    BY <1>12, DeactivateClears
    DEF HandoffSucceeds, AfterNotify, Scheduled, Evidence, StaleHasNoTarget,
        Bookkeeping, LockHeldOnce, Eligible
  <2>4. ReadingsExceed' /\ UpshiftsConfirmed'
    BY <1>12, DeactivateClears
    DEF HandoffSucceeds, AfterNotify, Scheduled, Evidence, ReadingsExceed,
        UpshiftsConfirmed, Bookkeeping, LockHeldOnce, BaseSpeed
  <2> QED BY <2>1, <2>2, <2>3, <2>4 DEF Evidence
<1>13. ASSUME HandoffFails PROVE Evidence'
  <2>1. TargetsCovered' /\ ActivationObserved'
    BY <1>13
    DEF HandoffFails, NoSpeed, policyVars, coordinatorVars, upshiftVars,
        downshiftVars, Evidence, TargetsCovered, ActivationObserved, Bookkeeping,
        LockHeldOnce
  <2>2. UpshiftMeetsSample' /\ DownshiftsCovered'
    BY <1>13
    DEF HandoffFails, NoSpeed, policyVars, coordinatorVars, upshiftVars,
        downshiftVars, Evidence, UpshiftMeetsSample, DownshiftsCovered, Bookkeeping,
        LockHeldOnce
  <2>3. StaleHasNoTarget'
    BY <1>13
    DEF HandoffFails, NoSpeed, inputVars, policyVars, coordinatorVars, upshiftVars,
        downshiftVars, Evidence, StaleHasNoTarget, Bookkeeping, LockHeldOnce,
        Eligible
  <2>4. ReadingsExceed' /\ UpshiftsConfirmed'
    BY <1>13
    DEF HandoffFails, NoSpeed, policyVars, coordinatorVars, upshiftVars,
        downshiftVars, Evidence, ReadingsExceed, UpshiftsConfirmed, Bookkeeping,
        LockHeldOnce, BaseSpeed
  <2> QED BY <2>1, <2>2, <2>3, <2>4 DEF Evidence
<1>14. ASSUME FallbackEnds PROVE Evidence'
  <2>1. TargetsCovered' /\ ActivationObserved'
    BY <1>14
    DEF FallbackEnds, AfterNotify, coordinatorVars, policyVars, Scheduled,
        upshiftVars, downshiftVars, Evidence, TargetsCovered, ActivationObserved,
        Bookkeeping, LockHeldOnce
  <2>2. UpshiftMeetsSample' /\ DownshiftsCovered'
    BY <1>14
    DEF FallbackEnds, AfterNotify, coordinatorVars, policyVars, Scheduled,
        upshiftVars, downshiftVars, Evidence, UpshiftMeetsSample, DownshiftsCovered,
        Bookkeeping, LockHeldOnce
  <2>3. StaleHasNoTarget'
    BY <1>14
    DEF FallbackEnds, AfterNotify, coordinatorVars, inputVars, policyVars,
        Scheduled, upshiftVars, downshiftVars, Evidence, StaleHasNoTarget,
        Bookkeeping, LockHeldOnce, Eligible
  <2>4. ReadingsExceed' /\ UpshiftsConfirmed'
    BY <1>14
    DEF FallbackEnds, AfterNotify, coordinatorVars, policyVars, Scheduled,
        upshiftVars, downshiftVars, Evidence, ReadingsExceed, UpshiftsConfirmed,
        Bookkeeping, LockHeldOnce, BaseSpeed
  <2> QED BY <2>1, <2>2, <2>3, <2>4 DEF Evidence
<1>15. ASSUME Stop PROVE Evidence'
  <2>1. TargetsCovered' /\ ActivationObserved'
    BY <1>15, DeactivateClears
    DEF Stop, coordinatorVars, Evidence, TargetsCovered, ActivationObserved
  <2>2. UpshiftMeetsSample' /\ DownshiftsCovered'
    BY <1>15, DeactivateClears
    DEF Stop, coordinatorVars, Evidence, UpshiftMeetsSample, DownshiftsCovered
  <2>3. StaleHasNoTarget'
    BY <1>15, DeactivateClears
    DEF Stop, coordinatorVars, Evidence, StaleHasNoTarget, Eligible
  <2>4. ReadingsExceed' /\ UpshiftsConfirmed'
    BY <1>15, DeactivateClears
    DEF Stop, coordinatorVars, Evidence, ReadingsExceed, UpshiftsConfirmed,
        BaseSpeed
  <2> QED BY <2>1, <2>2, <2>3, <2>4 DEF Evidence
<1>16. ASSUME ConfirmationDue PROVE Evidence'
  <2>1. TargetsCovered' /\ ActivationObserved'
    BY <1>16
    DEF ConfirmationDue, NoConfirmation, downshiftVars, coordinatorVars, Evidence,
        TargetsCovered, ActivationObserved
  <2>2. UpshiftMeetsSample' /\ DownshiftsCovered'
    BY <1>16
    DEF ConfirmationDue, NoConfirmation, downshiftVars, coordinatorVars, Evidence,
        UpshiftMeetsSample, DownshiftsCovered
  <2>3. StaleHasNoTarget'
    BY <1>16
    DEF ConfirmationDue, NoConfirmation, inputVars, downshiftVars, coordinatorVars,
        Evidence, StaleHasNoTarget, Eligible
  <2>4. ReadingsExceed' /\ UpshiftsConfirmed'
    BY <1>16
    DEF ConfirmationDue, NoConfirmation, downshiftVars, coordinatorVars, Evidence,
        ReadingsExceed, UpshiftsConfirmed, BaseSpeed
  <2> QED BY <2>1, <2>2, <2>3, <2>4 DEF Evidence
<1>17. ASSUME ConfirmationEnds PROVE Evidence'
  <2>1. TargetsCovered' /\ ActivationObserved'
    BY <1>17
    DEF ConfirmationEnds, NoConfirmation, downshiftVars, coordinatorVars, Evidence,
        TargetsCovered, ActivationObserved
  <2>2. UpshiftMeetsSample' /\ DownshiftsCovered'
    BY <1>17
    DEF ConfirmationEnds, NoConfirmation, downshiftVars, coordinatorVars, Evidence,
        UpshiftMeetsSample, DownshiftsCovered
  <2>3. StaleHasNoTarget'
    BY <1>17
    DEF ConfirmationEnds, NoConfirmation, inputVars, downshiftVars, coordinatorVars,
        Evidence, StaleHasNoTarget, Eligible
  <2>4. ReadingsExceed' /\ UpshiftsConfirmed'
    BY <1>17
    DEF ConfirmationEnds, NoConfirmation, downshiftVars, coordinatorVars, Evidence,
        ReadingsExceed, UpshiftsConfirmed, BaseSpeed
  <2> QED BY <2>1, <2>2, <2>3, <2>4 DEF Evidence
<1>18. ASSUME PollSucceeds PROVE Evidence'
  <2>1. TargetsCovered' /\ ActivationObserved'
    BY <1>18
    DEF PollSucceeds, AfterNotify, controllerVars, Scheduled, policyVars,
        upshiftVars, downshiftVars, Evidence, TargetsCovered, ActivationObserved
  <2>2. UpshiftMeetsSample' /\ DownshiftsCovered'
    BY <1>18
    DEF PollSucceeds, AfterNotify, controllerVars, Scheduled, policyVars,
        upshiftVars, downshiftVars, Evidence, UpshiftMeetsSample, DownshiftsCovered
  <2>3. StaleHasNoTarget'
    BY <1>18
    DEF PollSucceeds, AfterNotify, controllerVars, Scheduled, policyVars,
        upshiftVars, downshiftVars, Evidence, StaleHasNoTarget, NobodyRuns, Eligible
  <2>4. ReadingsExceed' /\ UpshiftsConfirmed'
    BY <1>18
    DEF PollSucceeds, AfterNotify, controllerVars, Scheduled, policyVars,
        upshiftVars, downshiftVars, Evidence, ReadingsExceed, UpshiftsConfirmed,
        BaseSpeed
  <2> QED BY <2>1, <2>2, <2>3, <2>4 DEF Evidence
<1>19. ASSUME PollWithoutSample PROVE Evidence'
  <2>1. TargetsCovered' /\ ActivationObserved'
    BY <1>19
    DEF PollWithoutSample, AfterNotify, controllerVars, Scheduled, policyVars,
        upshiftVars, downshiftVars, Evidence, TargetsCovered, ActivationObserved
  <2>2. UpshiftMeetsSample' /\ DownshiftsCovered'
    BY <1>19
    DEF PollWithoutSample, AfterNotify, controllerVars, Scheduled, policyVars,
        upshiftVars, downshiftVars, Evidence, UpshiftMeetsSample, DownshiftsCovered
  <2>3. StaleHasNoTarget'
    BY <1>19
    DEF PollWithoutSample, AfterNotify, inputVars, controllerVars, Scheduled,
        policyVars, upshiftVars, downshiftVars, Evidence, StaleHasNoTarget,
        NobodyRuns, Eligible
  <2>4. ReadingsExceed' /\ UpshiftsConfirmed'
    BY <1>19
    DEF PollWithoutSample, AfterNotify, controllerVars, Scheduled, policyVars,
        upshiftVars, downshiftVars, Evidence, ReadingsExceed, UpshiftsConfirmed,
        BaseSpeed
  <2> QED BY <2>1, <2>2, <2>3, <2>4 DEF Evidence
<1>20. ASSUME Publication PROVE Evidence'
  <2>1. TargetsCovered' /\ ActivationObserved'
    BY <1>20
    DEF Publication, AfterNotify, controllerVars, Scheduled, policyVars,
        upshiftVars, downshiftVars, Evidence, TargetsCovered, ActivationObserved
  <2>2. UpshiftMeetsSample' /\ DownshiftsCovered'
    BY <1>20
    DEF Publication, AfterNotify, controllerVars, Scheduled, policyVars,
        upshiftVars, downshiftVars, Evidence, UpshiftMeetsSample, DownshiftsCovered
  <2>3. StaleHasNoTarget'
    BY <1>20
    DEF Publication, AfterNotify, controllerVars, Scheduled, policyVars,
        upshiftVars, downshiftVars, Evidence, StaleHasNoTarget, NobodyRuns, Eligible
  <2>4. ReadingsExceed' /\ UpshiftsConfirmed'
    BY <1>20
    DEF Publication, AfterNotify, controllerVars, Scheduled, policyVars,
        upshiftVars, downshiftVars, Evidence, ReadingsExceed, UpshiftsConfirmed,
        BaseSpeed
  <2> QED BY <2>1, <2>2, <2>3, <2>4 DEF Evidence
<1>21. ASSUME NEW s \in LowerSpeeds, DownshiftTimer(s) PROVE Evidence'
  <2>1. /\ evaluation # "evaluating" /\ s \in timers
        /\ timers' \subseteq timers /\ mature' \subseteq mature \cup {s}
        /\ evaluation' \in {evaluation, "scheduled"}
        /\ evaluation' # evaluation => evaluation = "none"
        /\ UNCHANGED <<currentSpeed, seen, readings, operation, command>>
    BY <1>21 DEF DownshiftTimer, NobodyRuns, Scheduled, upshiftVars
  <2>2. TargetsCovered' /\ ActivationObserved'
    BY <2>1 DEF Evidence, TargetsCovered, ActivationObserved
  <2> QED BY <2>1, <2>2
     DEF Evidence, UpshiftMeetsSample, DownshiftsCovered, StaleHasNoTarget,
         ReadingsExceed, BaseSpeed, UpshiftsConfirmed
<1>22. ASSUME UNCHANGED vars PROVE Evidence'
  BY <1>22
  DEF vars, inputVars, policyVars, upshiftVars, downshiftVars, coordinatorVars,
      Evidence, TargetsCovered, ActivationObserved, UpshiftMeetsSample,
      DownshiftsCovered, StaleHasNoTarget, Eligible, ReadingsExceed, BaseSpeed,
      UpshiftsConfirmed
<1> QED BY <1>1, <1>2, <1>3, <1>4, <1>5, <1>6, <1>7, <1>8, <1>9, <1>10, <1>11,
           <1>12, <1>13, <1>14, <1>15, <1>16, <1>17, <1>18, <1>19, <1>20, <1>21,
           <1>22, EvaluateSampleKeepsEvidence, ActivateKeepsEvidence
   DEF Next, Evaluator, Owner, Timer, Coordinator

------------------------------------------------------------------------------
\* Progress is kept

\* A notification of an active controller at which work is left schedules it.
LEMMA ToldOfWork ==
    ASSUME Notify, active, pm25Ok'
    PROVE  AfterNotify # "none" /\ pending'
  BY DEF Notify, Hears, AfterNotify, Scheduled

\* Every step leaves work to an evaluator that will look at it.
LEMMA ProgressStep ==
    ASSUME Bookkeeping, WorkScheduled, [Next]_vars
    PROVE  WorkScheduled'
<1>1. ASSUME EvaluationStarts PROVE WorkScheduled'
  BY <1>1
  DEF EvaluationStarts, policyVars, coordinatorVars, upshiftVars, downshiftVars,
      inputVars, Work, Eligible, WorkScheduled
<1>2. ASSUME EvaluationLocks PROVE WorkScheduled'
  <2>1. CASE ~active
    BY <1>2, <2>1 DEF EvaluationLocks, Work, WorkScheduled
  <2>2. CASE Deactivate
    BY <2>2, DeactivateClears DEF Work, WorkScheduled
  <2>3. CASE active /\ (~pm25Ok \/ waiting \/ currentSpeed = NoSpeed) /\ ~Deactivate
    <3>1. ~pm25Ok \/ waiting
      BY <2>3 DEF Bookkeeping, SpeedKnown
    <3>2. UNCHANGED <<inputVars, coordinatorVars>>
      BY <1>2, <2>3 DEF EvaluationLocks
    <3> QED BY <3>1, <3>2 DEF inputVars, coordinatorVars, Work, WorkScheduled
  <2>4. CASE evaluation' = "evaluating"
    BY <2>4 DEF WorkScheduled
  <2> QED BY <1>2, <2>1, <2>2, <2>3, <2>4 DEF EvaluationLocks
<1>3. ASSUME EvaluateSample PROVE WorkScheduled'
  BY <1>3
  DEF EvaluateSample, coordinatorVars, Work, Eligible, WorkScheduled
<1>4. ASSUME EvaluateDownshift PROVE WorkScheduled'
  BY <1>4
  DEF EvaluateDownshift, Eligible, SetSpeed, NextRound, inputVars, policyVars,
      coordinatorVars, NoSample, upshiftVars, downshiftVars, Work, WorkScheduled
<1>5. ASSUME AutomaticCommandSucceeds PROVE WorkScheduled'
  BY <1>5, ToldOfWork
  DEF AutomaticCommandSucceeds, ClearUpshift, NextRound, downshiftVars, NoSpeed,
      NoSample, Published, coordinatorVars, Work, Eligible, WorkScheduled
<1>6. ASSUME AutomaticCommandFails PROVE WorkScheduled'
  BY <1>6
  DEF AutomaticCommandFails, policyVars, coordinatorVars, NoSpeed, NoSample,
      upshiftVars, downshiftVars, Work, Eligible, WorkScheduled
<1>7. ASSUME EvaluationFails PROVE WorkScheduled'
  BY <1>7
  DEF EvaluationFails, policyVars, coordinatorVars, upshiftVars, downshiftVars,
      Work, Eligible, WorkScheduled
<1>8. ASSUME ActivationSucceeds PROVE WorkScheduled'
  BY <1>8, ToldOfWork
  DEF ActivationSucceeds, NoSample, downshiftVars, upshiftVars, NoSpeed, Published,
      coordinatorVars, Work, Eligible, WorkScheduled, UpdateDownshiftTimers
<1>9. ASSUME Reassert PROVE WorkScheduled'
  BY <1>9
  DEF Reassert, NoSample, inputVars, policyVars, coordinatorVars, upshiftVars,
      downshiftVars, Work, Eligible, WorkScheduled
<1>10. ASSUME ReassertSucceeds PROVE WorkScheduled'
  BY <1>10, ToldOfWork
  DEF ReassertSucceeds, policyVars, NoSpeed, NoSample, upshiftVars, downshiftVars,
      Published, coordinatorVars, Work, Eligible, WorkScheduled
<1>11. ASSUME ActivationFails PROVE WorkScheduled'
  BY <1>11, DeactivateClears
  DEF ActivationFails, coordinatorVars, NoSpeed, NoSample, Work, Eligible,
      WorkScheduled
<1>12. ASSUME Handoff PROVE WorkScheduled'
  BY <1>12
  DEF Handoff, inputVars, policyVars, coordinatorVars, upshiftVars, downshiftVars,
      Work, Eligible, WorkScheduled
<1>13. ASSUME HandoffSucceeds PROVE WorkScheduled'
  BY <1>13, DeactivateClears
  DEF HandoffSucceeds, AfterNotify, Scheduled, Work, Eligible, WorkScheduled
<1>14. ASSUME HandoffFails PROVE WorkScheduled'
  BY <1>14
  DEF HandoffFails, NoSpeed, inputVars, policyVars, coordinatorVars, upshiftVars,
      downshiftVars, Work, Eligible, WorkScheduled
<1>15. ASSUME FallbackEnds PROVE WorkScheduled'
  BY <1>15, ToldOfWork
  DEF FallbackEnds, coordinatorVars, inputVars, policyVars, upshiftVars,
      downshiftVars, Published, Work, Eligible, WorkScheduled
<1>16. ASSUME Stop PROVE WorkScheduled'
  BY <1>16, DeactivateClears
  DEF Stop, coordinatorVars, Work, Eligible, WorkScheduled
<1>17. ASSUME ConfirmationDue PROVE WorkScheduled'
  BY <1>17
  DEF ConfirmationDue, inputVars, downshiftVars, coordinatorVars, upshiftVars,
      policyVars, Work, Eligible, WorkScheduled
<1>18. ASSUME ConfirmationEnds PROVE WorkScheduled'
  BY <1>18
  DEF ConfirmationEnds, inputVars, downshiftVars, coordinatorVars, upshiftVars,
      policyVars, Work, Eligible, WorkScheduled
<1>19. ASSUME PollSucceeds PROVE WorkScheduled'
  BY <1>19, ToldOfWork
  DEF PollSucceeds, controllerVars, policyVars, upshiftVars, downshiftVars,
      Published, coordinatorVars, Work, Eligible, WorkScheduled
<1>20. ASSUME PollWithoutSample PROVE WorkScheduled'
  BY <1>20, ToldOfWork
  DEF PollWithoutSample, inputVars, controllerVars, policyVars, upshiftVars,
      downshiftVars, Published, coordinatorVars, Work, Eligible, WorkScheduled
<1>21. ASSUME Publication PROVE WorkScheduled'
  BY <1>21, ToldOfWork
  DEF Publication, controllerVars, policyVars, upshiftVars, downshiftVars,
      Published, coordinatorVars, Work, Eligible, WorkScheduled
<1>22. ASSUME NEW s \in LowerSpeeds, DownshiftTimer(s) PROVE WorkScheduled'
  <2>1. CASE active /\ isOn /\ pm25Ok /\ ~waiting
    <3>1. pending' /\ evaluation' = Scheduled
      BY <1>22, <2>1 DEF DownshiftTimer
    <3> QED BY <3>1 DEF Scheduled, WorkScheduled
  <2>2. CASE ~(active /\ isOn /\ pm25Ok /\ ~waiting)
    BY <1>22, <2>2 DEF DownshiftTimer, coordinatorVars, Work, WorkScheduled
  <2> QED BY <2>1, <2>2
<1>23. ASSUME NEW restored \in 0..TopSpeed, NEW force \in BOOLEAN,
              NEW mode \in 0..TopSpeed, Activate(restored, force, mode)
       PROVE  WorkScheduled'
  <2>1. ~active /\ samples = <<>> /\ mature = {}
    BY <1>23 DEF Activate, Bookkeeping, InactiveIsClean
  <2>2. samples' = <<>> /\ mature' = {}
    BY <1>23, <2>1 DEF Activate, UpdateDownshiftTimers, downshiftVars
  <2> QED BY <2>2 DEF Work, Eligible, WorkScheduled
<1>24. ASSUME UNCHANGED vars PROVE WorkScheduled'
  BY <1>24
  DEF vars, inputVars, policyVars, downshiftVars, coordinatorVars, Work, Eligible,
      WorkScheduled
<1> QED BY <1>1, <1>2, <1>3, <1>4, <1>5, <1>6, <1>7, <1>8, <1>9, <1>10, <1>11,
           <1>12, <1>13, <1>14, <1>15, <1>16, <1>17, <1>18, <1>19, <1>20, <1>21,
           <1>22, <1>23, <1>24
   DEF Next, Evaluator, Owner, Timer, Coordinator

------------------------------------------------------------------------------
\* The theorems

LEMMA InitiallyAllHold ==
    ASSUME Init
    PROVE  Bookkeeping /\ Evidence /\ WorkScheduled
<1> USE CustomAutoAssumption
<1>1. /\ samples = <<>> /\ Len(samples) = 0 /\ seen = <<>> /\ Len(seen) = 0
      /\ seen \in Seq(PM) /\ samples \in Seq(Samples)
  BY DEF Init
<1>2. command \in [speed : 0..TopSpeed, previous : 0..TopSpeed,
                   sample : {NoSample} \cup {<<p>> : p \in PM}]
  BY DEF Init, NoCommand, NoSpeed
<1>7. confirmation \in [stage : {"none", "sleeping", "refreshing"},
                         revision : 0..MaxRevision]
  BY DEF Init, NoConfirmation
<1>8. active \in BOOLEAN /\ waiting \in BOOLEAN /\ pending \in BOOLEAN /\ pm25Ok \in BOOLEAN
  BY DEF Init
<1>3. TypeOK
  BY <1>1, <1>2, <1>7, <1>8
  DEF Init, TypeOK, NoSpeed, Evaluations, Evaluating, Operations
<1>4. Bookkeeping
  BY <1>1, <1>3
  DEF Init, Bookkeeping, LockHeldOnce, SpeedKnown, SampleAtHand, InactiveIsClean,
      QueueConsecutive, HistoryOK, Evaluating
<1>5. Evidence
  BY <1>1
  DEF Init, Evidence, TargetsCovered, ActivationObserved, UpshiftMeetsSample,
      DownshiftsCovered, StaleHasNoTarget, ReadingsExceed, UpshiftsConfirmed
<1>6. WorkScheduled
  BY DEF Init, Work, WorkScheduled
<1> QED BY <1>4, <1>5, <1>6

\* The inductive invariant of Custom Auto.
THEOREM InvariantHolds == Spec => [](Bookkeeping /\ Evidence /\ WorkScheduled)
<1>1. Init => Bookkeeping /\ Evidence /\ WorkScheduled
  BY InitiallyAllHold
<1>2. Bookkeeping /\ Evidence /\ WorkScheduled /\ [Next]_vars
      => (Bookkeeping /\ Evidence /\ WorkScheduled)'
  BY BookkeepingStep, EvidenceStep, ProgressStep
<1> QED BY <1>1, <1>2, PTL DEF Spec

\* Every variable keeps its type: in particular at most two readings are counted
\* and no target is mature while its timer runs.
THEOREM Typed == Spec => []TypeOK
<1>1. Bookkeeping => TypeOK
  BY DEF Bookkeeping
<1> QED BY <1>1, InvariantHolds, PTL

\* Giving ownership up leaves no timer, target, sample, reading or confirmation
\* to the next activation (_deactivate_locked).
THEOREM InactiveCleanHolds == Spec => []InactiveIsClean
<1>1. Bookkeeping => InactiveIsClean
  BY DEF Bookkeeping
<1> QED BY <1>1, InvariantHolds, PTL

\* No automatic downshift goes below what the last valid sample requires
\* (_async_evaluate, _update_downshift_timers).
THEOREM DownshiftsCoveredHolds == Spec => []DownshiftsCovered
<1>1. Evidence => DownshiftsCovered
  BY DEF Evidence
<1> QED BY <1>1, InvariantHolds, PTL

\* With a confirmation delay an upshift needs two consecutive samples above the
\* speed it comes from (_observe_upshift_sample).
THEOREM UpshiftsConfirmedHolds == Spec => []UpshiftsConfirmed
<1>1. Evidence => UpshiftsConfirmed
  BY DEF Evidence
<1> QED BY <1>1, InvariantHolds, PTL

\* An active controller that observed a sample queues every one after it, in
\* order (_handle_coordinator_update).
THEOREM NoSampleLostHolds == Spec => []NoSampleLost
<1>1. ASSUME Bookkeeping PROVE NoSampleLost
  <2>1. SUFFICES ASSUME active, lastRevision # 0
                 PROVE  [i \in DOMAIN samples |-> samples[i].revision] =
                        [i \in 1..(revision - lastRevision) |-> lastRevision + i]
    BY DEF NoSampleLost
  <2>2. /\ samples \in Seq(Samples) /\ Len(samples) \in Nat
        /\ revision \in Nat /\ lastRevision \in Nat
        /\ lastRevision = revision - Len(samples)
        /\ \A i \in 1..Len(samples) :
               samples[i].revision = revision - Len(samples) + i
    BY <1>1, <2>1, LenProperties, CustomAutoAssumption
    DEF Bookkeeping, TypeOK, QueueConsecutive
  <2>3. DOMAIN samples = 1..Len(samples) /\ revision - lastRevision = Len(samples)
    BY <2>2
  <2>4. \A i \in 1..Len(samples) : samples[i].revision = lastRevision + i
    BY <2>2
  <2> QED BY <2>3, <2>4
<1> QED BY <1>1, InvariantHolds, PTL

\* Work at hand always has its evaluator (_schedule_evaluation and the loop of
\* _async_run_evaluations).
THEOREM NoWorkStrandedHolds == Spec => []NoWorkStranded
<1>1. WorkScheduled => NoWorkStranded
  BY DEF WorkScheduled, Work, NoWorkStranded
<1> QED BY <1>1, InvariantHolds, PTL

\* A downshift is decided on fresh data only: the last update brought a sample
\* and that sample was looked at (_async_evaluate).
THEOREM FreshDownshifts == Spec => DownshiftsOnFreshData
<1>1. ASSUME Bookkeeping, Evidence, [Next]_vars,
             evaluation # "downshift", evaluation' = "downshift"
      PROVE  pm25Ok /\ ~waiting /\ lastRevision = revision
  <2>1. EvaluateDownshift /\ Eligible # {}
    BY <1>1
    DEF Next, Evaluator, Owner, Timer, Coordinator, vars, NextRound, AfterNotify,
        Scheduled, EvaluationStarts, EvaluationLocks, EvaluateSample,
        EvaluateDownshift, AutomaticCommandSucceeds, AutomaticCommandFails,
        EvaluationFails, Activate, ActivationSucceeds, Reassert, ReassertSucceeds,
        ActivationFails, Handoff, HandoffSucceeds, HandoffFails, FallbackEnds, Stop,
        ConfirmationDue, ConfirmationEnds, DownshiftTimer, PollSucceeds,
        PollWithoutSample, Publication
  <2>2. evaluation = "evaluating" /\ samples = <<>>
    BY <2>1 DEF EvaluateDownshift
  <2>3. pm25Ok /\ ~waiting
    BY <1>1, <2>1, <2>2 DEF Evidence, StaleHasNoTarget
  <2>4. seen # <<>>
    BY <1>1, <2>1 DEF Eligible, Evidence, TargetsCovered
  <2>5. lastRevision # 0 /\ lastRevision = revision - Len(samples)
    BY <1>1, <2>4 DEF Bookkeeping, HistoryOK, QueueConsecutive
  <2>6. Len(samples) = 0 /\ revision \in Nat
    BY <1>1, <2>2, CustomAutoAssumption DEF Bookkeeping, TypeOK
  <2> QED BY <2>3, <2>5, <2>6
<1>2. Bookkeeping /\ Evidence /\ [Next]_vars =>
          [evaluation # "downshift" /\ evaluation' = "downshift" =>
               pm25Ok /\ ~waiting /\ lastRevision = revision]_vars
  BY <1>1
<1> QED BY <1>2, InvariantHolds, PTL DEF Spec, DownshiftsOnFreshData

=============================================================================
