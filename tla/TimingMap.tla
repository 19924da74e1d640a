------------------------------ MODULE TimingMap ------------------------------
(***************************************************************************)
(* RationalBeat: reduced fractions of two signed integers of a fixed width *)
(* (64 bits in the code).  Every operation is carried out in that width:   *)
(* it answers with a fraction, or refuses.                                 *)
(*                                                                         *)
(* TimingMap: tempo events and stops, compiled once, and the conversion    *)
(* between beats and times in both directions.  Beats are whole ticks, and *)
(* a tempo is the period of a tick in milliseconds; where a time lies      *)
(* within a tick, the beat is that tick.  An event is                      *)
(*   [start, duration, from, to, slope]                                    *)
(* with its first and last period; slope is "none", "some" or "invalid".   *)
(* Over a ramp the code integrates numerically; here it adds up ticks.     *)
(***************************************************************************)
EXTENDS Integers, Sequences, FiniteSets, SequencesExt

CONSTANTS
    MaxInt,    \* the largest signed integer
    Periods,   \* those of the tempi from 1 to 65536 beats per minute
    MaxEvents, \* maximumTempoEvents
    MaxStops   \* maximumStops

ASSUME MaxIntAssumption == MaxInt \in Nat \ {0}

MinInt == -MaxInt - 1
Word == MinInt..MaxInt
Magnitude(value) == IF value >= 0 THEN value ELSE -value

(* The / of C++, which truncates.                                          *)
Quotient(left, right) ==
    LET quotient == Magnitude(left) \div Magnitude(right)
    IN  IF (left < 0) = (right < 0) THEN quotient ELSE -quotient

GCD(a, b) ==
    LET Euclid[x, y \in 0..(MaxInt + 1)] == IF y = 0 THEN x ELSE Euclid[y, x % y]
    IN  Euclid[a, b]

Fraction(numerator, denominator) == [numerator |-> numerator, denominator |-> denominator]
Refused == Fraction(0, 0)

(* Whether checkedMultiply and checkedAdd refuse.                          *)
MultiplyOverflows(left, right) ==
    /\ left # 0 /\ right # 0
    /\ \/ left = -1 /\ right = MinInt
       \/ right = -1 /\ left = MinInt
       \/ left > 0 /\ right > 0 /\ left > Quotient(MaxInt, right)
       \/ left > 0 /\ right < 0 /\ right < Quotient(MinInt, left)
       \/ left < 0 /\ right > 0 /\ left < Quotient(MinInt, right)
       \/ left < 0 /\ right < 0 /\ left < Quotient(MaxInt, right)

(* A bug: only sums that are too large are found.                          *)
AddIsTooLarge(left, right) == right > 0 /\ left > MaxInt - right

AddOverflows(left, right) ==
    \/ right > 0 /\ left > MaxInt - right
    \/ right < 0 /\ left < MinInt - right

(* signedValue of a magnitude and a sign.                                  *)
SignedFits(magnitude, negative) == magnitude <= IF negative THEN MaxInt + 1 ELSE MaxInt

Create(numerator, denominator) ==
    LET divisor == GCD(Magnitude(numerator), denominator)
    IN  IF denominator <= 0 THEN Refused
        ELSE IF numerator = 0 THEN Fraction(0, 1)
        ELSE Fraction(Quotient(numerator, divisor), denominator \div divisor)

Zero == Fraction(0, 1)

(* comparePositive, which never multiplies: negative where left is less.   *)
ComparePositive(left, right) ==
    LET Compare[one \in [numerator: 0..(MaxInt + 1), denominator: 1..(MaxInt + 1)],
                two \in [numerator: 0..(MaxInt + 1), denominator: 1..(MaxInt + 1)]] ==
          LET quotients == <<one.numerator \div one.denominator, two.numerator \div two.denominator>>
              rests == <<one.numerator % one.denominator, two.numerator % two.denominator>>
          IN  IF quotients[1] # quotients[2] THEN quotients[1] - quotients[2]
              ELSE IF 0 \in {rests[1], rests[2]} THEN rests[1] - rests[2]
              ELSE -Compare[Fraction(one.denominator, rests[1]), Fraction(two.denominator, rests[2])]
    IN  Compare[left, right]

(* left < right                                                            *)
IsBefore(left, right) ==
    LET order == ComparePositive(Fraction(Magnitude(left.numerator), left.denominator),
                                 Fraction(Magnitude(right.numerator), right.denominator))
    IN  IF (left.numerator < 0) # (right.numerator < 0) THEN left.numerator < 0
        ELSE IF left.numerator < 0 THEN order > 0 ELSE order < 0

Add(left, right) ==
    LET divisor == GCD(left.denominator, right.denominator)
        leftFactor == right.denominator \div divisor
        rightFactor == left.denominator \div divisor
        one == left.numerator * leftFactor
        two == right.numerator * rightFactor
    IN  IF \/ MultiplyOverflows(left.numerator, leftFactor)
           \/ MultiplyOverflows(right.numerator, rightFactor)
           \/ MultiplyOverflows(left.denominator, leftFactor)
           \/ AddOverflows(one, two)
          THEN Refused
          ELSE Create(one + two, left.denominator * leftFactor)

Subtract(left, right) ==
    IF MultiplyOverflows(right.numerator, -1) THEN Refused
    ELSE Add(left, Create(-right.numerator, right.denominator))

(* The product is reduced before it is formed.                             *)
Multiply(left, right) ==
    LET across == GCD(Magnitude(left.numerator), right.denominator)
        back == GCD(Magnitude(right.numerator), left.denominator)
        one == Quotient(left.numerator, across)
        two == Quotient(right.numerator, back)
        under == <<left.denominator \div back, right.denominator \div across>>
    IN  IF MultiplyOverflows(one, two) \/ MultiplyOverflows(under[1], under[2]) THEN Refused
        ELSE Create(one * two, under[1] * under[2])

Divide(left, right) ==
    IF right.numerator = 0 \/ ~SignedFits(Magnitude(right.numerator), FALSE) THEN Refused
    ELSE Multiply(left, Create(IF right.numerator < 0 THEN -right.denominator ELSE right.denominator,
                               Magnitude(right.numerator)))

Floor(value) ==
    LET quotient == Quotient(value.numerator, value.denominator)
    IN  IF value.numerator >= 0 \/ Magnitude(value.numerator) % value.denominator = 0
          THEN quotient ELSE quotient - 1

Midpoint(left, right) ==
    LET sum == Add(left, right)
    IN  IF sum = Refused THEN Refused
        ELSE IF sum.numerator % 2 = 0 THEN Create(Quotient(sum.numerator, 2), sum.denominator)
        ELSE IF MultiplyOverflows(sum.denominator, 2) THEN Refused
        ELSE Create(sum.numerator, sum.denominator * 2)

-------------------------------------------------------------------------------
(* approximateRationalBeat of the number value, a fraction of any integers *)
(* in place of a double; the tolerance for its rounding is 0 here.         *)
(* last and next are convergents; rest, less than 1, is what next leaves.  *)
TimesPlus(term, next, last) ==
    Fraction(term * next.numerator + last.numerator, term * next.denominator + last.denominator)
TimesPlusOverflows(term, next, last) ==
    \/ MultiplyOverflows(term, next.numerator) \/ MultiplyOverflows(term, next.denominator)
    \/ AddOverflows(term * next.numerator, last.numerator)
    \/ AddOverflows(term * next.denominator, last.denominator)

RECURSIVE Convergent(_, _, _, _)
Convergent(last, next, rest, maxDenominator) ==
    LET term == rest.denominator \div rest.numerator
        following == TimesPlus(term, next, last)
        room == (maxDenominator - last.denominator) \div next.denominator
    IN  IF rest.numerator = 0 \/ term >= MaxInt \/ TimesPlusOverflows(term, next, last) THEN next
        ELSE IF following.denominator <= maxDenominator
               THEN Convergent(next, following,
                               Fraction(rest.denominator % rest.numerator, rest.numerator), maxDenominator)
        ELSE IF room <= 0 \/ TimesPlusOverflows(room, next, last) THEN next
        ELSE TimesPlus(room, next, last)

Approximate(value, maxDenominator) ==
    LET magnitude == Magnitude(value.numerator)
        whole == magnitude \div value.denominator
        found == IF maxDenominator = 1 THEN Fraction(whole, 1)
                 ELSE Convergent(Fraction(1, 0), Fraction(whole, 1),
                                 Fraction(magnitude % value.denominator, value.denominator),
                                 maxDenominator)
    IN  IF maxDenominator <= 0 \/ whole >= MaxInt THEN Refused
        ELSE Create(IF value.numerator < 0 THEN -found.numerator ELSE found.numerator,
                    found.denominator)

-------------------------------------------------------------------------------
(* What is meant: the integers without a width.                            *)
Beats == {Create(numerator, denominator) : numerator \in Word, denominator \in 1..MaxInt}

Equals(beat, numerator, denominator) ==
    beat.numerator * denominator = numerator * beat.denominator
Reduced(beat) == beat \in Beats

(* A fraction of the width equals the numbers' quotient.                   *)
Representable(numerator, denominator) ==
    \E d \in 1..MaxInt :
        (numerator * d) % denominator = 0 /\ (numerator * d) \div denominator \in Word

(* For every two beats: an operation refuses or is exact; multiplication   *)
(* refuses only what has no fraction, and so does addition if the least    *)
(* common denominator and both numerators over it fit the width; the order *)
(* is that of the numbers, though it is found without multiplying.         *)
BeatsAreExact(left) ==
    \A right \in Beats :
       LET a == left.numerator  b == left.denominator
           c == right.numerator  d == right.denominator
           Exact(beat, numerator, denominator) ==
               beat = Refused \/ (Reduced(beat) /\ Equals(beat, numerator, denominator))
           common == (b * d) \div GCD(b, d)
       IN  /\ IsBefore(left, right) <=> a * d < c * b
           /\ Exact(Add(left, right), a * d + c * b, b * d)
           /\ Exact(Subtract(left, right), a * d - c * b, b * d)
           /\ Exact(Multiply(left, right), a * c, b * d)
           /\ Multiply(left, right) = Refused => ~Representable(a * c, b * d)
           /\ Add(left, right) = Refused =>
                 ~({common, (a * common) \div b, (c * common) \div d,
                    (a * common) \div b + (c * common) \div d} \subseteq Word)
           /\ c > 0 => Exact(Divide(left, right), a * d, b * c)
           /\ c < 0 => Exact(Divide(left, right), -a * d, -b * c)
           /\ Exact(Midpoint(left, right), a * d + c * b, 2 * b * d)
           /\ Floor(left) = a \div b

(* A beat survives its approximation if the denominator is allowed; any    *)
(* other is less than a whole step of its denominator away.                *)
ApproximationsAreClose(value, maxDenominator) ==
    LET beat == Approximate(value, maxDenominator)
        least == value.denominator
                    \div GCD(Magnitude(value.numerator), value.denominator)
        error == Magnitude(beat.numerator * value.denominator - value.numerator * beat.denominator)
    IN  beat # Refused =>
          /\ beat.denominator <= maxDenominator
          /\ error < value.denominator
          /\ least <= maxDenominator /\ least < MaxInt
                /\ Representable(Magnitude(value.numerator), value.denominator) => error = 0

-------------------------------------------------------------------------------
Total(seq) == FoldLeft(LAMBDA sum, x : sum + x, 0, seq)

(* The period of the k-th tick of an event, and k ticks from the i-th.     *)
PeriodAt(event, k) ==
    IF k = 0 THEN event.from
    ELSE IF k = event.duration - 1 THEN event.to
    ELSE (event.from + event.to) \div 2
Integral(event, i, k) == Total([j \in 1..k |-> PeriodAt(event, i + j - 1)])

(* The first and the last beat of each integration segment: a ramp is cut. *)
Cuts(event) ==
    IF event.from # event.to /\ event.duration > 1 THEN <<0, event.duration \div 2, event.duration>>
    ELSE <<0, event.duration>>

SegmentTime(event, i) == Integral(event, 0, Cuts(event)[i])

EventIsValid(event) ==
    /\ event.duration >= 0
    /\ {event.from, event.to} \subseteq Periods
    /\ event.slope # "invalid"
    /\ event.duration = 0 => event.from = event.to /\ event.slope = "none"

InBeatOrder(events) == SortSeq(events, LAMBDA one, two : one.start < two.start)
StopsInOrder(stops) == SortSeq(stops, LAMBDA one, two : one.beat < two.beat)

(* Whether create accepts the events, sorted, and the stops, sorted.       *)
TimingIsValid(period, events, stops) ==
    /\ period \in Periods
    /\ Len(events) <= MaxEvents /\ Len(stops) <= MaxStops
    /\ \A i \in DOMAIN events : EventIsValid(events[i])
    /\ \A i \in 2..Len(events) :
          /\ events[i].start >= events[i - 1].start + events[i - 1].duration
          /\ events[i].start # events[i - 1].start
    /\ \A i \in DOMAIN stops : stops[i].duration > 0
    /\ \A i \in 2..Len(stops) : stops[i].beat # stops[i - 1].beat

(* The compiled events: time 0 is the start of the first one.              *)
EndBeat(event) == event.start + event.duration
CompiledEvents(period, events) ==
    LET Compile(done, event) ==
          LET before == Last(done)
              start == IF done = <<>> THEN 0
                       ELSE before.endTime + (event.start - EndBeat(before)) * before.to
          IN  Append(done, [start |-> event.start, duration |-> event.duration, from |-> event.from,
                            to |-> event.to, startTime |-> start,
                            endTime |-> start + Integral(event, 0, event.duration)])
    IN  FoldLeft(Compile, <<>>, events)

(* tempoTime: stops are left out, and time 0 is that of the first event.   *)
TempoTime(period, events, beat) ==
    LET next == SelectInSeq(events, LAMBDA event : beat < event.start)
        i == (IF next = 0 THEN Len(events) + 1 ELSE next) - 1
        event == events[i]
        segment == CHOOSE k \in 1..(Len(Cuts(event)) - 1) :
                      /\ Cuts(event)[k + 1] >= beat - event.start
                      /\ \A j \in 1..(k - 1) : Cuts(event)[j + 1] < beat - event.start
    IN  IF events = <<>> THEN beat * period
        ELSE IF i = 0 THEN events[1].startTime + (beat - events[1].start) * period
        ELSE IF beat < EndBeat(event)
          THEN event.startTime + SegmentTime(event, segment)
                 + Integral(event, Cuts(event)[segment], beat - event.start - Cuts(event)[segment])
        ELSE event.endTime + (beat - EndBeat(event)) * event.to

(* The compiled stops: their times count from beat 0 and from its stops.   *)
CompiledStops(period, events, stops) ==
    LET zero == TempoTime(period, events, 0)
        Over(S) == Total([k \in DOMAIN stops |-> IF k \in S THEN stops[k].duration ELSE 0])
        before == Over({k \in DOMAIN stops : stops[k].beat < 0})
        start(i) == TempoTime(period, events, stops[i].beat) - zero + Over(1..(i - 1)) - before
    IN  [i \in DOMAIN stops |->
           [beat |-> stops[i].beat, startTime |-> start(i), endTime |-> start(i) + stops[i].duration,
            cumulative |-> Over(1..i)]]

(* TimingMap::create.                                                      *)
Timing(period, events, stops) ==
    LET compiled == CompiledEvents(period, InBeatOrder(events))
        sorted == StopsInOrder(stops)
    IN  [period |-> period, events |-> compiled, zero |-> TempoTime(period, compiled, 0),
         stops |-> CompiledStops(period, compiled, sorted),
         beforeZero |-> Total([k \in DOMAIN sorted |->
                                  IF sorted[k].beat < 0 THEN sorted[k].duration ELSE 0])]

(* A bug: a stop delays its own beat.                                      *)
StopAdjustmentAtBeat(map, beat) ==
    LET last == SelectLastInSeq(map.stops, LAMBDA stop : stop.beat <= beat)
    IN  (IF last = 0 THEN 0 ELSE map.stops[last].cumulative) - map.beforeZero

StopAdjustment(map, beat) ==
    LET last == SelectLastInSeq(map.stops, LAMBDA stop : stop.beat < beat)
    IN  (IF last = 0 THEN 0 ELSE map.stops[last].cumulative) - map.beforeZero

BeatToChartTime(map, beat) ==
    TempoTime(map.period, map.events, beat) - map.zero + StopAdjustment(map, beat)

(* tempoBeat: the tick of a time without stops; in an event by bisection.  *)
TempoBeat(map, time) ==
    LET absolute == time + map.zero
        i == SelectLastInSeq(map.events, LAMBDA event : event.startTime <= absolute)
        event == map.events[i]
        reached == {beat \in event.start..EndBeat(event) :
                      TempoTime(map.period, map.events, beat) <= absolute}
    IN  IF map.events = <<>> THEN time \div map.period
        ELSE IF i = 0 THEN map.events[1].start
                             + (absolute - map.events[1].startTime) \div map.period
        ELSE IF event.duration > 0 /\ absolute < event.endTime
          THEN CHOOSE beat \in reached : \A other \in reached : other <= beat
        ELSE EndBeat(event) + (absolute - event.endTime) \div event.to

(* sampleChartTimeMs: the beat of a time, and how far a stop is through.   *)
SampleChartTime(map, time) ==
    LET begun == SelectLastInSeq(map.stops, LAMBDA stop : stop.startTime <= time)
        done == SelectLastInSeq(map.stops, LAMBDA stop : stop.endTime <= time)
        over == IF done = 0 THEN 0 ELSE map.stops[done].cumulative
    IN  IF begun # 0 /\ time < map.stops[begun].endTime
          THEN [beat |-> map.stops[begun].beat, inStop |-> TRUE,
                progress |-> time - map.stops[begun].startTime]
          ELSE [beat |-> TempoBeat(map, time - over + map.beforeZero), inStop |-> FALSE,
                progress |-> 0]

-------------------------------------------------------------------------------
(* What is meant, tick by tick: the period of a tick is that of the event  *)
(* it is in, or else of the last event before it; a stop delays all later  *)
(* beats; beat 0 is at time 0.                                             *)
PeriodOf(period, events, beat) ==
    LET begun == {i \in DOMAIN events : events[i].start <= beat}
        last == CHOOSE i \in begun : \A j \in begun : events[j].start <= events[i].start
    IN  IF begun = {} THEN period
        ELSE IF beat < EndBeat(events[last]) THEN PeriodAt(events[last], beat - events[last].start)
        ELSE events[last].to

TimeOf(period, events, stops, beat) ==
    LET low == IF beat < 0 THEN beat ELSE 0
        high == IF beat < 0 THEN 0 ELSE beat
        sum == Total([k \in 1..(high - low) |-> PeriodOf(period, events, low + k - 1)])
                 + Total([k \in DOMAIN stops |->
                             IF stops[k].beat \in low..(high - 1) THEN stops[k].duration ELSE 0])
    IN  IF beat < 0 THEN -sum ELSE sum

SampleOf(period, events, stops, ticks, time) ==
    LET reached == {beat \in ticks : TimeOf(period, events, stops, beat) <= time}
        beat == CHOOSE one \in reached : \A other \in reached : other <= one
        at == TimeOf(period, events, stops, beat)
        stop == SelectInSeq(stops, LAMBDA one : one.beat = beat)
        inStop == stop # 0 /\ time < at + stops[stop].duration
    IN  [beat |-> beat, inStop |-> inStop, progress |-> IF inStop THEN time - at ELSE 0]

(* Whatever order the events and stops are given in: beats and times are   *)
(* those of a count tick by tick, in both directions.                      *)
TimesAreExact(period, events, stops, ticks, times) ==
    TimingIsValid(period, InBeatOrder(events), StopsInOrder(stops)) =>
       LET map == Timing(period, events, stops)
       IN  /\ \A beat \in ticks : BeatToChartTime(map, beat) = TimeOf(period, events, stops, beat)
           /\ \A time \in times :
                 SampleChartTime(map, time) = SampleOf(period, events, stops, ticks, time)
===============================================================================
