----------------------- MODULE SdlAudioTransportProof -----------------------
(***************************************************************************)
(* Proofs about SdlAudioTransport for any clips, queue sizes and numbers   *)
(* of commands: the range of its estimate, what it publishes, and that it  *)
(* implements AudioTransport.                                              *)
(***************************************************************************)
EXTENDS SdlAudioTransport, TLAPS

LEMMA MaxOfTwo ==
    ASSUME NEW a \in Int, NEW b \in Int
    PROVE  Max({a, b}) = IF a >= b THEN a ELSE b
<1>1. ASSUME NEW x \in {a, b}, \A y \in {a, b} : x >= y
      PROVE  x = IF a >= b THEN a ELSE b
    BY <1>1
<1>2. \E x \in {a, b} : \A y \in {a, b} : x >= y
    OBVIOUS
<1> QED BY <1>1, <1>2 DEF Max

LEMMA MinOfTwo ==
    ASSUME NEW a \in Int, NEW b \in Int
    PROVE  Min({a, b}) = IF a <= b THEN a ELSE b
<1>1. ASSUME NEW x \in {a, b}, \A y \in {a, b} : x <= y
      PROVE  x = IF a <= b THEN a ELSE b
    BY <1>1
<1>2. \E x \in {a, b} : \A y \in {a, b} : x <= y
    OBVIOUS
<1> QED BY <1>1, <1>2 DEF Min

-----------------------------------------------------------------------------
TransportRecord ==
    [state: PlaybackState, clip: Clip \cup {None}, replacement: Replacement \cup {None},
     segmentStart: Nat, submitted: Nat, presented: Nat, baseline: Nat,
     episode: BOOLEAN, discontinuity: Nat, queue: 0 .. TargetFrames, running: BOOLEAN,
     mixed: Nat, inFlight: {0, DeviceBuffer}, published: Seq(SnapshotType)]

InRange(s) ==
    s.clip # None =>
        /\ s.segmentStart <= s.presented
        /\ s.presented <= s.submitted
        /\ s.submitted <= Frames(s)
        /\ s.queue <= s.submitted - s.segmentStart

(* What SegmentIsMonotone says of two snapshots in a row.                  *)
Follows(old, new) ==
    new.discontinuity = old.discontinuity =>
        /\ new.position >= old.position
        /\ old.state # "Playing" /\ new.state \in {"Empty", "Stopped", "Paused"}
               => new.position = old.position
Chain(published) == \A i \in 1 .. Len(published) - 1 : Follows(published[i], published[i + 1])
Latest(s) == s.published[Len(s.published)]

(* The transport within a handler, whatever it publishes next.             *)
Shape(s) ==
    /\ s \in TransportRecord
    /\ s.state \in {"Stopped", "Playing", "Paused", "Ended"} => s.clip # None
    /\ InRange(s)
    /\ s.published # <<>>
    /\ Chain(s.published)
    /\ Latest(s).discontinuity <= s.discontinuity

(* The transport may publish.  A transport in Error whose replacement does *)
(* not open keeps what it published, and only Unload gets it out of there. *)
Good(s) == Shape(s) /\ (s.state # "Error" => Follows(Latest(s), Snapshot(s)))

(* Between handlers the latest snapshot is the transport's.                *)
Synced(s) == s.state # "Error" => Latest(s) = Snapshot(s)

IInv == Good(transport) /\ Synced(transport) /\ commands \in 0 .. MaxCommands

(* Seat of any transport record.                                           *)
SeatReplacement(r) == IF r = None THEN None ELSE [clip |-> r.clip, position |-> r.frame]
SeatOf(s) ==
    [state |-> s.state, position |-> Snapshot(s).position,
     discontinuity |-> s.discontinuity, clip |-> s.clip,
     replacement |-> SeatReplacement(s.replacement)]

LEMMA LengthIsPositive ==
    ASSUME NEW clip \in Clip
    PROVE  Length[clip] \in Nat /\ Length[clip] > 0
BY TransportAssumption

LEMMA NoneIsNoReplacement ==
    \A r \in Replacement : r # None /\ r.clip \in Clip /\ r.frame \in 0 .. Length[r.clip]
BY TransportAssumption DEF Replacement

LEMMA SnapshotTyped ==
    ASSUME NEW s, s \in TransportRecord
    PROVE  /\ Snapshot(s) \in SnapshotType
           /\ Snapshot(s).position = (IF s.clip = None THEN 0 ELSE s.presented)
           /\ Snapshot(s).state = s.state
           /\ Snapshot(s).discontinuity = s.discontinuity
BY DEF Snapshot, SnapshotType, TransportRecord

SeatType ==
    [state: PlaybackState, position: Nat, discontinuity: Nat, clip: Clip \cup {None},
     replacement: [clip: Clip, position: Nat] \cup {None}]

LEMMA SeatTyped ==
    ASSUME NEW s, s \in TransportRecord
    PROVE  /\ SeatOf(s) \in SeatType
           /\ SeatOf(s).state = s.state /\ SeatOf(s).discontinuity = s.discontinuity
           /\ SeatOf(s).position = (IF s.clip = None THEN 0 ELSE s.presented)
           /\ SeatOf(s).clip = s.clip
           /\ SeatOf(s).replacement = SeatReplacement(s.replacement)
<1>1. SeatReplacement(s.replacement) \in [clip: Clip, position: Nat] \cup {None}
  <2>1. CASE s.replacement = None
      BY <2>1 DEF SeatReplacement
  <2>2. CASE s.replacement # None
    <3>1. s.replacement \in Replacement
        BY <2>2 DEF TransportRecord
    <3>2. s.replacement.clip \in Clip /\ s.replacement.frame \in Nat
        BY <3>1, NoneIsNoReplacement, LengthIsPositive
    <3> QED BY <2>2, <3>2 DEF SeatReplacement
  <2> QED BY <2>1, <2>2
<1>2. /\ s.state \in PlaybackState /\ s.discontinuity \in Nat /\ s.clip \in Clip \cup {None}
      /\ s.presented \in Nat
    BY DEF TransportRecord
<1> QED BY <1>1, <1>2, SnapshotTyped DEF SeatOf, SeatType

LEMMA SeatsAreEqual ==
    ASSUME NEW a \in SeatType, NEW b \in SeatType,
           a.state = b.state, a.position = b.position, a.discontinuity = b.discontinuity,
           a.clip = b.clip, a.replacement = b.replacement
    PROVE  a = b
BY DEF SeatType

LEMMA SeatIsSeatOf == Seat = SeatOf(transport)
BY DEF Seat, SeatOf, SeatReplacement

-----------------------------------------------------------------------------
(* Publishing keeps everything but the history, which it continues.        *)
LEMMA PublishKeepsGood ==
    ASSUME NEW s, Shape(s), Follows(Latest(s), Snapshot(s))
    PROVE  /\ Good(Publish(s))
           /\ Synced(Publish(s))
           /\ SeatOf(Publish(s)) = SeatOf(s)
           /\ Publish(s).state = s.state /\ Publish(s).clip = s.clip
<1> DEFINE p == s.published
           t == Publish(s)
<1>1. /\ s \in TransportRecord /\ p \in Seq(SnapshotType) /\ p # <<>>
      /\ Snapshot(s) \in SnapshotType
    BY SnapshotTyped DEF Shape, TransportRecord
<1>2. /\ t.published = Append(p, Snapshot(s))
      /\ t = [s EXCEPT !.published = Append(p, Snapshot(s))]
    BY <1>1 DEF Publish, TransportRecord
<1>3. t \in TransportRecord
  <2>1. Append(p, Snapshot(s)) \in Seq(SnapshotType)
      BY <1>1
  <2> QED BY <1>1, <1>2, <2>1 DEF TransportRecord
<1>4. /\ t.state = s.state /\ t.clip = s.clip /\ t.replacement = s.replacement
      /\ t.segmentStart = s.segmentStart /\ t.submitted = s.submitted
      /\ t.presented = s.presented /\ t.queue = s.queue /\ t.discontinuity = s.discontinuity
    BY <1>1, <1>2 DEF TransportRecord
<1> HIDE DEF t
<1>5. Snapshot(t) = Snapshot(s) /\ SeatOf(t) = SeatOf(s)
    BY <1>4 DEF Snapshot, SeatOf
<1>6. /\ Len(t.published) = Len(p) + 1 /\ Len(p) \in Nat
      /\ t.published[Len(p) + 1] = Snapshot(s)
      /\ \A i \in 1 .. Len(p) : t.published[i] = p[i]
    BY <1>1, <1>2
<1>7. Latest(t) = Snapshot(s)
    BY <1>6 DEF Latest
<1>8. Chain(t.published)
  <2> SUFFICES ASSUME NEW i \in 1 .. Len(p) PROVE Follows(t.published[i], t.published[i + 1])
      BY <1>6 DEF Chain
  <2>1. CASE i = Len(p)
      BY <1>6, <2>1 DEF Latest
  <2>2. CASE i # Len(p)
      BY <1>6, <2>2 DEF Shape, Chain
  <2> QED BY <2>1, <2>2
<1>9. Shape(t)
  <2>1. InRange(t)
      BY <1>4 DEF Shape, InRange, Frames
  <2>2. t.published # <<>>
      BY <1>6, <1>1, <1>2
  <2>3. Latest(t).discontinuity <= t.discontinuity
      BY <1>1, <1>4, <1>7, SnapshotTyped DEF TransportRecord
  <2> QED BY <1>3, <1>4, <1>8, <2>1, <2>2, <2>3 DEF Shape
<1>10. Follows(Latest(t), Snapshot(t))
    BY <1>1, <1>5, <1>7 DEF Follows, SnapshotType
<1> QED BY <1>4, <1>5, <1>7, <1>9, <1>10 DEF Good, Synced, t

LEMMA AdvanceIsFresh ==
    ASSUME NEW s, Shape(s)
    PROVE  /\ Shape(Advance(s))
           /\ Follows(Latest(Advance(s)), Snapshot(Advance(s)))
           /\ Advance(s) = [s EXCEPT !.discontinuity = s.discontinuity + 1]
           /\ SeatOf(Advance(s)) = [SeatOf(s) EXCEPT !.discontinuity = @ + 1]
           /\ Advance(s).state = s.state
<1> DEFINE t == Advance(s)
<1>1. s \in TransportRecord
    BY DEF Shape
<1>2. t \in TransportRecord /\ t = [s EXCEPT !.discontinuity = s.discontinuity + 1]
    BY <1>1 DEF Advance, TransportRecord
<1>3. /\ t.state = s.state /\ t.clip = s.clip /\ t.replacement = s.replacement
      /\ t.segmentStart = s.segmentStart /\ t.submitted = s.submitted /\ t.published = s.published
      /\ t.presented = s.presented /\ t.queue = s.queue /\ t.discontinuity = s.discontinuity + 1
    BY <1>1, <1>2 DEF TransportRecord
<1> HIDE DEF t
<1>4. Latest(t).discontinuity < t.discontinuity /\ Latest(t).discontinuity \in Nat
  <2>1. Latest(s) \in SnapshotType
      BY <1>1 DEF Shape, Latest, TransportRecord
  <2> QED BY <1>1, <1>3, <2>1, SMTT(30) DEF Shape, Latest, SnapshotType, TransportRecord
<1>5. Snapshot(t).discontinuity = t.discontinuity
    BY <1>2, SnapshotTyped
<1>6. Follows(Latest(t), Snapshot(t))
    BY <1>1, <1>2, <1>4, <1>5, SMTT(30) DEF Follows, TransportRecord
<1>7. Shape(t)
  <2>1. InRange(t)
      BY <1>3 DEF Shape, InRange, Frames
  <2>2. s.discontinuity \in Nat
      BY <1>1 DEF TransportRecord
  <2> QED BY <1>2, <1>3, <1>4, <2>1, <2>2 DEF Shape
<1>8. SeatOf(t) = [SeatOf(s) EXCEPT !.discontinuity = @ + 1]
    BY <1>3 DEF SeatOf, Snapshot
<1> QED BY <1>2, <1>3, <1>6, <1>7, <1>8 DEF t

-----------------------------------------------------------------------------
(* The estimate is neither before the last one nor beyond what was         *)
(* submitted, whatever the device counted.                                 *)
LEMMA EstimateIsInRange ==
    ASSUME NEW s, s \in TransportRecord, InRange(s), s.clip # None
    PROVE  Estimate(s) \in Nat /\ s.presented <= Estimate(s) /\ Estimate(s) <= s.submitted
<1> DEFINE elapsed == Max({0, s.mixed - s.baseline - DeviceBuffer})
           bound == Min({s.submitted, Frames(s)})
           low == Min({s.presented, bound})
           heard == Max({s.segmentStart + elapsed, low})
<1>1. /\ s.mixed \in Nat /\ s.baseline \in Nat /\ s.submitted \in Nat /\ s.presented \in Nat
      /\ s.segmentStart \in Nat /\ Frames(s) \in Nat /\ DeviceBuffer \in Nat
    BY TransportAssumption, LengthIsPositive DEF TransportRecord, Frames
<1>2. elapsed \in Nat
  <2>1. s.mixed - s.baseline - DeviceBuffer \in Int
      BY <1>1
  <2> QED BY <2>1, MaxOfTwo
<1>3. bound = s.submitted
    BY <1>1, MinOfTwo DEF InRange
<1>4. low = s.presented
    BY <1>1, <1>3, MinOfTwo DEF InRange
<1> HIDE DEF elapsed, bound, low
<1>5. heard \in Nat /\ heard >= s.presented
    BY <1>1, <1>2, <1>4, MaxOfTwo
<1> HIDE DEF heard
<1>6. Min({heard, bound}) \in Nat /\ s.presented <= Min({heard, bound}) /\ Min({heard, bound}) <= s.submitted
    BY <1>1, <1>3, <1>5, MinOfTwo DEF InRange
<1> QED BY <1>6 DEF Estimate, heard, elapsed, bound, low

(* updatePresentedFrame moves the estimate on, and ends at the last frame. *)
LEMMA UpdatePresentedKeepsGood ==
    ASSUME NEW s, Shape(s), Follows(Latest(s), Snapshot(s))
    PROVE  LET t == UpdatePresented(s)
           IN  /\ Shape(t) /\ Follows(Latest(t), Snapshot(t))
               /\ Latest(t) = Latest(s)
               /\ SeatOf(t) \in Abstract!Moved(SeatOf(s))
               /\ s.state # "Playing" => t = s
               /\ s.state = "Playing" =>
                      /\ t = [s EXCEPT !.presented = t.presented, !.state = t.state,
                                       !.running = t.running]
                      /\ s.presented <= t.presented /\ t.presented <= s.submitted
                      /\ t.state = IF t.presented = Frames(s) THEN "Ended" ELSE "Playing"
<1> DEFINE t == UpdatePresented(s)
<1>1. s \in TransportRecord
    BY DEF Shape
<1>2. CASE s.state # "Playing"
  <2>1. t = s
      BY <1>2 DEF UpdatePresented
  <2>2. SeatOf(s) \in Abstract!Moved(SeatOf(s))
      BY <1>2 DEF SeatOf, Abstract!Moved
  <2> QED BY <1>2, <2>1, <2>2
<1>3. CASE s.state = "Playing"
  <2>1. s.clip \in Clip /\ s.clip # None
      BY <1>1, <1>3 DEF Shape, TransportRecord
  <2>2. /\ Frames(s) \in Nat /\ s.presented \in Nat /\ s.submitted \in Nat
        /\ s.segmentStart \in Nat /\ s.submitted <= Frames(s) /\ s.discontinuity \in Nat
      BY <1>1, <2>1, LengthIsPositive DEF Shape, InRange, Frames, TransportRecord
  <2>3. Estimate(s) \in Nat /\ s.presented <= Estimate(s) /\ Estimate(s) <= s.submitted
      BY <1>1, <2>1, EstimateIsInRange DEF Shape
  <2>4. PICK p \in Nat, st \in {"Playing", "Ended"}, run \in BOOLEAN :
            /\ t = [s EXCEPT !.presented = p, !.state = st, !.running = run]
            /\ s.presented <= p /\ p <= s.submitted
            /\ st = IF p = Frames(s) THEN "Ended" ELSE "Playing"
    <3>1. CASE Estimate(s) >= Frames(s)
      <4>1. t = [s EXCEPT !.presented = Frames(s), !.state = "Ended", !.running = FALSE]
          BY <1>3, <2>1, <3>1 DEF UpdatePresented
      <4>2. s.presented <= Frames(s) /\ Frames(s) <= s.submitted
          BY <2>2, <2>3, <3>1
      <4> QED BY <2>2, <4>1, <4>2
    <3>2. CASE ~(Estimate(s) >= Frames(s))
      <4>1. t = [s EXCEPT !.presented = Estimate(s), !.state = s.state, !.running = s.running]
          BY <1>1, <1>3, <2>1, <3>2 DEF UpdatePresented, TransportRecord
      <4>2. Estimate(s) # Frames(s) /\ s.running \in BOOLEAN
          BY <1>1, <2>2, <2>3, <3>2 DEF TransportRecord
      <4> QED BY <1>3, <2>3, <4>1, <4>2
    <3> QED BY <3>1, <3>2
  <2>5. t \in TransportRecord
      BY <1>1, <2>4 DEF TransportRecord, PlaybackState
  <2>6. /\ t.state = st /\ t.presented = p /\ t.running = run /\ t.clip = s.clip
        /\ t.replacement = s.replacement /\ t.segmentStart = s.segmentStart
        /\ t.submitted = s.submitted /\ t.queue = s.queue
        /\ t.discontinuity = s.discontinuity /\ t.published = s.published
      BY <1>1, <2>4 DEF TransportRecord
  <2> HIDE DEF t
  <2>7. InRange(t)
      BY <2>1, <2>2, <2>4, <2>6 DEF Shape, InRange, Frames
  <2>8. Shape(t) /\ Latest(t) = Latest(s)
      BY <2>1, <2>5, <2>6, <2>7 DEF Shape, Latest
  <2>9. Latest(s) \in SnapshotType
      BY <1>1 DEF Shape, Latest, TransportRecord
  <2>10. /\ Snapshot(t).position = p /\ Snapshot(s).position = s.presented
         /\ Snapshot(t).state = st /\ Snapshot(t).discontinuity = Snapshot(s).discontinuity
      BY <1>1, <2>1, <2>5, <2>6, SnapshotTyped
  <2>11. Follows(Latest(t), Snapshot(t))
      BY <2>2, <2>4, <2>8, <2>9, <2>10 DEF Follows, SnapshotType
  <2>12. SeatOf(t) = [SeatOf(s) EXCEPT !.position = p, !.state = st]
    <3> DEFINE b == [SeatOf(s) EXCEPT !.position = p, !.state = st]
    <3>1. /\ b \in SeatType /\ b.state = st /\ b.position = p
          /\ b.discontinuity = s.discontinuity /\ b.clip = s.clip
          /\ b.replacement = SeatReplacement(s.replacement)
        BY <1>1, SeatTyped DEF SeatType, PlaybackState
    <3> HIDE DEF b
    <3>2. SeatOf(t) = b
        BY <2>1, <2>5, <2>6, <3>1, SeatTyped, SeatsAreEqual
    <3> QED BY <3>2 DEF b
  <2>13. SeatOf(t) \in Abstract!Moved(SeatOf(s))
    <3>1. p \in s.presented .. Length[s.clip]
        BY <2>2, <2>4 DEF Frames
    <3>2. /\ SeatOf(s).state = "Playing" /\ SeatOf(s).position = s.presented
          /\ SeatOf(s).clip = s.clip
        BY <1>3, <2>10 DEF SeatOf
    <3>3. p \in Abstract!Heard(SeatOf(s))
        BY <3>1, <3>2 DEF Abstract!Heard
    <3>4. SeatOf(t) = [SeatOf(s) EXCEPT !.position = p,
                           !.state = IF p = Length[SeatOf(s).clip] THEN "Ended" ELSE "Playing"]
        BY <2>4, <2>12, <3>2 DEF Frames
    <3> HIDE DEF Abstract!Heard
    <3> QED BY <3>2, <3>3, <3>4 DEF Abstract!Moved
  <2> QED BY <1>3, <2>4, <2>6, <2>8, <2>11, <2>13 DEF t
<1> QED BY <1>2, <1>3

-----------------------------------------------------------------------------
(* A handler that moves the position on within the segment.                *)
Onward(s, t) ==
    /\ t.clip = s.clip /\ t.replacement = s.replacement
    /\ s.presented <= t.presented /\ t.presented <= Frames(s)

LEMMA OnwardIsMoved ==
    ASSUME NEW s, NEW t, Shape(s), Shape(t), s.state = "Playing", Onward(s, t),
           t.discontinuity = s.discontinuity,
           t.state = IF t.presented = Frames(s) THEN "Ended" ELSE "Playing"
    PROVE  SeatOf(t) \in Abstract!Moved(SeatOf(s))
<1> DEFINE b == [SeatOf(s) EXCEPT !.position = t.presented,
                     !.state = IF t.presented = Length[SeatOf(s).clip] THEN "Ended" ELSE "Playing"]
<1>1. s \in TransportRecord /\ t \in TransportRecord /\ s.clip # None /\ s.clip \in Clip
    BY DEF Shape, TransportRecord
<1>2. /\ s.presented \in Nat /\ t.presented \in Nat /\ Length[s.clip] \in Nat
    BY <1>1, LengthIsPositive DEF TransportRecord
<1>3. SeatOf(s).state = "Playing" /\ SeatOf(s).clip = s.clip /\ SeatOf(s).position = s.presented
    BY <1>1, SeatTyped
<1>4. t.presented \in Abstract!Heard(SeatOf(s))
    BY <1>2, <1>3 DEF Onward, Frames, Abstract!Heard
<1>5. /\ b \in SeatType /\ b.position = t.presented /\ b.discontinuity = s.discontinuity
      /\ b.clip = s.clip /\ b.replacement = SeatReplacement(s.replacement)
      /\ b.state = t.state
    BY <1>1, <1>2, <1>3, SeatTyped DEF SeatType, PlaybackState, Frames
<1>6. SeatOf(t) = b
  <2> HIDE DEF b
  <2> QED BY <1>1, <1>5, SeatTyped, SeatsAreEqual DEF Onward
<1> HIDE DEF Abstract!Heard
<1> QED BY <1>3, <1>4, <1>6 DEF Abstract!Moved

(* What entering Error leaves, as the owner sees it.                       *)
LEMMA OnwardIsError ==
    ASSUME NEW s, NEW t, Shape(s), Shape(t), s.state # "Error",
           t.clip = s.clip, t.replacement = s.replacement,
           s.state = "Playing" => Onward(s, t), s.state # "Playing" => t.presented = s.presented,
           t.discontinuity = s.discontinuity + 1, t.state = "Error"
    PROVE  Abstract!Fail(SeatOf(t)) \in Abstract!Errors(SeatOf(s))
<1> DEFINE p == SeatOf(t).position
           b == [SeatOf(s) EXCEPT !.state = "Error", !.discontinuity = @ + 1, !.position = p]
<1>1. s \in TransportRecord /\ t \in TransportRecord
    BY DEF Shape
<1>2. /\ s.presented \in Nat /\ t.presented \in Nat /\ s.discontinuity \in Nat
    BY <1>1 DEF TransportRecord
<1>3. p \in Abstract!Heard(SeatOf(s))
  <2>1. CASE s.state = "Playing"
    <3>1. s.clip \in Clip /\ s.clip # None
        BY <1>1, <2>1 DEF Shape, TransportRecord
    <3>2. p = t.presented /\ SeatOf(s).position = s.presented /\ SeatOf(s).clip = s.clip
          /\ SeatOf(s).state = "Playing"
        BY <1>1, <2>1, <3>1, SeatTyped
    <3> HIDE DEF p
    <3> QED BY <1>2, <2>1, <3>1, <3>2, LengthIsPositive DEF Onward, Frames, Abstract!Heard
  <2>2. CASE s.state # "Playing"
    <3>1. p = SeatOf(s).position /\ SeatOf(s).state # "Playing"
        BY <1>1, <2>2, SeatTyped
    <3> HIDE DEF p
    <3> QED BY <3>1 DEF Abstract!Heard
  <2> QED BY <2>1, <2>2
<1>4. p \in Nat /\ SeatOf(s) \in SeatType
    BY <1>1, SeatTyped DEF SeatType
<1>5. /\ b \in SeatType /\ b.state = "Error" /\ b.discontinuity = s.discontinuity + 1
      /\ b.position = p /\ b.clip = s.clip /\ b.replacement = SeatReplacement(s.replacement)
  <2> HIDE DEF p
  <2> DEFINE r == SeatOf(s)
  <2>1. /\ r \in SeatType /\ r.discontinuity = s.discontinuity /\ r.clip = s.clip
        /\ r.replacement = SeatReplacement(s.replacement)
      BY <1>1, SeatTyped
  <2>2. b = [r EXCEPT !.state = "Error", !.discontinuity = s.discontinuity + 1, !.position = p]
      BY <2>1
  <2> DEFINE d == s.discontinuity + 1
  <2>3. d \in Nat
      BY <1>2
  <2>4. b = [r EXCEPT !.state = "Error", !.discontinuity = d, !.position = p]
      BY <2>2
  <2> HIDE DEF r, b, d
  <2>5. b \in SeatType
      BY <1>4, <2>1, <2>3, <2>4 DEF SeatType, PlaybackState
  <2>6. /\ b.state = "Error" /\ b.discontinuity = d
        /\ b.position = p /\ b.clip = r.clip /\ b.replacement = r.replacement
      BY <2>1, <2>4 DEF SeatType
  <2> QED BY <2>1, <2>5, <2>6 DEF d
<1>6. SeatOf(t) = b
  <2> HIDE DEF b
  <2> QED BY <1>1, <1>5, SeatTyped, SeatsAreEqual
<1>7. SeatOf(s).state # "Error"
    BY <1>1, SeatTyped
<1> HIDE DEF p, Abstract!Heard
<1> QED BY <1>3, <1>6, <1>7 DEF Abstract!Errors

LEMMA PublishAdvancedKeepsGood ==
    ASSUME NEW s, Shape(s)
    PROVE  LET t == Publish(Advance(s))
           IN  /\ Good(t) /\ Synced(t)
               /\ SeatOf(t) = [SeatOf(s) EXCEPT !.discontinuity = @ + 1]
               /\ t = [s EXCEPT !.discontinuity = s.discontinuity + 1, !.published = t.published]
<1>1. /\ Shape(Advance(s)) /\ Follows(Latest(Advance(s)), Snapshot(Advance(s)))
      /\ Advance(s) = [s EXCEPT !.discontinuity = s.discontinuity + 1]
      /\ SeatOf(Advance(s)) = [SeatOf(s) EXCEPT !.discontinuity = @ + 1]
    BY AdvanceIsFresh
<1>2. Publish(Advance(s)) = [Advance(s) EXCEPT !.published = Append(Advance(s).published, Snapshot(Advance(s)))]
    BY DEF Publish
<1> DEFINE h == Append(Advance(s).published, Snapshot(Advance(s)))
<1>3. Publish(Advance(s)).published = h
    BY <1>1, <1>2 DEF Shape, TransportRecord
<1> HIDE DEF h
<1>4. Publish(Advance(s)) = [s EXCEPT !.discontinuity = s.discontinuity + 1, !.published = h]
    BY <1>1, <1>2 DEF h
<1> QED BY <1>1, <1>3, <1>4, PublishKeepsGood

LEMMA EnterErrorKeepsGood ==
    ASSUME NEW s, Shape(s), Follows(Latest(s), Snapshot(s)), s.state # "Error"
    PROVE  LET t == EnterError(s)
           IN  /\ Good(t) /\ Synced(t)
               /\ Abstract!Fail(SeatOf(t)) \in Abstract!Errors(SeatOf(s))
               /\ t.state = "Error" /\ t.discontinuity = s.discontinuity + 1
               /\ t.clip = s.clip /\ t.replacement = s.replacement
               /\ s.presented <= t.presented
               /\ s.state = "Playing" => Onward(s, t)
               /\ s.state # "Playing" => t.presented = s.presented
<1> DEFINE u == UpdatePresented(s)
           v == [u EXCEPT !.state = "Error", !.running = FALSE]
           t == Publish(Advance(v))
<1>1. /\ Shape(u) /\ u \in TransportRecord /\ s \in TransportRecord
      /\ u.clip = s.clip /\ u.replacement = s.replacement
      /\ u.discontinuity = s.discontinuity /\ u.published = s.published
      /\ s.presented <= u.presented
      /\ s.state = "Playing" => Onward(s, u)
      /\ s.state # "Playing" => u.presented = s.presented
  <2>1. Shape(u) /\ u \in TransportRecord /\ s \in TransportRecord
      BY UpdatePresentedKeepsGood DEF Shape
  <2>2. CASE s.state # "Playing"
    <3>1. u = s
        BY <2>2, UpdatePresentedKeepsGood
    <3> QED BY <2>1, <2>2, <3>1 DEF TransportRecord
  <2>3. CASE s.state = "Playing"
    <3> DEFINE p == u.presented
               st == u.state
               run == u.running
    <3>1. u = [s EXCEPT !.presented = p, !.state = st, !.running = run]
          /\ s.presented <= p /\ p <= s.submitted
        BY <2>3, UpdatePresentedKeepsGood
    <3>2. s.clip \in Clip /\ s.clip # None /\ s.submitted <= Frames(s) /\ s.submitted \in Nat
          /\ Frames(s) \in Nat
        BY <2>1, <2>3, LengthIsPositive DEF Shape, InRange, TransportRecord, Frames
    <3>3. p \in Nat
        BY <2>1 DEF TransportRecord
    <3> HIDE DEF p, st, run, u
    <3>4. /\ u.clip = s.clip /\ u.replacement = s.replacement
          /\ u.discontinuity = s.discontinuity /\ u.published = s.published
        BY <2>1, <3>1 DEF TransportRecord
    <3> QED BY <2>1, <2>3, <3>1, <3>2, <3>3, <3>4 DEF Onward, p
  <2> QED BY <2>2, <2>3
<1> HIDE DEF u
<1>2. v \in TransportRecord
    BY <1>1 DEF TransportRecord, PlaybackState
<1>3. /\ v.state = "Error" /\ v.clip = u.clip /\ v.replacement = u.replacement
      /\ v.segmentStart = u.segmentStart /\ v.submitted = u.submitted /\ v.presented = u.presented
      /\ v.queue = u.queue /\ v.discontinuity = u.discontinuity /\ v.published = u.published
    BY <1>1 DEF TransportRecord
<1> HIDE DEF v
<1>4. Shape(v)
    BY <1>1, <1>2, <1>3 DEF Shape, InRange, Frames, Latest
<1>5. /\ Good(t) /\ Synced(t)
      /\ t = [v EXCEPT !.discontinuity = v.discontinuity + 1, !.published = t.published]
    BY <1>4, PublishAdvancedKeepsGood
<1>6. t.published \in Seq(SnapshotType)
    BY <1>5 DEF Good, Shape, TransportRecord
<1> DEFINE h == t.published
<1>7. t = [v EXCEPT !.discontinuity = v.discontinuity + 1, !.published = h]
    BY <1>5
<1> HIDE DEF t, h
<1>8. /\ t.state = "Error" /\ t.clip = s.clip /\ t.replacement = s.replacement
      /\ t.presented = u.presented /\ t.discontinuity = s.discontinuity + 1
    BY <1>1, <1>2, <1>3, <1>7 DEF TransportRecord
<1>9. Abstract!Fail(SeatOf(t)) \in Abstract!Errors(SeatOf(s))
    BY <1>1, <1>5, <1>8, OnwardIsError DEF Good, Onward
<1>10. EnterError(s) = t
    BY DEF EnterError, t, v, u
<1> QED BY <1>1, <1>5, <1>8, <1>9, <1>10 DEF Onward

LEMMA RebasedIsOnward ==
    ASSUME NEW s, Shape(s), Follows(Latest(s), Snapshot(s)), s.state = "Playing"
    PROVE  LET t == Rebased(s)
           IN  /\ Shape(t) /\ Follows(Latest(t), Snapshot(t)) /\ t.state = "Playing"
               /\ Onward(s, t) /\ t.discontinuity = s.discontinuity
<1>0. s \in TransportRecord /\ s.clip \in Clip /\ s.clip # None
    BY DEF Shape, TransportRecord
<1>1. /\ s.submitted \in Nat /\ s.presented \in Nat /\ Frames(s) \in Nat
      /\ s.presented <= s.submitted /\ s.submitted <= Frames(s)
    BY <1>0, LengthIsPositive DEF Shape, InRange, TransportRecord, Frames
<1>2. CASE ~Underrun(s)
  <2>1. Rebased(s) = s
      BY <1>2 DEF Rebased
  <2> QED BY <1>0, <1>1, <2>1 DEF Onward
<1>3. CASE Underrun(s)
  <2> DEFINE u == UpdatePresented(s)
             p == u.presented
             run == u.running
             t == [u EXCEPT !.segmentStart = p, !.baseline = u.mixed, !.episode = TRUE]
  <2>1. /\ Shape(u) /\ Follows(Latest(u), Snapshot(u)) /\ u \in TransportRecord
        /\ u = [s EXCEPT !.presented = p, !.state = u.state, !.running = run]
        /\ s.presented <= p /\ p <= s.submitted
        /\ u.state = IF p = Frames(s) THEN "Ended" ELSE "Playing"
      BY UpdatePresentedKeepsGood DEF Shape
  <2>2. p \in Nat /\ run \in BOOLEAN
      BY <2>1 DEF TransportRecord
  <2>3. u.state = "Playing"
      BY <1>1, <1>3, <2>1, <2>2 DEF Underrun
  <2>4. u = [s EXCEPT !.presented = p, !.state = "Playing", !.running = run]
      BY <2>1, <2>3
  <2>5. Rebased(s) = t
      BY <1>3 DEF Rebased
  <2> HIDE DEF p, run, u
  <2>6. /\ u.clip = s.clip /\ u.replacement = s.replacement /\ u.submitted = s.submitted
        /\ u.queue = 0 /\ u.discontinuity = s.discontinuity /\ u.published = s.published
        /\ u.presented = p /\ u.mixed \in Nat
      BY <1>0, <1>3, <2>1, <2>4 DEF Underrun, TransportRecord
  <2>7. t \in TransportRecord
      BY <2>1, <2>2, <2>6 DEF TransportRecord
  <2>8. /\ t.clip = s.clip /\ t.replacement = s.replacement /\ t.submitted = s.submitted
        /\ t.queue = 0 /\ t.discontinuity = s.discontinuity /\ t.published = u.published
        /\ t.presented = p /\ t.segmentStart = p /\ t.state = "Playing"
      BY <2>1, <2>3, <2>6 DEF TransportRecord
  <2> HIDE DEF t
  <2>9. InRange(t)
      BY <1>0, <1>1, <2>1, <2>2, <2>8 DEF InRange, Frames
  <2>10. Snapshot(t) = Snapshot(u) /\ Latest(t) = Latest(u)
      BY <2>3, <2>6, <2>8 DEF Snapshot, Latest
  <2>11. Shape(t)
      BY <1>0, <2>1, <2>6, <2>7, <2>8, <2>9, <2>10 DEF Shape
  <2>12. Onward(s, t)
      BY <1>1, <2>1, <2>2, <2>8 DEF Onward
  <2> QED BY <2>1, <2>5, <2>8, <2>10, <2>11, <2>12
<1> QED BY <1>2, <1>3

LEMMA RefilledIsOnward ==
    ASSUME NEW s, Shape(s), Follows(Latest(s), Snapshot(s)), s.state = "Playing"
    PROVE  LET t == Refilled(s)
           IN  /\ Shape(t) /\ Follows(Latest(t), Snapshot(t)) /\ t.state = "Playing"
               /\ Onward(s, t) /\ t.discontinuity = s.discontinuity
<1>0. s \in TransportRecord /\ s.clip \in Clip /\ s.clip # None
    BY DEF Shape, TransportRecord
<1>1. /\ s.submitted \in Nat /\ s.presented \in Nat /\ Frames(s) \in Nat /\ s.segmentStart \in Nat
      /\ s.presented <= s.submitted /\ s.submitted <= Frames(s)
      /\ s.queue \in 0 .. TargetFrames /\ s.queue \in Nat
      /\ s.segmentStart <= s.presented /\ s.queue <= s.submitted - s.segmentStart
    BY <1>0, LengthIsPositive, TransportAssumption DEF Shape, InRange, TransportRecord, Frames
<1>2. CASE ~NeedsFrames(s)
  <2>1. Refilled(s) = s
      BY <1>2 DEF Refilled
  <2> QED BY <1>0, <1>1, <2>1 DEF Onward
<1>3. CASE NeedsFrames(s)
  <2> DEFINE f == Min({Frames(s) - s.submitted, TargetFrames - s.queue})
             t == [s EXCEPT !.submitted = s.submitted + f, !.queue = s.queue + f, !.episode = FALSE]
  <2>1. Refilled(s) = t
      BY <1>3 DEF Refilled
  <2>2. f \in Nat /\ f <= Frames(s) - s.submitted /\ f <= TargetFrames - s.queue
    <3>1. Frames(s) - s.submitted \in Int /\ TargetFrames - s.queue \in Int
        BY <1>1, TransportAssumption
    <3>2. f = IF Frames(s) - s.submitted <= TargetFrames - s.queue
              THEN Frames(s) - s.submitted ELSE TargetFrames - s.queue
        BY <3>1, MinOfTwo
    <3> HIDE DEF f
    <3> QED BY <1>1, <3>2, TransportAssumption
  <2> HIDE DEF f
  <2>3. s.queue + f \in 0 .. TargetFrames /\ s.submitted + f \in Nat
      BY <1>1, <2>2, TransportAssumption
  <2>4. t \in TransportRecord
      BY <1>0, <2>3 DEF TransportRecord
  <2>5. /\ t.clip = s.clip /\ t.replacement = s.replacement /\ t.submitted = s.submitted + f
        /\ t.queue = s.queue + f /\ t.discontinuity = s.discontinuity /\ t.published = s.published
        /\ t.presented = s.presented /\ t.segmentStart = s.segmentStart /\ t.state = "Playing"
      BY <1>0 DEF TransportRecord
  <2> HIDE DEF t
  <2>6. InRange(t)
      BY <1>0, <1>1, <2>2, <2>5 DEF InRange, Frames
  <2>7. Snapshot(t) = Snapshot(s) /\ Latest(t) = Latest(s)
      BY <2>5 DEF Snapshot, Latest
  <2>8. Shape(t) /\ Onward(s, t)
      BY <1>0, <1>1, <2>4, <2>5, <2>6, <2>7 DEF Shape, Onward
  <2> QED BY <2>1, <2>5, <2>7, <2>8
<1> QED BY <1>2, <1>3

LEMMA ServicedIsGood ==
    ASSUME NEW s, Shape(s), Follows(Latest(s), Snapshot(s)), s.state = "Playing",
           NEW t \in Serviced(s)
    PROVE  /\ Good(t) /\ Synced(t) /\ Onward(s, t)
           /\ t.discontinuity = s.discontinuity
           /\ t.state = IF t.presented = Frames(s) THEN "Ended" ELSE "Playing"
           /\ SeatOf(t) \in Abstract!Moved(SeatOf(s))
<1> DEFINE r == Rebased(s)
           f == Refilled(r)
           u == UpdatePresented(f)
<1>1. /\ Shape(r) /\ Follows(Latest(r), Snapshot(r)) /\ r.state = "Playing"
      /\ Onward(s, r) /\ r.discontinuity = s.discontinuity
    BY RebasedIsOnward
<1> HIDE DEF r
<1>2. /\ Shape(f) /\ Follows(Latest(f), Snapshot(f)) /\ f.state = "Playing"
      /\ Onward(r, f) /\ f.discontinuity = r.discontinuity
    BY <1>1, RefilledIsOnward
<1> HIDE DEF f
<1>3. /\ Shape(u) /\ Follows(Latest(u), Snapshot(u))
      /\ u = [f EXCEPT !.presented = u.presented, !.state = u.state, !.running = u.running]
      /\ f.presented <= u.presented /\ u.presented <= f.submitted
      /\ u.state = IF u.presented = Frames(f) THEN "Ended" ELSE "Playing"
    BY <1>2, UpdatePresentedKeepsGood
<1>4. t = Publish(u)
    BY DEF Serviced, u, f, r
<1> DEFINE p == u.presented
           st == u.state
           run == u.running
<1>5. u = [f EXCEPT !.presented = p, !.state = st, !.running = run]
    BY <1>3
<1> HIDE DEF u, p, st, run
<1>6. /\ s \in TransportRecord /\ r \in TransportRecord /\ f \in TransportRecord /\ u \in TransportRecord
    BY <1>1, <1>2, <1>3 DEF Shape
<1>7. /\ u.clip = f.clip /\ u.replacement = f.replacement /\ u.discontinuity = f.discontinuity
    BY <1>5, <1>6 DEF TransportRecord
<1>8. /\ s.presented \in Nat /\ r.presented \in Nat /\ f.presented \in Nat /\ u.presented \in Nat
      /\ f.submitted \in Nat /\ f.submitted <= Frames(f) /\ Frames(f) = Frames(s) /\ Frames(s) \in Nat
  <2>1. f.clip = s.clip /\ f.clip # None /\ f.clip \in Clip
      BY <1>1, <1>2, <1>6 DEF Onward, Shape, TransportRecord
  <2> QED BY <1>2, <1>6, <2>1, LengthIsPositive DEF Frames, Shape, InRange, TransportRecord
<1>9. Onward(s, u) /\ u.discontinuity = s.discontinuity
    BY <1>1, <1>2, <1>3, <1>7, <1>8 DEF Onward
<1>10. /\ Good(t) /\ Synced(t) /\ SeatOf(t) = SeatOf(u) /\ t.state = u.state
       /\ t.clip = u.clip /\ t.presented = u.presented
       /\ t.replacement = u.replacement /\ t.discontinuity = u.discontinuity
  <2> DEFINE h == Append(u.published, Snapshot(u))
  <2>1. t = [u EXCEPT !.published = h]
      BY <1>4 DEF Publish
  <2> HIDE DEF h
  <2>2. /\ t.clip = u.clip /\ t.presented = u.presented
        /\ t.replacement = u.replacement /\ t.discontinuity = u.discontinuity
      BY <1>6, <2>1 DEF TransportRecord
  <2> QED BY <1>3, <1>4, <2>2, PublishKeepsGood
<1>11. u.state = IF u.presented = Frames(s) THEN "Ended" ELSE "Playing"
    BY <1>3, <1>8
<1>12. SeatOf(u) \in Abstract!Moved(SeatOf(s))
    BY <1>3, <1>9, <1>11, OnwardIsMoved
<1> QED BY <1>9, <1>10, <1>11, <1>12 DEF Onward

LEMMA ServiceFailuresAreErrors ==
    ASSUME NEW s, Shape(s), Follows(Latest(s), Snapshot(s)), s.state = "Playing",
           NEW t \in ServiceFailures(s)
    PROVE  /\ Good(t) /\ Synced(t)
           /\ Abstract!Fail(SeatOf(t)) \in Abstract!Errors(SeatOf(s))
<1>1. CASE t = EnterError(s)
    BY <1>1, EnterErrorKeepsGood
<1>2. CASE t = EnterError(Rebased(s))
  <2> DEFINE r == Rebased(s)
  <2>1. /\ Shape(r) /\ Follows(Latest(r), Snapshot(r)) /\ r.state = "Playing"
        /\ Onward(s, r) /\ r.discontinuity = s.discontinuity
      BY RebasedIsOnward
  <2> HIDE DEF r
  <2>2. /\ Good(t) /\ Synced(t) /\ t.state = "Error" /\ t.discontinuity = r.discontinuity + 1
        /\ Onward(r, t)
      BY <1>2, <2>1, EnterErrorKeepsGood DEF r
  <2>3. /\ s.presented \in Nat /\ r.presented \in Nat /\ t.presented \in Nat
      BY <2>1, <2>2 DEF Good, Shape, TransportRecord
  <2>4. Onward(s, t)
      BY <2>1, <2>2, <2>3 DEF Onward, Frames
  <2> QED BY <2>1, <2>2, <2>4, OnwardIsError DEF Onward, Good
<1> QED BY <1>1, <1>2 DEF ServiceFailures

LEMMA StartedIsGood ==
    ASSUME NEW s, Shape(s), Follows(Latest(s), Snapshot(s)), s.state = "Playing",
           NEW t \in Started(s)
    PROVE  /\ Good(t) /\ Synced(t)
           /\ \/ SeatOf(t) \in Abstract!Moved(SeatOf(s))
              \/ Abstract!Fail(SeatOf(t)) \in Abstract!Errors(SeatOf(s))
<1>1. CASE t \in ServiceFailures(s)
    BY <1>1, ServiceFailuresAreErrors
<1>2. ASSUME NEW q \in Serviced(s), t = EnterError(q) \/ t = Publish([q EXCEPT !.running = TRUE])
      PROVE  /\ Good(t) /\ Synced(t)
             /\ \/ SeatOf(t) \in Abstract!Moved(SeatOf(s))
                \/ Abstract!Fail(SeatOf(t)) \in Abstract!Errors(SeatOf(s))
  <2>1. /\ Good(q) /\ Synced(q) /\ Onward(s, q) /\ q.discontinuity = s.discontinuity
        /\ q.state \in {"Playing", "Ended"}
        /\ SeatOf(q) \in Abstract!Moved(SeatOf(s))
      BY ServicedIsGood
  <2>2. CASE t = EnterError(q)
    <3>1. /\ Good(t) /\ Synced(t) /\ t.state = "Error" /\ t.discontinuity = q.discontinuity + 1
          /\ t.clip = q.clip /\ t.replacement = q.replacement
          /\ q.state = "Playing" => Onward(q, t)
          /\ q.state # "Playing" => t.presented = q.presented
        BY <2>1, <2>2, EnterErrorKeepsGood DEF Good
    <3>2. /\ s.presented \in Nat /\ q.presented \in Nat /\ t.presented \in Nat
        BY <2>1, <3>1 DEF Good, Shape, TransportRecord
    <3>3. Onward(s, t)
      <4>1. CASE q.state = "Playing"
          BY <2>1, <3>1, <3>2, <4>1 DEF Onward, Frames
      <4>2. CASE q.state # "Playing"
          BY <2>1, <3>1, <3>2, <4>2 DEF Onward, Frames
      <4> QED BY <4>1, <4>2
    <3> QED BY <2>1, <3>1, <3>3, OnwardIsError DEF Onward, Good
  <2>3. CASE t = Publish([q EXCEPT !.running = TRUE])
    <3> DEFINE v == [q EXCEPT !.running = TRUE]
    <3>1. q \in TransportRecord
        BY <2>1 DEF Good, Shape
    <3>2. /\ v \in TransportRecord /\ v.state = q.state /\ v.clip = q.clip
          /\ v.replacement = q.replacement /\ v.segmentStart = q.segmentStart
          /\ v.submitted = q.submitted /\ v.queue = q.queue /\ v.presented = q.presented
          /\ v.discontinuity = q.discontinuity /\ v.published = q.published
        BY <3>1 DEF TransportRecord
    <3> HIDE DEF v
    <3>3. /\ Snapshot(v) = Snapshot(q) /\ Latest(v) = Latest(q) /\ SeatOf(v) = SeatOf(q)
          /\ (InRange(q) => InRange(v))
        BY <3>2 DEF Snapshot, Latest, SeatOf, InRange, Frames
    <3>4. Shape(v) /\ Follows(Latest(v), Snapshot(v))
        BY <2>1, <3>2, <3>3 DEF Good, Shape
    <3>5. Good(Publish(v)) /\ Synced(Publish(v)) /\ SeatOf(Publish(v)) = SeatOf(v)
        BY <3>4, PublishKeepsGood
    <3> QED BY <2>1, <2>3, <3>3, <3>5 DEF v
  <2> QED BY <1>2, <2>2, <2>3
<1> QED BY <1>1, <1>2 DEF Started

-----------------------------------------------------------------------------
(* Records that handlers build: a segment begins, a lease opens, a state   *)
(* is resumed.                                                             *)
Recorded(s) ==
    /\ s \in TransportRecord
    /\ s.published # <<>>
    /\ Chain(s.published)
    /\ Latest(s).discontinuity <= s.discontinuity

Segment(s, frame, state) == [BeginSegment(s, frame) EXCEPT !.state = state]

LEMMA SegmentHasShape ==
    ASSUME NEW s, Recorded(s), s.clip # None, NEW frame \in Nat, frame <= Frames(s),
           NEW st \in {"Stopped", "Playing", "Paused"}
    PROVE  LET t == Segment(s, frame, st)
           IN  /\ Shape(t) /\ t.state = st /\ t.clip = s.clip /\ t.replacement = s.replacement
               /\ t.presented = frame /\ t.discontinuity = s.discontinuity
               /\ t.published = s.published
<1> DEFINE t == Segment(s, frame, st)
<1>1. s \in TransportRecord /\ s.clip \in Clip /\ 0 \in 0 .. TargetFrames
    BY TransportAssumption DEF Recorded, TransportRecord
<1>2. t = [s EXCEPT !.segmentStart = frame, !.submitted = frame, !.presented = frame,
                    !.mixed = 0, !.baseline = 0, !.queue = 0, !.running = FALSE, !.state = st]
    BY DEF Segment, BeginSegment
<1> HIDE DEF t
<1>3. t \in TransportRecord
    BY <1>1, <1>2 DEF TransportRecord, PlaybackState
<1>4. /\ t.state = st /\ t.clip = s.clip /\ t.replacement = s.replacement
      /\ t.presented = frame /\ t.submitted = frame /\ t.segmentStart = frame /\ t.queue = 0
      /\ t.discontinuity = s.discontinuity /\ t.published = s.published
    BY <1>1, <1>2 DEF TransportRecord
<1>5. InRange(t)
  <2>1. frame <= Frames(t) /\ Frames(t) \in Nat
      BY <1>1, <1>4, LengthIsPositive DEF Frames
  <2> QED BY <1>4, <2>1 DEF InRange
<1>6. Shape(t)
    BY <1>3, <1>4, <1>5 DEF Recorded, Shape, Latest
<1> QED BY <1>4, <1>6 DEF t

LEMMA OpenLeaseIsGood ==
    ASSUME NEW s, Recorded(s), NEW clip \in Clip, NEW frame \in 0 .. Length[clip]
    PROVE  LET t == OpenLease(s, clip, frame)
           IN  /\ Good(t) /\ Synced(t) /\ t.state = "Stopped" /\ t.clip = clip
               /\ t.replacement = s.replacement /\ t.presented = frame
               /\ t.discontinuity = s.discontinuity + 1
<1> DEFINE v == [BeginSegment(s, frame) EXCEPT !.clip = clip, !.episode = FALSE, !.state = "Stopped"]
           t == Publish(Advance(v))
<1>1. /\ s \in TransportRecord /\ 0 \in 0 .. TargetFrames /\ clip # None
      /\ frame \in Nat /\ Length[clip] \in Nat /\ frame <= Length[clip] /\ s.discontinuity \in Nat
    BY LengthIsPositive, TransportAssumption DEF Recorded, TransportRecord
<1>2. v = [s EXCEPT !.segmentStart = frame, !.submitted = frame, !.presented = frame,
                    !.mixed = 0, !.baseline = 0, !.queue = 0, !.running = FALSE,
                    !.clip = clip, !.episode = FALSE, !.state = "Stopped"]
    BY DEF BeginSegment
<1> HIDE DEF v
<1>3. v \in TransportRecord
    BY <1>1, <1>2 DEF TransportRecord, PlaybackState
<1>4. /\ v.state = "Stopped" /\ v.clip = clip /\ v.replacement = s.replacement
      /\ v.presented = frame /\ v.submitted = frame /\ v.segmentStart = frame /\ v.queue = 0
      /\ v.discontinuity = s.discontinuity /\ v.published = s.published
    BY <1>1, <1>2 DEF TransportRecord
<1>5. InRange(v)
    BY <1>1, <1>4 DEF InRange, Frames
<1>6. Shape(v)
    BY <1>1, <1>3, <1>4, <1>5 DEF Recorded, Shape, Latest
<1> DEFINE h == t.published
<1>7. /\ Good(t) /\ Synced(t)
      /\ t = [v EXCEPT !.discontinuity = v.discontinuity + 1, !.published = h]
    BY <1>6, PublishAdvancedKeepsGood
<1>8. OpenLease(s, clip, frame) = t
    BY DEF OpenLease, v, t
<1> HIDE DEF t, h
<1>9. /\ t.state = "Stopped" /\ t.clip = clip /\ t.replacement = s.replacement
      /\ t.presented = frame /\ t.discontinuity = s.discontinuity + 1
    BY <1>3, <1>4, <1>7 DEF TransportRecord
<1> QED BY <1>7, <1>8, <1>9

LEMMA ResumedMayPublish ==
    ASSUME NEW s, Good(s), Synced(s), s.state # "Error", s.clip # None,
           NEW st \in {"Playing", "Paused"}
    PROVE  LET t == [s EXCEPT !.state = st]
           IN  /\ Shape(t) /\ Follows(Latest(t), Snapshot(t)) /\ t.state = st /\ t.clip = s.clip
               /\ t.replacement = s.replacement /\ t.presented = s.presented
               /\ t.discontinuity = s.discontinuity
<1> DEFINE t == [s EXCEPT !.state = st]
<1>1. s \in TransportRecord /\ s.presented \in Nat
    BY DEF Good, Shape, TransportRecord
<1>2. t \in TransportRecord
    BY <1>1 DEF TransportRecord, PlaybackState
<1>3. /\ t.state = st /\ t.clip = s.clip /\ t.replacement = s.replacement
      /\ t.segmentStart = s.segmentStart /\ t.submitted = s.submitted /\ t.queue = s.queue
      /\ t.presented = s.presented /\ t.discontinuity = s.discontinuity /\ t.published = s.published
    BY <1>1 DEF TransportRecord
<1> HIDE DEF t
<1>4. Shape(t) /\ Latest(t) = Snapshot(s)
    BY <1>2, <1>3 DEF Good, Synced, Shape, InRange, Frames, Latest
<1>5. Snapshot(t).position = Snapshot(s).position /\ Snapshot(t).position \in Nat
    BY <1>1, <1>2, <1>3, SnapshotTyped DEF SnapshotType
<1>6. Follows(Latest(t), Snapshot(t))
    BY <1>4, <1>5 DEF Follows
<1> QED BY <1>3, <1>4, <1>6 DEF t

LEMMA EnteredIsGood ==
    ASSUME Good(transport), Synced(transport)
    PROVE  /\ Good(Entered) /\ Synced(Entered) /\ Recorded(Entered)
           /\ Entered = [transport EXCEPT !.published = Entered.published]
           /\ Entered.state = transport.state /\ Entered.clip = transport.clip
           /\ Entered.replacement = transport.replacement
           /\ Entered.presented = transport.presented
           /\ Entered.discontinuity = transport.discontinuity
           /\ SeatOf(Entered) = SeatOf(transport)
<1> DEFINE p == transport.published
           h == <<p[Len(p)]>>
           t == Entered
<1>1. transport \in TransportRecord /\ p \in Seq(SnapshotType) /\ p # <<>>
    BY DEF Good, Shape, TransportRecord
<1>2. Len(p) \in 1 .. Len(p) /\ p[Len(p)] \in SnapshotType
    BY <1>1
<1>3. h \in Seq(SnapshotType) /\ h # <<>> /\ Len(h) = 1 /\ h[1] = p[Len(p)]
    BY <1>2
<1>4. t = [transport EXCEPT !.published = h] /\ t.published = h
    BY <1>1 DEF Entered, TransportRecord
<1> HIDE DEF h
<1>5. t \in TransportRecord
    BY <1>1, <1>3, <1>4 DEF TransportRecord
<1>6. /\ t.state = transport.state /\ t.clip = transport.clip /\ t.replacement = transport.replacement
      /\ t.segmentStart = transport.segmentStart /\ t.submitted = transport.submitted
      /\ t.queue = transport.queue /\ t.presented = transport.presented
      /\ t.discontinuity = transport.discontinuity
    BY <1>1, <1>4 DEF TransportRecord
<1> HIDE DEF t
<1>7. Latest(t) = Latest(transport)
    BY <1>3, <1>4 DEF Latest
<1>8. Chain(t.published)
  <2>1. 1 .. Len(h) - 1 = {}
      BY <1>3
  <2> QED BY <1>4, <2>1 DEF Chain
<1>9. Snapshot(t) = Snapshot(transport) /\ SeatOf(t) = SeatOf(transport)
    BY <1>6 DEF Snapshot, SeatOf
<1>10. InRange(t)
    BY <1>6 DEF Good, Shape, InRange, Frames
<1>11. Good(t) /\ Synced(t) /\ Recorded(t)
    BY <1>3, <1>4, <1>5, <1>6, <1>7, <1>8, <1>9, <1>10 DEF Good, Synced, Shape, Recorded
<1> QED BY <1>4, <1>6, <1>9, <1>11 DEF t

-----------------------------------------------------------------------------
(* One lemma for each handler: it keeps the invariant, and what its owner  *)
(* sees of it is an outcome of the call of the same name on the seat.      *)
Implements(outcomes) ==
    /\ Good(transport') /\ Synced(transport')
    /\ \E o \in outcomes : SeatOf(transport') = o.seat

LEMMA OutcomesOfMoved ==
    ASSUME NEW s, NEW t, t \in Abstract!Moved(s)
    PROVE  \E o \in Abstract!Succeeds(s) : t = o.seat
<1>1. Abstract!Ok(t).seat = t
    BY DEF Abstract!Ok
<1> HIDE DEF Abstract!Moved, Abstract!Ok
<1> QED BY <1>1 DEF Abstract!Succeeds

LEMMA OutcomesOfErrors ==
    ASSUME NEW s, NEW t, Abstract!Fail(t) \in Abstract!Errors(s)
    PROVE  \E o \in Abstract!Errors(s) : t = o.seat
<1>1. Abstract!Fail(t).seat = t
    BY DEF Abstract!Fail
<1> QED BY <1>1

LEMMA ServiceImplements ==
    ASSUME Good(transport), Synced(transport), Service
    PROVE  Implements(Abstract!Service(SeatOf(transport)))
<1> DEFINE s == SeatOf(transport)
<1>0. /\ Good(Entered) /\ Synced(Entered) /\ Entered.state = transport.state
      /\ SeatOf(Entered) = s /\ s.state = transport.state
    BY EnteredIsGood, SeatTyped DEF Good, Shape
<1>1. CASE ServiceSucceeds
  <2>1. transport.state = "Playing" /\ transport' \in Serviced(Entered)
      BY <1>1 DEF ServiceSucceeds
  <2>2. Good(transport') /\ Synced(transport') /\ SeatOf(transport') \in Abstract!Moved(s)
      BY <1>0, <2>1, ServicedIsGood DEF Good
  <2> QED BY <1>0, <2>1, <2>2, OutcomesOfMoved DEF Implements, Abstract!Service
<1>2. CASE ServiceFails
  <2>1. transport.state = "Playing" /\ transport' \in ServiceFailures(Entered)
      BY <1>2 DEF ServiceFails
  <2>2. /\ Good(transport') /\ Synced(transport')
        /\ Abstract!Fail(SeatOf(transport')) \in Abstract!Errors(s)
      BY <1>0, <2>1, ServiceFailuresAreErrors DEF Good
  <2> QED BY <1>0, <2>1, <2>2, OutcomesOfErrors DEF Implements, Abstract!Service
<1>3. CASE ServicePublishes
  <2>1. transport.state \notin {"Playing", "Error"} /\ transport' = Publish(Entered)
      BY <1>3 DEF ServicePublishes
  <2>2. Good(transport') /\ Synced(transport') /\ SeatOf(transport') = s
      BY <1>0, <2>1, PublishKeepsGood DEF Good
  <2>3. Abstract!Ok(s).seat = s /\ Abstract!Service(s) = {Abstract!Ok(s)}
    <3>1. Abstract!Ok(s).seat = s
        BY DEF Abstract!Ok
    <3> QED BY <1>0, <2>1, <3>1 DEF Abstract!Service
  <2> QED BY <2>2, <2>3 DEF Implements
<1> QED BY <1>1, <1>2, <1>3 DEF Service

LEMMA LoadImplements ==
    ASSUME Good(transport), Synced(transport), NEW clip \in Clip, Load(clip)
    PROVE  Implements(Abstract!Load(SeatOf(transport), clip))
<1> DEFINE s == SeatOf(transport)
           b == [s EXCEPT !.clip = clip, !.state = "Stopped", !.position = 0,
                          !.discontinuity = @ + 1]
<1>0. /\ Good(Entered) /\ Synced(Entered) /\ Recorded(Entered) /\ Entered.state = transport.state
      /\ SeatOf(Entered) = s /\ s.state = transport.state /\ s \in SeatType
      /\ s.discontinuity = Entered.discontinuity /\ Entered.discontinuity \in Nat
      /\ s.replacement = SeatReplacement(Entered.replacement)
      /\ transport.state = "Empty"
    BY EnteredIsGood, SeatTyped, SMTT(30) DEF Good, Shape, Load, TransportRecord
<1> HIDE DEF s
<1>1. CASE transport' = EnterError(Entered)
  <2>1. /\ Good(transport') /\ Synced(transport')
        /\ Abstract!Fail(SeatOf(transport')) \in Abstract!Errors(s)
      BY <1>0, <1>1, EnterErrorKeepsGood DEF Good
  <2> QED BY <1>0, <2>1, OutcomesOfErrors DEF Implements, Abstract!Load, s
<1>2. CASE transport' = OpenLease(Entered, clip, 0)
  <2>1. 0 \in 0 .. Length[clip] /\ clip # None
      BY LengthIsPositive, TransportAssumption
  <2>2. /\ Good(transport') /\ Synced(transport') /\ transport'.state = "Stopped"
        /\ transport'.clip = clip /\ transport'.replacement = Entered.replacement
        /\ transport'.presented = 0 /\ transport'.discontinuity = Entered.discontinuity + 1
      BY <1>0, <1>2, <2>1, OpenLeaseIsGood
  <2>3. b = [s EXCEPT !.clip = clip, !.state = "Stopped", !.position = 0,
                      !.discontinuity = Entered.discontinuity + 1]
      BY <1>0
  <2> DEFINE d == Entered.discontinuity + 1
  <2>4. d \in Nat
      BY <1>0
  <2> HIDE DEF b, d
  <2>5. /\ b \in SeatType /\ b.clip = clip /\ b.state = "Stopped" /\ b.position = 0
        /\ b.discontinuity = d /\ b.replacement = s.replacement
    <3>1. b = [s EXCEPT !.clip = clip, !.state = "Stopped", !.position = 0, !.discontinuity = d]
        BY <2>3 DEF d
    <3> QED BY <1>0, <2>4, <3>1 DEF SeatType, PlaybackState
  <2>6. SeatOf(transport') = b
      BY <1>0, <2>1, <2>2, <2>5, SeatTyped, SeatsAreEqual DEF Good, Shape, d
  <2>7. Abstract!Ok(b) \in Abstract!Load(s, clip) /\ Abstract!Ok(b).seat = b
    <3>1. Abstract!Ok(b) \in Abstract!Load(s, clip)
        BY <1>0 DEF Abstract!Load, b
    <3> QED BY <3>1 DEF Abstract!Ok
  <2> QED BY <2>2, <2>6, <2>7 DEF Implements, s
<1> QED BY <1>1, <1>2 DEF Load

LEMMA PlayImplements ==
    ASSUME Good(transport), Synced(transport), Play
    PROVE  Implements(Abstract!Play(SeatOf(transport)))
<1> DEFINE s == SeatOf(transport)
           e == [Entered EXCEPT !.state = "Playing"]
           m == [s EXCEPT !.state = "Playing"]
<1>0. /\ Good(Entered) /\ Synced(Entered) /\ Entered \in TransportRecord
      /\ SeatOf(Entered) = s /\ s.state = transport.state /\ s \in SeatType
      /\ transport.state \in {"Stopped", "Paused"} /\ Entered.state = transport.state
      /\ Entered.clip # None
      /\ transport' \in Started(e)
    BY EnteredIsGood, SeatTyped DEF Good, Shape, Play
<1>1. /\ Shape(e) /\ Follows(Latest(e), Snapshot(e)) /\ e.state = "Playing"
      /\ e.clip = Entered.clip /\ e.replacement = Entered.replacement
      /\ e.presented = Entered.presented /\ e.discontinuity = Entered.discontinuity
    BY <1>0, ResumedMayPublish
<1> HIDE DEF e
<1>2. SeatOf(e) = m
  <2>1. /\ m \in SeatType /\ m.state = "Playing" /\ m.position = s.position
        /\ m.discontinuity = s.discontinuity /\ m.clip = s.clip /\ m.replacement = s.replacement
      BY <1>0 DEF SeatType, PlaybackState
  <2> HIDE DEF m, s
  <2>2. SeatOf(e).position = s.position
      BY <1>0, <1>1, SeatTyped DEF Shape
  <2> QED BY <1>0, <1>1, <2>1, <2>2, SeatTyped, SeatsAreEqual DEF Shape
<1> HIDE DEF s, m
<1>3. /\ Good(transport') /\ Synced(transport')
      /\ \/ SeatOf(transport') \in Abstract!Moved(m)
         \/ Abstract!Fail(SeatOf(transport')) \in Abstract!Errors(m)
    BY <1>0, <1>1, <1>2, StartedIsGood
<1>4. \E o \in Abstract!Succeeds(m) \cup Abstract!Errors(m) : SeatOf(transport') = o.seat
    BY <1>3, OutcomesOfMoved, OutcomesOfErrors
<1>5. Abstract!Play(s) = Abstract!Succeeds(m) \cup Abstract!Errors(m)
  <2> HIDE DEF Abstract!Succeeds, Abstract!Errors
  <2> QED BY <1>0 DEF Abstract!Play, m
<1> QED BY <1>3, <1>4, <1>5 DEF Implements, s

LEMMA PauseImplements ==
    ASSUME Good(transport), Synced(transport), Pause
    PROVE  Implements(Abstract!Pause(SeatOf(transport)))
<1> DEFINE s == SeatOf(transport)
           u == UpdatePresented(Entered)
           v == [u EXCEPT !.state = "Paused", !.running = FALSE]
<1>0. /\ Good(Entered) /\ Synced(Entered) /\ Entered \in TransportRecord
      /\ SeatOf(Entered) = s /\ s.state = "Playing" /\ s \in SeatType
      /\ Entered.state = "Playing" /\ Entered.clip \in Clip /\ Entered.clip # None
      /\ transport' \in {EnterError(u), Publish(v)}
  <2>1. transport.state = "Playing" /\ transport' \in {EnterError(u), Publish(v)}
      BY DEF Pause
  <2> QED BY <2>1, EnteredIsGood, SeatTyped DEF Good, Shape, TransportRecord
<1>1. /\ Shape(u) /\ Follows(Latest(u), Snapshot(u)) /\ Latest(u) = Latest(Entered)
      /\ u = [Entered EXCEPT !.presented = u.presented, !.state = u.state, !.running = u.running]
      /\ Entered.presented <= u.presented /\ u.presented <= Entered.submitted
      /\ u.state = IF u.presented = Frames(Entered) THEN "Ended" ELSE "Playing"
    BY <1>0, UpdatePresentedKeepsGood DEF Good
<1> DEFINE p == u.presented
           st == u.state
           run == u.running
<1>2. u = [Entered EXCEPT !.presented = p, !.state = st, !.running = run]
    BY <1>1
<1> HIDE DEF u, p, st, run, s
<1>3. /\ u \in TransportRecord /\ u.clip = Entered.clip /\ u.replacement = Entered.replacement
      /\ u.discontinuity = Entered.discontinuity /\ u.published = Entered.published
      /\ u.submitted = Entered.submitted
    BY <1>0, <1>1, <1>2 DEF Shape, TransportRecord
<1>4. Onward(Entered, u)
  <2>1. /\ u.presented \in Nat /\ Entered.submitted \in Nat /\ Entered.presented \in Nat
        /\ Frames(Entered) \in Nat /\ Entered.submitted <= Frames(Entered)
      BY <1>0, <1>3, LengthIsPositive DEF Good, Shape, InRange, Frames, TransportRecord
  <2> QED BY <1>1, <1>3, <2>1 DEF Onward
<1>5. CASE transport' = EnterError(u)
  <2> DEFINE t == EnterError(u)
  <2>1. /\ Good(t) /\ Synced(t) /\ t.state = "Error" /\ t.discontinuity = u.discontinuity + 1
        /\ t.clip = u.clip /\ t.replacement = u.replacement
        /\ u.presented <= t.presented
        /\ u.state = "Playing" => Onward(u, t)
        /\ u.state # "Playing" => t.presented = u.presented
      BY <1>1, EnterErrorKeepsGood
  <2> HIDE DEF t
  <2>2. /\ Entered.presented \in Nat /\ u.presented \in Nat /\ t.presented \in Nat
      BY <1>0, <1>3, <2>1 DEF Good, Shape, TransportRecord
  <2>3. Onward(Entered, t)
    <3>1. CASE u.state = "Playing"
        BY <1>4, <2>1, <2>2, <3>1 DEF Onward, Frames
    <3>2. CASE u.state # "Playing"
        BY <1>4, <2>1, <2>2, <3>2 DEF Onward, Frames
    <3> QED BY <3>1, <3>2
  <2>4. Abstract!Fail(SeatOf(t)) \in Abstract!Errors(s)
      BY <1>0, <1>3, <2>1, <2>3, OnwardIsError DEF Good, Onward
  <2>5. \E o \in Abstract!Errors(s) : SeatOf(t) = o.seat
      BY <2>4, OutcomesOfErrors
  <2>6. Abstract!Errors(s) \subseteq Abstract!Pause(s)
    <3> HIDE DEF Abstract!Errors
    <3> QED BY <1>0 DEF Abstract!Pause
  <2> QED BY <1>5, <2>1, <2>5, <2>6 DEF Implements, t, s
<1>6. CASE transport' = Publish(v)
  <2>1. v \in TransportRecord
      BY <1>3 DEF TransportRecord, PlaybackState
  <2>2. /\ v.state = "Paused" /\ v.clip = u.clip /\ v.replacement = u.replacement
        /\ v.segmentStart = u.segmentStart /\ v.submitted = u.submitted /\ v.queue = u.queue
        /\ v.presented = u.presented /\ v.discontinuity = u.discontinuity
        /\ v.published = u.published
      BY <1>3 DEF TransportRecord
  <2> HIDE DEF v
  <2>3. Shape(v) /\ Latest(v) = Snapshot(Entered)
      BY <1>0, <1>1, <1>3, <2>1, <2>2 DEF Good, Synced, Shape, InRange, Frames, Latest
  <2>4. /\ Snapshot(Entered).state = "Playing" /\ Snapshot(v).position = u.presented
        /\ Snapshot(Entered).position = Entered.presented
      BY <1>0, <1>3, <2>1, <2>2, SnapshotTyped
  <2>5. Follows(Latest(v), Snapshot(v))
      BY <1>1, <2>3, <2>4 DEF Follows
  <2>6. Good(transport') /\ Synced(transport') /\ SeatOf(transport') = SeatOf(v)
      BY <1>6, <2>3, <2>5, PublishKeepsGood
  <2> DEFINE b == [s EXCEPT !.state = "Paused", !.position = p]
  <2>7. p \in Nat /\ p = u.presented /\ p \in Abstract!Heard(s)
    <3>1. p \in Nat /\ p = u.presented
        BY <1>3 DEF p, TransportRecord
    <3>2. s.position = Entered.presented /\ s.clip = Entered.clip
        BY <1>0, SeatTyped
    <3>3. Entered.presented \in Nat /\ Length[s.clip] \in Nat
        BY <1>0, <3>2, LengthIsPositive DEF TransportRecord
    <3> QED BY <1>0, <1>4, <3>1, <3>2, <3>3 DEF Onward, Frames, Abstract!Heard
  <2>8. /\ b \in SeatType /\ b.state = "Paused" /\ b.position = p
        /\ b.discontinuity = s.discontinuity /\ b.clip = s.clip /\ b.replacement = s.replacement
      BY <1>0, <2>7 DEF SeatType, PlaybackState
  <2> HIDE DEF b
  <2>9. SeatOf(v) = b
      BY <1>0, <1>3, <2>1, <2>2, <2>7, <2>8, SeatTyped, SeatsAreEqual
  <2>10. Abstract!Ok(b) \in Abstract!Pause(s) /\ Abstract!Ok(b).seat = b
    <3>1. Abstract!Ok(b) \in Abstract!Pause(s)
      <4> HIDE DEF Abstract!Heard, Abstract!Errors
      <4> QED BY <1>0, <2>7 DEF Abstract!Pause, b
    <3> QED BY <3>1 DEF Abstract!Ok
  <2> QED BY <2>6, <2>9, <2>10 DEF Implements, s
<1> QED BY <1>0, <1>5, <1>6

LEMMA StopImplements ==
    ASSUME Good(transport), Synced(transport), Stop
    PROVE  Implements(Abstract!Stop(SeatOf(transport)))
<1> DEFINE s == SeatOf(transport)
           e == Entered
           t == Segment(e, 0, "Stopped")
           changed == transport.presented # 0 \/ transport.submitted # 0
<1>0. /\ Good(e) /\ Synced(e) /\ Recorded(e) /\ e \in TransportRecord
      /\ SeatOf(e) = s /\ s.state = transport.state /\ s \in SeatType
      /\ e.state = transport.state /\ e.state \notin {"Empty", "Error"}
      /\ e.presented = transport.presented /\ e.discontinuity = s.discontinuity
      /\ ~(s.state = "Stopped" /\ transport.presented = 0)
      /\ transport' \in {EnterError(e), Publish(IF changed THEN Advance(t) ELSE t)}
    BY EnteredIsGood, SeatTyped DEF Good, Shape, Stop, Segment
<1>1. /\ e.clip \in Clip /\ e.clip # None /\ Frames(e) \in Nat /\ s.position = e.presented
      /\ e.discontinuity \in Nat /\ e.presented \in Nat
  <2>1. e.clip \in Clip /\ e.clip # None
      BY <1>0 DEF Good, Shape, TransportRecord, PlaybackState
  <2> QED BY <1>0, <2>1, LengthIsPositive, SeatTyped DEF Frames, TransportRecord
<1> HIDE DEF e, s
<1>2. /\ Shape(t) /\ t.state = "Stopped" /\ t.clip = e.clip /\ t.replacement = e.replacement
      /\ t.presented = 0 /\ t.discontinuity = e.discontinuity /\ t.published = e.published
    BY <1>0, <1>1, SegmentHasShape
<1> HIDE DEF t
<1> DEFINE b(d) == [s EXCEPT !.state = "Stopped", !.position = 0, !.discontinuity = d]
           D == IF s.position = 0 THEN {s.discontinuity, s.discontinuity + 1}
                ELSE {s.discontinuity + 1}
<1>3. ASSUME NEW d \in Nat
      PROVE  /\ b(d) \in SeatType /\ b(d).state = "Stopped" /\ b(d).position = 0
             /\ b(d).discontinuity = d /\ b(d).clip = s.clip /\ b(d).replacement = s.replacement
    BY <1>0 DEF SeatType, PlaybackState
<1>4. ASSUME NEW d \in D PROVE Abstract!Ok(b(d)) \in Abstract!Stop(s)
  <2>1. Abstract!Stop(s) = {Abstract!Ok(b(x)) : x \in D} \cup Abstract!Errors(s)
    <3> HIDE DEF Abstract!Errors, Abstract!Ok
    <3> QED BY <1>0, <1>1 DEF Abstract!Stop
  <2> QED BY <2>1
<1>5. ASSUME NEW d \in Nat, d \in D, NEW q, Shape(q), q.state = "Stopped", q.clip = e.clip,
             q.replacement = e.replacement, q.presented = 0, q.discontinuity = d,
             Follows(Latest(q), Snapshot(q)), transport' = Publish(q)
      PROVE  Implements(Abstract!Stop(s))
  <2>1. Good(transport') /\ Synced(transport') /\ SeatOf(transport') = SeatOf(q)
      BY <1>5, PublishKeepsGood
  <2>2. SeatOf(q) = b(d)
    <3>1. SeatOf(q) \in SeatType /\ q \in TransportRecord
        BY <1>5, SeatTyped DEF Shape
    <3>2. s.clip = e.clip /\ s.replacement = SeatReplacement(e.replacement)
        BY <1>0, SeatTyped
    <3> HIDE DEF b
    <3> QED BY <1>1, <1>3, <1>5, <3>1, <3>2, SeatTyped, SeatsAreEqual
  <2>3. Abstract!Ok(b(d)).seat = b(d)
      BY DEF Abstract!Ok
  <2> QED BY <1>4, <1>5, <2>1, <2>2, <2>3 DEF Implements
<1>6. CASE transport' = EnterError(e)
  <2>1. /\ Good(transport') /\ Synced(transport')
        /\ Abstract!Fail(SeatOf(transport')) \in Abstract!Errors(s)
      BY <1>0, <1>6, EnterErrorKeepsGood DEF Good
  <2>2. Abstract!Errors(s) \subseteq Abstract!Stop(s)
    <3> HIDE DEF Abstract!Errors
    <3> QED BY <1>0, <1>1 DEF Abstract!Stop
  <2> QED BY <2>1, <2>2, OutcomesOfErrors DEF Implements, s
<1>7. CASE changed /\ transport' = Publish(Advance(t))
  <2> DEFINE q == Advance(t)
             d == e.discontinuity + 1
  <2>1. /\ Shape(q) /\ Follows(Latest(q), Snapshot(q))
        /\ q = [t EXCEPT !.discontinuity = d] /\ q.state = "Stopped"
      BY <1>2, AdvanceIsFresh
  <2>2. d \in Nat /\ d \in D
      BY <1>0, <1>1
  <2> HIDE DEF q, d
  <2>3. q.clip = e.clip /\ q.replacement = e.replacement /\ q.presented = 0 /\ q.discontinuity = d
      BY <1>2, <2>1 DEF Shape, TransportRecord
  <2>4. Implements(Abstract!Stop(s))
      BY <1>5, <1>7, <2>1, <2>2, <2>3 DEF q
  <2> QED BY <2>4 DEF s
<1>8. CASE ~changed /\ transport' = Publish(t)
  <2>1. e.presented = 0
      BY <1>0, <1>8
  <2>2. Latest(t) = Snapshot(e)
      BY <1>0, <1>2 DEF Synced, Latest
  <2>3. /\ Snapshot(e).position = 0 /\ Snapshot(t).position = 0
      BY <1>0, <1>1, <1>2, <2>1, SnapshotTyped DEF Shape
  <2>4. Follows(Latest(t), Snapshot(t))
      BY <2>2, <2>3 DEF Follows
  <2>5. e.discontinuity \in D
      BY <1>0, <1>1, <2>1
  <2>6. Implements(Abstract!Stop(s))
      BY <1>1, <1>2, <1>5, <1>8, <2>4, <2>5
  <2> QED BY <2>6 DEF s
<1> QED BY <1>0, <1>6, <1>7, <1>8

LEMMA SeekImplements ==
    ASSUME Good(transport), Synced(transport), NEW frame \in 0 .. Frames(transport), Seek(frame)
    PROVE  Implements(Abstract!SeekMs(SeatOf(transport), frame))
<1> DEFINE s == SeatOf(transport)
           e == Entered
           st == IF transport.state = "Playing" THEN "Playing" ELSE "Paused"
           t == Segment(e, frame, st)
           q == IF frame # transport.presented THEN Advance(t) ELSE t
           m == [s EXCEPT !.position = frame,
                          !.state = IF @ = "Playing" THEN "Playing" ELSE "Paused",
                          !.discontinuity = IF frame = s.position THEN @ ELSE @ + 1]
<1>0. /\ Good(e) /\ Synced(e) /\ Recorded(e) /\ e \in TransportRecord
      /\ SeatOf(e) = s /\ s.state = e.state /\ s \in SeatType
      /\ e.state = transport.state /\ e.state \notin {"Empty", "Error"} /\ e.clip = transport.clip
      /\ e.presented = transport.presented /\ e.discontinuity = s.discontinuity
      /\ s.clip = e.clip /\ s.replacement = SeatReplacement(e.replacement)
      /\ e.clip # None
      /\ transport' \in {EnterError(e)} \cup IF e.state = "Playing" THEN Started(q) ELSE {Publish(q)}
    BY EnteredIsGood, SeatTyped DEF Good, Shape, Seek, Segment
<1>1. /\ e.clip \in Clip /\ Frames(e) \in Nat /\ s.position = e.presented
      /\ e.discontinuity \in Nat /\ e.presented \in Nat /\ frame \in Nat /\ frame <= Frames(e)
      /\ st \in {"Playing", "Paused"} /\ frame \in 0 .. Length[s.clip]
  <2>1. e.clip \in Clip
      BY <1>0 DEF TransportRecord
  <2> QED BY <1>0, <2>1, LengthIsPositive, SeatTyped DEF Frames, TransportRecord
<1> DEFINE d == IF frame = s.position THEN e.discontinuity ELSE e.discontinuity + 1
<1>2. m = [s EXCEPT !.position = frame, !.state = st, !.discontinuity = d]
    BY <1>0
<1>3. d \in Nat
    BY <1>1
<1> HIDE DEF e, s, st, d, m
<1>4. /\ Shape(t) /\ t.state = st /\ t.clip = e.clip /\ t.replacement = e.replacement
      /\ t.presented = frame /\ t.discontinuity = e.discontinuity /\ t.published = e.published
    BY <1>0, <1>1, SegmentHasShape
<1> HIDE DEF t
<1>5. /\ Shape(q) /\ Follows(Latest(q), Snapshot(q)) /\ q.state = st /\ q.clip = e.clip
      /\ q.replacement = e.replacement /\ q.presented = frame /\ q.discontinuity = d
  <2>1. CASE frame # e.presented
    <3>1. q = Advance(t) /\ d = e.discontinuity + 1
        BY <1>0, <1>1, <2>1 DEF d
    <3>2. /\ Shape(q) /\ Follows(Latest(q), Snapshot(q))
          /\ q = [t EXCEPT !.discontinuity = d] /\ q.state = st
        BY <1>4, <3>1, AdvanceIsFresh
    <3> HIDE DEF q
    <3>3. q.clip = e.clip /\ q.replacement = e.replacement /\ q.presented = frame /\ q.discontinuity = d
        BY <1>4, <3>2 DEF Shape, TransportRecord
    <3> QED BY <3>2, <3>3
  <2>2. CASE frame = e.presented
    <3>1. q = t /\ d = e.discontinuity
        BY <1>0, <1>1, <2>2 DEF d
    <3>2. Latest(t) = Snapshot(e)
        BY <1>0, <1>4 DEF Synced, Latest
    <3>3. Snapshot(e).position = frame /\ Snapshot(t).position = frame
        BY <1>0, <1>1, <1>4, <2>2, SnapshotTyped DEF Shape
    <3>4. Follows(Latest(t), Snapshot(t))
        BY <1>1, <3>2, <3>3 DEF Follows
    <3> QED BY <1>4, <3>1, <3>4
  <2> QED BY <2>1, <2>2
<1> HIDE DEF q
<1>6. SeatOf(q) = m
  <2>1. /\ m \in SeatType /\ m.state = st /\ m.position = frame
        /\ m.discontinuity = d /\ m.clip = s.clip /\ m.replacement = s.replacement
      BY <1>0, <1>1, <1>2, <1>3 DEF SeatType, PlaybackState
  <2>2. q \in TransportRecord
      BY <1>5 DEF Shape
  <2> QED BY <1>0, <1>5, <2>1, <2>2, SeatTyped, SeatsAreEqual
<1>7. Abstract!SeekMs(s, frame) = Abstract!Succeeds(m) \cup Abstract!Errors(s)
          \cup (IF s.state = "Playing" THEN Abstract!Errors(m) ELSE {})
  <2> HIDE DEF Abstract!Succeeds, Abstract!Errors
  <2> QED BY <1>0, <1>1 DEF Abstract!SeekMs, m
<1>8. CASE transport' = EnterError(e)
  <2>1. /\ Good(transport') /\ Synced(transport')
        /\ Abstract!Fail(SeatOf(transport')) \in Abstract!Errors(s)
      BY <1>0, <1>8, EnterErrorKeepsGood DEF Good
  <2>2. \E o \in Abstract!Errors(s) : SeatOf(transport') = o.seat
      BY <2>1, OutcomesOfErrors
  <2> QED BY <1>7, <2>1, <2>2 DEF Implements, s
<1>9. CASE e.state = "Playing" /\ transport' \in Started(q)
  <2>1. q.state = "Playing"
      BY <1>0, <1>5, <1>9 DEF st
  <2>2. /\ Good(transport') /\ Synced(transport')
        /\ \/ SeatOf(transport') \in Abstract!Moved(m)
           \/ Abstract!Fail(SeatOf(transport')) \in Abstract!Errors(m)
      BY <1>5, <1>6, <1>9, <2>1, StartedIsGood
  <2>3. \E o \in Abstract!Succeeds(m) \cup Abstract!Errors(m) : SeatOf(transport') = o.seat
      BY <2>2, OutcomesOfMoved, OutcomesOfErrors
  <2> QED BY <1>0, <1>7, <1>9, <2>2, <2>3 DEF Implements, s
<1>10. CASE e.state # "Playing" /\ transport' = Publish(q)
  <2>1. Good(transport') /\ Synced(transport') /\ SeatOf(transport') = m
      BY <1>5, <1>6, <1>10, PublishKeepsGood
  <2>2. q.state = "Paused" /\ q \in TransportRecord
      BY <1>0, <1>5, <1>10 DEF st, Shape
  <2>3. m.state = "Paused"
      BY <1>6, <2>2, SeatTyped
  <2>4. m \in Abstract!Moved(m)
      BY <2>3 DEF Abstract!Moved
  <2>5. \E o \in Abstract!Succeeds(m) : m = o.seat
      BY <2>4, OutcomesOfMoved
  <2> QED BY <1>7, <2>1, <2>5 DEF Implements, s
<1> QED BY <1>0, <1>8, <1>9, <1>10

LEMMA UnloadImplements ==
    ASSUME Good(transport), Synced(transport), Unload
    PROVE  Implements(Abstract!Unload(SeatOf(transport)))
<1> DEFINE s == SeatOf(transport)
           e == Entered
           w == [BeginSegment(CloseStream(e), 0) EXCEPT !.replacement = None, !.state = "Empty"]
           t == Publish(Advance(w))
           d == e.discontinuity + 1
           b == [Abstract!New EXCEPT !.discontinuity = s.discontinuity + 1]
<1>0. /\ Recorded(e) /\ e \in TransportRecord /\ s.state # "Empty"
      /\ e.discontinuity = s.discontinuity /\ e.discontinuity \in Nat
      /\ transport' = t
    BY EnteredIsGood, SeatTyped DEF Good, Shape, Unload, TransportRecord
<1> HIDE DEF e, s
<1> DEFINE c == CloseStream(e)
<1>1. /\ c \in TransportRecord /\ c.clip = None /\ c.discontinuity = e.discontinuity
      /\ c.published = e.published
  <2>1. 0 \in 0 .. TargetFrames /\ 0 \in {0, DeviceBuffer}
      BY TransportAssumption
  <2>2. c = [e EXCEPT !.clip = None, !.queue = 0, !.running = FALSE, !.mixed = 0, !.inFlight = 0,
                      !.baseline = 0]
      BY DEF CloseStream
  <2> HIDE DEF c
  <2>3. c \in TransportRecord
      BY <1>0, <2>1, <2>2 DEF TransportRecord
  <2> QED BY <1>0, <2>2, <2>3 DEF TransportRecord
<1>2. w = [c EXCEPT !.segmentStart = 0, !.submitted = 0, !.presented = 0, !.mixed = 0,
                    !.baseline = 0, !.queue = 0, !.running = FALSE, !.replacement = None,
                    !.state = "Empty"]
    BY DEF BeginSegment
<1> HIDE DEF w, c
<1>3. /\ w \in TransportRecord
      /\ w.state = "Empty" /\ w.clip = None /\ w.replacement = None /\ w.presented = 0
      /\ w.discontinuity = e.discontinuity /\ w.published = e.published
  <2>1. 0 \in 0 .. TargetFrames
      BY TransportAssumption
  <2>2. w \in TransportRecord
      BY <1>1, <1>2, <2>1 DEF TransportRecord, PlaybackState
  <2> QED BY <1>1, <1>2, <2>2 DEF TransportRecord
<1>4. Shape(w)
    BY <1>0, <1>3 DEF Recorded, Shape, InRange, Latest
<1> DEFINE h == t.published
<1>5. Good(t) /\ Synced(t) /\ t = [w EXCEPT !.discontinuity = w.discontinuity + 1, !.published = h]
    BY <1>4, PublishAdvancedKeepsGood
<1> HIDE DEF t, h
<1>6. /\ t \in TransportRecord /\ t.state = "Empty" /\ t.clip = None /\ t.replacement = None
      /\ t.discontinuity = d
    BY <1>3, <1>5 DEF Good, Shape, TransportRecord
<1>7. /\ b \in SeatType /\ b.state = "Empty" /\ b.position = 0 /\ b.discontinuity = d
      /\ b.clip = None /\ b.replacement = None
  <2>1. d \in Nat /\ b = [Abstract!New EXCEPT !.discontinuity = d]
      BY <1>0
  <2> HIDE DEF d, b
  <2> QED BY <2>1 DEF Abstract!New, SeatType, PlaybackState
<1> HIDE DEF b
<1>8. SeatOf(t) = b
    BY <1>6, <1>7, SeatTyped, SeatsAreEqual, ZenonT(60) DEF SeatReplacement
<1>9. Abstract!Ok(b) \in Abstract!Unload(s) /\ Abstract!Ok(b).seat = b
    BY <1>0 DEF Abstract!Unload, Abstract!Ok, b
<1> QED BY <1>0, <1>5, <1>8, <1>9 DEF Implements, s

(* Preparing and cancelling change the replacement and nothing published.  *)
LEMMA ReplacementIsHeld ==
    ASSUME Good(transport), Synced(transport), NEW r \in Replacement \cup {None},
           transport' = [Entered EXCEPT !.replacement = r]
    PROVE  /\ Good(transport') /\ Synced(transport')
           /\ SeatOf(transport') = [SeatOf(transport) EXCEPT !.replacement = SeatReplacement(r)]
<1> DEFINE e == Entered
           t == [e EXCEPT !.replacement = r]
<1>0. /\ Good(e) /\ Synced(e) /\ e \in TransportRecord /\ SeatOf(e) = SeatOf(transport)
    BY EnteredIsGood DEF Good, Shape
<1> HIDE DEF e
<1>1. t \in TransportRecord
    BY <1>0 DEF TransportRecord
<1>2. /\ t.state = e.state /\ t.clip = e.clip /\ t.replacement = r
      /\ t.segmentStart = e.segmentStart /\ t.submitted = e.submitted /\ t.queue = e.queue
      /\ t.presented = e.presented /\ t.discontinuity = e.discontinuity /\ t.published = e.published
    BY <1>0 DEF TransportRecord
<1> HIDE DEF t
<1>3. Snapshot(t) = Snapshot(e) /\ Latest(t) = Latest(e)
    BY <1>2 DEF Snapshot, Latest
<1>4. InRange(t)
    BY <1>0, <1>2 DEF Good, Shape, InRange, Frames
<1>5. Good(t) /\ Synced(t)
    BY <1>0, <1>1, <1>2, <1>3, <1>4 DEF Good, Synced, Shape
<1>6. SeatOf(t) = [SeatOf(e) EXCEPT !.replacement = SeatReplacement(r)]
    BY <1>2, <1>3 DEF SeatOf
<1> QED BY <1>0, <1>5, <1>6 DEF t, e

LEMMA PrepareReplacementImplements ==
    ASSUME Good(transport), Synced(transport), NEW clip \in Clip, NEW frame \in 0 .. Length[clip],
           PrepareReplacement(clip, frame)
    PROVE  Implements(Abstract!PrepareReplacement(SeatOf(transport), clip, frame))
<1> DEFINE s == SeatOf(transport)
           r == [clip |-> clip, frame |-> frame]
           b == [s EXCEPT !.replacement = [clip |-> clip, position |-> frame]]
<1>1. r \in Replacement /\ r # None
  <2>1. r \in Replacement
      BY DEF Replacement
  <2> QED BY <2>1, NoneIsNoReplacement
<1>2. transport' = [Entered EXCEPT !.replacement = r]
    BY DEF PrepareReplacement
<1>3. SeatReplacement(r) = [clip |-> clip, position |-> frame]
    BY <1>1 DEF SeatReplacement
<1> HIDE DEF r
<1>4. Good(transport') /\ Synced(transport') /\ SeatOf(transport') = b
    BY <1>1, <1>2, <1>3, ReplacementIsHeld
<1>5. s.clip # None /\ s.state \notin {"Empty", "Error"}
    BY SeatTyped DEF PrepareReplacement, Good, Shape
<1> HIDE DEF s
<1>6. Abstract!Ok(b) \in Abstract!PrepareReplacement(s, clip, frame)
    BY <1>5 DEF Abstract!PrepareReplacement
<1>7. Abstract!Ok(b).seat = b
    BY DEF Abstract!Ok
<1> QED BY <1>4, <1>6, <1>7 DEF Implements, s

LEMMA CancelReplacementImplements ==
    ASSUME Good(transport), Synced(transport), CancelReplacement
    PROVE  Implements(Abstract!CancelReplacement(SeatOf(transport)))
<1> DEFINE s == SeatOf(transport)
           b == [s EXCEPT !.replacement = None]
<1>1. transport' = [Entered EXCEPT !.replacement = None] /\ SeatReplacement(None) = None
    BY DEF CancelReplacement, SeatReplacement
<1>2. Good(transport') /\ Synced(transport') /\ SeatOf(transport') = b
    BY <1>1, ReplacementIsHeld
<1>3. Abstract!Ok(b) \in Abstract!CancelReplacement(s) /\ Abstract!Ok(b).seat = b
    BY DEF Abstract!CancelReplacement, Abstract!Ok
<1> QED BY <1>2, <1>3 DEF Implements

LEMMA RecheckFailsImplements ==
    ASSUME Good(transport), Synced(transport), RecheckFails
    PROVE  Implements(Abstract!RecheckBoundDevice(SeatOf(transport)))
<1> DEFINE s == SeatOf(transport)
<1>1. /\ Good(Entered) /\ SeatOf(Entered) = s /\ Entered.state # "Error"
      /\ transport' = EnterError(Entered)
    BY EnteredIsGood DEF RecheckFails
<1>2. /\ Good(transport') /\ Synced(transport')
      /\ Abstract!Fail(SeatOf(transport')) \in Abstract!Errors(s)
    BY <1>1, EnterErrorKeepsGood DEF Good
<1>3. \E o \in Abstract!Errors(s) : SeatOf(transport') = o.seat
    BY <1>2, OutcomesOfErrors
<1> HIDE DEF Abstract!Errors
<1> QED BY <1>2, <1>3 DEF Implements, Abstract!RecheckBoundDevice

(* The old stream is closed: what fails now leaves no clip.                *)
LEMMA ClosedIsRecorded ==
    ASSUME NEW s, Good(s), Synced(s)
    PROVE  LET t == [CloseStream(s) EXCEPT !.replacement = None]
           IN  /\ Recorded(t) /\ t.state = s.state /\ t.clip = None /\ t.replacement = None
               /\ t.discontinuity = s.discontinuity /\ t.published = s.published
<1> DEFINE t == [CloseStream(s) EXCEPT !.replacement = None]
<1>1. s \in TransportRecord /\ 0 \in 0 .. TargetFrames
    BY TransportAssumption DEF Good, Shape
<1>2. t = [s EXCEPT !.clip = None, !.queue = 0, !.running = FALSE, !.mixed = 0, !.inFlight = 0,
                    !.baseline = 0, !.replacement = None]
    BY DEF CloseStream
<1> HIDE DEF t
<1>3. t \in TransportRecord
    BY <1>1, <1>2 DEF TransportRecord
<1>4. /\ t.state = s.state /\ t.clip = None /\ t.replacement = None
      /\ t.discontinuity = s.discontinuity /\ t.published = s.published
    BY <1>1, <1>2 DEF TransportRecord
<1> QED BY <1>3, <1>4 DEF Recorded, Good, Shape, Latest, t

LEMMA ActivationFails ==
    ASSUME NEW s, Recorded(s), s.clip = None, s.replacement = None
    PROVE  LET t == EnterError(s)
           IN  /\ Good(t) /\ Synced(t) /\ t \in TransportRecord
               /\ t.state = "Error" /\ t.clip = None /\ t.replacement = None
               /\ t.discontinuity = IF s.state = "Error" THEN s.discontinuity ELSE s.discontinuity + 1
<1>1. CASE s.state = "Error"
  <2>1. EnterError(s) = s
      BY <1>1 DEF EnterError
  <2> QED BY <1>1, <2>1 DEF Recorded, Good, Shape, Synced, InRange
<1>2. CASE s.state # "Error"
  <2> DEFINE v == [s EXCEPT !.state = "Error", !.running = FALSE]
             t == Publish(Advance(v))
             h == t.published
  <2>1. EnterError(s) = t
      BY <1>2 DEF EnterError, UpdatePresented
  <2>2. v \in TransportRecord
      BY DEF Recorded, TransportRecord, PlaybackState
  <2>3. /\ v.state = "Error" /\ v.clip = None /\ v.replacement = None
        /\ v.discontinuity = s.discontinuity /\ v.published = s.published
      BY DEF Recorded, TransportRecord
  <2> HIDE DEF v
  <2>4. Shape(v)
      BY <2>2, <2>3 DEF Recorded, Shape, InRange, Latest
  <2>5. Good(t) /\ Synced(t) /\ t = [v EXCEPT !.discontinuity = v.discontinuity + 1, !.published = h]
      BY <2>4, PublishAdvancedKeepsGood
  <2> HIDE DEF t, h
  <2>6. /\ t.state = "Error" /\ t.clip = None /\ t.replacement = None
        /\ t.discontinuity = s.discontinuity + 1
      BY <2>2, <2>3, <2>5 DEF TransportRecord
  <2> QED BY <1>2, <2>1, <2>5, <2>6 DEF Good, Shape
<1> QED BY <1>1, <1>2

LEMMA ActivateReplacementImplements ==
    ASSUME Good(transport), Synced(transport), ActivateReplacement
    PROVE  Implements(Abstract!ActivateReplacement(SeatOf(transport)))
<1> DEFINE s == SeatOf(transport)
           e == Entered
           r == transport.replacement
           c == [CloseStream(e) EXCEPT !.replacement = None]
           o == OpenLease(c, r.clip, r.frame)
           st == IF transport.state = "Playing" THEN "Playing" ELSE "Paused"
           p == [o EXCEPT !.state = st]
           m == [s EXCEPT !.clip = s.replacement.clip, !.replacement = None,
                          !.position = s.replacement.position,
                          !.discontinuity = @ + 1,
                          !.state = IF @ = "Playing" THEN "Playing" ELSE "Paused"]
           f == [[s EXCEPT !.clip = None, !.position = 0, !.replacement = None]
                    EXCEPT !.state = "Error",
                           !.discontinuity = IF s.state = "Error" THEN @ ELSE @ + 1]
<1>0. /\ Good(e) /\ Synced(e) /\ e \in TransportRecord /\ e.replacement = r
      /\ s.state = transport.state /\ s \in SeatType /\ e.state = transport.state
      /\ e.discontinuity = s.discontinuity /\ e.discontinuity \in Nat
      /\ s.replacement = SeatReplacement(r)
      /\ r \in Replacement /\ r # None /\ r.clip \in Clip /\ r.frame \in 0 .. Length[r.clip]
      /\ st \in {"Playing", "Paused"}
  <2>1. transport \in TransportRecord /\ r # None
      BY DEF Good, Shape, ActivateReplacement
  <2>2. r \in Replacement /\ r.clip \in Clip /\ r.frame \in 0 .. Length[r.clip]
      BY <2>1, NoneIsNoReplacement DEF TransportRecord
  <2> QED BY <2>1, <2>2, EnteredIsGood, SeatTyped DEF Good, Shape, TransportRecord
<1>1. transport' \in {EnterError(c)} \cup
          IF s.state = "Playing" THEN Started(p) ELSE {Publish(p)}
    BY <1>0 DEF ActivateReplacement
<1>2. /\ s.replacement # None /\ s.replacement.clip = r.clip /\ s.replacement.position = r.frame
      /\ r.frame \in Nat
  <2>1. s.replacement = [clip |-> r.clip, position |-> r.frame] /\ r.frame \in Nat
      BY <1>0, LengthIsPositive DEF SeatReplacement
  <2>2. s.replacement \in [clip: Clip, position: Nat]
      BY <1>0, <2>1
  <2> QED BY <2>1, <2>2, TransportAssumption
<1>3. Abstract!ActivateReplacement(s) =
          {Abstract!Fail(f)} \cup Abstract!Succeeds(m)
          \cup (IF s.state = "Playing" THEN Abstract!Errors(m) ELSE {})
  <2> HIDE DEF Abstract!Succeeds, Abstract!Errors, Abstract!Fail
  <2> QED BY <1>2 DEF Abstract!ActivateReplacement
<1> HIDE DEF s, e, r
<1>4. /\ Recorded(c) /\ c.state = e.state /\ c.clip = None /\ c.replacement = None
      /\ c.discontinuity = e.discontinuity
    BY <1>0, ClosedIsRecorded
<1> HIDE DEF c
<1>5. CASE transport' = EnterError(c)
  <2> DEFINE d == IF s.state = "Error" THEN e.discontinuity ELSE e.discontinuity + 1
  <2>1. /\ Good(transport') /\ Synced(transport') /\ transport' \in TransportRecord
        /\ transport'.state = "Error" /\ transport'.clip = None /\ transport'.replacement = None
        /\ transport'.discontinuity = d
      BY <1>0, <1>4, <1>5, ActivationFails
  <2>2. /\ f = [s EXCEPT !.clip = None, !.position = 0, !.replacement = None,
                         !.state = "Error", !.discontinuity = d]
        /\ d \in Nat
      BY <1>0 DEF SeatType
  <2> HIDE DEF f, d
  <2>3. /\ f \in SeatType /\ f.state = "Error" /\ f.position = 0 /\ f.discontinuity = d
        /\ f.clip = None /\ f.replacement = None
      BY <1>0, <2>2 DEF SeatType, PlaybackState
  <2>4. SeatOf(transport') = f
      BY <2>1, <2>3, SeatTyped, SeatsAreEqual, ZenonT(60) DEF SeatReplacement
  <2>5. Abstract!Fail(f) \in Abstract!ActivateReplacement(s) /\ Abstract!Fail(f).seat = f
      BY <1>3 DEF Abstract!Fail
  <2> QED BY <2>1, <2>4, <2>5 DEF Implements, s
<1>6. /\ Good(o) /\ Synced(o) /\ o.state = "Stopped" /\ o.clip = r.clip
      /\ o.replacement = None /\ o.presented = r.frame /\ o.discontinuity = e.discontinuity + 1
    BY <1>0, <1>4, OpenLeaseIsGood
<1> HIDE DEF o
<1>7. /\ Shape(p) /\ Follows(Latest(p), Snapshot(p)) /\ p.state = st /\ p.clip = r.clip
      /\ p.replacement = None /\ p.presented = r.frame /\ p.discontinuity = e.discontinuity + 1
  <2>1. o.clip # None
      BY <1>0, <1>6, TransportAssumption
  <2> QED BY <1>0, <1>6, <2>1, ResumedMayPublish
<1>8. SeatOf(p) = m
  <2> DEFINE d == e.discontinuity + 1
             k == r.clip
             q == r.frame
  <2>1. m = [s EXCEPT !.clip = k, !.replacement = None, !.position = q, !.discontinuity = d, !.state = st]
      BY <1>0, <1>2
  <2>2. d \in Nat /\ k \in Clip /\ q \in Nat /\ k # None
      BY <1>0, <1>2, TransportAssumption
  <2> HIDE DEF m, d, k, q, st, p
  <2>3. /\ m \in SeatType /\ m.state = st /\ m.position = q /\ m.discontinuity = d
        /\ m.clip = k /\ m.replacement = None
      BY <1>0, <2>1, <2>2 DEF SeatType, PlaybackState
  <2>4. /\ p \in TransportRecord /\ p.clip = k /\ p.presented = q /\ p.discontinuity = d
      BY <1>7 DEF Shape, d, k, q
  <2> QED BY <1>7, <2>2, <2>3, <2>4, SeatTyped, SeatsAreEqual, ZenonT(60) DEF SeatReplacement
<1> HIDE DEF p, m, f
<1>9. CASE s.state = "Playing" /\ transport' \in Started(p)
  <2>1. p.state = "Playing"
      BY <1>0, <1>7, <1>9
  <2>2. /\ Good(transport') /\ Synced(transport')
        /\ \/ SeatOf(transport') \in Abstract!Moved(m)
           \/ Abstract!Fail(SeatOf(transport')) \in Abstract!Errors(m)
      BY <1>7, <1>8, <1>9, <2>1, StartedIsGood
  <2>3. \E x \in Abstract!Succeeds(m) \cup Abstract!Errors(m) : SeatOf(transport') = x.seat
      BY <2>2, OutcomesOfMoved, OutcomesOfErrors
  <2> QED BY <1>3, <1>9, <2>2, <2>3 DEF Implements, s
<1>10. CASE s.state # "Playing" /\ transport' = Publish(p)
  <2>1. Good(transport') /\ Synced(transport') /\ SeatOf(transport') = m
      BY <1>7, <1>8, <1>10, PublishKeepsGood
  <2>2. p.state = "Paused" /\ p \in TransportRecord
      BY <1>0, <1>7, <1>10 DEF Shape
  <2>3. m.state = "Paused"
      BY <1>8, <2>2, SeatTyped
  <2>4. m \in Abstract!Moved(m)
      BY <2>3 DEF Abstract!Moved
  <2>5. \E x \in Abstract!Succeeds(m) : m = x.seat
      BY <2>4, OutcomesOfMoved
  <2> QED BY <1>3, <2>1, <2>5 DEF Implements, s
<1> QED BY <1>1, <1>5, <1>9, <1>10

-----------------------------------------------------------------------------
(* The device thread changes nothing that is published or seen.            *)
LEMMA MixIsSilent ==
    ASSUME Good(transport), Synced(transport), Mix \/ Postmix
    PROVE  Good(transport') /\ Synced(transport') /\ SeatOf(transport') = SeatOf(transport)
<1> DEFINE s == transport
<1>0. s \in TransportRecord /\ s.queue \in 0 .. TargetFrames /\ s.queue \in Nat
      /\ s.mixed \in Nat /\ s.inFlight \in Nat /\ DeviceBuffer \in Nat
    BY TransportAssumption DEF Good, Shape, TransportRecord
<1>1. PICK q \in Nat, mixed \in Nat, flight \in {0, DeviceBuffer} :
          /\ transport' = [s EXCEPT !.queue = q, !.mixed = mixed, !.inFlight = flight]
          /\ q <= s.queue
  <2>1. CASE Mix
    <3> DEFINE q == Max({0, s.queue - DeviceBuffer})
    <3>1. q \in Nat /\ q <= s.queue
      <4>1. s.queue - DeviceBuffer \in Int
          BY <1>0
      <4>2. q = IF 0 >= s.queue - DeviceBuffer THEN 0 ELSE s.queue - DeviceBuffer
          BY <4>1, MaxOfTwo
      <4> HIDE DEF q
      <4> QED BY <1>0, <4>2
    <3>2. transport' = [s EXCEPT !.queue = q, !.mixed = s.mixed, !.inFlight = DeviceBuffer]
      <4>1. transport' = [s EXCEPT !.queue = q, !.inFlight = DeviceBuffer]
          BY <2>1 DEF Mix
      <4> HIDE DEF q
      <4> QED BY <1>0, <4>1 DEF TransportRecord
    <3> QED BY <1>0, <3>1, <3>2
  <2>2. CASE Postmix
    <3>1. transport' = [s EXCEPT !.mixed = s.mixed + s.inFlight, !.inFlight = 0]
        BY <2>2 DEF Postmix
    <3> DEFINE mixed == s.mixed + s.inFlight
    <3>2. mixed \in Nat
        BY <1>0
    <3> HIDE DEF mixed
    <3>3. transport' = [s EXCEPT !.queue = s.queue, !.mixed = mixed, !.inFlight = 0]
        BY <1>0, <3>1 DEF TransportRecord, mixed
    <3> DEFINE q == s.queue
               flight == 0
    <3>4. /\ transport' = [s EXCEPT !.queue = q, !.mixed = mixed, !.inFlight = flight]
          /\ q \in Nat /\ q <= s.queue /\ flight \in {0, DeviceBuffer}
        BY <1>0, <3>3
    <3> HIDE DEF q, flight
    <3> QED BY <3>2, <3>4
  <2> QED BY <2>1, <2>2
<1> DEFINE t == transport'
<1>2. q \in 0 .. TargetFrames
    BY <1>0, <1>1, TransportAssumption
<1>3. t \in TransportRecord
    BY <1>0, <1>1, <1>2 DEF TransportRecord
<1>4. /\ t.state = s.state /\ t.clip = s.clip /\ t.replacement = s.replacement
      /\ t.segmentStart = s.segmentStart /\ t.submitted = s.submitted /\ t.queue = q
      /\ t.presented = s.presented /\ t.discontinuity = s.discontinuity /\ t.published = s.published
    BY <1>0, <1>1 DEF TransportRecord
<1> HIDE DEF t
<1>5. Snapshot(t) = Snapshot(s) /\ Latest(t) = Latest(s) /\ SeatOf(t) = SeatOf(s)
    BY <1>4 DEF Snapshot, Latest, SeatOf
<1>6. InRange(t)
  <2>1. s.segmentStart \in Nat /\ s.submitted \in Nat
      BY <1>0 DEF TransportRecord
  <2> QED BY <1>0, <1>1, <1>4, <2>1 DEF Good, Shape, InRange, Frames
<1>7. Good(t) /\ Synced(t)
    BY <1>3, <1>4, <1>5, <1>6 DEF Good, Synced, Shape
<1> QED BY <1>5, <1>7 DEF t

LEMMA InitIsGood == Init => IInv /\ Abstract!Init
<1> SUFFICES ASSUME Init PROVE IInv /\ Abstract!Init
    OBVIOUS
<1> DEFINE n == [position |-> 0, state |-> "Empty", discontinuity |-> 0]
           h == <<n>>
<1>1. n \in SnapshotType
    BY DEF SnapshotType, PlaybackState
<1>2. h \in Seq(SnapshotType) /\ h # <<>> /\ Len(h) = 1 /\ h[1] = n
  <2> HIDE DEF n
  <2> QED BY <1>1
<1>3. transport = New /\ commands = 0
    BY DEF Init
<1>4. /\ transport.state = "Empty" /\ transport.clip = None /\ transport.replacement = None
      /\ transport.discontinuity = 0 /\ transport.published = h
    BY <1>3 DEF New
<1>5. Snapshot(transport) = n
    BY <1>4 DEF Snapshot
<1> HIDE DEF h
<1>6. transport \in TransportRecord
    BY <1>2, <1>3, TransportAssumption DEF New, TransportRecord, PlaybackState, h
<1>7. Latest(transport) = n
    BY <1>2, <1>4 DEF Latest
<1>8. Chain(transport.published)
  <2>1. 1 .. Len(h) - 1 = {}
      BY <1>2
  <2> QED BY <1>4, <2>1 DEF Chain
<1>9. Good(transport) /\ Synced(transport)
  <2>1. Follows(n, n)
      BY DEF Follows
  <2> QED BY <1>2, <1>4, <1>5, <1>6, <1>7, <1>8, <2>1 DEF Good, Synced, Shape, InRange
<1>10. Seat = Abstract!New
    BY <1>4, <1>5 DEF Seat, Abstract!New
<1> QED BY <1>3, <1>9, <1>10, TransportAssumption DEF IInv, Abstract!Init

(* Every step keeps the invariant and is a call of AudioTransport, or      *)
(* nothing its owner can tell.                                             *)
LEMMA NextImplements ==
    ASSUME IInv, [Next]_vars
    PROVE  /\ Good(transport') /\ Synced(transport')
           /\ [Abstract!Next]_Seat
<1> USE DEF IInv
<1>0. Seat = SeatOf(transport) /\ Seat' = SeatOf(transport')
    BY SeatIsSeatOf DEF Seat, SeatOf, SeatReplacement, Snapshot
<1>1. ASSUME NEW outcomes, Implements(outcomes),
             Abstract!Outcome(outcomes) => Abstract!Next
      PROVE  /\ Good(transport') /\ Synced(transport') /\ [Abstract!Next]_Seat
    BY <1>0, <1>1 DEF Implements, Abstract!Outcome
<1>2. CASE Service
    BY <1>0, <1>1, <1>2, ServiceImplements DEF Abstract!Next
<1>3. CASE Mix \/ Postmix
    BY <1>0, <1>3, MixIsSilent
<1>4. CASE UNCHANGED vars
    BY <1>0, <1>4 DEF vars
<1>5. CASE Command
  <2>1. ASSUME NEW clip \in Clip, Load(clip)
        PROVE  /\ Good(transport') /\ Synced(transport') /\ [Abstract!Next]_Seat
      BY <1>0, <1>1, <2>1, LoadImplements DEF Abstract!Next
  <2>2. CASE Play
      BY <1>0, <1>1, <2>2, PlayImplements DEF Abstract!Next
  <2>3. CASE Pause
      BY <1>0, <1>1, <2>3, PauseImplements DEF Abstract!Next
  <2>4. CASE Stop
      BY <1>0, <1>1, <2>4, StopImplements DEF Abstract!Next
  <2>5. ASSUME transport.clip # None, NEW frame \in 0 .. Frames(transport), Seek(frame)
        PROVE  /\ Good(transport') /\ Synced(transport') /\ [Abstract!Next]_Seat
    <3>1. Seat.clip = transport.clip /\ frame \in 0 .. Length[Seat.clip]
        BY DEF Seat, Frames
    <3>2. Abstract!Outcome(Abstract!SeekMs(Seat, frame)) => Abstract!Next
        BY <2>5, <3>1 DEF Abstract!Next
    <3> QED BY <1>0, <1>1, <2>5, <3>2, SeekImplements
  <2>6. CASE Unload
      BY <1>0, <1>1, <2>6, UnloadImplements DEF Abstract!Next
  <2>7. ASSUME NEW clip \in Clip, NEW frame \in 0 .. Length[clip], PrepareReplacement(clip, frame)
        PROVE  /\ Good(transport') /\ Synced(transport') /\ [Abstract!Next]_Seat
      BY <1>0, <1>1, <2>7, PrepareReplacementImplements DEF Abstract!Next
  <2>8. CASE ActivateReplacement
      BY <1>0, <1>1, <2>8, ActivateReplacementImplements DEF Abstract!Next
  <2>9. CASE CancelReplacement
      BY <1>0, <1>1, <2>9, CancelReplacementImplements DEF Abstract!Next
  <2>10. CASE RecheckFails
      BY <1>0, <1>1, <2>10, RecheckFailsImplements DEF Abstract!Next
  <2> QED BY <1>5, <2>1, <2>2, <2>3, <2>4, <2>5, <2>6, <2>7, <2>8, <2>9, <2>10 DEF Command
<1> QED BY <1>2, <1>3, <1>4, <1>5 DEF Next

LEMMA NextKeepsIInv == IInv /\ [Next]_vars => IInv'
<1> SUFFICES ASSUME IInv, [Next]_vars PROVE IInv'
    OBVIOUS
<1>1. commands' \in 0 .. MaxCommands
  <2>1. commands \in 0 .. MaxCommands
      BY DEF IInv
  <2>2. CASE Command
      BY <2>1, <2>2, TransportAssumption DEF Command
  <2>3. CASE Service
      BY <2>1, <2>3 DEF Service, ServiceSucceeds, ServiceFails, ServicePublishes
  <2>4. CASE Mix \/ Postmix \/ UNCHANGED vars
      BY <2>1, <2>4 DEF Mix, Postmix, vars
  <2> QED BY <2>2, <2>3, <2>4 DEF Next
<1>2. Good(transport)' /\ Synced(transport)'
    BY NextImplements
<1> QED BY <1>1, <1>2 DEF IInv

-----------------------------------------------------------------------------
(* Impl keeps its fields in range whatever is loaded, queued and mixed.    *)
THEOREM TypeCorrect == Spec => []TypeOK
<1>1. IInv => TypeOK
    BY DEF IInv, Good, Shape, TransportRecord, TypeOK
<1> QED BY <1>1, InitIsGood, NextKeepsIInv, PTL DEF Spec

(* The clamp of ADR 0012: the estimate never leaves what was submitted in  *)
(* the segment, for any rate of mixing, buffer size and silence.           *)
THEOREM PresentedStaysInRange == Spec => []PresentedWithinSubmitted
<1>1. IInv => PresentedWithinSubmitted
    BY DEF IInv, Good, Shape, InRange, PresentedWithinSubmitted
<1> QED BY <1>1, InitIsGood, NextKeepsIInv, PTL DEF Spec

(* No handler publishes a position that goes back within a discontinuity,  *)
(* or that moves while the transport rests.                                *)
THEOREM PublishedIsMonotone == Spec => []SegmentIsMonotone
<1>1. IInv => SegmentIsMonotone
    BY DEF IInv, Good, Shape, Chain, Follows, SegmentIsMonotone
<1> QED BY <1>1, InitIsGood, NextKeepsIInv, PTL DEF Spec

(* The transport with its queue, device thread and failures implements the *)
(* transport that the player is written against.                           *)
THEOREM Refinement == Spec => ImplementsAudioTransport
<1>1. IInv /\ [Next]_vars => [Abstract!Next]_Seat
    BY NextImplements
<1> QED BY <1>1, InitIsGood, NextKeepsIInv, PTL DEF Spec, ImplementsAudioTransport, Abstract!Spec
=============================================================================
