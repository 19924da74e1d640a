------------------------ MODULE PlayerControllerProof ------------------------
(***************************************************************************)
(* Proofs about PlayerController for any clips, contents, correction and   *)
(* number of commands.                                                     *)
(*                                                                         *)
(* The inductive invariant (Inductive, at the end) says of the controller  *)
(* that it is Bundled, its seat, clip, store, session and timeline fit     *)
(* together, and Ordered, no clock it may sample next is behind what its   *)
(* timeline saw; of the loop that it has Tracked which frames the sessions *)
(* got; and of a seek that the seat or the chart clock still Awaits it.    *)
(*                                                                         *)
(* The lemmas go from the calls of AudioSeat (Called), over the stages of  *)
(* a transaction (Ready, Exchanged), the commands (Result, Applied) and    *)
(* the sampling of a clock (Stepped), to the steps (Preserved).            *)
(***************************************************************************)
EXTENDS PlayerController, TLAPS

(* The calls of the seat.                                                  *)

ReplacementOK(s) ==
    s.replacement # None => s.replacement.position \in 0 .. Length[s.replacement.clip]

SeatOK(s) ==
    /\ s \in SeatType
    /\ s.state # "Empty"
    /\ s.discontinuity >= 1
    /\ s.state = "Stopped" => s.position = 0
    /\ s.state # "Error" => s.clip # None /\ s.position \in 0 .. Length[s.clip]
    /\ ReplacementOK(s)

(* Every call: a position falls only with a new discontinuity.             *)
Follows(s, t) ==
    /\ t.discontinuity >= s.discontinuity
    /\ t.discontinuity = s.discontinuity /\ t.state # "Error" =>
           s.state # "Error" /\ t.position >= s.position

(* A call that fails, and a service: the position moves on at most.        *)
Keeps(s, t) ==
    t.state # "Error" =>
        /\ s.state # "Error" /\ t.position >= s.position
        /\ s.state # "Playing" => t.state # "Playing" /\ t.position = s.position

LEMMA PositionsAreNatural ==
    /\ Position \subseteq Nat
    /\ \A clip \in Clip : Length[clip] \in Nat /\ 0 .. Length[clip] \subseteq Position
<1>1. \A clip \in Clip : Length[clip] \in Nat
    BY PlayerAssumption
<1> QED BY <1>1 DEF Position

LEMMA SeatFacts ==
    ASSUME NEW s \in SeatType
    PROVE  /\ s.position \in Nat /\ s.discontinuity \in Nat /\ s.state \in PlaybackState
           /\ s.clip \in Clip \cup {None} /\ s.replacement \in ReplacementType \cup {None}
           /\ s # None
           /\ s.clip # None => Length[s.clip] \in Nat
<1>1. /\ s.position \in Position \cup {0} /\ s.discontinuity \in Nat /\ s.state \in PlaybackState
      /\ s.clip \in Clip \cup {None} /\ s.replacement \in ReplacementType \cup {None}
    BY DEF SeatType
<1>2. s # None
    BY NoneAssumption
<1>3. s.position \in Nat
  <2>1. \A p \in Position \cup {0} : p \in Nat
      BY PositionsAreNatural
  <2> QED BY <1>1, <2>1
<1>4. s.clip # None => Length[s.clip] \in Nat
    BY <1>1, PositionsAreNatural
<1> QED BY <1>1, <1>2, <1>3, <1>4

LEMMA Outcomes ==
    ASSUME NEW s
    PROVE  Ok(s).ok /\ Ok(s).seat = s /\ ~Fail(s).ok /\ Fail(s).seat = s
BY DEF Ok, Fail

LEMMA ErrorsKeep ==
    ASSUME NEW s \in SeatType, s.state # "Error", ReplacementOK(s),
           s.state = "Playing" => s.clip # None /\ s.position \in 0 .. Length[s.clip],
           NEW o \in Errors(s)
    PROVE  /\ ~o.ok /\ SeatOK(o.seat) /\ o.seat.state = "Error"
           /\ o.seat.discontinuity = s.discontinuity + 1 /\ o.seat.clip = s.clip
<1>1. PICK p \in Heard(s) :
          o = Fail([s EXCEPT !.state = "Error", !.discontinuity = @ + 1, !.position = p])
    BY DEF Errors
<1>2. p \in Position \cup {0}
    BY SeatFacts, PositionsAreNatural DEF Heard, SeatType
<1> DEFINE t == [s EXCEPT !.state = "Error", !.discontinuity = @ + 1, !.position = p]
<1>3. /\ t \in SeatType /\ t.state = "Error" /\ t.discontinuity = s.discontinuity + 1
      /\ t.clip = s.clip /\ t.replacement = s.replacement
  <2> DEFINE d == s.discontinuity + 1
  <2>1. d \in Nat /\ t = [s EXCEPT !.state = "Error", !.discontinuity = d, !.position = p]
      BY SeatFacts
  <2> HIDE DEF d, t
  <2>2. /\ t \in SeatType /\ t.state = "Error" /\ t.discontinuity = d
        /\ t.clip = s.clip /\ t.replacement = s.replacement
      BY <1>2, <2>1 DEF SeatType, PlaybackState
  <2> QED BY <2>2 DEF d
<1>4. o = Fail(t)
    BY <1>1
<1> HIDE DEF t
<1> QED BY <1>3, <1>4, Outcomes, SeatFacts DEF SeatOK, ReplacementOK

LEMMA SucceedsKeeps ==
    ASSUME NEW s, SeatOK(s), s.state # "Error", NEW o \in Succeeds(s)
    PROVE  /\ o.ok /\ SeatOK(o.seat) /\ o.seat.state # "Error"
           /\ o.seat.discontinuity = s.discontinuity /\ o.seat.position >= s.position
           /\ o.seat.clip = s.clip
           /\ s.state # "Playing" => o.seat = s
<1>1. PICK t \in Moved(s) : o = Ok(t)
    BY DEF Succeeds
<1>2. s \in SeatType
    BY DEF SeatOK
<1>3. CASE s.state # "Playing"
    BY <1>1, <1>2, <1>3, Outcomes, SeatFacts DEF Moved
<1>4. CASE s.state = "Playing"
  <2>1. PICK p \in Heard(s) :
            t = [s EXCEPT !.position = p,
                          !.state = IF p = Length[s.clip] THEN "Ended" ELSE "Playing"]
      BY <1>1, <1>4 DEF Moved
  <2>2. p \in s.position .. Length[s.clip] /\ p \in 0 .. Length[s.clip] /\ p \in Position
      BY <1>2, <1>4, <2>1, SeatFacts, PositionsAreNatural DEF Heard, SeatOK
  <2> DEFINE st == IF p = Length[s.clip] THEN "Ended" ELSE "Playing"
  <2>3. st \in {"Ended", "Playing"} /\ t = [s EXCEPT !.position = p, !.state = st]
      BY <2>1
  <2> HIDE DEF st
  <2>4. /\ t \in SeatType /\ t.position = p /\ t.state = st /\ t.clip = s.clip
        /\ t.discontinuity = s.discontinuity /\ t.replacement = s.replacement
      BY <1>2, <2>2, <2>3 DEF SeatType, PlaybackState
  <2>5. SeatOK(t)
      BY <1>2, <1>4, <2>2, <2>3, <2>4 DEF SeatOK, ReplacementOK
  <2>6. p >= s.position
      BY <1>2, <2>2, SeatFacts
  <2> QED BY <1>1, <1>4, <2>3, <2>4, <2>5, <2>6, Outcomes
<1> QED BY <1>3, <1>4

(* SeatOK gives what the two lemmas on outcomes ask.                       *)
LEMMA SeatIsSound ==
    ASSUME NEW s, SeatOK(s)
    PROVE  /\ s \in SeatType /\ ReplacementOK(s) /\ s # None
           /\ s.state = "Playing" => s.clip # None /\ s.position \in 0 .. Length[s.clip]
           /\ Follows(s, s) /\ Keeps(s, s)
<1>1. s \in SeatType
    BY DEF SeatOK
<1> QED BY <1>1, SeatFacts DEF SeatOK, Follows, Keeps

LEMMA ErrorsOfSeat ==
    ASSUME NEW s, SeatOK(s), NEW o \in Errors(s)
    PROVE  /\ ~o.ok /\ SeatOK(o.seat) /\ o.seat.state = "Error"
           /\ Follows(s, o.seat) /\ Keeps(s, o.seat)
<1>1. CASE s.state = "Error"
    BY <1>1, Outcomes, SeatIsSound DEF Errors
<1>2. CASE s.state # "Error"
    BY <1>2, ErrorsKeep, SeatIsSound, SeatFacts DEF Follows, Keeps
<1> QED BY <1>1, <1>2

LEMMA SucceedsOfSeat ==
    ASSUME NEW s, SeatOK(s), s.state # "Error", NEW o \in Succeeds(s)
    PROVE  /\ o.ok /\ SeatOK(o.seat) /\ o.seat.state # "Error" /\ o.seat.clip = s.clip
           /\ Follows(s, o.seat) /\ Keeps(s, o.seat)
BY SucceedsKeeps, SeatIsSound, SeatFacts DEF Follows, Keeps

LEMMA FollowsTransitive ==
    ASSUME NEW s, NEW t, NEW u, SeatOK(s), SeatOK(t), SeatOK(u)
    PROVE  /\ Follows(s, t) /\ Follows(t, u) => Follows(s, u)
           /\ Keeps(s, t) /\ Keeps(t, u) => Keeps(s, u)
<1>1. /\ s \in SeatType /\ t \in SeatType /\ u \in SeatType
    BY DEF SeatOK
<1>2. /\ s.position \in Nat /\ t.position \in Nat /\ u.position \in Nat
      /\ s.discontinuity \in Nat /\ t.discontinuity \in Nat /\ u.discontinuity \in Nat
    BY <1>1, SeatFacts
<1>3. Follows(s, t) /\ Follows(t, u) => Follows(s, u)
    BY <1>2 DEF Follows
<1>4. Keeps(s, t) /\ Keeps(t, u) => Keeps(s, u)
    BY <1>2 DEF Keeps
<1> QED BY <1>3, <1>4

-----------------------------------------------------------------------------
(* The calls of the transport.                                             *)
Called(s, o) ==
    /\ SeatOK(o.seat) /\ Follows(s, o.seat)
    /\ o.seat.state # "Error" => s.state # "Error" /\ o.seat.clip = s.clip
    /\ ~o.ok => Keeps(s, o.seat)

LEMMA FailIsCalled ==
    ASSUME NEW s, SeatOK(s)
    PROVE  Called(s, Fail(s)) /\ Called(s, Ok(s))
BY Outcomes, SeatIsSound DEF Called

LEMMA ErrorsAreCalled ==
    ASSUME NEW s, SeatOK(s), NEW o \in Errors(s)
    PROVE  Called(s, o)
BY ErrorsOfSeat DEF Called

LEMMA SucceedsIsCalled ==
    ASSUME NEW s, SeatOK(s), s.state # "Error", NEW o \in Succeeds(s)
    PROVE  Called(s, o)
BY SucceedsOfSeat DEF Called

LEMMA ServiceKeeps ==
    ASSUME NEW s, SeatOK(s), NEW o \in Service(s)
    PROVE  /\ Called(s, o) /\ Keeps(s, o.seat)
           /\ o.ok => o.seat.state # "Error"
<1>1. CASE s.state = "Playing"
  <2>1. o \in Succeeds(s) \/ o \in Errors(s)
      BY <1>1 DEF Service
  <2> QED BY <1>1, <2>1, SucceedsOfSeat, ErrorsOfSeat, SucceedsIsCalled, ErrorsAreCalled
<1>2. CASE s.state # "Playing"
  <2>1. \/ s.state = "Error" /\ o = Fail(s)
        \/ s.state # "Error" /\ o = Ok(s)
      BY <1>2 DEF Service
  <2> QED BY <2>1, FailIsCalled, SeatIsSound, Outcomes
<1> QED BY <1>1, <1>2

LEMMA RecheckKeeps ==
    ASSUME NEW s, SeatOK(s), s.state # "Error", NEW o \in RecheckBoundDevice(s)
    PROVE  /\ Called(s, o) /\ Keeps(s, o.seat)
           /\ o.ok => o.seat.state # "Error"
<1>1. o = Ok(s) \/ o \in Errors(s)
    BY DEF RecheckBoundDevice
<1> QED BY <1>1, FailIsCalled, SeatIsSound, Outcomes, ErrorsOfSeat, ErrorsAreCalled

(* What a call starts from, when it lets the transport play on.            *)
LEMMA Onward ==
    ASSUME NEW s, SeatOK(s), s.state # "Error",
           NEW t, SeatOK(t), t.state # "Error", t.clip = s.clip,
           Follows(s, t), NEW o \in Succeeds(t)
    PROVE  Called(s, o) /\ o.ok
<1>1. /\ o.ok /\ SeatOK(o.seat) /\ o.seat.clip = t.clip /\ Follows(t, o.seat)
    BY SucceedsOfSeat
<1> QED BY <1>1, FollowsTransitive DEF Called

LEMMA PlayCalled ==
    ASSUME NEW s, SeatOK(s), NEW o \in Play(s)
    PROVE  Called(s, o)
<1>0. s \in SeatType
    BY DEF SeatOK
<1>1. CASE s.state \in {"Stopped", "Paused"}
  <2> DEFINE t == [s EXCEPT !.state = "Playing"]
  <2>1. /\ t \in SeatType /\ t.state = "Playing" /\ t.clip = s.clip
        /\ t.discontinuity = s.discontinuity /\ t.position = s.position
        /\ t.replacement = s.replacement
      BY <1>0 DEF SeatType, PlaybackState
  <2>2. o \in Succeeds(t) \/ o \in Errors(t)
      BY <1>1 DEF Play
  <2> HIDE DEF t
  <2>3. SeatOK(t) /\ Follows(s, t) /\ Keeps(s, s)
      BY <1>0, <1>1, <2>1, SeatFacts, SeatIsSound DEF SeatOK, ReplacementOK, Follows
  <2>4. CASE o \in Succeeds(t)
      BY <1>1, <2>1, <2>3, <2>4, Onward
  <2>5. CASE o \in Errors(t)
    <3>1. /\ ~o.ok /\ SeatOK(o.seat) /\ o.seat.state = "Error" /\ Follows(t, o.seat)
        BY <2>3, <2>5, ErrorsOfSeat
    <3>2. Follows(s, o.seat)
        BY <2>3, <3>1, FollowsTransitive
    <3> QED BY <3>1, <3>2 DEF Called, Keeps
  <2> QED BY <2>2, <2>4, <2>5
<1>2. CASE s.state \notin {"Stopped", "Paused"}
  <2>1. o = Ok(s) \/ o = Fail(s)
      BY <1>2 DEF Play
  <2> QED BY <2>1, FailIsCalled
<1> QED BY <1>1, <1>2

LEMMA PauseCalled ==
    ASSUME NEW s, SeatOK(s), NEW o \in Pause(s)
    PROVE  Called(s, o)
<1>0. s \in SeatType
    BY DEF SeatOK
<1>1. CASE s.state = "Playing"
  <2>1. CASE o \in Errors(s)
      BY <2>1, ErrorsAreCalled
  <2>2. CASE o \notin Errors(s)
    <3>1. PICK p \in Heard(s) : o = Ok([s EXCEPT !.state = "Paused", !.position = p])
        BY <1>1, <2>2 DEF Pause
    <3> DEFINE t == [s EXCEPT !.state = "Paused", !.position = p]
    <3>2. p \in s.position .. Length[s.clip] /\ p \in 0 .. Length[s.clip] /\ p \in Position
        BY <1>0, <1>1, <3>1, SeatFacts, PositionsAreNatural DEF Heard, SeatOK
    <3>3. /\ t \in SeatType /\ t.state = "Paused" /\ t.clip = s.clip /\ t.position = p
          /\ t.discontinuity = s.discontinuity /\ t.replacement = s.replacement
        BY <1>0, <3>2 DEF SeatType, PlaybackState
    <3>4. o = Ok(t)
        BY <3>1
    <3> HIDE DEF t
    <3>5. SeatOK(t)
        BY <1>0, <1>1, <3>2, <3>3 DEF SeatOK, ReplacementOK
    <3>6. Follows(s, t)
        BY <1>0, <1>1, <3>2, <3>3, SeatFacts DEF Follows
    <3> QED BY <1>1, <3>3, <3>4, <3>5, <3>6, Outcomes DEF Called
  <2> QED BY <2>1, <2>2
<1>2. CASE s.state # "Playing"
  <2>1. o = Ok(s) \/ o = Fail(s)
      BY <1>2 DEF Pause
  <2> QED BY <2>1, FailIsCalled
<1> QED BY <1>1, <1>2

LEMMA StopCalled ==
    ASSUME NEW s, SeatOK(s), NEW o \in Stop(s)
    PROVE  Called(s, o)
<1>0. s \in SeatType
    BY DEF SeatOK
<1>1. CASE s.state \in {"Empty", "Error"} \/ (s.state = "Stopped" /\ s.position = 0)
  <2>1. o = Ok(s) \/ o = Fail(s)
      BY <1>1 DEF Stop
  <2> QED BY <2>1, FailIsCalled
<1>2. CASE ~(s.state \in {"Empty", "Error"} \/ (s.state = "Stopped" /\ s.position = 0))
  <2>1. CASE o \in Errors(s)
      BY <2>1, ErrorsAreCalled
  <2>2. CASE o \notin Errors(s)
    <3>1. PICK d \in (IF s.position = 0 THEN {s.discontinuity, s.discontinuity + 1}
                      ELSE {s.discontinuity + 1}) :
              o = Ok([s EXCEPT !.state = "Stopped", !.position = 0, !.discontinuity = d])
        BY <1>2, <2>2 DEF Stop
    <3> DEFINE t == [s EXCEPT !.state = "Stopped", !.position = 0, !.discontinuity = d]
    <3>2. /\ d \in Nat /\ d >= s.discontinuity
          /\ d = s.discontinuity => s.position = 0
        BY <1>0, <3>1, SeatFacts
    <3>3. /\ t \in SeatType /\ t.state = "Stopped" /\ t.clip = s.clip /\ t.position = 0
          /\ t.discontinuity = d /\ t.replacement = s.replacement
        BY <1>0, <3>2 DEF SeatType, PlaybackState
    <3>4. o = Ok(t)
        BY <3>1
    <3> HIDE DEF t
    <3>5. SeatOK(t)
        BY <1>0, <1>2, <3>2, <3>3, SeatFacts DEF SeatOK, ReplacementOK
    <3>6. Follows(s, t)
        BY <1>0, <1>2, <3>2, <3>3, SeatFacts DEF Follows
    <3> QED BY <1>2, <3>3, <3>4, <3>5, <3>6, Outcomes DEF Called
  <2> QED BY <2>1, <2>2
<1> QED BY <1>1, <1>2

(* A seek that succeeds reaches its target, and rests there unless the     *)
(* transport plays.                                                        *)
LEMMA SeekCalled ==
    ASSUME NEW s, SeatOK(s), NEW target \in Int, NEW o \in SeekMs(s, target)
    PROVE  /\ Called(s, o)
           /\ o.ok => /\ o.seat.state # "Error" /\ o.seat.position >= target
                      /\ s.state # "Playing" => /\ o.seat.state # "Playing"
                                                /\ o.seat.position = target
<1>0. s \in SeatType
    BY DEF SeatOK
<1>1. CASE s.clip = None \/ s.state \in {"Empty", "Error"} \/ target \notin 0 .. Length[s.clip]
  <2>1. o = Fail(s)
      BY <1>1 DEF SeekMs
  <2> QED BY <2>1, FailIsCalled, Outcomes
<1>2. CASE ~(s.clip = None \/ s.state \in {"Empty", "Error"} \/ target \notin 0 .. Length[s.clip])
  <2> DEFINE st == IF s.state = "Playing" THEN "Playing" ELSE "Paused"
             d == IF target = s.position THEN s.discontinuity ELSE s.discontinuity + 1
             t == [s EXCEPT !.position = target, !.state = st, !.discontinuity = d]
  <2>1. /\ target \in Position
        /\ d \in Nat /\ d >= s.discontinuity /\ (d = s.discontinuity => target = s.position)
        /\ st \in {"Playing", "Paused"} /\ (s.state # "Playing" => st = "Paused")
      BY <1>0, <1>2, SeatFacts, PositionsAreNatural
  <2>2. \/ o \in Succeeds(t)
        \/ o \in Errors(s)
        \/ o \in Errors(t)
      BY <1>2 DEF SeekMs
  <2>3. t = [s EXCEPT !.position = target, !.state = st, !.discontinuity = d]
      OBVIOUS
  <2> HIDE DEF st, d, t
  <2>4. /\ t \in SeatType /\ t.state = st /\ t.clip = s.clip /\ t.position = target
        /\ t.discontinuity = d /\ t.replacement = s.replacement
      BY <1>0, <2>1, <2>3 DEF SeatType, PlaybackState
  <2>5. SeatOK(t) /\ t.state # "Error"
      BY <1>0, <1>2, <2>1, <2>4, SeatFacts DEF SeatOK, ReplacementOK
  <2>6. Follows(s, t)
      BY <1>0, <1>2, <2>1, <2>4, SeatFacts DEF Follows
  <2>7. CASE o \in Succeeds(t)
    <3>1. Called(s, o)
        BY <1>2, <2>4, <2>5, <2>6, <2>7, Onward
    <3>2. /\ o.seat.state # "Error" /\ o.seat.position >= t.position
          /\ t.state # "Playing" => o.seat = t
        BY <2>5, <2>7, SucceedsKeeps
    <3> QED BY <2>1, <2>4, <3>1, <3>2
  <2>8. CASE o \in Errors(s)
      BY <2>8, ErrorsOfSeat, ErrorsAreCalled
  <2>9. CASE o \in Errors(t)
    <3>1. /\ ~o.ok /\ SeatOK(o.seat) /\ o.seat.state = "Error" /\ Follows(t, o.seat)
        BY <2>5, <2>9, ErrorsOfSeat
    <3>2. Follows(s, o.seat)
        BY <2>5, <2>6, <3>1, FollowsTransitive
    <3> QED BY <3>1, <3>2 DEF Called, Keeps
  <2> QED BY <2>2, <2>7, <2>8, <2>9
<1> QED BY <1>1, <1>2

(* A replacement waits beside the clip, and nothing else changes.          *)
LEMMA PrepareCalled ==
    ASSUME NEW s, SeatOK(s), NEW clip \in Clip, NEW position \in Int,
           NEW o \in PrepareReplacement(s, clip, position), o.ok
    PROVE  /\ Called(s, o) /\ Keeps(s, o.seat)
           /\ o.seat.replacement # None /\ o.seat.replacement.clip = clip
<1>0. s \in SeatType
    BY DEF SeatOK
<1>1. CASE s.clip = None \/ s.state \in {"Empty", "Error"} \/ position \notin 0 .. Length[clip]
    BY <1>1, Outcomes DEF PrepareReplacement
<1>2. CASE ~(s.clip = None \/ s.state \in {"Empty", "Error"} \/ position \notin 0 .. Length[clip])
  <2> DEFINE r == [clip |-> clip, position |-> position]
             t == [s EXCEPT !.replacement = r]
  <2>1. o = Ok(t)
      BY <1>2 DEF PrepareReplacement
  <2>2. r \in ReplacementType /\ r.clip = clip /\ r.position \in 0 .. Length[clip]
      BY <1>2, PositionsAreNatural DEF ReplacementType
  <2>3. r # None
      BY <2>2, NoneAssumption
  <2> HIDE DEF r
  <2>4. /\ t \in SeatType /\ t.state = s.state /\ t.clip = s.clip /\ t.position = s.position
        /\ t.discontinuity = s.discontinuity /\ t.replacement = r
      BY <1>0, <2>2 DEF SeatType
  <2> HIDE DEF t
  <2>5. SeatOK(t)
      BY <2>2, <2>3, <2>4 DEF SeatOK, ReplacementOK
  <2>6. Follows(s, t) /\ Keeps(s, t)
      BY <1>0, <1>2, <2>4, SeatFacts DEF Follows, Keeps
  <2> QED BY <2>1, <2>2, <2>3, <2>4, <2>5, <2>6, Outcomes DEF Called
<1> QED BY <1>1, <1>2

(* Once the old stream is closed, it is the new clip or an error.          *)
LEMMA ActivateCalled ==
    ASSUME NEW s, SeatOK(s), s.replacement # None, NEW o \in ActivateReplacement(s)
    PROVE  /\ SeatOK(o.seat)
           /\ o.ok => o.seat.state # "Error" /\ o.seat.clip = s.replacement.clip
           /\ ~o.ok => Follows(s, o.seat) /\ o.seat.state = "Error"
<1>0. s \in SeatType /\ s.replacement \in ReplacementType
    BY SeatFacts DEF SeatOK
<1>1. /\ s.replacement.clip \in Clip /\ s.replacement.position \in Position
      /\ s.replacement.position \in 0 .. Length[s.replacement.clip]
      /\ s.replacement.clip # None
    BY <1>0, PlayerAssumption DEF ReplacementType, SeatOK, ReplacementOK
<1> DEFINE d == s.discontinuity + 1
           e == IF s.state = "Error" THEN s.discontinuity ELSE s.discontinuity + 1
           st == IF s.state = "Playing" THEN "Playing" ELSE "Paused"
           closed == [s EXCEPT !.clip = None, !.position = 0, !.replacement = None]
           failed == [closed EXCEPT !.state = "Error", !.discontinuity = e]
           opened == [s EXCEPT !.clip = s.replacement.clip, !.replacement = None,
                               !.position = s.replacement.position,
                               !.discontinuity = d, !.state = st]
<1>2. /\ d \in Nat /\ d >= 1 /\ e \in Nat /\ e >= s.discontinuity
      /\ e = s.discontinuity => s.state = "Error"
      /\ st \in {"Playing", "Paused"} /\ s.discontinuity >= 1
    BY <1>0, SeatFacts DEF SeatOK
<1>3. /\ closed \in SeatType /\ closed.clip = None /\ closed.position = 0
      /\ closed.replacement = None /\ closed.discontinuity = s.discontinuity
      /\ closed.state = s.state
    BY <1>0 DEF SeatType
<1>4. \/ o = Fail([closed EXCEPT !.state = "Error",
                                 !.discontinuity = IF s.state = "Error" THEN @ ELSE @ + 1])
      \/ o \in Succeeds(opened)
      \/ o \in Errors(opened)
    BY DEF ActivateReplacement
<1>5. \/ o = Fail(failed)
      \/ o \in Succeeds(opened)
      \/ o \in Errors(opened)
    BY <1>3, <1>4
<1> HIDE DEF closed
<1>6. /\ failed \in SeatType /\ failed.state = "Error" /\ failed.discontinuity = e
      /\ failed.clip = None /\ failed.replacement = None
  <2> HIDE DEF e
  <2> QED BY <1>2, <1>3 DEF SeatType, PlaybackState
<1>7. /\ opened \in SeatType /\ opened.state = st /\ opened.discontinuity = d
      /\ opened.clip = s.replacement.clip /\ opened.position = s.replacement.position
      /\ opened.replacement = None
  <2> HIDE DEF d, st
  <2> QED BY <1>0, <1>1, <1>2 DEF SeatType, PlaybackState
<1> HIDE DEF failed, opened
<1>8. SeatOK(opened) /\ opened.state # "Error"
    BY <1>1, <1>2, <1>7 DEF SeatOK, ReplacementOK
<1>9. CASE o = Fail(failed)
  <2>1. SeatOK(failed) /\ Follows(s, failed)
      BY <1>2, <1>6 DEF SeatOK, ReplacementOK, Follows
  <2> QED BY <1>6, <1>9, <2>1, Outcomes
<1>10. CASE o \in Succeeds(opened)
    BY <1>7, <1>8, <1>10, SucceedsKeeps
<1>11. CASE o \in Errors(opened)
  <2>1. ~o.ok /\ SeatOK(o.seat) /\ o.seat.state = "Error" /\ Follows(opened, o.seat)
      BY <1>8, <1>11, ErrorsOfSeat
  <2>2. Follows(s, o.seat)
    <3> HIDE DEF d
    <3>1. o.seat.discontinuity >= d /\ o.seat.discontinuity \in Nat
        BY <1>7, <2>1, SeatFacts DEF Follows, SeatOK
    <3>2. d > s.discontinuity /\ s.discontinuity \in Nat
        BY <1>0, SeatFacts DEF d
    <3> QED BY <1>2, <2>1, <3>1, <3>2 DEF Follows
  <2> QED BY <2>1, <2>2
<1> QED BY <1>5, <1>9, <1>10, <1>11

(* A new seat with the clip loaded.                                        *)
LEMMA OpenedIsSound ==
    ASSUME NEW clip \in Clip, NEW start \in Nat, NEW o \in Opened(clip, start), o.ok
    PROVE  SeatOK(o.seat) /\ o.seat.state # "Error" /\ o.seat.clip = clip
<1>1. PICK n \in Load(New, clip) : o \in IF n.ok /\ start > 0 THEN SeekMs(n.seat, start) ELSE {n}
    BY DEF Opened
<1> DEFINE t == [New EXCEPT !.clip = clip, !.state = "Stopped", !.position = 0,
                            !.discontinuity = 1]
<1>2. New \in SeatType /\ New.state = "Empty" /\ New.replacement = None /\ New.discontinuity = 0
    BY DEF New, SeatType, PlaybackState
<1>3. n = Ok(t) \/ n \in Errors(New)
    BY <1>2 DEF Load, New
<1>4. /\ t \in SeatType /\ t.state = "Stopped" /\ t.clip = clip /\ t.position = 0
      /\ t.discontinuity = 1 /\ t.replacement = None
    BY <1>2 DEF SeatType, PlaybackState
<1> HIDE DEF t
<1>5. SeatOK(t)
    BY <1>4, PositionsAreNatural, PlayerAssumption DEF SeatOK, ReplacementOK
<1>6. n \in Errors(New) => ~n.ok
    BY <1>2, ErrorsKeep DEF ReplacementOK
<1>7. n.ok /\ n = Ok(t) /\ n.seat = t
    BY <1>1, <1>3, <1>6, Outcomes
<1>8. CASE start > 0
    BY <1>1, <1>4, <1>5, <1>7, <1>8, SeekCalled DEF Called
<1>9. CASE ~(start > 0)
    BY <1>1, <1>4, <1>5, <1>7, <1>9
<1> QED BY <1>8, <1>9

-----------------------------------------------------------------------------
(* The controller between two steps.                                       *)
Clips(c) ==
    /\ c.store = {c.clip} \ {None}
    /\ c.seat # None =>
           /\ c.mode = "CuexisAudio"
           /\ c.seat.state # "Error" => c.seat.clip = c.clip

(* A bundle is active, and its audio has a seat.                           *)
Solid(c) == c.timeline # None /\ (c.mode = "CuexisAudio" => c.seat # None)

Whole(c) ==
    /\ c \in ControllerType
    /\ Clips(c)
    /\ c.seat # None => SeatOK(c.seat) /\ c.timeline # None
    /\ c.mode = "CuexisAudio" => c.chartClock = 0 /\ c.pending = None
    /\ c.session = None <=> c.timeline = None
    /\ c.timeline = None => c.lastFrame.id = 0
    /\ c.timeline # None =>
           /\ c.lastFrame.id = c.timeline.id
           /\ c.timeline.pending => c.timeline.initialized

(* Commands that need the bundle are allowed only when there is one.       *)
Bundled(c) == Whole(c) /\ (c.app \in {"Empty", "Failed"} \/ Solid(c))

(* What the timeline last saw is not ahead of what it will see next.       *)
Ordered(c, k) ==
    c.timeline # None /\ c.timeline.initialized /\ ~c.timeline.pending =>
        LET previous == c.timeline.previous
        IN  /\ c.seat # None =>
                   /\ 1 <= previous.id /\ previous.id <= c.seat.discontinuity
                   /\ previous.id = c.seat.discontinuity /\ c.seat.state # "Error" =>
                          Corrected(c.seat.position) >= previous.position
            /\ c.seat = None =>
                   /\ c.mode # "CuexisAudio" => previous.id <= c.chartClock
                   /\ previous.id = c.chartClock =>
                          /\ c.pending = None
                          /\ previous.position = k.last + c.timeline.offset

Unmoved(c, d) ==
    /\ d.session = c.session /\ d.mode = c.mode /\ d.timeline = c.timeline
    /\ d.chartClock = c.chartClock /\ d.clip = c.clip /\ d.lastFrame = c.lastFrame
    /\ d.lastSource = c.lastSource /\ d.resume = c.resume /\ d.pending = c.pending
    /\ d.replaced = c.replaced

LEMMA ControllerFacts ==
    ASSUME NEW c \in ControllerType
    PROVE  /\ c.app \in PlayerAppState /\ c.session \in SessionType \cup {None}
           /\ c.mode \in PlaybackMode /\ c.timeline \in TimelineType \cup {None}
           /\ c.chartClock \in Nat /\ c.seat \in SeatType \cup {None}
           /\ c.clip \in Clip \cup {None} /\ c.store \in SUBSET Clip
           /\ c.lastFrame \in FrameType /\ c.lastSource \in Nat /\ c.resume \in Int
           /\ c.pending \in Int \cup {None} /\ c.replaced \in BOOLEAN
BY DEF ControllerType

LEMMA TimelineFacts ==
    ASSUME NEW tl \in TimelineType
    PROVE  /\ tl # None /\ tl.offset \in Int /\ tl.initialized \in BOOLEAN /\ tl.id \in Nat
           /\ tl.pending \in BOOLEAN /\ tl.previous.position \in Int
           /\ tl.previous.state \in PlaybackState /\ tl.previous.id \in Nat
BY NoneAssumption DEF TimelineType

LEMMA CorrectedIsMonotone ==
    ASSUME NEW p \in Nat, NEW q \in Nat, p <= q
    PROVE  Corrected(p) \in Nat /\ Corrected(q) \in Nat /\ Corrected(p) <= Corrected(q)
<1>1. Correction \in Int
    BY PlayerAssumption
<1> QED BY <1>1 DEF Corrected

LEMMA WithApp ==
    ASSUME NEW c \in ControllerType, NEW app \in PlayerAppState,
           NEW d, d = [c EXCEPT !.app = app]
    PROVE  /\ d \in ControllerType /\ Unmoved(c, d) /\ d.app = app /\ d.seat = c.seat
           /\ d.store = c.store
BY DEF ControllerType, Unmoved

LEMMA WithSeat ==
    ASSUME NEW c \in ControllerType, NEW seat \in SeatType \cup {None},
           NEW d, d = [c EXCEPT !.seat = seat]
    PROVE  /\ d \in ControllerType /\ Unmoved(c, d) /\ d.app = c.app /\ d.seat = seat
           /\ d.store = c.store
BY DEF ControllerType, Unmoved

LEMMA WithStore ==
    ASSUME NEW c \in ControllerType, NEW store \in SUBSET Clip,
           NEW d, d = [c EXCEPT !.store = store]
    PROVE  /\ d \in ControllerType /\ Unmoved(c, d) /\ d.app = c.app /\ d.seat = c.seat
           /\ d.store = store
BY DEF ControllerType, Unmoved

LEMMA Discarded ==
    ASSUME NEW c \in ControllerType, NEW clip \in Clip \cup {None}, NEW d, d = DiscardClip(c, clip)
    PROVE  /\ d \in ControllerType /\ Unmoved(c, d) /\ d.app = c.app /\ d.seat = c.seat
           /\ d.store = c.store \ {clip}
<1>1. CASE clip = None
  <2>1. d = c
      BY <1>1 DEF DiscardClip
  <2>2. c.store \ {clip} = c.store
      BY <1>1, ControllerFacts, PlayerAssumption
  <2> QED BY <2>1, <2>2 DEF Unmoved
<1>2. CASE clip # None
  <2> DEFINE store == c.store \ {clip}
  <2>1. store \in SUBSET Clip
      BY ControllerFacts
  <2>2. d = [c EXCEPT !.store = store]
      BY <1>2 DEF DiscardClip
  <2> HIDE DEF store
  <2>3. /\ d \in ControllerType /\ Unmoved(c, d) /\ d.app = c.app /\ d.seat = c.seat
        /\ d.store = store
      BY <2>1, <2>2, WithStore
  <2> QED BY <2>3 DEF store
<1> QED BY <1>1, <1>2

(* The seat only went on, or there is none.                                *)
SeatOnward(c, d) ==
    \/ c.seat = None /\ d.seat = None
    \/ /\ c.seat # None /\ d.seat # None
       /\ SeatOK(d.seat) /\ Follows(c.seat, d.seat)
       /\ d.seat.state # "Error" => c.seat.state # "Error" /\ d.seat.clip = c.seat.clip

LEMMA UnmovedIsWhole ==
    ASSUME NEW c, Whole(c), NEW d \in ControllerType, Unmoved(c, d), d.store = c.store,
           SeatOnward(c, d)
    PROVE  /\ Whole(d) /\ (Solid(c) => Solid(d))
           /\ \A k : Ordered(c, k) => Ordered(d, k)
<1>1. Solid(c) => Solid(d)
    BY DEF Solid, Unmoved, SeatOnward
<1>2. Clips(d)
    BY DEF Clips, Whole, Unmoved, SeatOnward
<1>3. Whole(d)
    BY <1>1, <1>2 DEF Whole, Unmoved, SeatOnward
<1>4. ASSUME NEW k, Ordered(c, k) PROVE Ordered(d, k)
  <2>1. CASE c.seat = None
      BY <1>4, <2>1 DEF Ordered, Unmoved, SeatOnward
  <2>2. CASE c.seat # None
    <3> DEFINE s == c.seat
               t == d.seat
               previous == c.timeline.previous
    <3>1. /\ SeatOK(s) /\ SeatOK(t) /\ Follows(s, t) /\ s # None /\ t # None
          /\ d.timeline = c.timeline /\ c.timeline \in TimelineType
        BY <2>2, ControllerFacts DEF Whole, SeatOnward, Unmoved
    <3>2. /\ s.position \in Nat /\ t.position \in Nat
          /\ s.discontinuity \in Nat /\ t.discontinuity \in Nat
          /\ previous.id \in Nat /\ previous.position \in Int
        BY <3>1, SeatFacts, TimelineFacts DEF SeatOK
    <3> SUFFICES ASSUME c.timeline.initialized, ~c.timeline.pending
                 PROVE  /\ 1 <= previous.id /\ previous.id <= t.discontinuity
                        /\ previous.id = t.discontinuity /\ t.state # "Error" =>
                               Corrected(t.position) >= previous.position
        BY <3>1 DEF Ordered
    <3>3. /\ 1 <= previous.id /\ previous.id <= s.discontinuity
          /\ previous.id = s.discontinuity /\ s.state # "Error" =>
                 Corrected(s.position) >= previous.position
        BY <1>4, <3>1, TimelineFacts DEF Ordered
    <3> HIDE DEF s, t, previous
    <3>4. previous.id <= t.discontinuity
        BY <3>1, <3>2, <3>3 DEF Follows
    <3>5. ASSUME previous.id = t.discontinuity, t.state # "Error"
          PROVE  Corrected(t.position) >= previous.position
      <4>1. s.discontinuity = t.discontinuity /\ s.state # "Error" /\ t.position >= s.position
          BY <3>1, <3>2, <3>3, <3>5 DEF Follows
      <4>2. Corrected(s.position) \in Nat /\ Corrected(t.position) \in Nat
            /\ Corrected(s.position) <= Corrected(t.position)
          BY <3>2, <4>1, CorrectedIsMonotone
      <4> QED BY <3>2, <3>3, <3>5, <4>1, <4>2
    <3> QED BY <3>3, <3>4, <3>5
  <2> QED BY <2>1, <2>2
<1> QED BY <1>1, <1>3, <1>4

LEMMA SeatsStay ==
    ASSUME NEW c, Whole(c)
    PROVE  SeatOnward(c, c)
BY SeatIsSound DEF SeatOnward, Whole

-----------------------------------------------------------------------------
(* The transaction.                                                        *)
Ready(c, p, mode) ==
    /\ p.controller \in ControllerType /\ Unmoved(c, p.controller)
    /\ p.controller.app = c.app
    /\ SeatOnward(c, p.controller)
    /\ c.seat # None => Keeps(c.seat, p.controller.seat)
    /\ p.clip \in Clip \cup {None} /\ p.clip \notin c.store
    /\ p.clip = None <=> mode # "CuexisAudio"
    /\ p.controller.store = c.store \cup ({p.clip} \ {None})
    /\ mode = "CuexisAudio" /\ c.seat # None =>
           /\ p.controller.seat.replacement # None
           /\ p.controller.seat.replacement.clip = p.clip

LEMMA PreparedIsReady ==
    ASSUME NEW c, Whole(c), NEW mode \in PlaybackMode, NEW start \in Nat,
           NEW p \in Prepared(c, mode, start)
    PROVE  Ready(c, p, mode)
<1>0. c \in ControllerType /\ c.store \in SUBSET Clip /\ None \notin Clip
    BY ControllerFacts, PlayerAssumption DEF Whole
<1>1. CASE mode # "CuexisAudio"
  <2>1. p = [controller |-> c, clip |-> None]
      BY <1>1 DEF Prepared
  <2>2. p.controller = c /\ p.clip = None
      BY <2>1
  <2> QED BY <1>0, <1>1, <2>2, SeatsStay, SeatIsSound DEF Ready, Unmoved, Whole
<1>2. CASE mode = "CuexisAudio"
  <2>1. PICK clip \in Clip \ c.store :
            p \in LET registered == [c EXCEPT !.store = @ \cup {clip}]
                  IN  IF DeviceChanges(c, mode) THEN {[controller |-> registered, clip |-> clip]}
                      ELSE {[controller |-> [registered EXCEPT !.seat = o.seat], clip |-> clip]
                               : o \in {o \in PrepareReplacement(c.seat, clip, start) : o.ok}}
      BY <1>2 DEF Prepared
  <2> DEFINE store == c.store \cup {clip}
             e == [c EXCEPT !.store = store]
  <2>2. store \in SUBSET Clip /\ store = c.store \cup ({clip} \ {None}) /\ clip # None
      BY <1>0, <2>1
  <2>3. e = [c EXCEPT !.store = store]
      OBVIOUS
  <2>4. p \in IF DeviceChanges(c, mode) THEN {[controller |-> e, clip |-> clip]}
              ELSE {[controller |-> [e EXCEPT !.seat = o.seat], clip |-> clip]
                       : o \in {o \in PrepareReplacement(c.seat, clip, start) : o.ok}}
      BY <2>1
  <2> HIDE DEF store, e
  <2>5. /\ e \in ControllerType /\ Unmoved(c, e) /\ e.app = c.app /\ e.seat = c.seat
        /\ e.store = store
      BY <1>0, <2>2, <2>3, WithStore
  <2>6. CASE DeviceChanges(c, mode)
    <3>1. p.controller = e /\ p.clip = clip
        BY <2>4, <2>6
    <3>2. c.seat = None
        BY <1>2, <2>6 DEF DeviceChanges, Whole, Clips
    <3> QED BY <1>2, <2>1, <2>2, <2>5, <3>1, <3>2 DEF Ready, SeatOnward
  <2>7. CASE ~DeviceChanges(c, mode)
    <3>1. PICK o \in PrepareReplacement(c.seat, clip, start) :
              o.ok /\ p = [controller |-> [e EXCEPT !.seat = o.seat], clip |-> clip]
        BY <2>4, <2>7
    <3>2. c.seat # None /\ SeatOK(c.seat)
        BY <1>2, <2>7 DEF DeviceChanges, Whole
    <3> DEFINE s == o.seat
               d == [e EXCEPT !.seat = s]
    <3>3. Called(c.seat, o) /\ Keeps(c.seat, s) /\ s.replacement # None /\ s.replacement.clip = clip
        BY <3>1, <3>2, PrepareCalled
    <3>4. SeatOK(s) /\ s \in SeatType /\ s # None
        BY <3>3, SeatIsSound DEF Called
    <3>5. p.controller = d /\ p.clip = clip
        BY <3>1
    <3>6. d = [e EXCEPT !.seat = s]
        OBVIOUS
    <3>7. SeatOK(s) /\ Follows(c.seat, s)
          /\ (s.state # "Error" => c.seat.state # "Error" /\ s.clip = c.seat.clip)
        BY <3>3 DEF Called
    <3> HIDE DEF s, d
    <3>8. /\ d \in ControllerType /\ Unmoved(e, d) /\ d.app = e.app /\ d.seat = s
          /\ d.store = e.store
        BY <2>5, <3>4, <3>6, WithSeat
    <3>9. Unmoved(c, d)
        BY <2>5, <3>8 DEF Unmoved
    <3>10. SeatOnward(c, d)
        BY <3>2, <3>4, <3>7, <3>8 DEF SeatOnward
    <3> QED BY <1>2, <2>1, <2>2, <2>5, <3>3, <3>5, <3>8, <3>9, <3>10 DEF Ready, s
  <2> QED BY <2>6, <2>7
<1> QED BY <1>1, <1>2

(* What is prepared goes again when the transaction stops.                 *)
LEMMA ReadyIsUndone ==
    ASSUME NEW c, Whole(c), NEW mode, NEW p, Ready(c, p, mode), NEW d \in ControllerType,
           Unmoved(p.controller, d), d.store = p.controller.store, SeatOnward(c, d),
           NEW e, e = DiscardClip(d, p.clip)
    PROVE  /\ Whole(e) /\ Unmoved(c, e) /\ e.app = d.app /\ e.seat = d.seat
           /\ \A k : Ordered(c, k) => Ordered(e, k)
<1>1. p.clip \in Clip \cup {None}
    BY DEF Ready
<1>2. /\ e \in ControllerType /\ Unmoved(d, e) /\ e.app = d.app /\ e.seat = d.seat
      /\ e.store = d.store \ {p.clip}
    BY <1>1, Discarded
<1>3. e.store = c.store
    BY <1>2, ControllerFacts, PlayerAssumption DEF Ready, Whole
<1>4. Unmoved(c, e)
    BY <1>2 DEF Ready, Unmoved
<1>5. SeatOnward(c, e)
    BY <1>2 DEF SeatOnward
<1> QED BY <1>2, <1>3, <1>4, <1>5, UnmovedIsWhole

LEMMA TimelinesAreTyped ==
    ASSUME NEW c \in ControllerType, NEW offset \in Int, NEW tl, tl = NextTimeline(c, offset)
    PROVE  /\ tl \in TimelineType
           /\ tl.pending => tl.initialized
           /\ tl.initialized => tl.pending
           /\ tl.id = IF c.timeline = None THEN 0 ELSE c.timeline.id
           /\ tl.initialized <=> c.timeline # None /\ c.timeline.initialized
<1>1. CASE c.timeline = None
  <2>1. tl = Timeline(offset)
      BY <1>1 DEF NextTimeline
  <2>2. tl \in TimelineType /\ tl.pending = FALSE /\ tl.initialized = FALSE /\ tl.id = 0
      BY <2>1 DEF Timeline, Sample, TimelineType, PlaybackState
  <2> QED BY <1>1, <2>2
<1>2. CASE c.timeline # None
  <2> DEFINE old == c.timeline
             pending == old.initialized
  <2>1. old \in TimelineType
      BY <1>2, ControllerFacts
  <2>2. tl = [old EXCEPT !.offset = offset, !.pending = pending]
      BY <1>2 DEF NextTimeline, Reset
  <2>3. pending \in BOOLEAN
      BY <2>1, TimelineFacts
  <2> HIDE DEF pending, old
  <2>4. /\ tl \in TimelineType /\ tl.pending = pending /\ tl.initialized = old.initialized
        /\ tl.id = old.id
      BY <2>1, <2>2, <2>3 DEF TimelineType
  <2> QED BY <1>2, <2>4 DEF pending, old
<1> QED BY <1>1, <1>2

(* The bundle that a transaction puts in the place of the active one.      *)
Offsets == {content.offset : content \in Content}

Exchanged(c, d) ==
    /\ d.replaced /\ d.lastFrame = c.lastFrame
    /\ \E offset \in Offsets : d.timeline = NextTimeline(c, offset)
    /\ d.session \in SessionType
    /\ d.session.last # None => d.session.last.id = c.lastFrame.id

Publishes(c, d, seat, clip, mode) ==
    \E content \in Content : \E restart, fresh \in BOOLEAN :
        d = Publish(c, seat, clip, content, mode, restart, fresh)

TakesOver(c, d, seat, clip, mode) ==
    /\ d.app = c.app /\ d.mode = mode /\ d.seat = seat /\ d.clip = clip
    /\ d.store = IF c.clip = clip THEN c.store ELSE c.store \ {c.clip}
    /\ d.chartClock = 0 /\ (mode = "CuexisAudio" => d.pending = None)

LEMMA PublishFields ==
    ASSUME NEW c \in ControllerType, NEW seat \in SeatType \cup {None},
           NEW clip \in Clip \cup {None}, NEW mode \in PlaybackMode,
           NEW d, Publishes(c, d, seat, clip, mode)
    PROVE  d \in ControllerType /\ Exchanged(c, d) /\ TakesOver(c, d, seat, clip, mode)
<1>0. PICK content \in Content : \E restart, fresh \in BOOLEAN :
          d = Publish(c, seat, clip, content, mode, restart, fresh)
    BY DEF Publishes
<1>p. PICK restart, fresh \in BOOLEAN :
          d = Publish(c, seat, clip, content, mode, restart, fresh)
    BY <1>0
<1> DEFINE time == IF restart THEN 0 ELSE c.lastFrame.time
           last == IF fresh THEN None ELSE [c.lastFrame EXCEPT !.delta = 0, !.time = time]
           session == [last |-> last]
           tl == NextTimeline(c, content.offset)
           pending == IF mode = "ChartClock" THEN time ELSE None
           resume == IF mode = "ChartClock" THEN time ELSE 0
           source == IF restart THEN 0 ELSE c.lastSource
           store == IF c.clip = clip THEN c.store ELSE c.store \ {c.clip}
<1>1. time \in Int /\ pending \in Int \cup {None} /\ resume \in Int /\ source \in Nat
    BY ControllerFacts DEF FrameType
<1>2. store \in SUBSET Clip
    BY ControllerFacts
<1>3. content.offset \in Int
    BY PlayerAssumption
<1>4. tl \in TimelineType
    BY <1>3, TimelinesAreTyped
<1>5. session \in SessionType /\ (session.last # None => session.last.id = c.lastFrame.id)
  <2>1. c.lastFrame \in FrameType
      BY ControllerFacts
  <2> HIDE DEF time
  <2>2. CASE fresh
      BY <2>2 DEF SessionType
  <2>3. CASE ~fresh
    <3> DEFINE frame == [c.lastFrame EXCEPT !.delta = 0, !.time = time]
    <3>1. frame \in FrameType /\ frame.id = c.lastFrame.id
        BY <1>1, <2>1 DEF FrameType
    <3>2. last = frame
        BY <2>3
    <3> HIDE DEF frame, last
    <3> QED BY <3>1, <3>2 DEF SessionType
  <2> QED BY <2>2, <2>3
<1>6. d = [c EXCEPT !.session = session, !.timeline = tl, !.chartClock = 0, !.mode = mode,
                    !.pending = pending, !.resume = resume, !.lastSource = source,
                    !.seat = seat, !.clip = clip, !.store = store, !.replaced = TRUE]
    BY <1>p DEF Publish
<1>7. mode = "CuexisAudio" => pending = None
    OBVIOUS
<1> HIDE DEF session, tl, pending, resume, source, store, time, last
<1>8. /\ d.session = session /\ d.timeline = tl /\ d.chartClock = 0
      /\ d.mode = mode /\ d.pending = pending /\ d.seat = seat /\ d.clip = clip
      /\ d.store = store /\ d.replaced = TRUE /\ d.lastFrame = c.lastFrame /\ d.app = c.app
    BY <1>6 DEF ControllerType
<1>t. d \in ControllerType
  <2>1. d \in [app: {c.app}, session: {session}, mode: {mode}, timeline: {tl},
                chartClock: {0}, seat: {seat}, clip: {clip}, store: {store},
                lastFrame: {c.lastFrame}, lastSource: {source}, resume: {resume},
                pending: {pending}, replaced: {TRUE}]
      BY <1>6 DEF ControllerType
  <2>2. c.app \in PlayerAppState /\ c.lastFrame \in FrameType
      BY ControllerFacts
  <2>3. /\ session \in SessionType \cup {None} /\ tl \in TimelineType \cup {None}
        /\ pending \in Int \cup {None} /\ resume \in Int /\ source \in Nat
        /\ store \in SUBSET Clip /\ TRUE \in BOOLEAN /\ 0 \in Nat
      BY <1>1, <1>2, <1>4, <1>5
  <2> QED BY <2>1, <2>2, <2>3 DEF ControllerType
<1>9. Exchanged(c, d)
    BY <1>3, <1>5, <1>8 DEF Exchanged, Offsets, tl
<1> QED BY <1>7, <1>8, <1>9, <1>t DEF store, TakesOver

LEMMA PublishIsWhole ==
    ASSUME NEW c, Whole(c), NEW mode \in PlaybackMode, NEW p, Ready(c, p, mode),
           NEW seat \in SeatType \cup {None},
           IF mode = "CuexisAudio"
           THEN seat # None /\ SeatOK(seat) /\ (seat.state # "Error" => seat.clip = p.clip)
           ELSE seat = None,
           NEW d, Publishes(p.controller, d, seat, p.clip, mode)
    PROVE  /\ Whole(d) /\ Solid(d) /\ Exchanged(c, d)
           /\ \A k : Ordered(d, k)
<1> DEFINE b == p.controller
<1>1. /\ b \in ControllerType /\ Unmoved(c, b) /\ p.clip \in Clip \cup {None}
    BY DEF Ready
<1>0. Publishes(b, d, seat, p.clip, mode)
    OBVIOUS
<1> HIDE DEF b
<1>2. /\ d \in ControllerType /\ Exchanged(b, d)
      /\ d.mode = mode /\ d.seat = seat /\ d.clip = p.clip
      /\ d.store = IF b.clip = p.clip THEN b.store ELSE b.store \ {b.clip}
      /\ d.chartClock = 0 /\ (mode = "CuexisAudio" => d.pending = None)
  <2>1. d \in ControllerType /\ Exchanged(b, d) /\ TakesOver(b, d, seat, p.clip, mode)
      BY <1>0, <1>1, PublishFields
  <2> QED BY <2>1 DEF TakesOver
<1>3. d.store = {d.clip} \ {None}
    BY <1>1, <1>2, PlayerAssumption DEF Ready, Unmoved, Whole, Clips, b
<1>4. Exchanged(c, d)
  <2>1. b.timeline = c.timeline /\ b.lastFrame = c.lastFrame
      BY <1>1 DEF Unmoved
  <2> QED BY <1>2, <2>1 DEF Exchanged, NextTimeline
<1>5. PICK offset \in Int : d.timeline = NextTimeline(c, offset)
    BY <1>4, PlayerAssumption DEF Exchanged, Offsets
<1>6. c \in ControllerType
    BY DEF Whole
<1>7. /\ d.timeline \in TimelineType /\ d.timeline # None
      /\ d.timeline.pending => d.timeline.initialized
      /\ d.timeline.initialized => d.timeline.pending
      /\ d.timeline.id = IF c.timeline = None THEN 0 ELSE c.timeline.id
    BY <1>5, <1>6, TimelinesAreTyped, TimelineFacts
<1>8. d.lastFrame.id = d.timeline.id
    BY <1>4, <1>7 DEF Exchanged, Whole
<1>9. d.session # None
    BY <1>4, NoneAssumption DEF Exchanged
<1>10. Clips(d)
    BY <1>2, <1>3 DEF Clips
<1>11. Whole(d)
    BY <1>2, <1>7, <1>8, <1>9, <1>10 DEF Whole
<1>12. Solid(d)
    BY <1>2, <1>7 DEF Solid
<1>13. \A k : Ordered(d, k)
    BY <1>7 DEF Ordered
<1> QED BY <1>4, <1>11, <1>12, <1>13

-----------------------------------------------------------------------------
(* What a command does to the controller.                                  *)
Unexchanged(c, d) ==
    /\ d.session = c.session /\ d.timeline = c.timeline /\ d.lastFrame = c.lastFrame
    /\ d.replaced = c.replaced

(* What the next frame will show is still to be shown.                     *)
Waits(c, d) ==
    /\ d.timeline = c.timeline /\ d.pending = c.pending
    /\ c.seat = None <=> d.seat = None
    /\ c.seat # None => Keeps(c.seat, d.seat)

Result(c, r) ==
    /\ Whole(r.controller)
    /\ \A k : Ordered(c, k) => Ordered(r.controller, k)
    /\ r.ok => Solid(r.controller)
    /\ ~r.ok => /\ Unexchanged(c, r.controller)
                /\ \/ r.controller.app = "Failed"
                   \/ /\ r.controller.app = c.app /\ Waits(c, r.controller)
                      /\ Solid(c) => Solid(r.controller)

LEMMA Results ==
    ASSUME NEW c
    PROVE  /\ Done(c).ok /\ Done(c).controller = c
           /\ ~Rejected(c).ok /\ Rejected(c).controller = c
           /\ ~Failed(c).ok /\ Failed(c).controller = [c EXCEPT !.app = "Failed"]
BY DEF Done, Rejected, Failed

LEMMA UnmovedIsUnexchanged ==
    ASSUME NEW c, NEW d, Unmoved(c, d)
    PROVE  Unexchanged(c, d) /\ d.timeline = c.timeline /\ d.pending = c.pending
BY DEF Unmoved, Unexchanged

LEMMA RejectedResult ==
    ASSUME NEW c, Whole(c)
    PROVE  Result(c, Rejected(c))
BY Results, SeatIsSound DEF Result, Unexchanged, Waits, Whole

(* Only the application fails.                                             *)
LEMMA FailedIsWhole ==
    ASSUME NEW c, Whole(c)
    PROVE  /\ Whole(Failed(c).controller) /\ Failed(c).controller.app = "Failed"
           /\ Unmoved(c, Failed(c).controller) /\ ~Failed(c).ok
           /\ \A k : Ordered(c, k) => Ordered(Failed(c).controller, k)
<1> DEFINE d == Failed(c).controller
<1>1. d = [c EXCEPT !.app = "Failed"] /\ ~Failed(c).ok
    BY Results
<1>2. "Failed" \in PlayerAppState /\ c \in ControllerType
    BY DEF PlayerAppState, Whole
<1> HIDE DEF d
<1>3. /\ d \in ControllerType /\ Unmoved(c, d) /\ d.app = "Failed" /\ d.seat = c.seat
      /\ d.store = c.store
    BY <1>1, <1>2, WithApp
<1>4. SeatOnward(c, d)
    BY <1>3, SeatsStay DEF SeatOnward
<1>5. Whole(d) /\ \A k : Ordered(c, k) => Ordered(d, k)
    BY <1>3, <1>4, UnmovedIsWhole
<1> QED BY <1>1, <1>3, <1>5 DEF d

LEMMA FailedResult ==
    ASSUME NEW c, Whole(c)
    PROVE  Result(c, Failed(c))
BY FailedIsWhole, UnmovedIsUnexchanged DEF Result

(* A failure after something was prepared.                                 *)
LEMMA UndoneResult ==
    ASSUME NEW c, Whole(c), NEW mode, NEW p, Ready(c, p, mode), NEW d \in ControllerType,
           Unmoved(p.controller, d), d.store = p.controller.store, SeatOnward(c, d)
    PROVE  Result(c, Failed(DiscardClip(d, p.clip)))
<1> DEFINE e == DiscardClip(d, p.clip)
           f == Failed(e).controller
<1>1. /\ Whole(e) /\ Unmoved(c, e)
      /\ \A k : Ordered(c, k) => Ordered(e, k)
    BY ReadyIsUndone
<1> HIDE DEF e
<1>2. /\ Whole(f) /\ f.app = "Failed" /\ Unmoved(e, f) /\ ~Failed(e).ok
      /\ \A k : Ordered(e, k) => Ordered(f, k)
    BY <1>1, FailedIsWhole
<1> HIDE DEF f
<1>3. Unexchanged(c, f)
    BY <1>1, <1>2 DEF Unmoved, Unexchanged
<1>4. Result(c, Failed(e))
    BY <1>1, <1>2, <1>3 DEF Result, f
<1> QED BY <1>4 DEF e

LEMMA ActivatedGives ==
    ASSUME NEW c, Whole(c), NEW mode \in PlaybackMode, NEW p, Ready(c, p, mode),
           NEW content \in Content, NEW restart \in BOOLEAN, NEW fresh \in BOOLEAN,
           NEW start \in Nat, NEW r \in Activated(p, content, mode, restart, fresh, start)
    PROVE  Result(c, r) /\ (r.ok => Exchanged(c, r.controller))
<1> DEFINE b == p.controller
           outcomes == IF mode # "CuexisAudio" THEN {Ok(None)}
                       ELSE IF DeviceChanges(b, mode) THEN Opened(p.clip, start)
                       ELSE ActivateReplacement(b.seat)
           failedSeat(o) == IF DeviceChanges(b, mode) THEN b.seat ELSE o.seat
<1>1. PICK o \in outcomes :
          r = IF o.ok THEN Done(Publish(b, o.seat, p.clip, content, mode, restart, fresh))
              ELSE Failed(DiscardClip([b EXCEPT !.seat = failedSeat(o)], p.clip))
    BY DEF Activated
<1>2. /\ b \in ControllerType /\ Unmoved(c, b) /\ SeatOnward(c, b)
      /\ p.clip \in Clip \cup {None}
      /\ p.clip = None <=> mode # "CuexisAudio"
      /\ mode = "CuexisAudio" /\ c.seat # None =>
             b.seat.replacement # None /\ b.seat.replacement.clip = p.clip
    BY DEF Ready
<1> DEFINE fails == ~o.ok /\ failedSeat(o) \in SeatType \cup {None}
                    /\ \/ c.seat = None /\ failedSeat(o) = None
                       \/ /\ c.seat # None /\ failedSeat(o) # None
                          /\ SeatOK(failedSeat(o)) /\ Follows(c.seat, failedSeat(o))
                          /\ failedSeat(o).state = "Error"
           opens == /\ o.ok /\ o.seat \in SeatType \cup {None}
                    /\ IF mode = "CuexisAudio"
                       THEN /\ o.seat # None /\ SeatOK(o.seat)
                            /\ o.seat.state # "Error" => o.seat.clip = p.clip
                       ELSE o.seat = None
<1>3. opens \/ fails
  <2>1. CASE mode # "CuexisAudio"
      BY <1>1, <2>1, Outcomes
  <2>2. CASE mode = "CuexisAudio" /\ DeviceChanges(b, mode)
    <3>1. o \in Opened(p.clip, start) /\ p.clip \in Clip
        BY <1>1, <1>2, <2>2
    <3>2. c.seat = None /\ b.seat = None
        BY <1>2, <2>2 DEF DeviceChanges, SeatOnward, Unmoved, Whole, Clips
    <3>3. CASE o.ok
        BY <2>2, <3>1, <3>3, OpenedIsSound, SeatIsSound
    <3>4. CASE ~o.ok
        BY <2>2, <3>2, <3>4
    <3> QED BY <3>3, <3>4
  <2>3. CASE mode = "CuexisAudio" /\ ~DeviceChanges(b, mode)
    <3>1. o \in ActivateReplacement(b.seat) /\ b.seat # None /\ c.seat # None
        BY <1>1, <1>2, <2>3 DEF DeviceChanges, SeatOnward
    <3>2. SeatOK(b.seat) /\ Follows(c.seat, b.seat) /\ SeatOK(c.seat)
        BY <1>2, <3>1 DEF SeatOnward, Whole
    <3>3. /\ SeatOK(o.seat)
          /\ o.ok => o.seat.state # "Error" /\ o.seat.clip = p.clip
          /\ ~o.ok => Follows(b.seat, o.seat) /\ o.seat.state = "Error"
        BY <1>2, <2>3, <3>1, <3>2, ActivateCalled
    <3>4. o.seat \in SeatType /\ o.seat # None
        BY <3>3, SeatIsSound
    <3>5. ~o.ok => Follows(c.seat, o.seat)
        BY <3>2, <3>3, FollowsTransitive
    <3> QED BY <2>3, <3>1, <3>3, <3>4, <3>5
  <2> QED BY <2>1, <2>2, <2>3
<1>4. CASE opens
  <2> DEFINE d == Publish(b, o.seat, p.clip, content, mode, restart, fresh)
  <2>1. Publishes(p.controller, d, o.seat, p.clip, mode)
      BY DEF Publishes
  <2>2. r = Done(d)
      BY <1>1, <1>4
  <2> HIDE DEF d
  <2>3. /\ Whole(d) /\ Solid(d) /\ Exchanged(c, d)
        /\ \A k : Ordered(d, k)
      BY <1>4, <2>1, PublishIsWhole
  <2> QED BY <2>2, <2>3, Results DEF Result
<1>5. CASE fails
  <2> DEFINE s == failedSeat(o)
             d == [b EXCEPT !.seat = s]
  <2>1. r = Failed(DiscardClip(d, p.clip)) /\ s \in SeatType \cup {None}
      BY <1>1, <1>5
  <2>2. \/ c.seat = None /\ s = None
        \/ /\ c.seat # None /\ s # None /\ SeatOK(s) /\ Follows(c.seat, s) /\ s.state = "Error"
      BY <1>5
  <2>3. d = [b EXCEPT !.seat = s]
      OBVIOUS
  <2> HIDE DEF s, d
  <2>4. /\ d \in ControllerType /\ Unmoved(b, d) /\ d.seat = s /\ d.store = b.store
      BY <1>2, <2>1, <2>3, WithSeat
  <2>5. SeatOnward(c, d)
      BY <2>2, <2>4 DEF SeatOnward
  <2>6. Result(c, r)
      BY <2>1, <2>4, <2>5, UndoneResult
  <2>7. ~r.ok
      BY <2>1, Results
  <2> QED BY <2>6, <2>7
<1> QED BY <1>3, <1>4, <1>5

LEMMA CommitBundleGives ==
    ASSUME NEW c, Whole(c), NEW content \in Content, NEW mode \in PlaybackMode,
           NEW restart \in BOOLEAN, NEW fresh \in BOOLEAN,
           NEW r \in CommitBundle(c, content, mode, restart, fresh)
    PROVE  Result(c, r) /\ (r.ok => Exchanged(c, r.controller))
<1> DEFINE start == IF restart THEN 0 ELSE c.lastSource
           prepared == IF Matches(mode, content) THEN Prepared(c, mode, start) ELSE {}
<1>1. start \in Nat
    BY ControllerFacts DEF Whole
<1>2. \/ r = Rejected(c)
      \/ \E p \in prepared : r = Rejected(DiscardClip(p.controller, p.clip))
      \/ \E p \in prepared : r \in Activated(p, content, mode, restart, fresh, start)
    BY DEF CommitBundle
<1>3. ASSUME NEW p \in prepared PROVE Ready(c, p, mode)
  <2>1. p \in Prepared(c, mode, start)
      BY <1>3
  <2> HIDE DEF start
  <2> QED BY <1>1, <2>1, PreparedIsReady
<1> HIDE DEF prepared, start
<1>4. CASE r = Rejected(c)
    BY <1>4, RejectedResult, Results
<1>5. ASSUME NEW p \in prepared, r = Rejected(DiscardClip(p.controller, p.clip))
      PROVE  Result(c, r) /\ ~r.ok
  <2> DEFINE d == p.controller
             e == DiscardClip(d, p.clip)
  <2>1. Ready(c, p, mode)
      BY <1>3, <1>5
  <2>2. d \in ControllerType /\ SeatOnward(c, d) /\ d.app = c.app
      BY <2>1 DEF Ready
  <2>3. /\ Whole(e) /\ Unmoved(c, e) /\ e.app = d.app /\ e.seat = d.seat
        /\ \A k : Ordered(c, k) => Ordered(e, k)
      BY <2>1, <2>2, ReadyIsUndone DEF Unmoved
  <2>4. r = Rejected(e)
      BY <1>5
  <2> HIDE DEF e
  <2>5. Waits(c, e) /\ (Solid(c) => Solid(e))
      BY <2>1, <2>2, <2>3 DEF Waits, Unmoved, Ready, SeatOnward, Solid
  <2> QED BY <2>2, <2>3, <2>4, <2>5, Results, UnmovedIsUnexchanged DEF Result
<1>6. ASSUME NEW p \in prepared, r \in Activated(p, content, mode, restart, fresh, start)
      PROVE  Result(c, r) /\ (r.ok => Exchanged(c, r.controller))
    BY <1>1, <1>3, <1>6, ActivatedGives
<1> QED BY <1>2, <1>4, <1>5, <1>6, Results

LEMMA LoadGives ==
    ASSUME NEW c, Whole(c), NEW content \in Content, NEW mode \in PlaybackMode,
           NEW r \in RunLoad(c, content, mode)
    PROVE  Result(c, r) /\ (r.ok => Exchanged(c, r.controller))
BY CommitBundleGives DEF RunLoad

LEMMA ReloadGives ==
    ASSUME NEW c, Whole(c), NEW content \in Content, NEW restart \in BOOLEAN,
           NEW r \in RunReload(c, content, restart)
    PROVE  Result(c, r) /\ (r.ok => Exchanged(c, r.controller))
<1>1. c.mode \in PlaybackMode
    BY ControllerFacts DEF Whole
<1> QED BY <1>1, CommitBundleGives DEF RunReload

(* Rebuild: the seat is closed first.  The identities of a transport begin *)
(* at 1, so the chart clock of a bundle with audio, at 0, is another.      *)
LEMMA ClosedIsWhole ==
    ASSUME NEW c, Whole(c), NEW e, e = [c EXCEPT !.seat = None]
    PROVE  /\ Whole(e) /\ Unmoved(c, e)
           /\ \A k : Ordered(c, k) => Ordered(e, k)
<1>1. c \in ControllerType
    BY DEF Whole
<1>2. /\ e \in ControllerType /\ Unmoved(c, e) /\ e.app = c.app /\ e.seat = None
      /\ e.store = c.store
    BY <1>1, WithSeat
<1>3. Whole(e)
    BY <1>2 DEF Whole, Clips, Unmoved
<1>4. ASSUME NEW k, Ordered(c, k) PROVE Ordered(e, k)
  <2>1. CASE c.seat = None
      BY <1>2, <1>4, <2>1 DEF Ordered, Unmoved
  <2>2. CASE c.seat # None
    <3>1. c.mode = "CuexisAudio" /\ c.chartClock = 0
        BY <2>2 DEF Whole, Clips
    <3>2. e.timeline = c.timeline /\ e.chartClock = 0 /\ e.mode = "CuexisAudio" /\ e.seat = None
        BY <1>2, <3>1 DEF Unmoved
    <3>3. c.timeline \in TimelineType /\ c.timeline.previous.id \in Nat
        BY <1>1, <2>2, ControllerFacts, TimelineFacts DEF Whole
    <3> QED BY <1>4, <2>2, <3>2, <3>3 DEF Ordered
  <2> QED BY <2>1, <2>2
<1> QED BY <1>2, <1>3, <1>4

LEMMA RebuildGives ==
    ASSUME NEW c, Whole(c), NEW content \in Content, NEW r \in RunRebuild(c, content)
    PROVE  Result(c, r) /\ (r.ok => Exchanged(c, r.controller))
<1>1. CASE c.session = None
  <2>1. r \in RunLoad(c, content, "ChartClock") \/ r = Rejected(c)
      BY <1>1 DEF RunRebuild
  <2>2. "ChartClock" \in PlaybackMode
      BY DEF PlaybackMode
  <2>3. CASE r \in RunLoad(c, content, "ChartClock")
      BY <2>2, <2>3, LoadGives
  <2>4. CASE r = Rejected(c)
      BY <2>4, RejectedResult, Results
  <2> QED BY <2>1, <2>3, <2>4
<1>2. CASE c.session # None
  <2> DEFINE e == [c EXCEPT !.seat = None]
  <2>1. \/ r = Failed(c)
        \/ \E s \in CommitBundle(e, content, c.mode, FALSE, FALSE) :
               r = IF s.ok THEN s ELSE Failed(s.controller)
      BY <1>2 DEF RunRebuild
  <2>2. /\ Whole(e) /\ Unmoved(c, e)
        /\ \A k : Ordered(c, k) => Ordered(e, k)
      BY ClosedIsWhole
  <2> HIDE DEF e
  <2>3. CASE r = Failed(c)
      BY <2>3, FailedResult, Results
  <2>4. ASSUME NEW s \in CommitBundle(e, content, c.mode, FALSE, FALSE),
               r = IF s.ok THEN s ELSE Failed(s.controller)
        PROVE  Result(c, r) /\ (r.ok => Exchanged(c, r.controller))
    <3>1. c.mode \in PlaybackMode
        BY ControllerFacts DEF Whole
    <3>2. Result(e, s) /\ (s.ok => Exchanged(e, s.controller))
        BY <2>2, <2>4, <3>1, CommitBundleGives
    <3>3. CASE s.ok
      <4>1. Exchanged(c, s.controller)
          BY <2>2, <3>2, <3>3 DEF Exchanged, Unmoved, NextTimeline
      <4> QED BY <2>2, <2>4, <3>2, <3>3, <4>1 DEF Result
    <3>4. CASE ~s.ok
      <4> DEFINE f == Failed(s.controller).controller
      <4>1. /\ Whole(s.controller) /\ Unexchanged(e, s.controller)
            /\ \A k : Ordered(e, k) => Ordered(s.controller, k)
          BY <3>2, <3>4 DEF Result
      <4>2. /\ Whole(f) /\ f.app = "Failed" /\ Unmoved(s.controller, f)
            /\ ~Failed(s.controller).ok
            /\ \A k : Ordered(s.controller, k) => Ordered(f, k)
          BY <4>1, FailedIsWhole
      <4>3. r = Failed(s.controller)
          BY <2>4, <3>4
      <4> HIDE DEF f
      <4>4. Unexchanged(c, f)
          BY <2>2, <4>1, <4>2 DEF Unmoved, Unexchanged
      <4> QED BY <2>2, <4>1, <4>2, <4>3, <4>4 DEF Result, f
    <3> QED BY <3>3, <3>4
  <2> QED BY <2>1, <2>3, <2>4
<1> QED BY <1>1, <1>2

-----------------------------------------------------------------------------
(* The commands on the active bundle.                                      *)
LEMMA TransportGives ==
    ASSUME NEW c, Whole(c), c.seat # None, NEW outcomes,
           \A o \in outcomes : Called(c.seat, o), NEW r \in Transport(c, outcomes)
    PROVE  /\ Result(c, r) /\ Unexchanged(c, r.controller)
           /\ \E o \in outcomes : (r.ok <=> o.ok) /\ r.controller.seat = o.seat
<1>1. PICK o \in outcomes :
          r = IF o.ok THEN Done([c EXCEPT !.seat = o.seat])
              ELSE Rejected([c EXCEPT !.seat = o.seat])
    BY DEF Transport
<1> DEFINE s == o.seat
           d == [c EXCEPT !.seat = s]
<1>2. /\ SeatOK(s) /\ Follows(c.seat, s)
      /\ s.state # "Error" => c.seat.state # "Error" /\ s.clip = c.seat.clip
      /\ ~o.ok => Keeps(c.seat, s)
    BY DEF Called
<1>3. s \in SeatType /\ s # None /\ c \in ControllerType /\ Solid(c)
    BY <1>2, SeatIsSound DEF Whole, Solid
<1>4. r = IF o.ok THEN Done(d) ELSE Rejected(d)
    BY <1>1
<1>5. d = [c EXCEPT !.seat = s]
    OBVIOUS
<1> HIDE DEF s, d
<1>6. /\ d \in ControllerType /\ Unmoved(c, d) /\ d.app = c.app /\ d.seat = s
      /\ d.store = c.store
    BY <1>3, <1>5, WithSeat
<1>7. SeatOnward(c, d)
    BY <1>2, <1>3, <1>6 DEF SeatOnward
<1>8. /\ Whole(d) /\ Solid(d)
      /\ \A k : Ordered(c, k) => Ordered(d, k)
    BY <1>3, <1>6, <1>7, UnmovedIsWhole
<1>9. Unexchanged(c, d) /\ (~o.ok => Waits(c, d))
    BY <1>2, <1>3, <1>6 DEF Unexchanged, Unmoved, Waits
<1>10. (r.ok <=> o.ok) /\ r.controller = d
    BY <1>4, Results
<1> QED BY <1>6, <1>8, <1>9, <1>10 DEF Result, s

(* Without a seat, a command restarts the chart's own clock.               *)
Restarted(c, d, target) ==
    /\ d \in ControllerType /\ Unexchanged(c, d)
    /\ d.app = c.app /\ d.mode = c.mode /\ d.seat = c.seat /\ d.clip = c.clip
    /\ d.store = c.store
    /\ d.chartClock = c.chartClock + 1 /\ d.pending = target

LEMMA RestartGives ==
    ASSUME NEW c, Whole(c), Solid(c), c.seat = None, NEW target, NEW d, Restarted(c, d, target)
    PROVE  Result(c, Done(d)) /\ Unexchanged(c, d)
<1>1. c.mode # "CuexisAudio"
    BY DEF Solid
<1>2. Whole(d) /\ Solid(d)
    BY <1>1 DEF Whole, Solid, Clips, Restarted, Unexchanged
<1>3. ASSUME NEW k, Ordered(c, k) PROVE Ordered(d, k)
  <2>1. c.timeline \in TimelineType /\ c.timeline.previous.id \in Nat /\ c.chartClock \in Nat
      BY ControllerFacts, TimelineFacts DEF Whole, Solid
  <2>2. /\ d.timeline = c.timeline /\ d.mode = c.mode /\ d.seat = None
        /\ d.chartClock = c.chartClock + 1
      BY DEF Restarted, Unexchanged
  <2> QED BY <1>1, <1>3, <2>1, <2>2 DEF Ordered
<1> QED BY <1>2, <1>3, Results DEF Result, Restarted

LEMMA SeekChartClockGives ==
    ASSUME NEW c, Whole(c), Solid(c), c.seat = None, NEW target \in Int,
           NEW r, r = SeekChartClock(c, target)
    PROVE  /\ Result(c, r) /\ r.ok /\ Unexchanged(c, r.controller)
           /\ r.controller.pending = target /\ r.controller.seat = None
<1> DEFINE id == c.chartClock + 1
           d == [c EXCEPT !.pending = target, !.resume = target, !.chartClock = id]
<1>1. c \in ControllerType /\ id \in Nat
    BY ControllerFacts DEF Whole
<1>2. d = [c EXCEPT !.pending = target, !.resume = target, !.chartClock = id] /\ r = Done(d)
    BY DEF SeekChartClock
<1>6. r = Done(d)
    BY <1>2
<1> HIDE DEF id, d
<1>3. /\ d \in ControllerType /\ d.session = c.session /\ d.timeline = c.timeline
      /\ d.lastFrame = c.lastFrame /\ d.replaced = c.replaced
      /\ d.app = c.app /\ d.mode = c.mode /\ d.seat = c.seat /\ d.clip = c.clip
      /\ d.store = c.store /\ d.chartClock = id /\ d.pending = target
    BY <1>1, <1>2 DEF ControllerType
<1>4. Restarted(c, d, target)
    BY <1>3 DEF Restarted, Unexchanged, id
<1>5. Result(c, Done(d)) /\ Unexchanged(c, d)
    BY <1>4, RestartGives
<1>7. r.ok /\ r.controller = d
    BY <1>6, Results
<1> QED BY <1>3, <1>5, <1>6, <1>7

LEMMA PlayGives ==
    ASSUME NEW c, Whole(c), Solid(c), NEW r \in RunPlay(c)
    PROVE  Result(c, r) /\ Unexchanged(c, r.controller)
<1>1. CASE c.seat # None
  <2>1. r \in Transport(c, Play(c.seat))
      BY <1>1 DEF RunPlay, UsesTransport, Whole, Clips
  <2>2. \A o \in Play(c.seat) : Called(c.seat, o)
      BY <1>1, PlayCalled DEF Whole
  <2> QED BY <1>1, <2>1, <2>2, TransportGives
<1>2. CASE c.seat = None
  <2> DEFINE id == c.chartClock + 1
             target == c.resume
             d == [c EXCEPT !.pending = target, !.chartClock = id]
  <2>1. c \in ControllerType /\ id \in Nat /\ target \in Int
      BY ControllerFacts DEF Whole
  <2>2. d = [c EXCEPT !.pending = target, !.chartClock = id] /\ r = Done(d)
      BY <1>2 DEF RunPlay, UsesTransport
  <2> HIDE DEF id, d, target
  <2>3. /\ d \in ControllerType /\ d.session = c.session /\ d.timeline = c.timeline
        /\ d.lastFrame = c.lastFrame /\ d.replaced = c.replaced
        /\ d.app = c.app /\ d.mode = c.mode /\ d.seat = c.seat /\ d.clip = c.clip
        /\ d.store = c.store /\ d.chartClock = id /\ d.pending = target
      BY <2>1, <2>2 DEF ControllerType
  <2>4. Restarted(c, d, target)
      BY <2>3 DEF Restarted, Unexchanged, id
  <2>5. Result(c, Done(d)) /\ Unexchanged(c, d)
      BY <1>2, <2>4, RestartGives
  <2> QED BY <2>2, <2>5, Results
<1> QED BY <1>1, <1>2

LEMMA PauseGives ==
    ASSUME NEW c, Whole(c), Solid(c), NEW r \in RunPause(c)
    PROVE  Result(c, r) /\ Unexchanged(c, r.controller)
<1>1. CASE c.seat # None
  <2>1. r \in Transport(c, Pause(c.seat))
      BY <1>1 DEF RunPause, UsesTransport, Whole, Clips
  <2>2. \A o \in Pause(c.seat) : Called(c.seat, o)
      BY <1>1, PauseCalled DEF Whole
  <2> QED BY <1>1, <2>1, <2>2, TransportGives
<1>2. CASE c.seat = None
  <2> DEFINE time == c.lastFrame.time
             d == [c EXCEPT !.resume = time]
  <2>1. c \in ControllerType /\ time \in Int
      BY ControllerFacts DEF Whole, FrameType
  <2>2. d = [c EXCEPT !.resume = time] /\ r = Done(d)
      BY <1>2 DEF RunPause, UsesTransport
  <2> HIDE DEF time, d
  <2>3. /\ d \in ControllerType /\ d.session = c.session /\ d.timeline = c.timeline
        /\ d.lastFrame = c.lastFrame /\ d.replaced = c.replaced
        /\ d.app = c.app /\ d.mode = c.mode /\ d.seat = c.seat /\ d.clip = c.clip
        /\ d.store = c.store /\ d.chartClock = c.chartClock /\ d.pending = c.pending
      BY <2>1, <2>2 DEF ControllerType
  <2>4. Whole(d) /\ Solid(d)
      BY <1>2, <2>3 DEF Whole, Solid, Clips
  <2>5. \A k : Ordered(c, k) => Ordered(d, k)
      BY <2>3 DEF Ordered
  <2> QED BY <2>2, <2>3, <2>4, <2>5, Results DEF Result, Unexchanged
<1> QED BY <1>1, <1>2

LEMMA StopGives ==
    ASSUME NEW c, Whole(c), Solid(c), NEW r \in RunStop(c)
    PROVE  Result(c, r) /\ Unexchanged(c, r.controller)
<1>1. CASE c.seat # None
  <2>1. r \in Transport(c, Stop(c.seat))
      BY <1>1 DEF RunStop, UsesTransport, Whole, Clips
  <2>2. \A o \in Stop(c.seat) : Called(c.seat, o)
      BY <1>1, StopCalled DEF Whole
  <2> QED BY <1>1, <2>1, <2>2, TransportGives
<1>2. CASE c.seat = None
  <2>1. r = SeekChartClock(c, 0)
      BY <1>2 DEF RunStop, UsesTransport
  <2> QED BY <1>2, <2>1, SeekChartClockGives
<1> QED BY <1>1, <1>2

(* What a seek that succeeded leaves for the next frame.                   *)
Sought(c, d, target) ==
    /\ c.timeline # None /\ d.timeline = c.timeline
    /\ d.seat = None => c.seat = None /\ d.pending = target
    /\ d.seat # None =>
           LET source == target + c.timeline.offset + Correction
           IN  /\ c.seat # None
               /\ d.seat.position >= source
               /\ c.seat.state # "Playing" =>
                      d.seat.state # "Playing" /\ d.seat.position = source

LEMMA SeekGives ==
    ASSUME NEW c, Whole(c), Solid(c), NEW target \in Int, NEW r \in RunSeek(c, target)
    PROVE  /\ Result(c, r) /\ Unexchanged(c, r.controller)
           /\ r.ok => Sought(c, r.controller, target)
<1>1. CASE c.seat # None
  <2> DEFINE source == target + c.timeline.offset + Correction
  <2>1. source \in Int
    <3>1. c.timeline.offset \in Int /\ Correction \in Int
        BY ControllerFacts, TimelineFacts, PlayerAssumption DEF Whole, Solid
    <3> QED BY <3>1
  <2>2. r = Rejected(c) \/ r \in Transport(c, SeekMs(c.seat, source))
      BY <1>1 DEF RunSeek, SeekAudio, UsesTransport, Whole, Clips
  <2>3. CASE r = Rejected(c)
      BY <2>3, RejectedResult, Results DEF Unexchanged
  <2>4. CASE r \in Transport(c, SeekMs(c.seat, source))
    <3> HIDE DEF source
    <3>1. \A o \in SeekMs(c.seat, source) : Called(c.seat, o)
        BY <1>1, <2>1, SeekCalled DEF Whole
    <3>2. PICK o \in SeekMs(c.seat, source) : (r.ok <=> o.ok) /\ r.controller.seat = o.seat
        BY <1>1, <2>4, <3>1, TransportGives
    <3>3. Result(c, r) /\ Unexchanged(c, r.controller)
        BY <1>1, <2>4, <3>1, TransportGives
    <3>4. ASSUME r.ok PROVE Sought(c, r.controller, target)
      <4>1. /\ o.seat.position >= source /\ SeatOK(o.seat)
            /\ c.seat.state # "Playing" => o.seat.state # "Playing" /\ o.seat.position = source
          BY <1>1, <2>1, <3>2, <3>4, SeekCalled DEF Whole, Called
      <4>2. o.seat # None
          BY <4>1, SeatIsSound
      <4> QED BY <1>1, <3>2, <3>3, <4>1, <4>2 DEF Sought, Unexchanged, Solid, source
    <3> QED BY <3>3, <3>4
  <2> QED BY <2>2, <2>3, <2>4
<1>2. CASE c.seat = None
  <2>1. r = SeekChartClock(c, target)
      BY <1>2 DEF RunSeek, UsesTransport
  <2> QED BY <1>2, <2>1, SeekChartClockGives DEF Sought, Unexchanged, Solid
<1> QED BY <1>1, <1>2

-----------------------------------------------------------------------------
(* Every command.                                                          *)
LEMMA CommandFacts ==
    ASSUME NEW command \in Command
    PROVE  /\ command.kind \in {"Load", "Reload", "Rebuild", "Play", "Pause", "Stop", "Seek"}
           /\ command.kind = "Load" => command.content \in Content /\ command.mode \in PlaybackMode
           /\ command.kind = "Reload" => command.content \in Content /\ command.restart \in BOOLEAN
           /\ command.kind = "Rebuild" => command.content \in Content
           /\ command.kind = "Seek" => command.target \in Int
BY PlayerAssumption DEF Command

Success(c, command, d) ==
    /\ Unexchanged(c, d) \/ Exchanged(c, d)
    /\ command.kind = "Load" => Exchanged(c, d)
    /\ command.kind = "Seek" => Unexchanged(c, d) /\ Sought(c, d, command.target)

LEMMA RunGives ==
    ASSUME NEW c, Bundled(c), NEW command \in Command, Allowed(c.app, command.kind),
           NEW r \in Run(c, command)
    PROVE  Result(c, r) /\ (r.ok => Success(c, command, r.controller))
<1>1. Whole(c)
    BY DEF Bundled
<1>2. command.kind \notin {"Load", "Rebuild"} => Solid(c)
    BY CommandFacts DEF Allowed, Bundled
<1>3. CASE command.kind = "Load"
  <2>1. r \in RunLoad(c, command.content, command.mode)
      BY <1>3 DEF Run
  <2> QED BY <1>1, <1>3, <2>1, CommandFacts, LoadGives DEF Success
<1>4. CASE command.kind = "Reload"
  <2>1. r \in RunReload(c, command.content, command.restart)
      BY <1>4 DEF Run
  <2>2. command.content \in Content /\ command.restart \in BOOLEAN
      BY <1>4, CommandFacts
  <2>3. Result(c, r) /\ (r.ok => Exchanged(c, r.controller))
      BY <1>1, <2>1, <2>2, ReloadGives
  <2> QED BY <1>4, <2>3 DEF Success
<1>5. CASE command.kind = "Rebuild"
  <2>1. r \in RunRebuild(c, command.content)
      BY <1>5 DEF Run
  <2> QED BY <1>1, <1>5, <2>1, CommandFacts, RebuildGives DEF Success
<1>6. CASE command.kind = "Play"
  <2>1. r \in RunPlay(c)
      BY <1>6 DEF Run
  <2> QED BY <1>1, <1>2, <1>6, <2>1, PlayGives DEF Success
<1>7. CASE command.kind = "Pause"
  <2>1. r \in RunPause(c)
      BY <1>7 DEF Run
  <2> QED BY <1>1, <1>2, <1>7, <2>1, PauseGives DEF Success
<1>8. CASE command.kind = "Stop"
  <2>1. r \in RunStop(c)
      BY <1>8 DEF Run
  <2> QED BY <1>1, <1>2, <1>8, <2>1, StopGives DEF Success
<1>9. CASE command.kind = "Seek"
  <2>1. r \in RunSeek(c, command.target)
      BY <1>9 DEF Run
  <2> QED BY <1>1, <1>2, <1>9, <2>1, CommandFacts, SeekGives DEF Success
<1> QED BY <1>3, <1>4, <1>5, <1>6, <1>7, <1>8, <1>9, CommandFacts

Applied(c, command, r) ==
    /\ Bundled(r.controller)
    /\ \A k : Ordered(c, k) => Ordered(r.controller, k)
    /\ r.ok => Success(c, command, r.controller)
    /\ ~r.ok => /\ Unexchanged(c, r.controller)
                /\ r.controller.app = "Failed" \/ Waits(c, r.controller)

LEMMA ApplyGives ==
    ASSUME NEW c, Bundled(c), NEW command \in Command, NEW r \in Apply(c, command)
    PROVE  Applied(c, command, r)
<1>0. Whole(c) /\ c.app \in PlayerAppState
    BY ControllerFacts DEF Bundled, Whole
<1>1. CASE ~Allowed(c.app, command.kind)
  <2>1. r = Rejected(c)
      BY <1>1 DEF Apply
  <2> QED BY <1>0, <2>1, RejectedResult, Results DEF Result, Applied
<1>2. CASE Allowed(c.app, command.kind)
  <2>1. PICK s \in Run(c, command) :
            r = IF s.ok THEN Done([s.controller EXCEPT !.app = Published(c.app, command.kind)])
                ELSE s
      BY <1>2 DEF Apply
  <2>2. Result(c, s) /\ (s.ok => Success(c, command, s.controller))
      BY <1>2, RunGives
  <2>3. CASE ~s.ok
      BY <2>1, <2>2, <2>3 DEF Result, Applied, Bundled
  <2>4. CASE s.ok
    <3> DEFINE app == Published(c.app, command.kind)
               b == s.controller
               d == [b EXCEPT !.app = app]
    <3>1. app \in PlayerAppState
      <4>1. command.kind \in {"Load", "Reload", "Rebuild", "Play", "Pause", "Stop", "Seek"}
          BY CommandFacts
      <4> QED BY <1>0, <4>1 DEF Published, PlayerAppState
    <3>2. d = [b EXCEPT !.app = app] /\ r = Done(d)
        BY <2>1, <2>4
    <3>3. /\ Whole(b) /\ Solid(b) /\ b \in ControllerType
          /\ \A k : Ordered(c, k) => Ordered(b, k)
        BY <2>2, <2>4 DEF Result, Whole
    <3>4. Success(c, command, b)
        BY <2>2, <2>4
    <3> HIDE DEF app, b, d
    <3>5. /\ d \in ControllerType /\ Unmoved(b, d) /\ d.seat = b.seat /\ d.store = b.store
        BY <3>1, <3>2, <3>3, WithApp
    <3>6. SeatOnward(b, d)
        BY <3>3, <3>5, SeatsStay DEF SeatOnward
    <3>7. /\ Whole(d) /\ Solid(d)
          /\ \A k : Ordered(b, k) => Ordered(d, k)
        BY <3>3, <3>5, <3>6, UnmovedIsWhole
    <3>8. Success(c, command, d)
        BY <3>4, <3>5 DEF Success, Unexchanged, Exchanged, Sought, Unmoved
    <3> QED BY <3>2, <3>3, <3>7, <3>8, Results DEF Applied, Bundled
  <2> QED BY <2>3, <2>4
<1> QED BY <1>1, <1>2

-----------------------------------------------------------------------------
(* The frames.                                                             *)
SampleType == [position: Int, state: PlaybackState, id: Nat]
ClockType == [now: Int, last: Int]

LEMMA AdvanceGives ==
    ASSUME NEW tl \in TimelineType, NEW sample \in SampleType, Accepts(tl, sample),
           NEW next, next = Advance(tl, sample).timeline,
           NEW frame, frame = Advance(tl, sample).frame
    PROVE  /\ next \in TimelineType /\ next.initialized /\ ~next.pending
           /\ next.previous = sample /\ next.offset = tl.offset /\ next.id = frame.id
           /\ frame \in FrameType /\ frame.time = sample.position - tl.offset
           /\ frame.id = tl.id \/ frame.id = tl.id + 1
           /\ tl.pending => frame.id = tl.id + 1
           /\ frame.id # tl.id => frame.delta = 0
           /\ frame.id = tl.id /\ tl.initialized =>
                  /\ sample.position >= tl.previous.position
                  /\ frame.delta <= sample.position - tl.previous.position
<1> DEFINE id == IF Discontinuity(tl, sample) THEN tl.id + 1 ELSE tl.id
           delta == Delta(tl, sample)
<1>1. /\ tl.offset \in Int /\ tl.initialized \in BOOLEAN /\ tl.id \in Nat
      /\ tl.pending \in BOOLEAN /\ tl.previous.position \in Int
      /\ sample.position \in Int /\ sample.state \in PlaybackState /\ sample.id \in Nat
    BY TimelineFacts DEF SampleType
<1>2. id \in Nat /\ (id = tl.id \/ id = tl.id + 1) /\ (tl.pending => id = tl.id + 1)
    BY <1>1 DEF Discontinuity
<1>3. /\ delta \in Nat
      /\ id # tl.id => delta = 0
      /\ id = tl.id /\ tl.initialized =>
             /\ sample.position >= tl.previous.position
             /\ delta <= sample.position - tl.previous.position
  <2>1. ~Regresses(tl, sample)
      BY DEF Accepts
  <2> QED BY <1>1, <2>1 DEF Regresses, Delta
<1>4. /\ frame = Frame(sample.position - tl.offset, delta, id)
      /\ next = [tl EXCEPT !.initialized = TRUE, !.previous = sample, !.id = id, !.pending = FALSE]
    BY DEF Advance
<1> HIDE DEF id, delta
<1>5. /\ frame.time = sample.position - tl.offset /\ frame.delta = delta /\ frame.id = id
      /\ frame \in FrameType
    BY <1>1, <1>2, <1>3, <1>4 DEF Frame, FrameType
<1>6. /\ next.initialized = TRUE /\ next.pending = FALSE /\ next.previous = sample
      /\ next.offset = tl.offset /\ next.id = id /\ next \in TimelineType
    BY <1>2, <1>4 DEF TimelineType, SampleType
<1> QED BY <1>2, <1>3, <1>5, <1>6

Framed(c, d, sample) ==
    /\ Accepts(c.timeline, sample)
    /\ d.timeline = Advance(c.timeline, sample).timeline
    /\ d.lastFrame = Advance(c.timeline, sample).frame

LEMMA SampledGives ==
    ASSUME NEW c, Whole(c), c.timeline # None, NEW k, NEW sample \in SampleType,
           NEW o, o = Sampled(c, k, sample)
    PROVE  /\ o.clock = k
           /\ \/ o.at = "refused" /\ ~Accepts(c.timeline, sample) /\ o.controller = c
              \/ /\ o.at = "sampled" /\ Framed(c, o.controller, sample)
                 /\ Whole(o.controller) /\ (Solid(c) => Solid(o.controller))
                 /\ o.controller.app = c.app /\ o.controller.session = c.session
                 /\ o.controller.replaced = c.replaced /\ o.controller.seat = c.seat
                 /\ o.controller.mode = c.mode /\ o.controller.chartClock = c.chartClock
                 /\ o.controller.pending = c.pending
<1>1. CASE ~Accepts(c.timeline, sample)
    BY <1>1 DEF Sampled, Outcome
<1>2. CASE Accepts(c.timeline, sample)
  <2> DEFINE next == Advance(c.timeline, sample).timeline
             frame == Advance(c.timeline, sample).frame
             d == [c EXCEPT !.timeline = next, !.lastFrame = frame]
  <2>1. c \in ControllerType /\ c.timeline \in TimelineType
      BY ControllerFacts DEF Whole
  <2>2. /\ next \in TimelineType /\ next.initialized /\ ~next.pending /\ next.id = frame.id
        /\ frame \in FrameType
      BY <1>2, <2>1, AdvanceGives
  <2>3. next # None
      BY <2>2, TimelineFacts
  <2>4. o = Outcome("sampled", d, k) /\ d = [c EXCEPT !.timeline = next, !.lastFrame = frame]
      BY <1>2 DEF Sampled
  <2>5. Framed(c, d, sample) <=> d.timeline = next /\ d.lastFrame = frame
      BY <1>2 DEF Framed
  <2> HIDE DEF next, frame, d
  <2>6. /\ d \in ControllerType /\ d.timeline = next /\ d.lastFrame = frame
        /\ d.app = c.app /\ d.session = c.session /\ d.mode = c.mode /\ d.seat = c.seat
        /\ d.chartClock = c.chartClock /\ d.clip = c.clip /\ d.store = c.store
        /\ d.pending = c.pending /\ d.replaced = c.replaced
      BY <2>1, <2>2, <2>4 DEF ControllerType
  <2>7. Whole(d) /\ (Solid(c) => Solid(d))
      BY <2>2, <2>3, <2>6 DEF Whole, Solid, Clips
  <2>8. o.at = "sampled" /\ o.controller = d /\ o.clock = k
      BY <2>4 DEF Outcome
  <2> QED BY <2>5, <2>6, <2>7, <2>8
<1> QED BY <1>1, <1>2

(* One sampling of the active clock.  What it shows is the position that   *)
(* the seat has moved on to, or the chart time that a command asked for.   *)
Heeds(c, time) ==
    /\ c.seat = None /\ c.pending # None => time = c.pending
    /\ c.seat # None =>
           /\ c.seat.state # "Error"
           /\ \E p \in Nat :
                  /\ p >= c.seat.position
                  /\ c.seat.state # "Playing" => p = c.seat.position
                  /\ time = Corrected(p) - c.timeline.offset

Stepped(c, o) ==
    /\ Bundled(o.controller) /\ Ordered(o.controller, o.clock)
    /\ o.controller.session = c.session /\ o.controller.replaced = c.replaced
    /\ o.clock \in ClockType /\ o.clock.now >= o.clock.last
    /\ o.at \in {"sampled", "lost", "refused"}
    /\ o.at = "sampled" =>
           /\ \E sample \in SampleType : Framed(c, o.controller, sample)
           /\ Heeds(c, o.controller.lastFrame.time)
    /\ Correction >= 0 => o.at # "refused"

LEMMA ObserveGives ==
    ASSUME NEW c, Whole(c), c.seat # None, NEW d, d = ObserveTransport(c)
    PROVE  /\ Whole(d) /\ Solid(d) /\ d.seat = c.seat /\ d.timeline = c.timeline
           /\ d.session = c.session /\ d.replaced = c.replaced
<1> DEFINE app == CASE c.seat.state = "Error" /\ c.app # "Empty" -> "Failed"
                    [] c.seat.state = "Ended" /\ c.app = "Playing" -> "Stopped"
                    [] OTHER -> c.app
           source == c.seat.position
<1>1. c \in ControllerType /\ c.seat \in SeatType /\ Solid(c)
    BY ControllerFacts DEF Whole, Solid
<1>2. app \in PlayerAppState
    BY <1>1, ControllerFacts DEF PlayerAppState
<1>3. source \in Nat
    BY <1>1, SeatFacts
<1>4. d = [c EXCEPT !.lastSource = source, !.app = app]
    BY DEF ObserveTransport
<1> HIDE DEF app, source
<1>5. /\ d \in ControllerType /\ d.session = c.session /\ d.mode = c.mode
      /\ d.timeline = c.timeline /\ d.chartClock = c.chartClock /\ d.seat = c.seat
      /\ d.clip = c.clip /\ d.store = c.store /\ d.lastFrame = c.lastFrame
      /\ d.pending = c.pending /\ d.replaced = c.replaced
    BY <1>1, <1>2, <1>3, <1>4 DEF ControllerType
<1>6. Whole(d) /\ Solid(d)
    BY <1>1, <1>5 DEF Whole, Solid, Clips
<1> QED BY <1>5, <1>6

(* The seat after a service or a recheck of the device.                    *)
LEMMA ReseatGives ==
    ASSUME NEW c, Whole(c), c.seat # None, NEW s, SeatOK(s), Follows(c.seat, s),
           s.state # "Error" => c.seat.state # "Error" /\ s.clip = c.seat.clip,
           NEW d, d = [c EXCEPT !.seat = s]
    PROVE  /\ Whole(d) /\ Solid(d) /\ Unmoved(c, d) /\ d.seat = s /\ d.app = c.app /\ s # None
           /\ \A k : Ordered(c, k) => Ordered(d, k)
<1>1. s \in SeatType /\ s # None /\ c \in ControllerType /\ Solid(c)
    BY SeatIsSound DEF Whole, Solid
<1>2. /\ d \in ControllerType /\ Unmoved(c, d) /\ d.app = c.app /\ d.seat = s
      /\ d.store = c.store
    BY <1>1, WithSeat
<1>3. SeatOnward(c, d)
    BY <1>1, <1>2 DEF SeatOnward
<1> QED BY <1>1, <1>2, <1>3, UnmovedIsWhole

LEMMA SeatSampleIsAccepted ==
    ASSUME NEW c, Whole(c), NEW k, Ordered(c, k), c.seat # None, c.seat.state # "Error",
           Correction >= 0
    PROVE  Accepts(c.timeline, Sample(Corrected(c.seat.position), c.seat.state,
                                      c.seat.discontinuity))
<1> DEFINE tl == c.timeline
           s == c.seat
           position == Corrected(s.position)
           sample == Sample(position, s.state, s.discontinuity)
<1>1. SeatOK(s) /\ s # None /\ tl # None /\ tl \in TimelineType
    BY ControllerFacts DEF Whole
<1>2. s.position \in Nat /\ position \in Nat
    BY <1>1, SeatFacts, CorrectedIsMonotone DEF SeatOK
<1>3. s.state = "Stopped" => position = 0
  <2>1. Correction \in Int /\ (s.state = "Stopped" => s.position = 0)
      BY <1>1, PlayerAssumption DEF SeatOK
  <2> QED BY <2>1 DEF Corrected
<1>4. tl.initialized /\ ~tl.pending /\ tl.previous.id = s.discontinuity =>
          position >= tl.previous.position
    BY <1>1 DEF Ordered
<1>5. sample.position = position /\ sample.state = s.state /\ sample.id = s.discontinuity
    BY DEF Sample
<1>6. tl.previous.position \in Int
    BY <1>1, TimelineFacts
<1>7. s.state # "Empty"
    BY <1>1 DEF SeatOK
<1> HIDE DEF sample, position, s, tl
<1>8. ValidSample(sample)
    BY <1>3, <1>5, <1>7 DEF ValidSample
<1>9. ~Regresses(tl, sample)
    BY <1>2, <1>4, <1>5, <1>6 DEF Regresses, Discontinuity
<1>10. Accepts(tl, sample)
    BY <1>5, <1>8, <1>9 DEF Accepts, s
<1> QED BY <1>10 DEF sample, position, s, tl

(* The bundle that takes a sample of its seat has its timeline just there. *)
LEMMA SeatSampleIsOrdered ==
    ASSUME NEW c, Whole(c), c.seat # None, NEW d, d.seat = c.seat, NEW sample, NEW k,
           sample = Sample(Corrected(c.seat.position), c.seat.state, c.seat.discontinuity),
           Accepts(c.timeline, sample), sample \in SampleType,
           d.timeline = Advance(c.timeline, sample).timeline
    PROVE  Ordered(d, k)
<1>1. SeatOK(c.seat) /\ c.seat \in SeatType /\ c.timeline \in TimelineType
    BY SeatIsSound, ControllerFacts DEF Whole
<1>2. d.timeline.previous = sample
    BY <1>1, AdvanceGives
<1>3. /\ sample.id = c.seat.discontinuity /\ sample.position = Corrected(c.seat.position)
      /\ c.seat.discontinuity \in Nat /\ c.seat.discontinuity >= 1
      /\ sample.position \in Int
    BY <1>1, SeatFacts DEF Sample, SampleType, SeatOK
<1> QED BY <1>2, <1>3 DEF Ordered

LEMMA SampleTransportGives ==
    ASSUME NEW c, Bundled(c), c.seat # None, NEW k \in ClockType, k.now >= k.last,
           Ordered(c, k), NEW o \in SampleTransport(c, k)
    PROVE  Stepped(c, o)
<1>0. Whole(c) /\ SeatOK(c.seat)
    BY DEF Bundled, Whole
<1>1. ASSUME NEW u, SeatOK(u), Follows(c.seat, u),
             u.state # "Error" => c.seat.state # "Error" /\ u.clip = c.seat.clip,
             o = Outcome("lost", [c EXCEPT !.seat = u], k)
      PROVE  Stepped(c, o)
  <2> DEFINE d == [c EXCEPT !.seat = u]
  <2>1. o.at = "lost" /\ o.controller = d /\ o.clock = k
      BY <1>1 DEF Outcome
  <2>2. /\ Whole(d) /\ Solid(d) /\ Unmoved(c, d)
        /\ Ordered(d, k)
      BY <1>0, <1>1, ReseatGives
  <2> HIDE DEF d
  <2> QED BY <2>1, <2>2 DEF Stepped, Bundled, Unmoved
<1>2. PICK s \in Service(c.seat) :
          o \in IF ~s.ok THEN {Outcome("lost", [c EXCEPT !.seat = s.seat], k)}
                ELSE {IF ~r.ok THEN Outcome("lost", [c EXCEPT !.seat = r.seat], k)
                      ELSE Sampled(ObserveTransport([c EXCEPT !.seat = r.seat]), k,
                                   Sample(Corrected(r.seat.position), r.seat.state,
                                          r.seat.discontinuity))
                         : r \in RecheckBoundDevice(s.seat)}
    BY DEF SampleTransport
<1>3. /\ Called(c.seat, s) /\ Keeps(c.seat, s.seat)
      /\ s.ok => s.seat.state # "Error"
    BY <1>0, ServiceKeeps
<1>4. CASE ~s.ok
    BY <1>1, <1>2, <1>3, <1>4 DEF Called
<1>5. CASE s.ok
  <2>1. PICK r \in RecheckBoundDevice(s.seat) :
            o = IF ~r.ok THEN Outcome("lost", [c EXCEPT !.seat = r.seat], k)
                ELSE Sampled(ObserveTransport([c EXCEPT !.seat = r.seat]), k,
                             Sample(Corrected(r.seat.position), r.seat.state,
                                    r.seat.discontinuity))
      BY <1>2, <1>5
  <2>2. /\ Called(s.seat, r) /\ Keeps(s.seat, r.seat)
        /\ r.ok => r.seat.state # "Error"
      BY <1>3, <1>5, RecheckKeeps DEF Called
  <2> DEFINE u == r.seat
  <2>3. /\ SeatOK(u) /\ Follows(c.seat, u) /\ Keeps(c.seat, u)
        /\ u.state # "Error" => c.seat.state # "Error" /\ u.clip = c.seat.clip
      BY <1>0, <1>3, <2>2, FollowsTransitive DEF Called
  <2>4. CASE ~r.ok
      BY <1>1, <2>1, <2>3, <2>4
  <2>5. CASE r.ok
    <3> DEFINE b == [c EXCEPT !.seat = u]
               e == ObserveTransport(b)
               sample == Sample(Corrected(u.position), u.state, u.discontinuity)
    <3>1. o = Sampled(e, k, sample)
        BY <2>1, <2>5
    <3>2. u.state # "Error"
        BY <2>2, <2>5
    <3> HIDE DEF u
    <3>3. /\ Whole(b) /\ Unmoved(c, b) /\ b.seat = u /\ u # None
          /\ Ordered(b, k)
        BY <1>0, <2>3, ReseatGives
    <3> HIDE DEF b
    <3>4. /\ Whole(e) /\ Solid(e) /\ e.seat = u /\ e.timeline = c.timeline
          /\ e.session = c.session /\ e.replaced = c.replaced /\ e.timeline = b.timeline
        BY <3>3, ObserveGives DEF Unmoved
    <3> HIDE DEF e
    <3>5. u \in SeatType /\ u.position \in Nat
        BY <2>3, SeatIsSound, SeatFacts
    <3>6. sample \in SampleType /\ sample.position = Corrected(u.position)
        BY <3>5, SeatFacts, CorrectedIsMonotone DEF Sample, SampleType
    <3>7. Correction >= 0 => Accepts(c.timeline, sample)
      <4>1. Correction >= 0 => Accepts(b.timeline, Sample(Corrected(b.seat.position), b.seat.state,
                                                          b.seat.discontinuity))
          BY <3>2, <3>3, SeatSampleIsAccepted
      <4> QED BY <3>3, <3>4, <4>1
    <3>8. sample = Sample(Corrected(u.position), u.state, u.discontinuity)
        OBVIOUS
    <3>9. e.timeline # None
        BY <3>4 DEF Solid
    <3> HIDE DEF sample
    <3>10. \/ o.at = "refused" /\ ~Accepts(e.timeline, sample) /\ o.controller = e /\ o.clock = k
           \/ /\ o.at = "sampled" /\ Framed(e, o.controller, sample) /\ o.clock = k
              /\ Whole(o.controller) /\ Solid(o.controller)
              /\ o.controller.session = e.session
              /\ o.controller.replaced = e.replaced /\ o.controller.seat = e.seat
        BY <3>1, <3>4, <3>6, <3>9, SampledGives
    <3>11. CASE o.at = "refused"
      <4>1. Ordered(e, k)
          BY <3>3, <3>4 DEF Ordered
      <4>2. ~(Correction >= 0)
          BY <3>4, <3>7, <3>10, <3>11
      <4> QED BY <3>4, <3>10, <3>11, <4>1, <4>2 DEF Stepped, Bundled
    <3>12. CASE o.at = "sampled"
      <4> DEFINE d == o.controller
      <4>1. /\ Framed(e, d, sample) /\ Whole(d) /\ Solid(d) /\ d.session = c.session
            /\ d.replaced = c.replaced /\ d.seat = u /\ o.clock = k
          BY <3>4, <3>10, <3>12
      <4> HIDE DEF d
      <4>2. Framed(c, d, sample)
          BY <3>4, <4>1 DEF Framed
      <4>3. Ordered(d, k)
          BY <3>3, <3>4, <3>6, <3>8, <4>1, <4>2, SeatSampleIsOrdered DEF Framed
      <4>4. d.lastFrame.time = Corrected(u.position) - c.timeline.offset
        <5>1. c.timeline \in TimelineType
            BY <1>0, ControllerFacts DEF Whole
        <5> QED BY <3>6, <4>2, <5>1, AdvanceGives DEF Framed
      <4>5. Heeds(c, d.lastFrame.time)
          BY <2>3, <3>2, <3>5, <4>4 DEF Heeds, Keeps
      <4> QED BY <3>6, <3>12, <4>1, <4>2, <4>3, <4>5 DEF Stepped, Bundled, d
    <3> QED BY <3>10, <3>11, <3>12
  <2> QED BY <2>4, <2>5
<1> QED BY <1>4, <1>5

(* The chart's own clock: the time it gives is never refused.              *)
LEMMA ChartSampleGives ==
    ASSUME NEW c, Bundled(c), c.timeline # None, c.seat = None, c.pending = None,
           NEW time \in Int, NEW k \in ClockType, k.last = time,
           c.timeline.initialized /\ ~c.timeline.pending /\ c.timeline.previous.id = c.chartClock =>
               time + c.timeline.offset >= c.timeline.previous.position,
           NEW o, o = Sampled(c, k, ChartSample(time, c.timeline.offset, c.chartClock))
    PROVE  /\ o.at = "sampled" /\ o.clock = k
           /\ Bundled(o.controller) /\ Ordered(o.controller, k)
           /\ o.controller.session = c.session /\ o.controller.replaced = c.replaced
           /\ \E sample \in SampleType : Framed(c, o.controller, sample)
           /\ o.controller.lastFrame.time = time
<1> DEFINE tl == c.timeline
           offset == tl.offset
           sample == ChartSample(time, offset, c.chartClock)
           d == o.controller
<1>1. Whole(c) /\ tl \in TimelineType /\ c.chartClock \in Nat
    BY ControllerFacts DEF Bundled, Whole
<1>2. tl.offset \in Int /\ tl.previous.position \in Int
    BY <1>1, TimelineFacts
<1>3. /\ sample \in SampleType /\ sample.position = time + offset
      /\ sample.state = "Playing" /\ sample.id = c.chartClock
    BY <1>1, <1>2 DEF ChartSample, Sample, SampleType, PlaybackState
<1>4. o = Sampled(c, k, sample)
    OBVIOUS
<1> HIDE DEF sample
<1>5. Accepts(tl, sample)
  <2>1. ~Regresses(tl, sample)
      BY <1>2, <1>3 DEF Regresses, Discontinuity
  <2> QED BY <1>3, <2>1 DEF Accepts, ValidSample
<1>6. /\ o.clock = k /\ o.at = "sampled" /\ Framed(c, d, sample)
      /\ Whole(d) /\ (Solid(c) => Solid(d))
      /\ d.app = c.app /\ d.session = c.session /\ d.replaced = c.replaced /\ d.seat = c.seat
      /\ d.mode = c.mode /\ d.chartClock = c.chartClock /\ d.pending = c.pending
    BY <1>1, <1>3, <1>4, <1>5, SampledGives
<1> HIDE DEF d
<1>7. /\ d.timeline.previous = sample /\ d.timeline.offset = offset
      /\ d.lastFrame.time = sample.position - offset
    BY <1>1, <1>3, <1>5, <1>6, AdvanceGives DEF Framed
<1>8. Ordered(d, k)
    BY <1>1, <1>3, <1>6, <1>7 DEF Ordered
<1>9. d.lastFrame.time = time
    BY <1>2, <1>3, <1>7
<1> QED BY <1>3, <1>6, <1>8, <1>9 DEF Bundled, d

LEMMA SampleChartClockGives ==
    ASSUME NEW c, Bundled(c), c.timeline # None, c.seat = None,
           NEW k \in ClockType, k.now >= k.last, Ordered(c, k), NEW o \in SampleChartClock(c, k)
    PROVE  Stepped(c, o)
<1> DEFINE tl == c.timeline
           sample(time) == ChartSample(time, tl.offset, c.chartClock)
<1>1. PICK now \in {k.now} \cup {n \in {k.now + 1} : n <= MaxTime} :
          o = IF c.pending # None
              THEN Sampled([c EXCEPT !.pending = None],
                           [now |-> c.pending, last |-> c.pending], sample(c.pending))
              ELSE IF c.app = "Playing"
              THEN Sampled(c, [now |-> now, last |-> now], sample(now))
              ELSE Sampled(c, [k EXCEPT !.now = now], sample(k.last))
    BY DEF SampleChartClock
<1>2. /\ now \in Int /\ now >= k.now /\ now >= k.last /\ k.now \in Int /\ k.last \in Int
    BY DEF ClockType
<1>3. /\ Whole(c) /\ c \in ControllerType /\ tl \in TimelineType /\ tl.offset \in Int
      /\ tl.previous.position \in Int /\ c.pending \in Int \cup {None} /\ c.chartClock \in Nat
    BY ControllerFacts, TimelineFacts DEF Bundled, Whole
<1>4. tl.initialized /\ ~tl.pending /\ tl.previous.id = c.chartClock =>
          c.pending = None /\ tl.previous.position = k.last + tl.offset
    BY DEF Ordered
<1>5. CASE c.pending # None
  <2> DEFINE b == [c EXCEPT !.pending = None]
             time == c.pending
             l == [now |-> time, last |-> time]
  <2>1. time \in Int /\ l \in ClockType /\ l.last = time /\ l.now = time
      BY <1>3, <1>5 DEF ClockType
  <2>2. /\ b \in ControllerType /\ b.pending = None /\ b.app = c.app /\ b.mode = c.mode
        /\ b.session = c.session /\ b.timeline = c.timeline /\ b.chartClock = c.chartClock
        /\ b.seat = c.seat /\ b.clip = c.clip /\ b.store = c.store
        /\ b.lastFrame = c.lastFrame /\ b.replaced = c.replaced
      BY <1>3 DEF ControllerType
  <2>3. o = Sampled(b, l, ChartSample(time, b.timeline.offset, b.chartClock))
      BY <1>1, <1>5, <2>2
  <2> HIDE DEF b, l
  <2>4. Bundled(b)
      BY <2>2 DEF Bundled, Whole, Solid, Clips
  <2>5. ~(b.timeline.initialized /\ ~b.timeline.pending /\ b.timeline.previous.id = b.chartClock)
      BY <1>4, <1>5, <2>2
  <2>6. /\ o.at = "sampled" /\ o.clock = l
        /\ Bundled(o.controller) /\ Ordered(o.controller, l)
        /\ o.controller.session = b.session /\ o.controller.replaced = b.replaced
        /\ \E sm \in SampleType : Framed(b, o.controller, sm)
        /\ o.controller.lastFrame.time = time
      BY <2>1, <2>2, <2>3, <2>4, <2>5, ChartSampleGives
  <2>7. \E sm \in SampleType : Framed(c, o.controller, sm)
      BY <2>2, <2>6 DEF Framed
  <2> QED BY <2>1, <2>2, <2>6, <2>7 DEF Stepped, Heeds
<1>6. ASSUME c.pending = None, NEW time \in Int, time >= k.last,
             NEW l \in ClockType, l.last = time, l.now >= l.last,
             o = Sampled(c, l, sample(time))
      PROVE  Stepped(c, o)
  <2>1. tl.initialized /\ ~tl.pending /\ tl.previous.id = c.chartClock =>
            time + tl.offset >= tl.previous.position
      BY <1>2, <1>3, <1>4, <1>6
  <2>2. o = Sampled(c, l, ChartSample(time, c.timeline.offset, c.chartClock))
      BY <1>6
  <2>3. /\ o.at = "sampled" /\ o.clock = l
        /\ Bundled(o.controller) /\ Ordered(o.controller, l)
        /\ o.controller.session = c.session /\ o.controller.replaced = c.replaced
        /\ \E sm \in SampleType : Framed(c, o.controller, sm)
      BY <1>6, <2>1, <2>2, ChartSampleGives
  <2> QED BY <1>6, <2>3 DEF Stepped, Heeds
<1>7. CASE c.pending = None /\ c.app = "Playing"
  <2> DEFINE l == [now |-> now, last |-> now]
  <2>1. l \in ClockType /\ l.last = now /\ l.now >= l.last
      BY <1>2 DEF ClockType
  <2>2. o = Sampled(c, l, sample(now))
      BY <1>1, <1>7
  <2> HIDE DEF l, sample
  <2> QED BY <1>2, <1>6, <1>7, <2>1, <2>2
<1>8. CASE c.pending = None /\ c.app # "Playing"
  <2> DEFINE l == [k EXCEPT !.now = now]
  <2>1. l \in ClockType /\ l.last = k.last /\ l.now = now
      BY <1>2 DEF ClockType
  <2>2. o = Sampled(c, l, sample(k.last))
      BY <1>1, <1>8
  <2> HIDE DEF l, sample
  <2> QED BY <1>2, <1>6, <1>8, <2>1, <2>2
<1> QED BY <1>5, <1>7, <1>8

LEMMA AdvanceFrameGives ==
    ASSUME NEW c, Bundled(c), c.timeline # None, NEW k \in ClockType, k.now >= k.last,
           Ordered(c, k), NEW o \in AdvanceFrame(c, k)
    PROVE  Stepped(c, o)
<1>1. CASE c.seat # None
    BY <1>1, SampleTransportGives DEF AdvanceFrame
<1>2. CASE c.seat = None
    BY <1>2, SampleChartClockGives DEF AdvanceFrame
<1> QED BY <1>1, <1>2

-----------------------------------------------------------------------------
(* The frames that a session got, and the one it gets next.                *)
Continues(f, g) ==
    /\ g.id >= f.id
    /\ IF g.id = f.id THEN g.time >= f.time /\ g.delta <= g.time - f.time ELSE g.delta = 0

(* The next frame of the timeline has an identity beyond id.               *)
Beyond(tl, id) == id < tl.id \/ (tl.pending /\ id <= tl.id)

(* What the loop knows of its controller, at "input" and when "advanced".  *)
Tracked(c, at, frame) ==
    /\ c.session # None /\ c.timeline # None /\ c.timeline.offset \in Offsets
    /\ IF c.replaced
       THEN frame # None =>
                /\ c.timeline.initialized /\ Beyond(c.timeline, frame.id)
                /\ c.session.last # None => Beyond(c.timeline, c.session.last.id)
       ELSE /\ frame # None /\ c.session.last = frame
            /\ IF at = "input" THEN c.lastFrame = frame ELSE Continues(frame, c.lastFrame)
            /\ c.timeline.initialized
            /\ c.timeline.previous.position = c.lastFrame.time + c.timeline.offset

LEMMA FrameFacts ==
    ASSUME NEW f \in FrameType
    PROVE  f.time \in Int /\ f.delta \in Nat /\ f.id \in Nat /\ f # None
BY NoneAssumption DEF FrameType

LEMMA SessionFacts ==
    ASSUME NEW s \in SessionType
    PROVE  s # None /\ s.last \in FrameType \cup {None}
BY NoneAssumption DEF SessionType

(* A new bundle continues the segments of the old one.                     *)
LEMMA ExchangedIsTracked ==
    ASSUME NEW c, Whole(c), NEW d, Whole(d), Exchanged(c, d), NEW frame, NEW at,
           frame # None => Tracked(c, at, frame) /\ frame \in FrameType
    PROVE  Tracked(d, at, frame)
<1>1. PICK offset \in Offsets : d.timeline = NextTimeline(c, offset)
    BY DEF Exchanged
<1>2. /\ d.session # None /\ d.session.last \in FrameType \cup {None}
      /\ d.session.last # None => d.session.last.id = c.lastFrame.id
      /\ d.replaced /\ d.timeline # None
    BY SessionFacts DEF Exchanged, Whole
<1>3. d.timeline.offset = offset
  <2>1. CASE c.timeline = None
      BY <1>1, <2>1 DEF NextTimeline, Timeline
  <2>2. CASE c.timeline # None
    <3>1. c.timeline \in TimelineType
        BY <2>2, ControllerFacts DEF Whole
    <3> QED BY <1>1, <2>2, <3>1 DEF NextTimeline, Reset, TimelineType
  <2> QED BY <2>1, <2>2
<1>4. ASSUME frame # None
      PROVE  /\ d.timeline.initialized /\ Beyond(d.timeline, frame.id)
             /\ d.session.last # None => Beyond(d.timeline, d.session.last.id)
  <2>1. /\ c.timeline # None /\ c.timeline.initialized /\ c.timeline \in TimelineType
        /\ c.lastFrame.id = c.timeline.id /\ c.lastFrame \in FrameType
      BY <1>4, ControllerFacts DEF Tracked, Whole
  <2>2. /\ d.timeline.initialized = c.timeline.initialized
        /\ d.timeline.id = c.timeline.id /\ d.timeline.pending = c.timeline.initialized
      BY <1>1, <2>1 DEF NextTimeline, Reset, TimelineType
  <2>3. frame.id <= c.timeline.id
    <3>1. frame.id \in Nat /\ c.timeline.id \in Nat
        BY <1>4, <2>1, FrameFacts, TimelineFacts
    <3> QED BY <1>4, <2>1, <3>1 DEF Tracked, Beyond, Continues
  <2>4. d.session.last # None => d.session.last.id <= c.timeline.id
      BY <1>2, <2>1, TimelineFacts
  <2> QED BY <2>1, <2>2, <2>3, <2>4 DEF Beyond
<1> QED BY <1>2, <1>3, <1>4 DEF Tracked

LEMMA UnexchangedIsTracked ==
    ASSUME NEW c, NEW d, Unexchanged(c, d), NEW frame, NEW at, Tracked(c, at, frame)
    PROVE  Tracked(d, at, frame)
BY DEF Unexchanged, Tracked

(* The frame of a sample: the next one of the same bundle, or the first of *)
(* another.                                                                *)
LEMMA FramedIsTracked ==
    ASSUME NEW c, Whole(c), NEW frame, frame # None => frame \in FrameType,
           Tracked(c, "input", frame),
           NEW sample \in SampleType, NEW d, Framed(c, d, sample),
           d.session = c.session, d.replaced = c.replaced
    PROVE  Tracked(d, "advanced", frame)
<1>1. /\ c.timeline \in TimelineType /\ c.lastFrame \in FrameType /\ c.lastFrame.id = c.timeline.id
      /\ c.session \in SessionType
    BY ControllerFacts DEF Whole, Tracked
<1> DEFINE tl == c.timeline
           next == d.timeline
           f == d.lastFrame
<1>2. /\ next \in TimelineType /\ next.initialized /\ ~next.pending
      /\ next.previous = sample /\ next.offset = tl.offset /\ next.id = f.id
      /\ f \in FrameType /\ f.time = sample.position - tl.offset
      /\ f.id = tl.id \/ f.id = tl.id + 1
      /\ tl.pending => f.id = tl.id + 1
      /\ f.id # tl.id => f.delta = 0
      /\ f.id = tl.id /\ tl.initialized =>
             /\ sample.position >= tl.previous.position
             /\ f.delta <= sample.position - tl.previous.position
    BY <1>1, AdvanceGives DEF Framed
<1>3. /\ tl.offset \in Int /\ tl.id \in Nat /\ tl.previous.position \in Int
      /\ sample.position \in Int /\ f.id \in Nat /\ f.time \in Int /\ f.delta \in Nat
      /\ c.lastFrame.time \in Int
    BY <1>1, <1>2, TimelineFacts, FrameFacts DEF SampleType
<1>4. next.previous.position = f.time + next.offset
    BY <1>2, <1>3
<1>5. next # None /\ c.session # None
    BY <1>1, <1>2, TimelineFacts, SessionFacts
<1>6. ASSUME NEW n \in Nat, Beyond(tl, n) PROVE Beyond(next, n)
    BY <1>2, <1>3, <1>6 DEF Beyond
<1> HIDE DEF next, f, tl
<1>7. CASE c.replaced
  <2>1. c.session.last # None => c.session.last.id \in Nat
      BY <1>1, SessionFacts, FrameFacts
  <2>2. frame # None => frame.id \in Nat
      BY FrameFacts
  <2> QED BY <1>2, <1>5, <1>6, <1>7, <2>1, <2>2 DEF Tracked, next, tl
<1>8. CASE ~c.replaced
  <2>1. /\ frame # None /\ c.session.last = frame /\ c.lastFrame = frame /\ tl.initialized
        /\ tl.previous.position = c.lastFrame.time + tl.offset
      BY <1>8 DEF Tracked, tl
  <2>2. Continues(frame, f)
      BY <1>1, <1>2, <1>3, <2>1 DEF Continues, tl
  <2> QED BY <1>2, <1>4, <1>5, <1>8, <2>1, <2>2 DEF Tracked, next, f, tl
<1> QED BY <1>7, <1>8

LEMMA OutcomesAreOutcomes ==
    ASSUME NEW c, NEW k, NEW o \in AdvanceFrame(c, k)
    PROVE  \E at, d, l : o = Outcome(at, d, l)
<1>1. ASSUME NEW b, NEW l, NEW sample
      PROVE  \E at, d, m : Sampled(b, l, sample) = Outcome(at, d, m)
    BY <1>1 DEF Sampled
<1>2. CASE c.seat # None
  <2>1. PICK s \in Service(c.seat) :
            o \in IF ~s.ok THEN {Outcome("lost", [c EXCEPT !.seat = s.seat], k)}
                  ELSE {IF ~r.ok THEN Outcome("lost", [c EXCEPT !.seat = r.seat], k)
                        ELSE Sampled(ObserveTransport([c EXCEPT !.seat = r.seat]), k,
                                     Sample(Corrected(r.seat.position), r.seat.state,
                                            r.seat.discontinuity))
                           : r \in RecheckBoundDevice(s.seat)}
      BY <1>2 DEF AdvanceFrame, SampleTransport
  <2>2. CASE ~s.ok
      BY <2>1, <2>2
  <2>3. CASE s.ok
    <3>1. PICK r \in RecheckBoundDevice(s.seat) :
              o = IF ~r.ok THEN Outcome("lost", [c EXCEPT !.seat = r.seat], k)
                  ELSE Sampled(ObserveTransport([c EXCEPT !.seat = r.seat]), k,
                               Sample(Corrected(r.seat.position), r.seat.state,
                                      r.seat.discontinuity))
        BY <2>1, <2>3
    <3>2. CASE ~r.ok
        BY <3>1, <3>2
    <3>3. CASE r.ok
        BY <1>1, <3>1, <3>3
    <3> QED BY <3>2, <3>3
  <2> QED BY <2>2, <2>3
<1>3. CASE c.seat = None
  <2>1. PICK now :
            o = IF c.pending # None
                THEN Sampled([c EXCEPT !.pending = None],
                             [now |-> c.pending, last |-> c.pending],
                             ChartSample(c.pending, c.timeline.offset, c.chartClock))
                ELSE IF c.app = "Playing"
                THEN Sampled(c, [now |-> now, last |-> now],
                             ChartSample(now, c.timeline.offset, c.chartClock))
                ELSE Sampled(c, [k EXCEPT !.now = now],
                             ChartSample(k.last, c.timeline.offset, c.chartClock))
      BY <1>3 DEF AdvanceFrame, SampleChartClock
  <2>2. CASE c.pending # None
      BY <1>1, <2>1, <2>2
  <2>3. CASE c.pending = None /\ c.app = "Playing"
      BY <1>1, <2>1, <2>3
  <2>4. CASE c.pending = None /\ c.app # "Playing"
      BY <1>1, <2>1, <2>4
  <2> QED BY <2>2, <2>3, <2>4
<1> QED BY <1>2, <1>3

LEMMA WithLastFrame ==
    ASSUME NEW c, Bundled(c), NEW f \in FrameType, f.id = c.lastFrame.id,
           NEW d, d = [c EXCEPT !.lastFrame = f]
    PROVE  /\ Bundled(d) /\ d.lastFrame = f
           /\ d.session = c.session /\ d.timeline = c.timeline /\ d.replaced = c.replaced
           /\ \A k : Ordered(c, k) => Ordered(d, k)
<1>1. c \in ControllerType
    BY DEF Bundled, Whole
<1>2. /\ d \in ControllerType /\ d.lastFrame = f
      /\ d.app = c.app /\ d.session = c.session /\ d.mode = c.mode
      /\ d.timeline = c.timeline /\ d.chartClock = c.chartClock /\ d.seat = c.seat
      /\ d.clip = c.clip /\ d.store = c.store /\ d.pending = c.pending
      /\ d.replaced = c.replaced
    BY <1>1 DEF ControllerType
<1>3. Bundled(d)
    BY <1>2 DEF Bundled, Whole, Solid, Clips
<1> QED BY <1>2, <1>3 DEF Ordered

LEMMA NoLongerReplaced ==
    ASSUME NEW c, Bundled(c), NEW d, d = [c EXCEPT !.replaced = FALSE]
    PROVE  /\ Bundled(d) /\ ~d.replaced
           /\ d.session = c.session /\ d.timeline = c.timeline /\ d.seat = c.seat
           /\ d.pending = c.pending /\ d.lastFrame = c.lastFrame
           /\ \A k : Ordered(c, k) => Ordered(d, k)
<1>1. c \in ControllerType
    BY DEF Bundled, Whole
<1>2. /\ d \in ControllerType /\ d.replaced = FALSE /\ d.lastFrame = c.lastFrame
      /\ d.app = c.app /\ d.session = c.session /\ d.mode = c.mode
      /\ d.timeline = c.timeline /\ d.chartClock = c.chartClock /\ d.seat = c.seat
      /\ d.clip = c.clip /\ d.store = c.store /\ d.pending = c.pending
    BY <1>1 DEF ControllerType
<1>3. Bundled(d)
    BY <1>2 DEF Bundled, Whole, Solid, Clips
<1> QED BY <1>2, <1>3 DEF Ordered

LEMMA FirstFrameGives ==
    ASSUME NEW c, c.lastFrame \in FrameType, NEW f, f = FirstFrame(c)
    PROVE  /\ f \in FrameType /\ f.id = c.lastFrame.id /\ f.time = c.lastFrame.time
           /\ f.id # deliveredId => f.delta = 0
<1> DEFINE g == [c.lastFrame EXCEPT !.delta = 0]
<1>1. g \in FrameType /\ g.id = c.lastFrame.id /\ g.time = c.lastFrame.time /\ g.delta = 0
    BY DEF FrameType
<1>2. f = IF c.lastFrame.id = deliveredId THEN c.lastFrame ELSE g
    BY DEF FirstFrame
<1> HIDE DEF g
<1> QED BY <1>1, <1>2

(* The frame that Deliver hands to the session, when a frame was handed to *)
(* a session before.                                                       *)
Fresh(c, d, frame) ==
    /\ d.session = c.session /\ ~d.replaced
    /\ d.timeline # None /\ d.timeline.offset \in Offsets /\ d.timeline.initialized
    /\ d.timeline.previous.position = d.lastFrame.time + d.timeline.offset
    /\ frame # None => Continues(frame, d.lastFrame) /\ ValidFrame(d.lastFrame, c.session.last)
    /\ IF c.replaced THEN Heeds(c, d.lastFrame.time)
       ELSE d.seat = c.seat /\ d.pending = c.pending /\ d.timeline = c.timeline

LEMMA RefreshedGives ==
    ASSUME NEW c, Bundled(c), NEW k \in ClockType, k.now >= k.last, Ordered(c, k),
           NEW frame, frame # None => frame \in FrameType /\ deliveredId = frame.id,
           Tracked(c, "advanced", frame), NEW o \in Refreshed(c, k)
    PROVE  /\ Bundled(o.controller) /\ Ordered(o.controller, o.clock)
           /\ o.clock \in ClockType /\ o.clock.now >= o.clock.last
           /\ o.at \in {"sampled", "lost", "refused"}
           /\ Correction >= 0 => o.at # "refused"
           /\ o.at = "sampled" => Fresh(c, o.controller, frame)
<1>1. /\ c.timeline \in TimelineType /\ c.lastFrame \in FrameType /\ c.session \in SessionType
      /\ c.timeline # None /\ c.timeline.offset \in Offsets /\ c.session.last \in FrameType \cup {None}
    BY ControllerFacts, SessionFacts DEF Bundled, Whole, Tracked
<1>2. CASE ~c.replaced
  <2>1. o = Outcome("sampled", c, k)
      BY <1>2 DEF Refreshed
  <2>2. o.at = "sampled" /\ o.controller = c /\ o.clock = k
      BY <2>1 DEF Outcome
  <2>3. ValidFrame(c.lastFrame, frame)
    <3>1. frame \in FrameType /\ Continues(frame, c.lastFrame)
        BY <1>2 DEF Tracked
    <3> QED BY <1>1, <3>1, FrameFacts DEF ValidFrame, Continues
  <2>4. Fresh(c, c, frame)
      BY <1>1, <1>2, <2>3 DEF Fresh, Tracked
  <2> QED BY <2>2, <2>4
<1>3. CASE c.replaced
  <2> DEFINE b == [c EXCEPT !.replaced = FALSE]
  <2>1. PICK s \in AdvanceFrame(b, k) :
            o = [s EXCEPT !.controller.lastFrame = IF s.at = "sampled"
                                                   THEN FirstFrame(s.controller) ELSE @]
      BY <1>3 DEF Refreshed
  <2>2. /\ Bundled(b) /\ ~b.replaced
        /\ b.session = c.session /\ b.timeline = c.timeline /\ b.seat = c.seat
        /\ b.pending = c.pending /\ b.lastFrame = c.lastFrame
        /\ Ordered(b, k)
      BY NoLongerReplaced
  <2> HIDE DEF b
  <2>3. Stepped(b, s)
      BY <1>1, <2>1, <2>2, AdvanceFrameGives
  <2>4. PICK at, e, l : s = Outcome(at, e, l)
      BY <2>1, OutcomesAreOutcomes
  <2>5. s.at = at /\ s.controller = e /\ s.clock = l
      BY <2>4 DEF Outcome
  <2>6. Bundled(e) /\ e \in ControllerType /\ e.lastFrame \in FrameType
      BY <2>3, <2>5, ControllerFacts DEF Stepped, Bundled, Whole
  <2> DEFINE f == IF at = "sampled" THEN FirstFrame(e) ELSE e.lastFrame
             d == [e EXCEPT !.lastFrame = f]
  <2>7. o = Outcome(at, d, l)
      BY <2>1, <2>4, <2>5 DEF Outcome
  <2>8. o.at = at /\ o.controller = d /\ o.clock = l
      BY <2>7 DEF Outcome
  <2>9. /\ f \in FrameType /\ f.id = e.lastFrame.id /\ f.time = e.lastFrame.time
        /\ at = "sampled" /\ f.id # deliveredId => f.delta = 0
      BY <2>6, FirstFrameGives
  <2> HIDE DEF f
  <2>10. /\ Bundled(d) /\ d.lastFrame = f
         /\ d.session = e.session /\ d.timeline = e.timeline /\ d.replaced = e.replaced
         /\ \A m : Ordered(e, m) => Ordered(d, m)
      BY <2>6, <2>9, WithLastFrame
  <2> HIDE DEF d
  <2>11. ASSUME at = "sampled" PROVE Fresh(c, d, frame)
    <3>1. PICK sample \in SampleType : Framed(b, e, sample)
        BY <2>3, <2>5, <2>11 DEF Stepped
    <3>2. /\ e.session = c.session /\ ~e.replaced
          /\ Heeds(b, e.lastFrame.time)
        BY <2>2, <2>3, <2>5, <2>11 DEF Stepped
    <3>3. Framed(c, e, sample)
        BY <2>2, <3>1 DEF Framed
    <3> DEFINE tl == c.timeline
               next == e.timeline
               g == e.lastFrame
    <3>4. /\ next \in TimelineType /\ next.initialized /\ ~next.pending
          /\ next.previous = sample /\ next.offset = tl.offset /\ next.id = g.id
          /\ g \in FrameType /\ g.time = sample.position - tl.offset
          /\ g.id = tl.id \/ g.id = tl.id + 1
          /\ tl.pending => g.id = tl.id + 1
        BY <1>1, <3>3, AdvanceGives DEF Framed
    <3>5. /\ tl.offset \in Int /\ tl.id \in Nat /\ tl.pending \in BOOLEAN /\ sample.position \in Int
          /\ g.time \in Int /\ g.id \in Nat
        BY <1>1, <3>4, TimelineFacts, FrameFacts DEF SampleType
    <3>6. next.previous.position = f.time + next.offset /\ next # None
        BY <2>9, <3>4, <3>5, TimelineFacts
    <3>7. Heeds(c, f.time)
        BY <2>2, <2>9, <3>2 DEF Heeds
    <3>8. ASSUME frame # None
          PROVE  Continues(frame, f) /\ ValidFrame(f, c.session.last)
      <4>1. frame.id \in Nat /\ f.delta \in Nat /\ f.id \in Nat
          BY <2>9, <3>8, FrameFacts
      <4>2. frame.id < f.id
          BY <1>3, <2>9, <3>4, <3>5, <3>8, <4>1 DEF Tracked, Beyond
      <4>3. f.delta = 0
          BY <2>9, <2>11, <3>8, <4>1, <4>2
      <4>4. c.session.last # None => c.session.last.id \in Nat /\ c.session.last.id < f.id
        <5>1. c.session.last # None => c.session.last.id \in Nat
            BY <1>1, FrameFacts
        <5> QED BY <1>3, <2>9, <3>4, <3>5, <3>8, <5>1 DEF Tracked, Beyond
      <4> QED BY <4>1, <4>2, <4>3, <4>4 DEF Continues, ValidFrame
    <3> QED BY <1>1, <1>3, <2>10, <3>2, <3>4, <3>6, <3>7, <3>8 DEF Fresh
  <2>12. /\ at \in {"sampled", "lost", "refused"} /\ (Correction >= 0 => at # "refused")
         /\ l \in ClockType /\ l.now >= l.last /\ Ordered(e, l)
      BY <2>3, <2>5 DEF Stepped
  <2> QED BY <2>8, <2>10, <2>11, <2>12
<1> QED BY <1>2, <1>3

(* The session takes the frame, and the application may have failed.       *)
Takes(d, e) ==
    \/ e = [d EXCEPT !.session.last = d.lastFrame]
    \/ e = [d EXCEPT !.session.last = d.lastFrame, !.app = "Failed"]

LEMMA TakesGives ==
    ASSUME NEW c, NEW d, NEW frame, Bundled(d), Fresh(c, d, frame), c.session \in SessionType,
           NEW e, Takes(d, e)
    PROVE  /\ Bundled(e) /\ e.lastFrame = d.lastFrame
           /\ e.timeline = d.timeline /\ e.seat = d.seat /\ e.pending = d.pending
           /\ \A k : Ordered(d, k) => Ordered(e, k)
           /\ Tracked(e, "input", d.lastFrame)
<1>1. d \in ControllerType /\ d.session \in SessionType /\ d.lastFrame \in FrameType
    BY ControllerFacts DEF Bundled, Whole, Fresh
<1> DEFINE session == [d.session EXCEPT !.last = d.lastFrame]
<1>2. session \in SessionType /\ session.last = d.lastFrame
    BY <1>1 DEF SessionType
<1>3. \/ e = [d EXCEPT !.session = session]
      \/ e = [d EXCEPT !.session = session, !.app = "Failed"]
    BY <1>1 DEF ControllerType, Takes
<1> HIDE DEF session
<1>4. /\ e \in ControllerType /\ e.session = session /\ (e.app = d.app \/ e.app = "Failed")
      /\ e.mode = d.mode /\ e.timeline = d.timeline /\ e.chartClock = d.chartClock
      /\ e.seat = d.seat /\ e.clip = d.clip /\ e.store = d.store
      /\ e.lastFrame = d.lastFrame /\ e.pending = d.pending /\ e.replaced = d.replaced
  <2>1. CASE e = [d EXCEPT !.session = session]
      BY <1>1, <1>2, <2>1 DEF ControllerType
  <2>2. CASE e = [d EXCEPT !.session = session, !.app = "Failed"]
      BY <1>1, <1>2, <2>2 DEF ControllerType, PlayerAppState
  <2> QED BY <1>3, <2>1, <2>2
<1>5. session # None /\ d.lastFrame # None
    BY <1>1, <1>2, SessionFacts, FrameFacts
<1>6. d.session # None
    BY <1>1, SessionFacts
<1>7. Bundled(e)
    BY <1>4, <1>5, <1>6 DEF Bundled, Whole, Solid, Clips
<1>8. \A k : Ordered(d, k) => Ordered(e, k)
    BY <1>4 DEF Ordered
<1>9. Tracked(e, "input", d.lastFrame)
    BY <1>2, <1>4, <1>5 DEF Fresh, Tracked
<1> QED BY <1>4, <1>7, <1>8, <1>9

-----------------------------------------------------------------------------
(* What the next frame shows of a seek e.                                  *)
Awaits(c, e) ==
    /\ c.seat # None /\ c.seat.state # "Error" =>
           LET source == e.time + c.timeline.offset + Correction
           IN  /\ c.seat.position >= source
               /\ e.rests => c.seat.state # "Playing" /\ c.seat.position = source
    /\ c.seat = None => c.pending = e.time

LEMMA WaitsAwaits ==
    ASSUME NEW c, Whole(c), NEW d, Whole(d), Waits(c, d), NEW e \in ExpectedType, Awaits(c, e),
           c.timeline # None
    PROVE  Awaits(d, e)
<1>1. CASE c.seat = None
    BY <1>1 DEF Waits, Awaits
<1>2. CASE c.seat # None
  <2> DEFINE source == e.time + c.timeline.offset + Correction
  <2>1. d.seat # None /\ Keeps(c.seat, d.seat) /\ d.timeline = c.timeline
      BY <1>2 DEF Waits
  <2>2. c.seat \in SeatType /\ d.seat \in SeatType /\ c.timeline \in TimelineType
      BY <1>2, <2>1, ControllerFacts DEF Whole
  <2>3. c.seat.position \in Int /\ d.seat.position \in Int /\ source \in Int
      BY <2>2, SeatFacts, TimelineFacts, PlayerAssumption DEF ExpectedType
  <2>4. c.seat.state # "Error" =>
            c.seat.position >= source /\ (e.rests => c.seat.state # "Playing" /\ c.seat.position = source)
      BY <1>2 DEF Awaits
  <2> HIDE DEF source
  <2>5. d.seat.state # "Error" =>
            d.seat.position >= source /\ (e.rests => d.seat.state # "Playing" /\ d.seat.position = source)
      BY <2>1, <2>3, <2>4 DEF Keeps
  <2> QED BY <2>1, <2>5 DEF Awaits, source
<1> QED BY <1>1, <1>2

LEMMA SoughtAwaits ==
    ASSUME NEW c, NEW d, NEW target, Sought(c, d, target),
           NEW e, e = [time |-> target, rests |-> Rests(c)]
    PROVE  Awaits(d, e)
<1>1. e.time = target /\ e.rests = Rests(c)
    OBVIOUS
<1>2. CASE d.seat = None
    BY <1>1, <1>2 DEF Sought, Awaits
<1>3. CASE d.seat # None
  <2>1. e.rests = (c.seat.state # "Playing")
      BY <1>1, <1>3 DEF Sought, Rests
  <2> QED BY <1>1, <1>3, <2>1 DEF Sought, Awaits
<1> QED BY <1>2, <1>3

(* The correction that a seek adds is undone when the position is sampled, *)
(* unless the correction reaches further back than the music starts.       *)
Undone == Correction <= 0 \/ \A content \in Content : content.offset >= 0

LEMMA HeededIsShown ==
    ASSUME NEW c, Whole(c), c.timeline # None, c.timeline.offset \in Offsets,
           NEW e \in ExpectedType, e.time >= 0, Awaits(c, e), NEW time, Heeds(c, time)
    PROVE  time >= e.time /\ (Undone /\ e.rests => time = e.time)
<1>1. e.time \in Int /\ e.time # None /\ Correction \in Int /\ c.timeline.offset \in Int
    BY NoneAssumption, ControllerFacts, TimelineFacts, PlayerAssumption DEF ExpectedType, Whole
<1>2. CASE c.seat = None
    BY <1>1, <1>2 DEF Heeds, Awaits
<1>3. CASE c.seat # None
  <2> DEFINE offset == c.timeline.offset
             source == e.time + offset + Correction
  <2>1. PICK p \in Nat : /\ p >= c.seat.position
                         /\ c.seat.state # "Playing" => p = c.seat.position
                         /\ time = Corrected(p) - offset
      BY <1>3 DEF Heeds
  <2>2. /\ c.seat.position >= source
        /\ e.rests => c.seat.state # "Playing" /\ c.seat.position = source
      BY <1>3 DEF Heeds, Awaits
  <2>3. c.seat.position \in Nat
      BY <1>3, SeatFacts, ControllerFacts DEF Whole
  <2>4. Undone => Correction <= 0 \/ offset >= 0
      BY DEF Undone, Offsets
  <2> HIDE DEF offset
  <2>5. source \in Int /\ offset \in Int
      BY <1>1 DEF offset
  <2>6. p >= source /\ (e.rests => p = source)
      BY <2>1, <2>2, <2>3, <2>5
  <2>7. Corrected(p) - offset >= e.time
      BY <1>1, <2>5, <2>6 DEF Corrected
  <2>8. Undone /\ e.rests => Corrected(p) - offset = e.time
      BY <1>1, <2>4, <2>5, <2>6 DEF Corrected
  <2> QED BY <2>1, <2>7, <2>8
<1> QED BY <1>2, <1>3

-----------------------------------------------------------------------------
(* The inductive invariant.                                                *)
Looping == loop \in {"input", "advanced"}

Started == loop = "starting" => delivered = None /\ expected = None

Remembered == delivered # None => deliveredId = delivered.id

Tracking == Looping => Tracked(controller, loop, delivered)

Awaiting == Looping /\ expected # None => expected.time >= 0 /\ Awaits(controller, expected)

Inductive ==
    /\ TypeOK
    /\ clock.now >= clock.last
    /\ Bundled(controller)
    /\ Ordered(controller, clock)
    /\ Started
    /\ Remembered
    /\ Tracking
    /\ Awaiting

(* What a step may add to the frames that the sessions got, when a frame   *)
(* may be refused, and what the frame after a seek shows.                  *)
Forward == delivered' # delivered /\ delivered # None => Continues(delivered, delivered')

Accepted == loop' = "refused" /\ Correction >= 0 /\ FramesAreAccepted => delivered' = None

Shown ==
    Samples /\ expected # None =>
        /\ controller'.lastFrame.time >= expected.time
        /\ Undone /\ expected.rests => controller'.lastFrame.time = expected.time

Preserved == Inductive' /\ Forward /\ Accepted /\ Shown

LEMMA InitIsInductive ==
    Init => Inductive
<1> SUFFICES ASSUME Init PROVE Inductive
    OBVIOUS
<1>1. /\ controller.app = "Empty" /\ controller.session = None /\ controller.mode = "ChartClock"
      /\ controller.timeline = None /\ controller.seat = None /\ controller.clip = None
      /\ controller.store = {} /\ controller.lastFrame = Frame(0, 0, 0)
    BY DEF Init
<1>2. Frame(0, 0, 0) \in FrameType /\ Frame(0, 0, 0).id = 0
    BY DEF Frame, FrameType
<1>3. controller \in ControllerType
    BY <1>2 DEF Init, ControllerType, PlayerAppState, PlaybackMode
<1>4. TypeOK
    BY <1>3, PlayerAssumption DEF Init, TypeOK
<1>5. Bundled(controller) /\ Ordered(controller, clock)
    BY <1>1, <1>2, <1>3 DEF Bundled, Whole, Clips, Ordered
<1> QED BY <1>4, <1>5 DEF Init, Inductive, Started, Remembered, Tracking, Awaiting, Looping

LEMMA LoopTypes ==
    ASSUME Inductive
    PROVE  /\ controller \in ControllerType /\ Whole(controller) /\ clock \in ClockType
           /\ delivered \in FrameType \cup {None} /\ expected \in ExpectedType \cup {None}
BY DEF Inductive, TypeOK, Bundled, Whole, ClockType

LEMMA StartUpIsSafe ==
    ASSUME Inductive, NEW content \in Content, NEW mode \in PlaybackMode, StartUp(content, mode)
    PROVE  Preserved
<1> DEFINE load == [kind |-> "Load", content |-> content, mode |-> mode]
           play == [kind |-> "Play"]
<1>1. /\ loop = "starting" /\ delivered = None /\ expected = None
      /\ UNCHANGED <<clock, deliveredId, delivered, expected, commands>>
    BY DEF StartUp, Inductive, Started
<1>2. load \in Command /\ play \in Command /\ load.kind = "Load" /\ play.kind = "Play"
    BY DEF Command
<1>3. PICK r \in Apply(controller, load) :
          IF ~r.ok THEN controller' = r.controller /\ loop' = "start_failed"
          ELSE \E p \in Apply(r.controller, play) :
                   /\ controller' = p.controller
                   /\ loop' = IF p.ok THEN "input" ELSE "start_failed"
    BY DEF StartUp
<1> HIDE DEF load, play
<1>4. Applied(controller, load, r)
    BY <1>2, <1>3, ApplyGives DEF Inductive
<1>5. /\ Bundled(controller') /\ Ordered(controller', clock')
      /\ loop' \in {"start_failed", "input"}
      /\ loop' = "input" => Tracked(controller', "input", None)
  <2>1. CASE ~r.ok
      BY <1>1, <1>3, <1>4, <2>1 DEF Applied, Inductive
  <2>2. CASE r.ok
    <3>1. PICK p \in Apply(r.controller, play) :
              /\ controller' = p.controller
              /\ loop' = IF p.ok THEN "input" ELSE "start_failed"
        BY <1>3, <2>2
    <3>2. Bundled(r.controller) /\ Exchanged(controller, r.controller)
        BY <1>2, <1>4, <2>2 DEF Applied, Success
    <3>3. Applied(r.controller, play, p)
        BY <1>2, <3>1, <3>2, ApplyGives
    <3>4. Whole(controller) /\ Whole(r.controller) /\ Whole(p.controller)
        BY <3>2, <3>3 DEF Inductive, Bundled, Applied
    <3>5. Tracked(r.controller, "input", None)
        BY <3>2, <3>4, ExchangedIsTracked
    <3>6. p.ok => Tracked(p.controller, "input", None)
      <4>1. p.ok => \/ Unexchanged(r.controller, p.controller)
                    \/ Exchanged(r.controller, p.controller)
          BY <3>3 DEF Applied, Success
      <4> QED BY <3>4, <3>5, <4>1, ExchangedIsTracked, UnexchangedIsTracked
    <3>7. Ordered(p.controller, clock)
        BY <1>4, <3>3 DEF Applied, Inductive
    <3> QED BY <1>1, <3>1, <3>3, <3>6, <3>7 DEF Applied
  <2> QED BY <2>1, <2>2
<1>6. controller' \in ControllerType
    BY <1>5 DEF Bundled, Whole
<1>7. Inductive'
    BY <1>1, <1>5, <1>6
       DEF Inductive, TypeOK, Started, Remembered, Tracking, Awaiting, Looping
<1> QED BY <1>1, <1>5, <1>7 DEF Preserved, Forward, Accepted, Shown

LEMMA IssueIsSafe ==
    ASSUME Inductive, NEW command \in Command, Issue(command)
    PROVE  Preserved
<1>1. /\ Looping /\ commands < MaxCommands /\ commands' = commands + 1
      /\ UNCHANGED <<clock, loop, deliveredId, delivered>>
    BY DEF Issue, Looping
<1>2. PICK r \in Apply(controller, command) :
          /\ controller' = r.controller
          /\ expected' = IF command.kind = "Seek" /\ r.ok
                         THEN [time |-> command.target, rests |-> Rests(controller)]
                         ELSE IF r.ok \/ r.controller.app = "Failed" THEN None ELSE expected
    BY DEF Issue
<1>3. Applied(controller, command, r)
    BY <1>2, ApplyGives DEF Inductive
<1>4. /\ Whole(controller) /\ Bundled(controller') /\ Whole(controller')
      /\ controller' \in ControllerType /\ Ordered(controller', clock')
    BY <1>1, <1>2, <1>3 DEF Inductive, Applied, Bundled, Whole
<1>5. delivered \in FrameType \cup {None} /\ expected \in ExpectedType \cup {None}
    BY LoopTypes
<1>6. Tracked(controller', loop, delivered)
  <2>1. Tracked(controller, loop, delivered)
      BY <1>1 DEF Inductive, Tracking
  <2>2. Unexchanged(controller, controller') \/ Exchanged(controller, controller')
      BY <1>2, <1>3 DEF Applied, Success
  <2> QED BY <1>4, <1>5, <2>1, <2>2, ExchangedIsTracked, UnexchangedIsTracked
<1>7. /\ expected' \in ExpectedType \cup {None}
      /\ expected' # None => expected'.time >= 0 /\ Awaits(controller', expected')
  <2>1. CASE command.kind = "Seek" /\ r.ok
    <3> DEFINE e == [time |-> command.target, rests |-> Rests(controller)]
    <3>1. command.target \in 0 .. MaxTime
        BY <2>1 DEF Command
    <3>2. e \in ExpectedType /\ e.time >= 0
      <4>1. command.target \in Int /\ command.target >= 0
          BY <3>1, PlayerAssumption
      <4>2. Rests(controller) \in BOOLEAN
          BY DEF Rests
      <4> QED BY <4>1, <4>2 DEF ExpectedType
    <3>3. Sought(controller, controller', command.target)
        BY <1>2, <1>3, <2>1 DEF Applied, Success
    <3>4. expected' = e
        BY <1>2, <2>1
    <3>5. Awaits(controller', e)
        BY <3>3, SoughtAwaits
    <3> HIDE DEF e
    <3> QED BY <3>2, <3>4, <3>5
  <2>2. CASE ~(command.kind = "Seek" /\ r.ok)
    <3>1. CASE r.ok \/ r.controller.app = "Failed"
        BY <1>2, <2>2, <3>1
    <3>2. CASE ~(r.ok \/ r.controller.app = "Failed")
      <4>1. expected' = expected /\ Waits(controller, controller')
          BY <1>2, <1>3, <2>2, <3>2 DEF Applied
      <4>2. controller.timeline # None
          BY <1>1 DEF Inductive, Tracking, Tracked
      <4>3. expected # None => expected.time >= 0 /\ Awaits(controller, expected)
          BY <1>1 DEF Inductive, Awaiting
      <4> QED BY <1>4, <1>5, <4>1, <4>2, <4>3, WaitsAwaits
    <3> QED BY <3>1, <3>2
  <2> QED BY <2>1, <2>2
<1>8. commands' \in 0 .. MaxCommands
    BY <1>1, PlayerAssumption DEF Inductive, TypeOK
<1>9. Inductive'
    BY <1>1, <1>4, <1>6, <1>7, <1>8
       DEF Inductive, TypeOK, Started, Remembered, Tracking, Awaiting, Looping
<1> QED BY <1>1, <1>9 DEF Preserved, Forward, Accepted, Shown, Samples, Looping

LEMMA SamplingIsSafe ==
    ASSUME Inductive, Sampling
    PROVE  Preserved
<1>1. /\ loop = "input" /\ expected' = None
      /\ UNCHANGED <<deliveredId, delivered, commands>>
    BY DEF Sampling
<1>2. PICK o \in AdvanceFrame(controller, clock) :
          /\ controller' = o.controller
          /\ clock' = o.clock
          /\ loop' = IF o.at = "sampled" THEN "advanced" ELSE o.at
    BY DEF Sampling
<1>3. Tracked(controller, "input", delivered)
    BY <1>1 DEF Inductive, Tracking, Looping
<1>4. /\ Bundled(controller) /\ Whole(controller) /\ controller.timeline # None
      /\ clock \in ClockType /\ delivered \in FrameType \cup {None}
      /\ expected \in ExpectedType \cup {None} /\ controller.timeline.offset \in Offsets
    BY <1>3, LoopTypes DEF Inductive, Tracked
<1>5. Stepped(controller, o)
    BY <1>2, <1>4, AdvanceFrameGives DEF Inductive
<1>6. /\ Bundled(controller') /\ controller' \in ControllerType /\ Ordered(controller', clock')
      /\ clock' \in ClockType /\ clock'.now >= clock'.last
      /\ loop' \in {"advanced", "lost", "refused"}
    BY <1>2, <1>5 DEF Stepped, Bundled, Whole
<1>7. ASSUME loop' = "advanced"
      PROVE  /\ Tracked(controller', "advanced", delivered)
             /\ Heeds(controller, controller'.lastFrame.time)
  <2>1. o.at = "sampled"
      BY <1>2, <1>5, <1>7 DEF Stepped
  <2>2. PICK sample \in SampleType : Framed(controller, controller', sample)
      BY <1>2, <1>5, <2>1 DEF Stepped
  <2>3. controller'.session = controller.session /\ controller'.replaced = controller.replaced
      BY <1>2, <1>5 DEF Stepped
  <2>4. Heeds(controller, controller'.lastFrame.time)
      BY <1>2, <1>5, <2>1 DEF Stepped
  <2>5. Tracked(controller', "advanced", delivered)
      BY <1>3, <1>4, <2>2, <2>3, FramedIsTracked
  <2> QED BY <2>4, <2>5
<1>8. Inductive'
    BY <1>1, <1>6, <1>7
       DEF Inductive, TypeOK, ClockType, Started, Remembered, Tracking, Awaiting, Looping
<1>9. Accepted
    BY <1>2, <1>5 DEF Accepted, Stepped
<1>10. Shown
  <2>1. ASSUME Samples, expected # None
        PROVE  /\ controller'.lastFrame.time >= expected.time
               /\ Undone /\ expected.rests => controller'.lastFrame.time = expected.time
    <3>1. Heeds(controller, controller'.lastFrame.time)
        BY <1>1, <1>7, <2>1 DEF Samples
    <3>2. expected.time >= 0 /\ Awaits(controller, expected) /\ expected \in ExpectedType
        BY <1>1, <1>4, <2>1 DEF Inductive, Awaiting, Looping
    <3> QED BY <1>4, <3>1, <3>2, HeededIsShown
  <2> QED BY <2>1 DEF Shown
<1> QED BY <1>1, <1>8, <1>9, <1>10 DEF Preserved, Forward

LEMMA DeliverIsSafe ==
    ASSUME Inductive, Deliver
    PROVE  Preserved
<1>1. loop = "advanced" /\ commands' = commands
    BY DEF Deliver
<1>2. PICK o \in Refreshed(controller, clock) :
          /\ clock' = o.clock
          /\ expected' = IF controller.replaced THEN None ELSE expected
          /\ \/ /\ \/ o.at # "sampled" /\ loop' = o.at
                   \/ /\ o.at = "sampled" /\ loop' = "refused"
                      /\ ~ValidFrame(o.controller.lastFrame, o.controller.session.last)
                /\ controller' = o.controller
                /\ UNCHANGED <<deliveredId, delivered>>
             \/ /\ o.at = "sampled"
                /\ delivered' = o.controller.lastFrame
                /\ deliveredId' = o.controller.lastFrame.id
                /\ loop' \in {"input", "not_presented"}
                /\ Takes(o.controller, controller')
    BY DEF Deliver, Takes
<1> DEFINE d == o.controller
<1>3. Tracked(controller, "advanced", delivered)
    BY <1>1 DEF Inductive, Tracking, Looping
<1>4. /\ Bundled(controller) /\ Whole(controller) /\ controller \in ControllerType
      /\ clock \in ClockType /\ clock.now >= clock.last /\ Ordered(controller, clock)
      /\ delivered \in FrameType \cup {None} /\ expected \in ExpectedType \cup {None}
      /\ delivered # None => deliveredId = delivered.id
    BY LoopTypes DEF Inductive, Remembered
<1>5. /\ controller.session \in SessionType /\ controller.timeline # None
      /\ controller.timeline.offset \in Offsets
    BY <1>3, <1>4, ControllerFacts DEF Tracked
<1>6. /\ Bundled(d) /\ Ordered(d, o.clock)
      /\ o.clock \in ClockType /\ o.clock.now >= o.clock.last
      /\ o.at \in {"sampled", "lost", "refused"}
      /\ Correction >= 0 => o.at # "refused"
      /\ o.at = "sampled" => Fresh(controller, d, delivered)
    BY <1>2, <1>3, <1>4, RefreshedGives
<1> HIDE DEF d
<1>7. d \in ControllerType /\ d.lastFrame \in FrameType /\ d.lastFrame # None
    BY <1>6, ControllerFacts, FrameFacts DEF Bundled, Whole
<1>8. /\ clock' = o.clock /\ expected' \in ExpectedType \cup {None}
      /\ controller.replaced => expected' = None
      /\ ~controller.replaced => expected' = expected
    BY <1>2, <1>4
<1>9. CASE /\ \/ o.at # "sampled" /\ loop' = o.at
              \/ /\ o.at = "sampled" /\ loop' = "refused"
                 /\ ~ValidFrame(d.lastFrame, d.session.last)
           /\ controller' = d
           /\ UNCHANGED <<deliveredId, delivered>>
  <2>0. loop' \in {"lost", "refused"}
      BY <1>6, <1>9
  <2>1. Inductive'
      BY <1>1, <1>4, <1>6, <1>7, <1>8, <1>9, <2>0
         DEF Inductive, TypeOK, ClockType, Started, Remembered, Tracking, Awaiting, Looping
  <2>2. delivered # None /\ Correction >= 0 => loop' # "refused"
      BY <1>6, <1>9 DEF Fresh
  <2>3. Accepted
      BY <1>9, <2>2 DEF Accepted
  <2> QED BY <1>9, <2>0, <2>1, <2>3 DEF Preserved, Forward, Shown, Samples
<1>10. CASE /\ o.at = "sampled" /\ loop' \in {"input", "not_presented"}
            /\ delivered' = d.lastFrame /\ deliveredId' = d.lastFrame.id
            /\ Takes(d, controller')
  <2>1. Fresh(controller, d, delivered)
      BY <1>6, <1>10
  <2>2. /\ Bundled(controller') /\ controller'.lastFrame = d.lastFrame
        /\ controller'.timeline = d.timeline /\ controller'.seat = d.seat
        /\ controller'.pending = d.pending
        /\ \A k : Ordered(d, k) => Ordered(controller', k)
        /\ Tracked(controller', "input", d.lastFrame)
      BY <1>5, <1>6, <1>10, <2>1, TakesGives
  <2>3. controller' \in ControllerType /\ Ordered(controller', clock')
      BY <1>6, <1>8, <2>2 DEF Bundled, Whole
  <2>4. delivered' \in FrameType /\ deliveredId' \in Nat /\ delivered' # None
      BY <1>7, <1>10, FrameFacts
  <2>5. expected' # None /\ loop' = "input" => expected'.time >= 0 /\ Awaits(controller', expected')
    <3>1. ASSUME ~controller.replaced, expected # None
          PROVE  expected.time >= 0 /\ Awaits(controller', expected)
      <4>1. expected.time >= 0 /\ Awaits(controller, expected)
          BY <1>1, <3>1 DEF Inductive, Awaiting, Looping
      <4>2. /\ controller'.timeline = controller.timeline /\ controller'.seat = controller.seat
            /\ controller'.pending = controller.pending
          BY <2>1, <2>2, <3>1 DEF Fresh
      <4> QED BY <4>1, <4>2 DEF Awaits
    <3> QED BY <1>8, <3>1
  <2>6. Inductive'
      BY <1>1, <1>6, <1>8, <1>10, <2>2, <2>3, <2>4, <2>5
         DEF Inductive, TypeOK, ClockType, Started, Remembered, Tracking, Awaiting, Looping
  <2>7. Forward
      BY <1>10, <2>1 DEF Forward, Fresh
  <2>8. Shown
    <3>1. ASSUME Samples, expected # None
          PROVE  /\ controller'.lastFrame.time >= expected.time
                 /\ Undone /\ expected.rests => controller'.lastFrame.time = expected.time
      <4>1. Heeds(controller, controller'.lastFrame.time)
          BY <1>1, <2>1, <2>2, <3>1 DEF Samples, Fresh
      <4>2. expected.time >= 0 /\ Awaits(controller, expected) /\ expected \in ExpectedType
          BY <1>1, <1>4, <3>1 DEF Inductive, Awaiting, Looping
      <4> QED BY <1>4, <1>5, <4>1, <4>2, HeededIsShown
    <3> QED BY <3>1 DEF Shown
  <2> QED BY <1>10, <2>6, <2>7, <2>8 DEF Preserved, Accepted
<1> QED BY <1>2, <1>9, <1>10 DEF d

LEMMA ShutdownIsSafe ==
    ASSUME Inductive, Shutdown
    PROVE  Preserved
<1> DEFINE c == controller
           b == DiscardClip(c, c.clip)
           d == [b EXCEPT !.app = "Empty", !.seat = None, !.clip = None]
<1>1. /\ controller' = d /\ loop = "input" /\ loop' = "closed"
      /\ UNCHANGED <<clock, deliveredId, delivered, expected, commands>>
    BY DEF Shutdown
<1>2. Whole(c) /\ c \in ControllerType /\ c.clip \in Clip \cup {None}
    BY LoopTypes, ControllerFacts
<1>3. Ordered(c, clock)
    BY DEF Inductive
<1> HIDE DEF c
<1>4. /\ b \in ControllerType /\ Unmoved(c, b) /\ b.store = c.store \ {c.clip}
    BY <1>2, Discarded
<1>5. b.store = {}
    BY <1>2, <1>4 DEF Whole, Clips
<1> HIDE DEF b
<1>6. /\ d \in ControllerType /\ d.app = "Empty" /\ d.seat = None /\ d.clip = None /\ d.store = {}
      /\ d.session = b.session /\ d.mode = b.mode /\ d.timeline = b.timeline
      /\ d.chartClock = b.chartClock /\ d.lastFrame = b.lastFrame /\ d.pending = b.pending
    BY <1>4, <1>5 DEF ControllerType, PlayerAppState
<1> HIDE DEF d
<1>7. /\ d.session = c.session /\ d.mode = c.mode /\ d.timeline = c.timeline
      /\ d.chartClock = c.chartClock /\ d.lastFrame = c.lastFrame /\ d.pending = c.pending
    BY <1>4, <1>6 DEF Unmoved
<1>8. Bundled(d)
    BY <1>2, <1>6, <1>7 DEF Bundled, Whole, Clips
<1>9. Ordered(d, clock)
  <2> DEFINE e == [c EXCEPT !.seat = None]
  <2>1. e = [c EXCEPT !.seat = None]
      OBVIOUS
  <2> HIDE DEF e
  <2>2. /\ e.seat = None /\ e.mode = c.mode /\ e.timeline = c.timeline
        /\ e.chartClock = c.chartClock /\ e.pending = c.pending
      BY <1>2, <2>1 DEF ControllerType
  <2>3. Ordered(e, clock)
      BY <1>2, <1>3, <2>1, ClosedIsWhole
  <2> QED BY <1>6, <1>7, <2>2, <2>3 DEF Ordered
<1>10. Inductive'
    BY <1>1, <1>6, <1>8, <1>9
       DEF Inductive, TypeOK, Started, Remembered, Tracking, Awaiting, Looping
<1> QED BY <1>1, <1>10 DEF Preserved, Forward, Accepted, Shown, Samples

LEMMA StepsAreSafe ==
    ASSUME Inductive, [Next]_vars
    PROVE  Preserved
<1>1. CASE \E content \in Content : \E mode \in PlaybackMode : StartUp(content, mode)
    BY <1>1, StartUpIsSafe
<1>2. CASE \E command \in Command : Issue(command)
    BY <1>2, IssueIsSafe
<1>3. CASE Sampling
    BY <1>3, SamplingIsSafe
<1>4. CASE Deliver
    BY <1>4, DeliverIsSafe
<1>5. CASE Shutdown
    BY <1>5, ShutdownIsSafe
<1>6. CASE UNCHANGED vars
  <2>1. Inductive'
      BY <1>6 DEF vars, Inductive, TypeOK, Started, Remembered, Tracking, Awaiting, Looping
  <2> QED BY <1>6, <2>1 DEF vars, Preserved, Forward, Accepted, FramesAreAccepted, Shown, Samples
<1> QED BY <1>1, <1>2, <1>3, <1>4, <1>5, <1>6 DEF Next

LEMMA InductiveIsInvariant ==
    Spec => []Inductive
<1>1. Inductive /\ [Next]_vars => Inductive'
    BY StepsAreSafe DEF Preserved
<1> QED BY InitIsInductive, <1>1, PTL DEF Spec

-----------------------------------------------------------------------------
(* Whatever the player is asked for and whatever fails under it, its state *)
(* has the types of PlayerController's members.                            *)
THEOREM TypeCorrect ==
    Spec => []TypeOK
<1>1. Inductive => TypeOK
    BY DEF Inductive
<1> QED BY <1>1, InductiveIsInvariant, PTL

(* A transaction that fails at any stage leaves no clip behind, and a seat *)
(* plays the clip of its bundle (commitBundle, shutdown).                  *)
THEOREM ClipsAccounted ==
    Spec => []ClipsAreAccountedFor
<1>1. Inductive => ClipsAreAccountedFor
    BY DEF Inductive, Bundled, Whole, Clips, ClipsAreAccountedFor
<1> QED BY <1>1, InductiveIsInvariant, PTL

(* With a correction that does not move a stopped transport off its start, *)
(* a frame is refused only before the first was shown (advanceFrame,       *)
(* RuntimeTimeline::advance, validateFrame).                               *)
THEOREM FramesAccepted ==
    ASSUME Correction >= 0
    PROVE  Spec => []FramesAreAccepted
<1>1. Init => FramesAreAccepted
    BY DEF Init, FramesAreAccepted
<1>2. Inductive /\ FramesAreAccepted /\ [Next]_vars => FramesAreAccepted'
    BY StepsAreSafe DEF Preserved, Accepted, FramesAreAccepted
<1> QED BY <1>1, <1>2, InductiveIsInvariant, PTL DEF Spec

(* Across commands, bundles and clocks the session sees the chart go on in *)
(* a segment, and a jump only with a new identity and without simulation.  *)
THEOREM ForwardSegments ==
    Spec => SegmentsGoForward
<1>1. Inductive /\ [Next]_vars =>
          [delivered' # delivered /\ delivered # None =>
               /\ delivered'.id >= delivered.id
               /\ IF delivered'.id = delivered.id
                  THEN delivered'.delta <= delivered'.time - delivered.time
                  ELSE delivered'.delta = 0]_vars
    BY StepsAreSafe DEF Preserved, Forward, Continues
<1> QED BY <1>1, InductiveIsInvariant, PTL DEF Spec, SegmentsGoForward

(* The frame after a seek shows its target, unless a correction and a      *)
(* start of the music after the start of the chart meet: then a target     *)
(* before the music is accepted, and the start is shown (SeekAudio).       *)
THEOREM SeekShown ==
    ASSUME Correction <= 0 \/ \A content \in Content : content.offset >= 0
    PROVE  Spec => SeekIsShown
<1>1. Undone
    BY DEF Undone
<1>2. Inductive /\ [Next]_vars =>
          [Samples /\ expected # None =>
               /\ controller'.lastFrame.time >= expected.time
               /\ expected.rests => controller'.lastFrame.time = expected.time]_vars
    BY <1>1, StepsAreSafe DEF Preserved, Shown
<1> QED BY <1>2, InductiveIsInvariant, PTL DEF Spec, SeekIsShown

=============================================================================
