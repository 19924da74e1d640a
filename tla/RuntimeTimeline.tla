--------------------------- MODULE RuntimeTimeline ---------------------------
(***************************************************************************)
(* cuexis::playback::RuntimeTimeline turns samples of a source clock into  *)
(* the RuntimeFrames a session is updated with; ChartClock is the source   *)
(* clock of content without a track.  A time is an integer, and finite.    *)
(***************************************************************************)
EXTENDS Integers

Sample(position, state, id) == [position |-> position, state |-> state, id |-> id]
Frame(time, delta, id) == [time |-> time, delta |-> delta, id |-> id]

(* validateSourceClockSample.                                              *)
ValidSample(sample) ==
    /\ sample.state # "Empty"
    /\ sample.state = "Stopped" => sample.position = 0

Timeline(offset) ==
    [offset |-> offset, initialized |-> FALSE, previous |-> Sample(0, "Empty", 0),
     id |-> 0, pending |-> FALSE]

Reset(timeline, offset) ==
    [timeline EXCEPT !.offset = offset, !.pending = timeline.initialized]

Discontinuity(timeline, sample) ==
    \/ timeline.pending
    \/ timeline.initialized /\ timeline.previous.id # sample.id

Regresses(timeline, sample) ==
    /\ timeline.initialized
    /\ ~Discontinuity(timeline, sample)
    /\ sample.position < timeline.previous.position

Accepts(timeline, sample) ==
    /\ ValidSample(sample)
    /\ sample.state # "Error"
    /\ ~Regresses(timeline, sample)

Delta(timeline, sample) ==
    IF /\ timeline.initialized
       /\ ~Discontinuity(timeline, sample)
       /\ timeline.previous.state = "Playing"
       /\ sample.state = "Playing"
    THEN sample.position - timeline.previous.position ELSE 0

(* A sample that is accepted: the frame, and the timeline after it.        *)
Advance(timeline, sample) ==
    LET id == IF Discontinuity(timeline, sample) THEN timeline.id + 1 ELSE timeline.id
    IN  [frame |-> Frame(sample.position - timeline.offset, Delta(timeline, sample), id),
         timeline |-> [timeline EXCEPT !.initialized = TRUE, !.previous = sample,
                                    !.id = id, !.pending = FALSE]]

(* ChartClock::sample, whose state is Playing whatever the player does.    *)
ChartSample(time, offset, id) == Sample(time + offset, "Playing", id)
=============================================================================
