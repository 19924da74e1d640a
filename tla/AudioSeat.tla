------------------------------ MODULE AudioSeat ------------------------------
(***************************************************************************)
(* What the owner of a cuexis::audio::IAudioTransport can tell of it: the  *)
(* state, the position and the discontinuity of its snapshot, the clip it  *)
(* plays and the replacement it holds prepared.  Each operator is a call:  *)
(* it gives the set of outcomes of the call on the transport s, with       *)
(* whether the call succeeded.  Queue, device and stream are gone: a       *)
(* Playing transport is somewhere further on, and any call may fail.       *)
(* AudioTransport makes a state machine of the calls; SdlAudioTransport    *)
(* is shown to implement that machine, and PlayerController uses the calls.*)
(***************************************************************************)
EXTENDS Integers

CONSTANTS
    Clip,          \* the clip handles of the AudioClipStore
    Length,        \* the duration of each clip
    None

PlaybackState == {"Empty", "Stopped", "Playing", "Paused", "Ended", "Error"}

Ok(s) == [ok |-> TRUE, seat |-> s]
Fail(s) == [ok |-> FALSE, seat |-> s]

New == [state |-> "Empty", position |-> 0, discontinuity |-> 0,
        clip |-> None, replacement |-> None]

Heard(s) == IF s.state = "Playing" THEN s.position .. Length[s.clip] ELSE {s.position}

(* enterError: a playing transport first takes the position it has reached.*)
Errors(s) ==
    IF s.state = "Error" THEN {Fail(s)}
    ELSE {Fail([s EXCEPT !.state = "Error", !.discontinuity = @ + 1, !.position = p])
             : p \in Heard(s)}

(* A successful service: at the end of the clip the transport has Ended.   *)
Moved(s) ==
    IF s.state # "Playing" THEN {s}
    ELSE {[s EXCEPT !.position = p, !.state = IF p = Length[s.clip] THEN "Ended" ELSE "Playing"]
             : p \in Heard(s)}

Succeeds(s) == {Ok(t) : t \in Moved(s)}

Service(s) ==
    IF s.state = "Playing" THEN Succeeds(s) \cup Errors(s)
    ELSE IF s.state = "Error" THEN {Fail(s)} ELSE {Ok(s)}

(* The device is gone or has another identity.                             *)
RecheckBoundDevice(s) == {Ok(s)} \cup Errors(s)

Load(s, clip) ==
    IF s.state # "Empty" THEN {Fail(s)}
    ELSE {Ok([s EXCEPT !.clip = clip, !.state = "Stopped", !.position = 0,
                       !.discontinuity = @ + 1])} \cup Errors(s)

Play(s) ==
    CASE s.state = "Playing" -> {Ok(s)}
      [] s.state \in {"Stopped", "Paused"} ->
             UNION {Succeeds(t) \cup Errors(t) : t \in {[s EXCEPT !.state = "Playing"]}}
      [] OTHER -> {Fail(s)}

Pause(s) ==
    CASE s.state = "Paused" -> {Ok(s)}
      [] s.state = "Playing" ->
             {Ok([s EXCEPT !.state = "Paused", !.position = p]) : p \in Heard(s)} \cup Errors(s)
      [] OTHER -> {Fail(s)}

(* A segment at 0 that submitted no frame yet keeps its discontinuity.     *)
Stop(s) ==
    CASE s.state \in {"Empty", "Error"} -> {Fail(s)}
      [] s.state = "Stopped" /\ s.position = 0 -> {Ok(s)}
      [] OTHER ->
             {Ok([s EXCEPT !.state = "Stopped", !.position = 0, !.discontinuity = d])
                 : d \in IF s.position = 0 THEN {s.discontinuity, s.discontinuity + 1}
                         ELSE {s.discontinuity + 1}} \cup Errors(s)

SeekMs(s, target) ==
    IF s.clip = None \/ s.state \in {"Empty", "Error"} \/ target \notin 0 .. Length[s.clip]
    THEN {Fail(s)}
    ELSE LET moved == [s EXCEPT !.position = target,
                                !.state = IF @ = "Playing" THEN "Playing" ELSE "Paused",
                                !.discontinuity = IF target = s.position THEN @ ELSE @ + 1]
         IN  Succeeds(moved) \cup Errors(s)
             \cup (IF s.state = "Playing" THEN Errors(moved) ELSE {})

Unload(s) ==
    IF s.state = "Empty" THEN {Ok(s)}
    ELSE {Ok([New EXCEPT !.discontinuity = s.discontinuity + 1])}

PrepareReplacement(s, clip, position) ==
    IF s.clip = None \/ s.state \in {"Empty", "Error"} \/ position \notin 0 .. Length[clip]
    THEN {Fail(s)}
    ELSE {Ok([s EXCEPT !.replacement = [clip |-> clip, position |-> position]])}

CancelReplacement(s) == {Ok([s EXCEPT !.replacement = None])}

(* The old stream is closed before the new one opens: a failure leaves no  *)
(* clip.                                                                   *)
ActivateReplacement(s) ==
    IF s.replacement = None THEN {Fail(s)}
    ELSE LET closed == [s EXCEPT !.clip = None, !.position = 0, !.replacement = None]
             opened == [s EXCEPT !.clip = s.replacement.clip, !.replacement = None,
                                 !.position = s.replacement.position,
                                 !.discontinuity = @ + 1,
                                 !.state = IF @ = "Playing" THEN "Playing" ELSE "Paused"]
         IN  {Fail([closed EXCEPT !.state = "Error",
                                  !.discontinuity = IF s.state = "Error" THEN @ ELSE @ + 1])}
             \cup Succeeds(opened)
             \cup (IF s.state = "Playing" THEN Errors(opened) ELSE {})
=============================================================================
