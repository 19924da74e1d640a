---------------------------- MODULE AudioTransport ----------------------------
(***************************************************************************)
(* What an audio transport promises its owner, one action per call: the    *)
(* calls of AudioSeat on one transport.  SdlAudioTransport implements it,  *)
(* with a stream, a queue and a device thread.                             *)
(***************************************************************************)
EXTENDS AudioSeat

VARIABLE seat

Init == seat = New

Outcome(outcomes) == \E o \in outcomes : seat' = o.seat

Next ==
    \/ Outcome(Service(seat))
    \/ Outcome(RecheckBoundDevice(seat))
    \/ \E clip \in Clip : Outcome(Load(seat, clip))
    \/ Outcome(Play(seat))
    \/ Outcome(Pause(seat))
    \/ Outcome(Stop(seat))
    \/ seat.clip # None /\ \E target \in 0 .. Length[seat.clip] : Outcome(SeekMs(seat, target))
    \/ Outcome(Unload(seat))
    \/ \E clip \in Clip : \E position \in 0 .. Length[clip] :
           Outcome(PrepareReplacement(seat, clip, position))
    \/ Outcome(CancelReplacement(seat))
    \/ Outcome(ActivateReplacement(seat))

Spec == Init /\ [][Next]_seat
=============================================================================
