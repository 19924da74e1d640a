-------------------------- MODULE SdlAudioTransport --------------------------
(***************************************************************************)
(* cuexis::audio_sdl::SdlAudioTransport.  An owner thread commands the     *)
(* transport and calls service, which keeps an SDL stream filled and       *)
(* estimates the frame that is heard.  The device thread takes a buffer    *)
(* from the stream, or silence when the stream is empty, and counts it in  *)
(* a postmix callback.  Any SDL call may fail.                             *)
(*                                                                         *)
(* A handler of the owner is one step: SDL serialises its calls with the   *)
(* device thread, and the handler reads the callback's counter once (twice *)
(* in a row at an underrun).  All it publishes on the way is kept, for     *)
(* another thread may see any of it.  Device and clips have the same rate, *)
(* and a position is its frame.                                            *)
(***************************************************************************)
EXTENDS Integers, Sequences, FiniteSetsExt

CONSTANTS
    Clip,          \* the clips registered in the AudioClipStore
    Length,        \* frameCount of each clip
    TargetFrames,  \* targetQueueMs, in frames
    LowWater,      \* refillLowWaterMs, in frames
    DeviceBuffer,  \* deviceBufferFrames, what the device mixes at a time
    MaxCommands,   \* BOUND on the owner's commands
    MaxSilence,    \* BOUND on what is mixed in a segment when nothing is queued
    None

ASSUME TransportAssumption ==
    /\ Length \in [Clip -> Nat \ {0}]
    /\ LowWater \in Nat \ {0}
    /\ TargetFrames \in Nat
    /\ LowWater < TargetFrames
    /\ DeviceBuffer \in Nat \ {0}
    /\ MaxCommands \in Nat
    /\ MaxSilence \in Nat
    /\ None \notin Clip \cup [clip: Clip, frame: Nat] \cup [clip: Clip, position: Nat]

PlaybackState == {"Empty", "Stopped", "Playing", "Paused", "Ended", "Error"}

VARIABLES
    transport, \* Impl, the stream and device it owns, and what it published
    commands   \* the commands given so far

vars == <<transport, commands>>

(* publish: without a clip there is no sample rate, and no position.       *)
Snapshot(s) ==
    [position |-> IF s.clip = None THEN 0 ELSE s.presented,
     state |-> s.state, discontinuity |-> s.discontinuity]
Publish(s) == [s EXCEPT !.published = Append(@, Snapshot(s))]

(* published is what the last handler published, after the snapshot that   *)
(* was there before; inFlight is mixed by a callback that has not counted. *)
New ==
    [state |-> "Empty", clip |-> None, replacement |-> None,
     segmentStart |-> 0, submitted |-> 0, presented |-> 0, baseline |-> 0,
     episode |-> FALSE, discontinuity |-> 0,
     queue |-> 0, running |-> FALSE, mixed |-> 0, inFlight |-> 0,
     published |-> <<[position |-> 0, state |-> "Empty", discontinuity |-> 0]>>]

Init == transport = New /\ commands = 0

(* The transport as a handler finds it, with nothing published yet.        *)
Entered == [transport EXCEPT !.published = <<@[Len(@)]>>]

Frames(s) == Length[s.clip]
Advance(s) == [s EXCEPT !.discontinuity = @ + 1]

-----------------------------------------------------------------------------
(* Destroying the stream waits for the callback.                           *)
CloseStream(s) ==
    [s EXCEPT !.clip = None, !.queue = 0, !.running = FALSE, !.mixed = 0,
              !.inFlight = 0, !.baseline = 0]

(* A bug: the stream is not cleared.                                       *)
BeginSegmentUncleared(s, frame) ==
    [s EXCEPT !.segmentStart = frame, !.submitted = frame, !.presented = frame,
              !.mixed = 0, !.baseline = 0, !.running = FALSE]

(* The segment that begins at frame: the stream is paused and cleared, but *)
(* a callback in flight still counts.                                      *)
BeginSegment(s, frame) ==
    [s EXCEPT !.segmentStart = frame, !.submitted = frame, !.presented = frame,
              !.mixed = 0, !.baseline = 0, !.queue = 0, !.running = FALSE]

OpenLease(s, clip, frame) ==
    Publish(Advance([BeginSegment(s, frame) EXCEPT
                        !.clip = clip, !.episode = FALSE, !.state = "Stopped"]))

(* The frame that is heard: what was mixed in the segment, less one device *)
(* buffer, not before the last estimate and not beyond what was submitted. *)
Estimate(s) ==
    LET elapsed == Max({0, s.mixed - s.baseline - DeviceBuffer})
        bound == Min({s.submitted, Frames(s)})
    IN  Min({Max({s.segmentStart + elapsed, Min({s.presented, bound})}), bound})

(* A bug: the end is one frame too late.                                   *)
UpdatePresentedPastEnd(s) ==
    IF s.clip = None \/ s.state # "Playing" THEN s
    ELSE IF Estimate(s) > Frames(s)
         THEN [s EXCEPT !.presented = Frames(s), !.state = "Ended", !.running = FALSE]
         ELSE [s EXCEPT !.presented = Estimate(s)]

(* updatePresentedFrame; the result of its pause is ignored.               *)
UpdatePresented(s) ==
    IF s.clip = None \/ s.state # "Playing" THEN s
    ELSE IF Estimate(s) >= Frames(s)
         THEN [s EXCEPT !.presented = Frames(s), !.state = "Ended", !.running = FALSE]
         ELSE [s EXCEPT !.presented = Estimate(s)]

EnterError(s) ==
    IF s.state = "Error" THEN s
    ELSE Publish(Advance([UpdatePresented(s) EXCEPT !.state = "Error", !.running = FALSE]))

-----------------------------------------------------------------------------
(* service while Playing: an underrun rebases the estimate, and a queue    *)
(* below the low-water mark is filled up to the target.                    *)
Underrun(s) ==
    /\ s.queue = 0
    /\ s.submitted < Frames(s)
    /\ ~s.episode
    /\ s.submitted > s.presented

Rebased(s) ==
    IF Underrun(s)
    THEN LET u == UpdatePresented(s)
         IN  [u EXCEPT !.segmentStart = u.presented, !.baseline = u.mixed, !.episode = TRUE]
    ELSE s

NeedsFrames(s) == s.queue < LowWater /\ s.submitted < Frames(s)

Refilled(s) ==
    IF NeedsFrames(s)
    THEN LET frames == Min({Frames(s) - s.submitted, TargetFrames - s.queue})
         IN  [s EXCEPT !.submitted = @ + frames, !.queue = @ + frames, !.episode = FALSE]
    ELSE s

(* The outcomes of service: the device or the queue cannot be queried, the  *)
(* write fails, or all goes well.                                          *)
Serviced(s) == {Publish(UpdatePresented(t)) : t \in {Refilled(r) : r \in {Rebased(s)}}}
ServiceFailures(s) ==
    {EnterError(s)} \cup {EnterError(r) : r \in {Rebased(t) : t \in {t \in {s} : NeedsFrames(t)}}}

(* The end of play, seekMs and activateReplacement: service, and resume    *)
(* the device.                                                             *)
Started(s) ==
    ServiceFailures(s) \cup
        UNION {{EnterError(t), Publish([t EXCEPT !.running = TRUE])} : t \in Serviced(s)}

ServiceSucceeds ==
    /\ transport.state = "Playing"
    /\ transport' \in UNION {Serviced(s) : s \in {Entered}}
    /\ UNCHANGED commands
ServiceFails ==
    /\ transport.state = "Playing"
    /\ transport' \in UNION {ServiceFailures(s) : s \in {Entered}}
    /\ UNCHANGED commands
ServicePublishes ==
    /\ transport.state \notin {"Playing", "Error"}
    /\ transport' = Publish(Entered)
    /\ UNCHANGED commands

Service == ServiceSucceeds \/ ServiceFails \/ ServicePublishes

-----------------------------------------------------------------------------
Load(clip) ==
    /\ transport.state = "Empty"
    /\ transport' \in {OpenLease(Entered, clip, 0), EnterError(Entered)}

Play ==
    /\ transport.state \in {"Stopped", "Paused"}
    /\ transport' \in Started([Entered EXCEPT !.state = "Playing"])

Pause ==
    /\ transport.state = "Playing"
    /\ LET u == UpdatePresented(Entered)
       IN  transport' \in
               {EnterError(u), Publish([u EXCEPT !.state = "Paused", !.running = FALSE])}

Stop ==
    /\ transport.state \notin {"Empty", "Error"}
    /\ ~(transport.state = "Stopped" /\ transport.presented = 0)
    /\ LET s == [BeginSegment(Entered, 0) EXCEPT !.state = "Stopped"]
           changed == transport.presented # 0 \/ transport.submitted # 0
       IN  transport' \in
               {EnterError(Entered), Publish(IF changed THEN Advance(s) ELSE s)}

(* A bug: a seek that moves does not begin a discontinuity.                *)
SeekInSegment(frame) ==
    /\ transport.clip # None
    /\ transport.state \notin {"Empty", "Error"}
    /\ LET wasPlaying == transport.state = "Playing"
           target == [BeginSegment(Entered, frame) EXCEPT
                         !.state = IF wasPlaying THEN "Playing" ELSE "Paused"]
       IN  transport' \in
               {EnterError(Entered)} \cup IF wasPlaying THEN Started(target) ELSE {Publish(target)}

Seek(frame) ==
    /\ transport.clip # None
    /\ transport.state \notin {"Empty", "Error"}
    /\ LET wasPlaying == transport.state = "Playing"
           moved == [BeginSegment(Entered, frame) EXCEPT
                        !.state = IF wasPlaying THEN "Playing" ELSE "Paused"]
           target == IF frame # transport.presented THEN Advance(moved) ELSE moved
       IN  transport' \in
               {EnterError(Entered)} \cup IF wasPlaying THEN Started(target) ELSE {Publish(target)}

Unload ==
    /\ transport.state # "Empty"
    /\ transport' = Publish(Advance([BeginSegment(CloseStream(Entered), 0) EXCEPT
                                        !.replacement = None, !.state = "Empty"]))

PrepareReplacement(clip, frame) ==
    /\ transport.clip # None
    /\ transport.state \notin {"Empty", "Error"}
    /\ transport' = [Entered EXCEPT !.replacement = [clip |-> clip, frame |-> frame]]

ActivateReplacement ==
    /\ transport.replacement # None
    /\ LET wasPlaying == transport.state = "Playing"
           replacement == transport.replacement
           closed == [CloseStream(Entered) EXCEPT !.replacement = None]
           opened == OpenLease(closed, replacement.clip, replacement.frame)
       IN  transport' \in
               {EnterError(closed)} \cup
               IF wasPlaying THEN Started([opened EXCEPT !.state = "Playing"])
               ELSE {Publish([opened EXCEPT !.state = "Paused"])}

CancelReplacement ==
    /\ transport.replacement # None
    /\ transport' = [Entered EXCEPT !.replacement = None]

(* recheckBoundDevice meets a device that is gone or has changed.          *)
RecheckFails ==
    /\ transport.state # "Error"
    /\ transport' = EnterError(Entered)

Command ==
    /\ commands < MaxCommands
    /\ commands' = commands + 1
    /\ \/ \E clip \in Clip : Load(clip)
       \/ Play
       \/ Pause
       \/ Stop
       \/ transport.clip # None /\ \E frame \in 0 .. Frames(transport) : Seek(frame)
       \/ Unload
       \/ \E clip \in Clip : \E frame \in 0 .. Length[clip] : PrepareReplacement(clip, frame)
       \/ ActivateReplacement
       \/ CancelReplacement
       \/ RecheckFails

-----------------------------------------------------------------------------
(* SDL's device thread: a buffer is taken from the stream, what is missing *)
(* is silence; then the callback counts the buffer.                        *)
Mix ==
    /\ transport.running
    /\ transport.inFlight = 0
    /\ transport.queue > 0 \/ transport.mixed - transport.baseline < MaxSilence
    /\ transport' = [transport EXCEPT !.queue = Max({0, @ - DeviceBuffer}),
                                      !.inFlight = DeviceBuffer]
    /\ UNCHANGED commands

Postmix ==
    /\ transport.inFlight > 0
    /\ transport' = [transport EXCEPT !.mixed = @ + transport.inFlight, !.inFlight = 0]
    /\ UNCHANGED commands

Next == Command \/ Service \/ Mix \/ Postmix

(* The frame loop calls service in every frame, and SDL's thread runs.     *)
(* Nothing makes a call of SDL fail.                                       *)
Fairness == WF_vars(ServiceSucceeds) /\ WF_vars(Mix) /\ WF_vars(Postmix)

Spec == Init /\ [][Next]_vars /\ Fairness

-----------------------------------------------------------------------------
(***************************************************************************)
(* Type correctness.                                                       *)
(***************************************************************************)
SnapshotType == [position: Nat, state: PlaybackState, discontinuity: Nat]
Replacement == UNION {[clip: {clip}, frame: 0 .. Length[clip]] : clip \in Clip}
TypeOK ==
    /\ transport \in
           [state: PlaybackState, clip: Clip \cup {None}, replacement: Replacement \cup {None},
            segmentStart: Nat, submitted: Nat, presented: Nat, baseline: Nat,
            episode: BOOLEAN, discontinuity: Nat, queue: 0 .. TargetFrames, running: BOOLEAN,
            mixed: Nat, inFlight: {0, DeviceBuffer}, published: Seq(SnapshotType)]
    /\ commands \in 0 .. MaxCommands

(* The estimate stays between the beginning of the segment and what was    *)
(* submitted, and what is queued was submitted in this segment: the range  *)
(* clamp of ADR 0012, whatever is in flight when a segment begins.         *)
PresentedWithinSubmitted ==
    transport.clip # None =>
        /\ transport.segmentStart <= transport.presented
        /\ transport.presented <= transport.submitted
        /\ transport.submitted <= Frames(transport)
        /\ transport.queue <= transport.submitted - transport.segmentStart

(* A position goes back only with a new discontinuity, and a transport     *)
(* that rests does not move without one (SourceClockSample, and the        *)
(* discontinuity rules of ADR 0012): in everything any handler publishes.  *)
SegmentIsMonotone ==
    \A i \in 1 .. Len(transport.published) - 1 :
        LET old == transport.published[i]
            new == transport.published[i + 1]
        IN  new.discontinuity = old.discontinuity =>
                /\ new.position >= old.position
                /\ old.state # "Playing" /\ new.state \in {"Empty", "Stopped", "Paused"}
                       => new.position = old.position

(* A Playing transport whose owner keeps calling service ends, fails or is *)
(* commanded to something else.                                            *)
PlayingEnds == transport.state = "Playing" ~> transport.state # "Playing"

(* Without the queue and the device thread it is the transport that the    *)
(* player is written against: every step of the owner is a call of         *)
(* AudioTransport, and the device thread does nothing the owner could see. *)
Seat ==
    [state |-> transport.state, position |-> Snapshot(transport).position,
     discontinuity |-> transport.discontinuity, clip |-> transport.clip,
     replacement |->
         IF transport.replacement = None THEN None
         ELSE [clip |-> transport.replacement.clip, position |-> transport.replacement.frame]]
Abstract == INSTANCE AudioTransport WITH seat <- Seat
ImplementsAudioTransport == Abstract!Spec

(* What is heard was mixed: "an underrun freezes at the last representable *)
(* source position, and continues from the same position after data was    *)
(* supplied" (ADR 0012, docs/adr/0012-use-sdl3-audio-backend.md:107).      *)
NeverAheadOfDevice ==
    transport.clip # None => transport.presented <= transport.submitted - transport.queue
=============================================================================
