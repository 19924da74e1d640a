--------------------------- MODULE PlayerController ---------------------------
(***************************************************************************)
(* The player: PlayerController, which owns the active bundle (session,    *)
(* timeline, chart clock, audio seat and clip) and is the one entry for    *)
(* commands, and runPlayerFrameLoop, which samples the active clock and    *)
(* gives the session one frame in every iteration.                         *)
(*                                                                         *)
(* Commands come from the input of an iteration or from its hooks, any     *)
(* number of them.  Source, renderer, clip and device may fail in every    *)
(* transaction.  One thread runs it all, so an operator below is one       *)
(* handler from entry to return.  Times are in units of the model.         *)
(***************************************************************************)
EXTENDS AudioSeat, RuntimeTimeline

CONSTANTS
    Content,     \* what a source can hold: [music: BOOLEAN, offset: timingOffsetMs]
    Correction,  \* outputCorrectionUs of the audio device profile
    MaxTime,     \* BOUND on seek targets and on the wall clock of PlayerClock
    MaxCommands  \* BOUND on the commands

ASSUME PlayerAssumption ==
    /\ Content \subseteq [music: BOOLEAN, offset: Int]
    /\ Correction \in Int
    /\ MaxTime \in Nat
    /\ MaxCommands \in Nat
    /\ Length \in [Clip -> Nat]
    /\ None \notin Clip

PlayerAppState == {"Empty", "Loaded", "Playing", "Paused", "Stopped", "Failed"}
PlaybackMode == {"ChartClock", "HostClock", "CuexisAudio"}

VARIABLES
    controller,  \* PlayerController
    clock,       \* PlayerClock: the chart time it would give now, and gave last
    loop,        \* where the frame loop is
    deliveredId, \* deliveredDiscontinuityId, a local of the iteration
    delivered,   \* the last frame that a session took
    expected,    \* the seek that the next frame must show
    commands     \* the commands so far

vars == <<controller, clock, loop, deliveredId, delivered, expected, commands>>

Init ==
    /\ controller = [app |-> "Empty", session |-> None, mode |-> "ChartClock",
                     timeline |-> None, chartClock |-> 0, seat |-> None, clip |-> None,
                     store |-> {}, lastFrame |-> Frame(0, 0, 0), lastSource |-> 0,
                     resume |-> 0, pending |-> None, replaced |-> FALSE]
    /\ clock = [now |-> 0, last |-> 0]
    /\ loop = "starting"
    /\ deliveredId = 0
    /\ delivered = None
    /\ expected = None
    /\ commands = 0

Done(c) == [ok |-> TRUE, controller |-> c]
Rejected(c) == [ok |-> FALSE, controller |-> c]
Failed(c) == Rejected([c EXCEPT !.app = "Failed"])

UsesTransport(c) == c.mode = "CuexisAudio" /\ c.seat # None

-----------------------------------------------------------------------------
(* The command table.                                                      *)
Allowed(app, kind) ==
    \/ kind \in {"Load", "Rebuild"}
    \/ /\ app \notin {"Empty", "Failed"}
       /\ kind = "Play" => app # "Playing"
       /\ kind = "Pause" => app = "Playing"
       /\ kind = "Stop" => app # "Stopped"

Published(app, kind) ==
    CASE kind = "Load" -> "Loaded"
      [] kind = "Rebuild" -> IF app = "Failed" THEN "Loaded" ELSE app
      [] kind = "Play" -> "Playing"
      [] kind = "Pause" -> "Paused"
      [] kind = "Stop" -> "Stopped"
      [] kind \in {"Seek", "Reload"} -> app

ObserveTransport(c) ==
    [c EXCEPT !.lastSource = c.seat.position,
              !.app = CASE c.seat.state = "Error" /\ @ # "Empty" -> "Failed"
                        [] c.seat.state = "Ended" /\ @ = "Playing" -> "Stopped"
                        [] OTHER -> @]

-----------------------------------------------------------------------------
(* Content with music needs a clock that is not the chart's, and content   *)
(* without needs the chart's.                                              *)
Matches(mode, content) == content.music <=> mode # "ChartClock"

(* A bug: the identities of the timeline begin again.                      *)
FreshTimeline(c, offset) == Timeline(offset)

NextTimeline(c, offset) ==
    IF c.timeline = None THEN Timeline(offset) ELSE Reset(c.timeline, offset)

(* A bug: the clip of a refused bundle stays registered.                   *)
DiscardNothing(c, clip) == c

DiscardClip(c, clip) == IF clip = None THEN c ELSE [c EXCEPT !.store = @ \ {clip}]

DeviceChanges(c, mode) ==
    IF mode = "CuexisAudio" THEN c.seat = None \/ c.mode # mode ELSE c.seat # None

(* openAudio: a new seat with the clip loaded, at the start position.      *)
Opened(clip, start) ==
    UNION {IF o.ok /\ start > 0 THEN SeekMs(o.seat, start) ELSE {o} : o \in Load(New, clip)}

(* Steps 2 and 3: the clip is registered and, on the same device, staged.  *)
(* Each item is the controller and its new clip when the prechecks pass.   *)
Prepared(c, mode, start) ==
    IF mode # "CuexisAudio" THEN {[controller |-> c, clip |-> None]}
    ELSE UNION {
        LET registered == [c EXCEPT !.store = @ \cup {clip}]
        IN  IF DeviceChanges(c, mode) THEN {[controller |-> registered, clip |-> clip]}
            ELSE {[controller |-> [registered EXCEPT !.seat = o.seat], clip |-> clip]
                     : o \in {o \in PrepareReplacement(c.seat, clip, start) : o.ok}}
        : clip \in Clip \ c.store}

(* Step 6.  The session keeps the frame it was prepared with.              *)
Publish(c, seat, clip, content, mode, restart, fresh) ==
    LET time == IF restart THEN 0 ELSE c.lastFrame.time
    IN  [c EXCEPT
            !.session = [last |-> IF fresh THEN None ELSE [c.lastFrame EXCEPT !.delta = 0,
                                                                              !.time = time]],
            !.timeline = NextTimeline(c, content.offset),
            !.chartClock = 0,
            !.mode = mode,
            !.pending = IF mode = "ChartClock" THEN time ELSE None,
            !.resume = IF mode = "ChartClock" THEN time ELSE 0,
            !.lastSource = IF restart THEN 0 ELSE @,
            !.seat = seat,
            !.clip = clip,
            !.store = IF c.clip = clip THEN @ ELSE @ \ {c.clip},
            !.replaced = TRUE]

(* Steps 4 and 5, for what steps 2 and 3 prepared.  session.commit checks  *)
(* what no command can have changed in between, and does not fail.         *)
Activated(p, content, mode, restart, fresh, start) ==
    LET c == p.controller
        outcomes == IF mode # "CuexisAudio" THEN {Ok(None)}
                    ELSE IF DeviceChanges(c, mode) THEN Opened(p.clip, start)
                    ELSE ActivateReplacement(c.seat)
        failedSeat(o) == IF DeviceChanges(c, mode) THEN c.seat ELSE o.seat
    IN  {IF o.ok THEN Done(Publish(c, o.seat, p.clip, content, mode, restart, fresh))
         ELSE Failed(DiscardClip([c EXCEPT !.seat = failedSeat(o)], p.clip)) : o \in outcomes}

(* A source that cannot be read or prepared, a candidate that the renderer *)
(* cannot prepare, a clip that cannot be decoded or staged leave c as it   *)
(* was; a precheck that fails leaves the replacement staged.               *)
CommitBundle(c, content, mode, restart, fresh) ==
    LET start == IF restart THEN 0 ELSE c.lastSource
        prepared == IF Matches(mode, content) THEN Prepared(c, mode, start) ELSE {}
    IN  {Rejected(c)}
        \cup {Rejected(DiscardClip(p.controller, p.clip)) : p \in prepared}
        \cup UNION {Activated(p, content, mode, restart, fresh, start) : p \in prepared}

RunLoad(c, content, mode) == CommitBundle(c, content, mode, TRUE, TRUE)

RunReload(c, content, restart) == CommitBundle(c, content, c.mode, restart, FALSE)

(* The seat is closed, and any failure after the renderer was rebuilt is a *)
(* failure of the application.                                             *)
RunRebuild(c, content) ==
    IF c.session = None
    THEN IF c.app = "Failed" THEN RunLoad(c, content, "ChartClock") ELSE {Rejected(c)}
    ELSE {Failed(c)} \cup
         {IF r.ok THEN r ELSE Failed(r.controller)
             : r \in CommitBundle([c EXCEPT !.seat = None], content, c.mode, FALSE, FALSE)}

Transport(c, outcomes) ==
    {IF o.ok THEN Done([c EXCEPT !.seat = o.seat]) ELSE Rejected([c EXCEPT !.seat = o.seat])
        : o \in outcomes}

SeekChartClock(c, target) ==
    Done([c EXCEPT !.pending = target, !.resume = target, !.chartClock = @ + 1])

(* A bug: the correction is not undone.                                    *)
SeekAudioUncorrected(c, target) ==
    LET source == target + c.timeline.offset
    IN  IF source < 0 THEN {Rejected(c)} ELSE Transport(c, SeekMs(c.seat, source))

(* reverseSeekSourcePositionUs.                                            *)
SeekAudio(c, target) ==
    LET source == target + c.timeline.offset + Correction
    IN  IF source < 0 THEN {Rejected(c)} ELSE Transport(c, SeekMs(c.seat, source))

RunPlay(c) ==
    IF UsesTransport(c) THEN Transport(c, Play(c.seat))
    ELSE {Done([c EXCEPT !.pending = c.resume, !.chartClock = @ + 1])}

RunPause(c) ==
    IF UsesTransport(c) THEN Transport(c, Pause(c.seat))
    ELSE {Done([c EXCEPT !.resume = c.lastFrame.time])}

RunStop(c) ==
    IF UsesTransport(c) THEN Transport(c, Stop(c.seat)) ELSE {SeekChartClock(c, 0)}

RunSeek(c, target) ==
    IF UsesTransport(c) THEN SeekAudio(c, target) ELSE {SeekChartClock(c, target)}

Run(c, command) ==
    CASE command.kind = "Load" -> RunLoad(c, command.content, command.mode)
      [] command.kind = "Reload" -> RunReload(c, command.content, command.restart)
      [] command.kind = "Rebuild" -> RunRebuild(c, command.content)
      [] command.kind = "Play" -> RunPlay(c)
      [] command.kind = "Pause" -> RunPause(c)
      [] command.kind = "Stop" -> RunStop(c)
      [] command.kind = "Seek" -> RunSeek(c, command.target)

(* Only a command that succeeds publishes a state of the table.            *)
Apply(c, command) ==
    IF ~Allowed(c.app, command.kind) THEN {Rejected(c)}
    ELSE {IF r.ok THEN Done([r.controller EXCEPT !.app = Published(c.app, command.kind)]) ELSE r
             : r \in Run(c, command)}

-----------------------------------------------------------------------------
Command ==
    [kind: {"Load"}, content: Content, mode: PlaybackMode]
    \cup [kind: {"Reload"}, content: Content, restart: BOOLEAN]
    \cup [kind: {"Rebuild"}, content: Content]
    \cup [kind: {"Play", "Pause", "Stop"}]
    \cup [kind: {"Seek"}, target: 0 .. MaxTime]

Rests(c) == IF c.seat # None THEN c.seat.state # "Playing" ELSE c.app # "Playing"

(* A command of the input or of a hook; its rejection is only logged.      *)
Issue(command) ==
    /\ loop \in {"input", "advanced"}
    /\ commands < MaxCommands
    /\ commands' = commands + 1
    /\ \E r \in Apply(controller, command) :
           /\ controller' = r.controller
           /\ expected' =
                  IF command.kind = "Seek" /\ r.ok
                  THEN [time |-> command.target, rests |-> Rests(controller)]
                  ELSE IF r.ok \/ r.controller.app = "Failed" THEN None ELSE expected
    /\ UNCHANGED <<clock, loop, deliveredId, delivered>>

(* run: the configured source is loaded and played before the first frame. *)
StartUp(content, mode) ==
    /\ loop = "starting"
    /\ \E r \in Apply(controller, [kind |-> "Load", content |-> content, mode |-> mode]) :
           IF ~r.ok THEN controller' = r.controller /\ loop' = "start_failed"
           ELSE \E p \in Apply(r.controller, [kind |-> "Play"]) :
                    /\ controller' = p.controller
                    /\ loop' = IF p.ok THEN "input" ELSE "start_failed"
    /\ UNCHANGED <<clock, deliveredId, delivered, expected, commands>>

-----------------------------------------------------------------------------
(* advanceFrame.  An outcome says what the frame loop does next.           *)
Outcome(at, c, k) == [at |-> at, controller |-> c, clock |-> k]

Sampled(c, k, sample) ==
    IF Accepts(c.timeline, sample)
    THEN LET a == Advance(c.timeline, sample)
         IN  Outcome("sampled", [c EXCEPT !.timeline = a.timeline, !.lastFrame = a.frame], k)
    ELSE Outcome("refused", c, k)

(* correctConsumedAudioPositionMs.                                         *)
Corrected(position) ==
    IF Correction = 0 THEN position
    ELSE IF position > Correction THEN position - Correction ELSE 0

SampleTransport(c, k) ==
    UNION {IF ~s.ok THEN {Outcome("lost", [c EXCEPT !.seat = s.seat], k)}
           ELSE {IF ~r.ok THEN Outcome("lost", [c EXCEPT !.seat = r.seat], k)
                 ELSE Sampled(ObserveTransport([c EXCEPT !.seat = r.seat]), k,
                              Sample(Corrected(r.seat.position), r.seat.state,
                                     r.seat.discontinuity))
                    : r \in RecheckBoundDevice(s.seat)}
           : s \in Service(c.seat)}

(* PlayerClock: time passes between two samples whether or not it is used. *)
SampleChartClock(c, k) ==
    LET sample(time) == ChartSample(time, c.timeline.offset, c.chartClock)
    IN  {IF c.pending # None
         THEN Sampled([c EXCEPT !.pending = None],
                      [now |-> c.pending, last |-> c.pending], sample(c.pending))
         ELSE IF c.app = "Playing"
         THEN Sampled(c, [now |-> now, last |-> now], sample(now))
         ELSE Sampled(c, [k EXCEPT !.now = now], sample(k.last))
            : now \in {k.now} \cup {n \in {k.now + 1} : n <= MaxTime}}

AdvanceFrame(c, k) ==
    IF c.seat # None THEN SampleTransport(c, k) ELSE SampleChartClock(c, k)

Sampling ==
    /\ loop = "input"
    /\ \E o \in AdvanceFrame(controller, clock) :
           /\ controller' = o.controller
           /\ clock' = o.clock
           /\ loop' = IF o.at = "sampled" THEN "advanced" ELSE o.at
    /\ expected' = None
    /\ UNCHANGED <<deliveredId, delivered, commands>>

(* A bug: the frame of a new bundle keeps the time since the old sample.   *)
FirstFrameWithDelta(c) == c.lastFrame

(* The frame of a bundle that was replaced in this iteration.              *)
FirstFrame(c) ==
    IF c.lastFrame.id = deliveredId THEN c.lastFrame ELSE [c.lastFrame EXCEPT !.delta = 0]

Refreshed(c, k) ==
    IF ~c.replaced THEN {Outcome("sampled", c, k)}
    ELSE {[o EXCEPT !.controller.lastFrame = IF o.at = "sampled" THEN FirstFrame(o.controller)
                                             ELSE @]
             : o \in AdvanceFrame([c EXCEPT !.replaced = FALSE], k)}

(* RuntimeSession's validateFrame: last is the frame it was last given.    *)
ValidFrame(frame, last) ==
    /\ frame.delta >= 0
    /\ last # None =>
           IF frame.id = last.id THEN frame.time >= last.time ELSE frame.delta = 0

(* The session takes the frame, which is then drawn.                       *)
Deliver ==
    /\ loop = "advanced"
    /\ \E o \in Refreshed(controller, clock) :
           LET c == o.controller
               frame == c.lastFrame
           IN  /\ clock' = o.clock
               /\ expected' = IF controller.replaced THEN None ELSE expected
               /\ \/ /\ o.at # "sampled"
                     /\ loop' = o.at
                     /\ controller' = c
                     /\ UNCHANGED <<deliveredId, delivered>>
                  \/ /\ o.at = "sampled"
                     /\ ~ValidFrame(frame, c.session.last)
                     /\ loop' = "refused"
                     /\ controller' = c
                     /\ UNCHANGED <<deliveredId, delivered>>
                  \/ /\ o.at = "sampled"
                     /\ ValidFrame(frame, c.session.last)
                     /\ delivered' = frame
                     /\ deliveredId' = frame.id
                     /\ \/ /\ loop' = "input"
                           /\ controller' = [c EXCEPT !.session.last = frame]
                        \/ /\ loop' = "not_presented"
                           /\ controller' = [c EXCEPT !.session.last = frame, !.app = "Failed"]
    /\ UNCHANGED commands

(* shutdown, after a loop that the user quit.                              *)
Shutdown ==
    /\ loop = "input"
    /\ loop' = "closed"
    /\ controller' = [DiscardClip(controller, controller.clip) EXCEPT
                         !.app = "Empty", !.seat = None, !.clip = None]
    /\ UNCHANGED <<clock, deliveredId, delivered, expected, commands>>

Next ==
    \/ \E content \in Content : \E mode \in PlaybackMode : StartUp(content, mode)
    \/ \E command \in Command : Issue(command)
    \/ Sampling
    \/ Deliver
    \/ Shutdown

Spec == Init /\ [][Next]_vars

-----------------------------------------------------------------------------
(***************************************************************************)
(* Type correctness.                                                       *)
(***************************************************************************)
FrameType == [time: Int, delta: Nat, id: Nat]
Position == UNION {0 .. Length[clip] : clip \in Clip}
ReplacementType == [clip: Clip, position: Position]
SeatType == [state: PlaybackState, position: Position \cup {0}, discontinuity: Nat,
             clip: Clip \cup {None}, replacement: ReplacementType \cup {None}]
TimelineType ==
    [offset: Int, initialized: BOOLEAN, id: Nat, pending: BOOLEAN,
     previous: [position: Int, state: PlaybackState, id: Nat]]
SessionType == [last: FrameType \cup {None}]
ExpectedType == [time: Int, rests: BOOLEAN]
ControllerType ==
    [app: PlayerAppState, session: SessionType \cup {None}, mode: PlaybackMode,
     timeline: TimelineType \cup {None}, chartClock: Nat, seat: SeatType \cup {None},
     clip: Clip \cup {None}, store: SUBSET Clip, lastFrame: FrameType, lastSource: Nat,
     resume: Int, pending: Int \cup {None}, replaced: BOOLEAN]
TypeOK ==
    /\ controller \in ControllerType
    /\ clock \in [now: Int, last: Int]
    /\ loop \in {"starting", "start_failed", "input", "advanced", "lost", "refused",
                "not_presented", "closed"}
    /\ deliveredId \in Nat
    /\ delivered \in FrameType \cup {None}
    /\ expected \in ExpectedType \cup {None}
    /\ commands \in 0 .. MaxCommands

(* The empty std::optional is a value of its own.                          *)
ASSUME NoneAssumption ==
    None \notin Int \cup FrameType \cup SessionType \cup TimelineType \cup SeatType
                   \cup ReplacementType \cup ExpectedType

(* Whatever stage of whatever transaction failed, the store holds the clip *)
(* of the active bundle and no other, and a seat whose device did not fail *)
(* plays that clip (commitBundle and its discardClip calls).               *)
ClipsAreAccountedFor ==
    /\ controller.store = {controller.clip} \ {None}
    /\ controller.seat # None =>
           /\ controller.mode = "CuexisAudio"
           /\ controller.seat.state # "Error" => controller.seat.clip = controller.clip

(* Once a frame was shown, no order of commands, bundles and clocks makes  *)
(* the loop compute a frame that the timeline or the session refuses, for  *)
(* a refused frame ends the player (runPlayerFrameLoop, validateFrame).    *)
FramesAreAccepted == loop = "refused" => delivered = None

(* Across every command and every bundle, the frames that the sessions get *)
(* have identities that do not fall, the chart goes back only with a new   *)
(* identity, and simulation never runs further than the chart did.         *)
SegmentsGoForward ==
    [][delivered' # delivered /\ delivered # None =>
           /\ delivered'.id >= delivered.id
           /\ IF delivered'.id = delivered.id
              THEN delivered'.delta <= delivered'.time - delivered.time
              ELSE delivered'.delta = 0]_vars

Samples ==
    \/ loop = "input" /\ loop' = "advanced"
    \/ loop = "advanced" /\ loop' = "input" /\ controller.replaced

(* The first frame after a Seek shows the target, whatever the offset, the *)
(* correction and the clock, and what is at rest shows exactly the target  *)
(* (reverseSeekSourcePositionUs undoes what the frame loop applies).       *)
SeekIsShown ==
    [][Samples /\ expected # None =>
           /\ controller'.lastFrame.time >= expected.time
           /\ expected.rests => controller'.lastFrame.time = expected.time]_vars

-----------------------------------------------------------------------------
(* The frame record "is the last frame the session actually received, and  *)
(* it is both the reload target and the discontinuity the next frame must  *)
(* be measured against" (player_control.cpp:705): a bundle replaced before *)
(* the first frame can be shown like any other.                            *)
FirstFrameIsAccepted == loop # "refused"

(* "The frame loop stops sampling the wall clock while the application is  *)
(* not playing, so the frozen chart time is what a later Play resumes      *)
(* from" (player_control.cpp:520).                                         *)
PlayResumesWhatIsShown ==
    [][/\ controller.app = "Paused" /\ controller'.app = "Playing"
       /\ controller.pending = None /\ controller.mode = "ChartClock"
       => controller'.pending = controller.lastFrame.time]_vars

=============================================================================
