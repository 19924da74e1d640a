--------------------------- MODULE RuntimeSession ---------------------------
(***************************************************************************)
(* cuexis::runtime::RuntimeSession: the World of a chart, and the frames   *)
(* that present it.  A frame evaluates the behaviors, mixes the animation, *)
(* lays the overrides over both, and commits transforms, cameras and       *)
(* appearances one after the other, taking back what it wrote if a later   *)
(* stage fails.                                                            *)
(*                                                                         *)
(* A chart gives each cell its initial value; tracks change some cells     *)
(* from a beat on, clips add to some from a beat on, and beat says at      *)
(* which beat a chart time is.                                             *)
(***************************************************************************)
EXTENDS World

CONSTANTS Charts,         \* records [initial, tracks, clips, beat]
          Frames,         \* RuntimeFrames, records [time, delta, id]
          Overrides,      \* records [kind, priority, life, writes] a host may ask for
          BaseWrites,     \* pairs of a cell and the base value a host may give it
          MaxToken,       \* bound: tokens of one evaluation
          MaxReloads      \* bound: reloads

Token == 1..MaxToken
Times == {0} \cup {frame.time : frame \in Frames}
Life == [kind: {"released", "frames", "until"}, n: Int]
TokenType == [id: Nat, kind: {"host", "preview"}, priority: Int, life: Life,
              writes: {o.writes : o \in Overrides}]
ChartType == [initial: [Cell -> Nat \ {Bad}], tracks: {chart.tracks : chart \in Charts},
              clips: {chart.clips : chart \in Charts}, beat: {chart.beat : chart \in Charts}]
EvaluationType ==
    [chart: ChartType, resolver: ResolverType,
     baselines: UNION {[DOMAIN chart.tracks -> Nat] : chart \in Charts},
     tokens: SUBSET TokenType, nextId: Nat]

ASSUME SessionAssumption ==
    /\ \A frame \in Frames : frame \in [time: {frame.time}, delta: Nat, id: {frame.id}]
    /\ \A chart \in Charts :
           /\ chart \in ChartType
           /\ DOMAIN chart.tracks \subseteq Cell
           /\ chart.tracks \in [DOMAIN chart.tracks -> [beat: Int, value: Nat]]
           /\ DOMAIN chart.clips \subseteq Cell
           /\ chart.clips \in [DOMAIN chart.clips -> [beat: Int, add: Nat]]
           /\ Times \subseteq DOMAIN chart.beat
           /\ chart.beat \in [DOMAIN chart.beat -> Int]
    /\ \A o \in Overrides :
           /\ o.kind \in {"host", "preview"} /\ o.priority \in Int /\ o.life \in Life
           /\ DOMAIN o.writes \subseteq Cell
           /\ o.writes \in [DOMAIN o.writes -> Nat]
    /\ BaseWrites \subseteq Cell \X Nat
    /\ None \notin WorldType \cup EvaluationType
    /\ MaxToken \in Nat

VARIABLES evaluation,     \* the RuntimeEvaluationState, or None without a chart
          world,          \* the World, or None
          lastFrame,      \* the last frame that was presented, or None
          asked,          \* history: the time and tokens the last call presented, or None
          result,         \* history: whether the last call succeeded
          reloads         \* bound

vars == <<evaluation, world, lastFrame, asked, result, reloads>>

(* buildEvaluationState: a track keeps its own copy of the cell's baseline. *)
Evaluation(chart) ==
    [chart |-> chart, resolver |-> Capture(chart.initial),
     baselines |-> [c \in DOMAIN chart.tracks |-> chart.initial[c]],
     tokens |-> {}, nextId |-> 1]

IsActive(t, time) ==
    CASE t.life.kind = "released" -> TRUE
      [] t.life.kind = "frames" -> t.life.n > 0
      [] t.life.kind = "until" -> time < t.life.n

Active(tokens, time) == {t \in tokens : IsActive(t, time)}
OfKind(tokens, kind) == {t \in tokens : t.kind = kind}

Ticked(t) ==
    IF t.life.kind = "frames" /\ t.life.n > 0 THEN [t EXCEPT !.life.n = @ - 1] ELSE t

Behavior(e, time) ==
    [c \in DOMAIN e.chart.tracks |->
        IF e.chart.beat[time] < e.chart.tracks[c].beat
        THEN e.baselines[c] ELSE e.chart.tracks[c].value]

(* The clips that are sampled, over what the behaviors resolved.           *)
Animation(e, resolver, time) ==
    [c \in {d \in DOMAIN e.chart.clips : e.chart.beat[time] >= e.chart.clips[d].beat} |->
        resolver.candidate[c] + e.chart.clips[c].add]

(* A layer over what the layers below resolved, unless one of those failed. *)
Layer(below, writes, layer) ==
    IF ~below.ok THEN below
    ELSE [ok |-> Accepts(below.resolver, writes, layer),
          resolver |-> ApplyLayer(below.resolver, writes, layer)]

Layered(e, time) ==
    LET begun == [ok |-> TRUE, resolver |-> BeginFrame(e.resolver)]
        behaved == Layer(begun, Behavior(e, time), "behavior")
        animated == Layer(behaved, Animation(e, behaved.resolver, time), "animation")
        overridden(below, kind) ==
            Layer(below, Winning(OfKind(Active(e.tokens, time), kind)), kind)
    IN  overridden(overridden(animated, "host"), "preview")

(* What a frame leaves: whether it was presented, the evaluation, the World. *)
Outcome(ok, e, w) == [ok |-> ok, evaluation |-> e, world |-> w]

(* A bug: what was committed of cameras and appearances is not taken back. *)
RollBackTransforms(w, cells, before) == Write(w, cells \cap Transforms, before.value)

RollBack(w, cells, before) == Write(w, cells, before.value)

(* The commit stages.  Of the transforms only the resolver's entries are   *)
(* written, of the cameras and appearances all that were captured.         *)
Commit(e, w) ==
    LET kind(k) == {c \in Cell : c[2] = k}
        transforms == CellsAt(CommitEntries(e.resolver)) \cap Transforms
        cameras == transforms \cup kind("camera")
        complete == cameras \cup kind("appearance")
        committed == [e EXCEPT !.resolver = Committed(@)]
        after(cells) == Write(w, cells, e.resolver.candidate)
    IN  CASE ~Present(w, kind("camera")) ->
                Outcome(FALSE, committed, RollBack(after(transforms), transforms, w))
          [] Present(w, kind("camera")) /\ ~Present(w, kind("appearance")) ->
                Outcome(FALSE, committed, RollBack(after(cameras), cameras, w))
          [] Present(w, kind("camera") \cup kind("appearance")) ->
                IF CanUpdate(after(complete))
                THEN Outcome(TRUE, committed, UpdateWorldTransforms(after(complete)))
                ELSE Outcome(FALSE, committed, RollBack(after(complete), complete, w))

(* updatePrepared.  The lifetimes are counted down once the layers hold,   *)
(* whatever becomes of the frame after that.                               *)
UpdatePrepared(e, w, time) ==
    LET layered == Layered(e, time)
        resolved == [e EXCEPT !.resolver = layered.resolver]
        ticked == [resolved EXCEPT !.tokens = Active({Ticked(t) : t \in @}, time)]
    IN  CASE ~layered.ok -> Outcome(FALSE, resolved, w)
          [] layered.ok /\ ~Finite(layered.resolver) -> Outcome(FALSE, ticked, w)
          [] layered.ok /\ Finite(layered.resolver) -> Commit(ticked, w)

(* The evaluation presents a frame in the session's World.                 *)
Presents(e, time) ==
    \E outcome \in {UpdatePrepared(e, world, time)} :
        /\ evaluation' = outcome.evaluation
        /\ world' = outcome.world
        /\ result' = IF outcome.ok THEN "ok" ELSE "failed"
        /\ asked' = [time |-> time, tokens |-> e.tokens]

Init ==
    /\ evaluation = None /\ world = None /\ lastFrame = None
    /\ asked = None /\ result = "ok" /\ reloads = 0

Answer(answer) == asked' = None /\ result' = answer

(* prepare and commit; a chart or its resources that prepare refuses, or a *)
(* session that has a World, leave everything as it is.                    *)
Load(chart) ==
    /\ \/ /\ world = None
          /\ evaluation' = Evaluation(chart)
          /\ world' = New(chart.initial)
          /\ Answer("ok")
       \/ UNCHANGED <<evaluation, world>> /\ Answer("failed")
    /\ UNCHANGED <<lastFrame, reloads>>

(* validateFrame.                                                          *)
Valid(frame) ==
    lastFrame = None \/ IF frame.id = lastFrame.id THEN frame.time >= lastFrame.time
                                                   ELSE frame.delta = 0

Update(frame) ==
    /\ IF world # None /\ Valid(frame)
       THEN /\ Presents(evaluation, frame.time)
            /\ lastFrame' = IF result' = "ok" THEN frame ELSE lastFrame
       ELSE UNCHANGED <<evaluation, world, lastFrame>> /\ Answer("failed")
    /\ UNCHANGED reloads

(* A token takes an id even if its writes are refused then: they name an   *)
(* object that is not there, or a property outside the token's mask.       *)
AcquireOverride(o) ==
    /\ evaluation # None
    /\ evaluation.nextId \in Token
    /\ \/ /\ evaluation' = [evaluation EXCEPT
                 !.nextId = @ + 1,
                 !.tokens = @ \cup {[id |-> evaluation.nextId, kind |-> o.kind,
                                     priority |-> o.priority, life |-> o.life,
                                     writes |-> o.writes]}]
          /\ Answer("ok")
       \/ evaluation' = [evaluation EXCEPT !.nextId = @ + 1] /\ Answer("failed")
    /\ UNCHANGED <<world, lastFrame, reloads>>

ReleaseOverride(id) ==
    /\ evaluation # None
    /\ LET released == {t \in evaluation.tokens : t.id = id} IN
           /\ evaluation' = [evaluation EXCEPT !.tokens = @ \ released]
           /\ Answer(IF released = {} THEN "failed" ELSE "ok")
    /\ UNCHANGED <<world, lastFrame, reloads>>

WithBase(e, cell, value) ==
    [e EXCEPT !.resolver = ApplyBaseProperty(@, cell, value),
              !.baselines = [c \in DOMAIN @ |-> IF c = cell THEN value ELSE @[c]]]

(* applyBaseProperty presents the last frame again, from the new base; if  *)
(* that fails the base stays.                                              *)
ApplyBase(cell, value) ==
    /\ evaluation # None
    /\ IF value = Bad
       THEN UNCHANGED <<evaluation, world>> /\ Answer("failed")
       ELSE \E based \in {WithBase(evaluation, cell, value)} :
                IF lastFrame = None
                THEN evaluation' = based /\ UNCHANGED <<world>> /\ Answer("ok")
                ELSE Presents(based, lastFrame.time)
    /\ UNCHANGED <<lastFrame, reloads>>

(* withWorld: the callback removes a camera or an appearance.              *)
RemoveComponent(cell) ==
    /\ world # None
    /\ cell \notin Transforms \cup world.removed
    /\ world' = [world EXCEPT !.removed = @ \cup {cell}]
    /\ Answer("ok")
    /\ UNCHANGED <<evaluation, lastFrame, reloads>>

(* reload presents a frame of the replacement, which keeps the animation   *)
(* of before, in a World of its own, and replaces everything once it is    *)
(* presented; the tokens of before are gone, and their ids start again.    *)
Reload(chart, frame, restart) ==
    /\ world # None
    /\ reloads < MaxReloads
    /\ LET target == [frame EXCEPT !.delta = 0, !.time = IF restart THEN 0 ELSE @]
           fresh == Evaluation([chart EXCEPT !.clips = evaluation.chart.clips])
       IN  \E outcome \in {UpdatePrepared(fresh, New(chart.initial), target.time)} :
           \/ /\ outcome.ok
              /\ evaluation' = outcome.evaluation
              /\ world' = outcome.world
              /\ lastFrame' = target
              /\ asked' = [time |-> target.time, tokens |-> {}]
              /\ result' = "ok"
           \/ UNCHANGED <<evaluation, world, lastFrame>> /\ Answer("failed")
    /\ reloads' = reloads + 1

Unload ==
    /\ evaluation' = None /\ world' = None /\ lastFrame' = None
    /\ Answer("ok")
    /\ UNCHANGED reloads

Next ==
    \/ \E chart \in Charts : Load(chart)
    \/ \E frame \in Frames : Update(frame)
    \/ \E o \in Overrides : AcquireOverride(o)
    \/ \E id \in Token : ReleaseOverride(id)
    \/ \E write \in BaseWrites : ApplyBase(write[1], write[2])
    \/ \E cell \in Cell : RemoveComponent(cell)
    \/ \E chart \in Charts, frame \in Frames, restart \in BOOLEAN :
           Reload(chart, frame, restart)
    \/ Unload

Spec == Init /\ [][Next]_vars
-----------------------------------------------------------------------------
(* The types; the ids of tokens are their own, and below the next one.     *)
TypeOK ==
    /\ result \in {"ok", "failed"}
    /\ (evaluation = None) <=> (world = None)
    /\ evaluation # None =>
           /\ evaluation.resolver.baseline \in [Cell -> Nat]
           /\ evaluation.resolver.candidate \in [Cell -> Nat]
           /\ evaluation.resolver.touched \subseteq Entity
           /\ evaluation.resolver.committed \subseteq Entity
           /\ evaluation.resolver.seen \subseteq LayerName \X Cell
           /\ \A t, u \in evaluation.tokens : t.id = u.id => t = u
           /\ \A t \in evaluation.tokens : t.id \in 1..(evaluation.nextId - 1)
           /\ world.value \in [Cell -> Nat]
           /\ world.matrix \in [Entity -> Nat]

(* The reference: a cell resolved from nothing but the chart, the base     *)
(* values, the tokens and the time; Bad if a layer's write is refused.     *)
OverriddenBy(tokens, c, below) ==
    LET writers == {t \in tokens : c \in DOMAIN t.writes}
        top == {t \in writers : \A u \in writers : t.priority >= u.priority}
    IN  IF \E t \in top : top = {t} THEN (CHOOSE t \in top : TRUE).writes[c] ELSE below

Resolved(e, tokens, time, c) ==
    LET beat == e.chart.beat[time]
        active == {t \in tokens : IsActive(t, time)}
        tracked == IF c \in DOMAIN e.chart.tracks /\ beat >= e.chart.tracks[c].beat
                   THEN e.chart.tracks[c].value ELSE e.resolver.baseline[c]
        animated == IF c \in DOMAIN e.chart.clips /\ beat >= e.chart.clips[c].beat
                    THEN tracked + e.chart.clips[c].add ELSE tracked
        hosted == OverriddenBy(OfKind(active, "host"), c, animated)
    IN  IF Bad \in {tracked, animated, hosted}
        THEN Bad ELSE OverriddenBy(OfKind(active, "preview"), c, hosted)

Reference(e, tokens, time) == [c \in Cell |-> Resolved(e, tokens, time, c)]

(* What a presented World shows, and every matrix derived from it, is a     *)
(* function of the chart, the base, the tokens that were active and the    *)
(* time: nothing of an earlier frame, an ended override or a failed frame  *)
(* is left in it, and no matrix is one of a transform that has changed.    *)
PresentedIsResolved ==
    (asked # None /\ result = "ok") =>
        LET value == Reference(evaluation, asked.tokens, asked.time)
        IN  /\ world.value = value
            /\ world.cached => world.matrix = Composed(value)

(* A frame fails only on account of what it is asked to present: a value   *)
(* that is refused, a matrix that is not finite, a component that is gone. *)
(* A frame that failed does not make the next one fail.                    *)
FailsForItsOwnInputs ==
    (asked # None /\ result = "failed") =>
        LET value == Reference(evaluation, asked.tokens, asked.time) IN
        \/ \E c \in Cell : value[c] = Bad
        \/ \E c \in Transforms : value[c] > Limit
        \/ \E e \in Entity : Composed(value)[e] > Limit
        \/ world.removed # {}

(* A call that fails leaves no half of a frame in the World.               *)
FailureKeepsWorld == [][result' = "failed" => world' = world]_vars

=============================================================================
