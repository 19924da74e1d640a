---------------------------- MODULE ChartCompiler ----------------------------
(***************************************************************************)
(* From a chart document to the runtime chart: ChartCompiler::compile, the *)
(* checks of ChartWorldInstantiator before it builds a World, and what     *)
(* BehaviorSystem writes for it at a time.  A document has                 *)
(*   objects   [id, parent, parts, sound, behavior], 0 for no reference,   *)
(*   behaviors [id, type, tracks, events, steps] of type "keyframe" (with  *)
(*             tracks of keys) or "event" (with events and step events),   *)
(* with whole beats and values that are numbers; -1 fits no property, and  *)
(* "sound" is false where a component's numbers are refused.  A group is   *)
(* 0, or a name; -1 is a name that is refused.                             *)
(***************************************************************************)
EXTENDS TimingMap

CONSTANTS
    MaxDiagnostics, MaxObjects, MaxBehaviors, MaxTracks, MaxKeys, MaxBehaviorEvents, \* ChartLimits
    MaxWrites \* maxPropertyWritesPerFrame

(* Properties, and the part of an object that each is of.                  *)
PartOf == [position |-> "transform", fov |-> "camera", opacity |-> "renderable",
           visible |-> "renderable", material |-> "renderable"]
PropertiesInOrder == <<"position", "fov", "opacity">>
StepPropertiesInOrder == <<"visible", "material">>

ValueMatches(property, value) == value >= 0

AllDiffer(seq) == \A i, j \in DOMAIN seq : i # j => seq[i] # seq[j]
Each(seq, property) == SelectSeq(seq, LAMBDA item : item.property = property)
KeysInOrder(keys) == SortSeq(keys, LAMBDA one, two : one.beat < two.beat)
InIdSequence(items) == SortSeq(items, LAMBDA one, two : one.id < two.id)
SumOver(seq, Count(_)) == Total([i \in DOMAIN seq |-> Count(seq[i])])

-------------------------------------------------------------------------------
(* validateComponents and validateDefaultCamera, of which sound is what    *)
(* they find in the numbers.                                               *)
ComponentsAreValid(object, ids) ==
    object.sound /\ (object.behavior # 0 => object.behavior \in ids)

(* compileBehaviorTracks.                                                  *)
KeysAreValid(track) ==
    LET keys == KeysInOrder(track.keys)
    IN  /\ keys # <<>>
        /\ AllDiffer([i \in DOMAIN keys |-> keys[i].beat])
        /\ keys[1].easing = "none"
        /\ \A i \in DOMAIN keys : ValueMatches(track.property, keys[i].value)

TracksAreValid(behavior) ==
    /\ Len(behavior.tracks) <= MaxTracks
    /\ AllDiffer([i \in DOMAIN behavior.tracks |-> behavior.tracks[i].property])
    /\ \A i \in DOMAIN behavior.tracks : KeysAreValid(behavior.tracks[i])

EasingOf(key) == IF key.easing = "none" THEN "linear" ELSE key.easing

CompiledTracks(behavior, map) ==
    LET properties == SelectSeq(PropertiesInOrder, LAMBDA p : Each(behavior.tracks, p) # <<>>)
        key(k) == [time |-> BeatToChartTime(map, k.beat), value |-> k.value, easing |-> EasingOf(k)]
        track(p) == LET keys == KeysInOrder(Each(behavior.tracks, p)[1].keys)
                    IN  [property |-> p, keys |-> [i \in DOMAIN keys |-> key(keys[i])]]
    IN  [i \in DOMAIN properties |-> track(properties[i])]

(* compileEventBehavior: the events of a property follow each other, the   *)
(* members of a group share their boundaries.                              *)
Until(event) == event.start + event.duration
EventFits(event) ==
    /\ Until(event) \in Word
    /\ event.duration >= 0
    /\ event.slope # "invalid"
    /\ ValueMatches(event.property, event.from) /\ ValueMatches(event.property, event.to)
    /\ event.duration = 0 => event.from = event.to /\ event.slope = "none"

(* A bug: an event is compared only with the next one that is given.       *)
EventsFollowAsGiven(events) ==
    \A i \in 2..Len(events) :
       /\ events[i].start # events[i - 1].start
       /\ events[i].start >= Until(events[i - 1])

EventsFollow(events) ==
    LET sorted == InBeatOrder(events)
    IN  \A i \in 2..Len(sorted) :
           /\ sorted[i].start # sorted[i - 1].start
           /\ sorted[i].start >= Until(sorted[i - 1])

GroupsAreValid(behavior) ==
    LET member(event, continuous) ==
          [group |-> event.group, continuous |-> continuous,
           start |-> IF continuous THEN event.start ELSE event.beat,
           duration |-> IF continuous THEN event.duration ELSE 0]
        members == {member(event, TRUE) : event \in ToSet(behavior.events)}
                   \cup {member(step, FALSE) : step \in ToSet(behavior.steps)}
    IN  \A one, two \in members :
           one.group # -1 /\ (one.group = two.group /\ one.group # 0 => one = two)

EventsAreValid(behavior) ==
    /\ Len(behavior.events) + Len(behavior.steps) \in 1..MaxBehaviorEvents
    /\ GroupsAreValid(behavior)
    /\ \A i \in DOMAIN behavior.events : EventFits(behavior.events[i])
    /\ \A p \in ToSet(PropertiesInOrder) : EventsFollow(Each(behavior.events, p))
    /\ \A p \in ToSet(StepPropertiesInOrder) :
          LET steps == Each(behavior.steps, p)
          IN  /\ AllDiffer([i \in DOMAIN steps |-> steps[i].beat])
              /\ \A i \in DOMAIN steps : ValueMatches(p, steps[i].value)

CompiledEventTracks(behavior) ==
    LET properties == SelectSeq(PropertiesInOrder, LAMBDA p : Each(behavior.events, p) # <<>>)
        event(e) == [start |-> e.start, end |-> Until(e), from |-> e.from, to |-> e.to]
        track(p) == LET events == InBeatOrder(Each(behavior.events, p))
                    IN  [property |-> p, events |-> [i \in DOMAIN events |-> event(events[i])]]
    IN  [i \in DOMAIN properties |-> track(properties[i])]
CompiledStepTracks(behavior) ==
    LET properties == SelectSeq(StepPropertiesInOrder, LAMBDA p : Each(behavior.steps, p) # <<>>)
        track(p) == [property |-> p, events |-> KeysInOrder(Each(behavior.steps, p))]
    IN  [i \in DOMAIN properties |-> track(properties[i])]

HasTempo(document) == document.version \in {3, 4}
TypeMatches(document, behavior) ==
    behavior.type = IF HasTempo(document) THEN "event" ELSE "keyframe"

BehaviorsAreValid(document) ==
    LET behaviors == document.behaviors
    IN  /\ Len(behaviors) <= MaxBehaviors
        /\ AllDiffer([i \in DOMAIN behaviors |-> behaviors[i].id])
        /\ \A i \in DOMAIN behaviors :
              /\ behaviors[i].id # 0
              /\ TypeMatches(document, behaviors[i])
              /\ IF HasTempo(document) THEN EventsAreValid(behaviors[i])
                 ELSE TracksAreValid(behaviors[i])
        /\ SumOver(behaviors, LAMBDA b : Len(b.events) + Len(b.steps)) <= MaxBehaviorEvents
        /\ SumOver(behaviors, LAMBDA b : SumOver(b.tracks, LAMBDA t : Len(t.keys))) <= MaxKeys

-------------------------------------------------------------------------------
(* HierarchyValidator::visit walks up from an object until it comes to one *)
(* that is decided, and decides the objects of its way.                    *)
Object(document, id) ==
    CHOOSE object \in ToSet(document.objects) : object.id = id
ObjectIds(document) == {object.id : object \in ToSet(document.objects)}

RECURSIVE Walk(_, _, _, _)
Walk(document, states, chain, id) ==
    LET parent == Object(document, id).parent
        decide(state, ids) == [other \in DOMAIN states |-> IF other \in ids THEN state ELSE states[other]]
    IN  IF states[id] # "unvisited" THEN decide(states[id], chain)
        ELSE IF id \in chain THEN decide("cyclic", chain)
        ELSE IF parent = 0 THEN decide("valid", chain \cup {id})
        ELSE IF parent = id THEN decide("cyclic", chain \cup {id})
        ELSE IF parent \notin ObjectIds(document) THEN decide("skipped", chain \cup {id})
        ELSE Walk(document, states, chain \cup {id}, parent)

HierarchyStates(document) ==
    LET ids == ObjectIds(document)
    IN  FoldLeft(LAMBDA states, id : Walk(document, states, {}, id),
                 [id \in ids |-> "unvisited"], SetToSortSeq(ids, <))

(* A missing parent is a warning; too many of them are an error.           *)
Warnings(document) ==
    {object \in ToSet(document.objects) : object.parent \notin ObjectIds(document) \cup {0}}

ObjectsAreValid(document) ==
    LET objects == document.objects
        ids == {behavior.id : behavior \in ToSet(document.behaviors)}
    IN  /\ Len(objects) <= MaxObjects
        /\ AllDiffer([i \in DOMAIN objects |-> objects[i].id])
        /\ \A i \in DOMAIN objects : objects[i].id # 0 /\ ComponentsAreValid(objects[i], ids)
        /\ \A id \in ObjectIds(document) : HierarchyStates(document)[id] # "cyclic"
        /\ Cardinality(Warnings(document)) <= MaxDiagnostics

(* Charts of the first versions have a tempo and nothing else.             *)
TimingOf(document) ==
    IF HasTempo(document) THEN Timing(document.period, document.tempo, document.stops)
    ELSE Timing(document.period, <<>>, <<>>)

(* Whether compile reports no error.                                       *)
CompileAccepts(document) ==
    /\ document.version \in 1..4
    /\ document.audio \in {"none", "music"}
    /\ document.version = 1 => document.audio = "none"
    /\ document.camera
    /\ HasTempo(document) => TimingIsValid(document.period, InBeatOrder(document.tempo),
                                           StopsInOrder(document.stops))
    /\ BehaviorsAreValid(document)
    /\ ObjectsAreValid(document)

(* A bug: the objects keep the order of the document.                      *)
IncludedAsGiven(document) ==
    SelectSeq(document.objects, LAMBDA object : HierarchyStates(document)[object.id] = "valid")

Included(document) ==
    SelectSeq(InIdSequence(document.objects),
              LAMBDA object : HierarchyStates(document)[object.id] = "valid")

Compiled(document) ==
    LET map == TimingOf(document)
        included == Included(document)
        parent(object) == SelectInSeq(included, LAMBDA other : other.id = object.parent)
        behaviors == InIdSequence(document.behaviors)
    IN  [timing |-> map, music |-> document.audio = "music",
         behaviors |-> [i \in DOMAIN behaviors |->
            [id |-> behaviors[i].id, tracks |-> CompiledTracks(behaviors[i], map),
             eventTracks |-> CompiledEventTracks(behaviors[i]),
             stepTracks |-> CompiledStepTracks(behaviors[i])]],
         objects |-> [i \in DOMAIN included |->
            [id |-> included[i].id, parent |-> parent(included[i]), parts |-> included[i].parts,
             behavior |-> included[i].behavior]]]

-------------------------------------------------------------------------------
(* ChartWorldInstantiator::validate, what does not depend on the objects'  *)
(* parts and then what does.                                               *)
Increasing(seq, Less(_, _)) == \A i \in 2..Len(seq) : Less(seq[i - 1], seq[i])
RankIn(order, item) == SelectInSeq(order, LAMBDA other : other = item)

RuntimeIsOrdered(runtime) ==
    /\ Increasing(runtime.behaviors, LAMBDA one, two : one.id < two.id)
    /\ Increasing(runtime.objects, LAMBDA one, two : one.id < two.id)
    /\ \A behavior \in ToSet(runtime.behaviors) :
          /\ \A tracks \in {behavior.tracks, behavior.eventTracks} :
                Increasing(tracks, LAMBDA one, two : RankIn(PropertiesInOrder, one.property)
                                                       < RankIn(PropertiesInOrder, two.property))
          /\ Increasing(behavior.stepTracks,
                        LAMBDA one, two : RankIn(StepPropertiesInOrder, one.property)
                                            < RankIn(StepPropertiesInOrder, two.property))
          /\ \A track \in ToSet(behavior.tracks) :
                track.keys # <<>> /\ Increasing(track.keys, LAMBDA one, two : one.time < two.time)
          /\ \A track \in ToSet(behavior.eventTracks) :
                /\ track.events # <<>>
                /\ \A event \in ToSet(track.events) : event.start <= event.end
                /\ Increasing(track.events, LAMBDA one, two : one.end <= two.start)
          /\ \A track \in ToSet(behavior.stepTracks) :
                Increasing(track.events, LAMBDA one, two : one.beat < two.beat)
    /\ \A i \in DOMAIN runtime.objects :
          /\ runtime.objects[i].parent \in 0..Len(runtime.objects) \ {i}
          /\ runtime.objects[i].behavior # 0 =>
                \E behavior \in ToSet(runtime.behaviors) : behavior.id = runtime.objects[i].behavior

BehaviorOf(runtime, object) ==
    CHOOSE behavior \in ToSet(runtime.behaviors) : behavior.id = object.behavior
TracksOf(runtime, object) ==
    IF object.behavior = 0 THEN <<>>
    ELSE LET behavior == BehaviorOf(runtime, object)
         IN  behavior.tracks \o behavior.eventTracks \o behavior.stepTracks

TargetsAreThere(runtime) ==
    /\ SumOver(runtime.objects, LAMBDA object : Len(TracksOf(runtime, object))) <= MaxWrites
    /\ \A object \in ToSet(runtime.objects) : \A track \in ToSet(TracksOf(runtime, object)) :
          \/ PartOf[track.property] \in object.parts
          \/ track.property = "opacity" /\ track \in ToSet(BehaviorOf(runtime, object).tracks)

-------------------------------------------------------------------------------
(* BehaviorSystem: a value is <<v>>, or one between two, with how far it   *)
(* is along the way as a fraction and by what curve.                       *)
Mixed(from, to, curve, part, whole) == <<from, to, curve, part, whole>>

SampleTrack(track, time) ==
    LET keys == track.keys
        right == SelectInSeq(keys, LAMBDA key : key.time >= time)
        left == keys[right - 1]
    IN  IF time <= keys[1].time \/ Len(keys) = 1 THEN <<keys[1].value>>
        ELSE IF time >= Last(keys).time THEN <<Last(keys).value>>
        ELSE IF keys[right].time = time THEN <<keys[right].value>>
        ELSE Mixed(left.value, keys[right].value, keys[right].easing,
                   time - left.time, keys[right].time - left.time)

SampleEvent(track, beat, baseline) ==
    LET begun == SelectLastInSeq(track.events, LAMBDA event : event.start <= beat)
        event == track.events[begun]
    IN  IF begun = 0 THEN baseline
        ELSE IF event.start = event.end \/ beat >= event.end THEN <<event.to>>
        ELSE Mixed(event.from, event.to, "hermite", beat - event.start, event.end - event.start)

SampleStep(track, beat, baseline) ==
    LET begun == SelectLastInSeq(track.events, LAMBDA event : event.beat <= beat)
    IN  IF begun = 0 THEN baseline ELSE <<track.events[begun].value>>

(* evaluate, in the order of the objects: the writes of a sample of time   *)
(* and beat.  The value of a part that nothing writes is its baseline.     *)
Baseline == <<-2>>
Evaluate(runtime, time, beat) ==
    LET write(object, track, value) ==
          [object |-> object.id, property |-> track.property, value |-> value]
        writes(object) ==
          LET behavior == BehaviorOf(runtime, object)
          IN  IF object.behavior = 0 THEN {}
              ELSE {write(object, track, SampleTrack(track, time)) : track \in ToSet(behavior.tracks)}
                   \cup {write(object, track, SampleEvent(track, beat, Baseline)) :
                            track \in ToSet(behavior.eventTracks)}
                   \cup {write(object, track, SampleStep(track, beat, Baseline)) :
                            track \in ToSet(behavior.stepTracks)}
    IN  UNION {writes(object) : object \in ToSet(runtime.objects)}

-------------------------------------------------------------------------------
(* What a document means, without an order: the objects that a chain of    *)
(* parents joins to a root, those that one joins to a missing parent, and  *)
(* the values at a beat, each from the last event that has begun.          *)
Below(document, roots) ==
    LET grow(ids, object) ==
          ids \cup {other.id : other \in {one \in ToSet(document.objects) : one.parent \in ids}}
    IN  FoldLeft(grow, roots, document.objects)
Rooted(document) ==
    Below(document, {object.id : object \in {one \in ToSet(document.objects) : one.parent = 0}})
Orphans(document) == Below(document, {object.id : object \in Warnings(document)})

Latest(events, Start(_), beat) ==
    CHOOSE event \in events :
       Start(event) <= beat /\ \A other \in events : Start(other) <= beat => Start(other) <= Start(event)

ValueOfEvents(events, beat) ==
    LET event == Latest(events, LAMBDA e : e.start, beat)
    IN  IF \A e \in events : e.start > beat THEN Baseline
        ELSE IF beat >= event.start + event.duration THEN <<event.to>>
        ELSE Mixed(event.from, event.to, "hermite", beat - event.start, event.duration)
ValueOfSteps(steps, beat) ==
    IF \A s \in steps : s.beat > beat THEN Baseline
    ELSE <<Latest(steps, LAMBDA s : s.beat, beat).value>>
ValueOfKeys(keys, period, time) ==
    LET begun == {key \in keys : key.beat * period <= time}
        left == CHOOSE key \in begun : \A other \in begun : other.beat <= key.beat
        right == CHOOSE key \in keys \ begun : \A other \in keys \ begun : key.beat <= other.beat
    IN  IF begun = {} THEN <<right.value>>
        ELSE IF begun = keys \/ left.beat * period = time THEN <<left.value>>
        ELSE Mixed(left.value, right.value, EasingOf(right), time - left.beat * period,
                   (right.beat - left.beat) * period)

Meant(document, time, beat) ==
    LET of(p, events) == {event \in ToSet(events) : event.property = p}
        properties(events) == {event.property : event \in ToSet(events)}
        write(object, p, value) == [object |-> object.id, property |-> p, value |-> value]
        writes(object, b) ==
          {write(object, t.property, ValueOfKeys(ToSet(t.keys), document.period, time)) :
              t \in ToSet(b.tracks)}
          \cup {write(object, p, ValueOfEvents(of(p, b.events), beat)) : p \in properties(b.events)}
          \cup {write(object, p, ValueOfSteps(of(p, b.steps), beat)) : p \in properties(b.steps)}
    IN  UNION {IF object.behavior = 0 THEN {}
               ELSE UNION {writes(object, b) :
                             b \in {one \in ToSet(document.behaviors) : one.id = object.behavior}} :
                 object \in {one \in ToSet(document.objects) : one.id \in Rooted(document)}}

Turned(document) ==
    [document EXCEPT
       !.objects = Reverse(@), !.tempo = Reverse(@), !.stops = Reverse(@),
       !.behaviors = LET turned(b) == [b EXCEPT !.tracks = Reverse(@), !.events = Reverse(@),
                                                !.steps = Reverse(@)]
                     IN  Reverse([i \in DOMAIN document.behaviors |-> turned(document.behaviors[i])])]

(* What compile accepts, in whatever order it is given, is one runtime     *)
(* chart: ordered as its readers need it, with the objects that are joined *)
(* to a root and their own parents, and it shows at every time what the    *)
(* document says.                                                          *)
CompiledAsWritten(document, times) ==
    /\ CompileAccepts(document) <=> CompileAccepts(Turned(document))
    /\ CompileAccepts(document) =>
         LET runtime == Compiled(document)
             ids == {object.id : object \in ToSet(runtime.objects)}
             Parent(object) == IF object.parent = 0 THEN 0 ELSE runtime.objects[object.parent].id
         IN  /\ runtime = Compiled(Turned(document))
             /\ RuntimeIsOrdered(runtime)
             /\ ids = Rooted(document)
             /\ ObjectIds(document) = ids \cup Orphans(document)
             /\ \A object \in ToSet(runtime.objects) : Parent(object) = Object(document, object.id).parent
             /\ \A time \in times :
                   LET beat == SampleChartTime(runtime.timing, time).beat
                   IN  Evaluate(runtime, time, beat) = Meant(document, time, beat)
===============================================================================
