---------------------------- MODULE AnimationMixer ----------------------------
(***************************************************************************)
(* An animation program as it plays: AnimationCompiler::compile, and what  *)
(* AnimationSampler and AnimationMixer::evaluate write at a beat.  A value *)
(* is a term: what it is mixed from, and in which order.                   *)
(***************************************************************************)
EXTENDS ChartResolver

Value(v) == <<"value", v>>
Between(from, to, part, whole) == <<"between", from, to, part, whole>>
Lerp(from, to, part, whole) ==
    IF part = 0 THEN from ELSE IF part = whole THEN to ELSE <<"lerp", from, to, part, whole>>
Added(base, value, weight) == <<"added", base, value, weight>>
BaselineOf(property) == <<"baseline", property>>

-------------------------------------------------------------------------------
(* validateCompiledBudgets and compile: the records that the bindings      *)
(* generate count too, and an instance has one place in the program.       *)
Instances(program) ==
    FlattenSeq([o \in DOMAIN program.objects |->
       FlattenSeq([l \in DOMAIN program.objects[o].layers |->
          FlattenSeq([g \in DOMAIN program.objects[o].layers[l].groups |->
             program.objects[o].layers[l].groups[g].instances])])])

BudgetsFit(program) ==
    /\ Len(program.clips) <= Limits.clips
    /\ Len(program.objects) <= MaxObjects
    /\ Len(program.objects) * Limits.writesPerObject <= Limits.writes
    /\ SumOver(program.clips, LAMBDA record : TracksOfClip(record.clip)) <= Limits.allTracks
    /\ \A animated \in ToSet(program.objects) :
          /\ Len(animated.layers) <= Limits.layers
          /\ \A layer \in ToSet(animated.layers) :
                Len(layer.mask.properties) + Len(layer.mask.prefixes) <= Limits.mask

ProgramCompiles(program) ==
    /\ BudgetsFit(program)
    /\ AllDiffer([i \in DOMAIN program.clips |-> program.clips[i].identity])
    /\ AllDiffer([i \in DOMAIN Instances(program) |-> Instances(program)[i].identity])
    /\ \A instance \in ToSet(Instances(program)) :
          \E record \in ToSet(program.clips) : record.identity = instance.clip

-------------------------------------------------------------------------------
(* AnimationSampler::resolveLocalBeat, in beats of the clip times the      *)
(* scale of the instance; -1 while it does not play.                       *)
LocalBeat(instance, clip, beat) ==
    LET elapsed == beat - instance.start
        length == clip.duration * instance.scale
    IN  IF elapsed < 0 THEN -1
        ELSE IF instance.count # 0 /\ elapsed \div length >= instance.count
        THEN IF instance.fill = "hold" THEN length ELSE -1
        ELSE elapsed % length

(* sampleTrack and sampleStepTrack, <<>> before the first of a track.      *)
SampleSegments(track, scale, local) ==
    LET begun == SelectLastInSeq(track.segments, LAMBDA segment : segment.start * scale <= local)
        segment == track.segments[begun]
    IN  IF begun = 0 THEN <<>>
        ELSE IF local >= Until(segment) * scale THEN <<Value(segment.to)>>
        ELSE IF local = segment.start * scale THEN <<Value(segment.from)>>
        ELSE <<Between(segment.from, segment.to, local - segment.start * scale, segment.duration * scale)>>
SampleSteps(track, scale, local) ==
    LET begun == SelectLastInSeq(track.segments, LAMBDA step : step.beat * scale <= local)
    IN  IF begun = 0 THEN <<>> ELSE <<Value(track.segments[begun].value)>>

(* sampleInstance: what it has begun to write to a property, or <<>>.      *)
SampleInstance(program, instance, property, beat) ==
    LET clip == ClipOf(program, instance.clip)
        local == LocalBeat(instance, clip, beat)
        tracks == Each(clip.tracks, property)
        steps == Each(clip.steps, property)
    IN  IF local < 0 THEN <<>>
        ELSE IF tracks # <<>> THEN SampleSegments(tracks[1], instance.scale, local)
        ELSE IF steps # <<>> THEN SampleSteps(steps[1], instance.scale, local)
        ELSE <<>>

-------------------------------------------------------------------------------
(* What the instances of a group contribute to a property, in the order of *)
(* their identities.                                                       *)
Allows(mask, property) == property \in Expand(mask)
Contributions(program, layer, group, property, beat) ==
    LET contribution(instance) ==
          IF instance.weight > 0 /\ Allows(layer.mask, property) /\ Allows(instance.mask, property)
          THEN LET values == SampleInstance(program, instance, property, beat)
               IN  [i \in DOMAIN values |-> [weight |-> instance.weight, value |-> values[i]]]
          ELSE <<>>
    IN  FlattenSeq([i \in DOMAIN group.instances |-> contribution(group.instances[i])])

(* weightedOverride: of a discrete property the heaviest, the first of     *)
(* them, of any other the running mean.                                    *)
WeightedOverride(contributions, property) ==
    LET heaviest == CHOOSE i \in DOMAIN contributions :
                      /\ \A j \in DOMAIN contributions : contributions[j].weight <= contributions[i].weight
                      /\ \A j \in 1..(i - 1) : contributions[j].weight < contributions[i].weight
        mean == FoldLeft(LAMBDA m, c : [value |-> Lerp(m.value, c.value, c.weight, m.weight + c.weight),
                                        weight |-> m.weight + c.weight],
                         Head(contributions), Tail(contributions))
    IN  IF property \in Discrete THEN contributions[heaviest].value ELSE mean.value

(* applyAdditive, which gives up on a factor that is not positive.         *)
ApplyAdditive(input, contributions, weight) ==
    FoldLeft(LAMBDA base, c : Added(base, c.value, c.weight * weight), input, contributions)
FactorsArePositive(contributions) ==
    \A i \in DOMAIN contributions :
       LET value == contributions[i].value
       IN  value[2] > 0 /\ (value[1] = "between" => value[3] > 0)

(* collect: a group writes a property of its layer unless another does,    *)
(* or it may not: then the property is discarded.  Every property is mixed *)
(* apart from the others, so the state has one: its value, whether a layer *)
(* has written it, and whether it was ever discarded.                      *)
GroupOutput(group, layer, property, input, contributions) ==
    IF group.mode = "additive" THEN ApplyAdditive(input, contributions, group.weight * layer.weight)
    ELSE LET value == WeightedOverride(contributions, property)
         IN  IF property \in Discrete THEN value
             ELSE Lerp(input, Lerp(input, value, group.weight, One), layer.weight, One)

MayWrite(group, layer, property, contributions) ==
    /\ group.mode = "additive" => property \in Additive
    /\ property \in Discrete => group.mode = "override" /\ layer.weight = One /\ group.weight = One
    /\ group.mode = "additive" /\ property = "scale" => FactorsArePositive(contributions)

(* What a layer makes of an input: [values, discards], no value or one.    *)
Collect(program, layer, property, beat, input) ==
    LET given == [g \in DOMAIN layer.groups |-> Contributions(program, layer, layer.groups[g], property, beat)]
        writers == {g \in DOMAIN layer.groups :
                      layer.weight > 0 /\ layer.groups[g].weight > 0 /\ given[g] # <<>>}
        writer == CHOOSE g \in writers : TRUE
    IN  IF writers = {} THEN [values |-> <<>>, discards |-> FALSE]
        ELSE IF Cardinality(writers) > 1 \/ ~MayWrite(layer.groups[writer], layer, property, given[writer])
        THEN [values |-> <<>>, discards |-> TRUE]
        ELSE [values |-> <<GroupOutput(layer.groups[writer], layer, property, input, given[writer])>>,
              discards |-> FALSE]

(* evaluate, for a property of an object: the layers of a priority all     *)
(* start from what the lower ones left, and two that write are refused.    *)
Priorities(layers) == {layer.priority : layer \in ToSet(layers)}
MixPriority(program, layers, property, beat, state, priority) ==
    LET peers == SelectSeq(layers, LAMBDA layer : layer.priority = priority)
        outcome == [i \in DOMAIN peers |-> Collect(program, peers[i], property, beat, state.value)]
        values == FlattenSeq([i \in DOMAIN peers |-> outcome[i].values])
    IN  [value |-> IF Len(values) = 1 THEN values[1] ELSE state.value,
         written |-> state.written \/ Len(values) = 1,
         discards |-> state.discards \/ Len(values) > 1 \/ \E i \in DOMAIN peers : outcome[i].discards]

MixProperty(program, animated, property, beat) ==
    FoldLeft(LAMBDA state, priority : MixPriority(program, animated.layers, property, beat, state, priority),
             [value |-> BaselineOf(property), written |-> FALSE, discards |-> FALSE],
             SetToSortSeq(Priorities(animated.layers), <))

-------------------------------------------------------------------------------
(* What is meant, said of the document.  The animator of an object is the  *)
(* last that a template or the object itself puts there.                   *)
LastAnimator(document, object) ==
    LET line == LineOf(document, object)
        patches == FlattenSeq([i \in DOMAIN Tail(line) |-> line[i + 1].patches])
        last == SelectLastInSeq(patches, LAMBDA patch : patch.target = "animator")
    IN  IF last = 0 THEN line[1].animator
        ELSE IF patches[last].op = "remove" THEN <<>> ELSE patches[last].animator

(* What acts on a property: a group of a layer whose mask selects it, or a *)
(* binding whose template has it, with the plays that do.                  *)
Play(clip, name, start, scale, count, fill, weight) ==
    [clip |-> clip, name |-> name, start |-> start, scale |-> scale, count |-> count, fill |-> fill,
     weight |-> weight]
Plays(document, parameters, layer, group, property) ==
    {Play(WithId(document.clips, i.clip), i.id, i.start, 1, i.count, i.fill, NumberIn(parameters, i.weight)) :
        i \in {i \in ToSet(group.instances) :
                 property \in ClipProperties(WithId(document.clips, i.clip)) \cap Expand(layer.mask) \cap Expand(i.mask)}}
Effects(document, parameters, documents, animator, property) ==
    UNION {{[priority |-> layer.priority, whole |-> NumberIn(parameters, layer.weight), mode |-> group.mode,
             weight |-> NumberIn(parameters, group.weight),
             plays |-> Plays(document, parameters, layer, group, property)] :
               group \in ToSet(layer.groups)} : layer \in ToSet(animator.layers)}
    \cup {LET template == ImportedTemplate(document, documents, binding.template)
          IN  [priority |-> binding.priority, whole |-> One, mode |-> template.mode,
               weight |-> NumberIn(parameters, binding.weight),
               plays |-> IF property \notin ClipProperties(template.clip) THEN {}
                         ELSE {Play(template.clip, 0, binding.start, NumberIn(parameters, binding.scale),
                                    template.count, template.fill, One)}] :
             binding \in ToSet(animator.bindings)}

(* The value that a play gives at a beat, as often as it repeats.          *)
PlayedValue(play, property, beat) ==
    LET length == play.clip.duration * play.scale
        rounds == {n \in 0..(beat - play.start) : play.start + n * length <= beat
                                                   /\ beat < play.start + (n + 1) * length}
        round == CHOOSE n \in rounds : TRUE
        over == play.count # 0 /\ beat >= play.start + play.count * length
        local == IF over THEN length ELSE beat - play.start - round * length
        given == SelectSeq(play.clip.tracks \o play.clip.steps, LAMBDA track : track.property = property)[1]
        begun == {s \in ToSet(given.segments) :
                    (IF property \in Discrete THEN s.beat ELSE s.start) * play.scale <= local}
    IN  IF beat < play.start \/ (over /\ play.fill = "none") \/ begun = {} THEN <<>>
        ELSE IF property \in Discrete
        THEN <<Value((CHOOSE s \in begun : \A t \in begun : t.beat <= s.beat).value)>>
        ELSE LET s == CHOOSE s \in begun : \A t \in begun : t.start <= s.start
             IN  IF local >= Until(s) * play.scale THEN <<Value(s.to)>>
                 ELSE IF local = s.start * play.scale THEN <<Value(s.from)>>
                 ELSE <<Between(s.from, s.to, local - s.start * play.scale, s.duration * play.scale)>>

(* What an effect makes of the value below it, and what the effects on a   *)
(* property make of its baseline, from the lowest priority to the highest. *)
Acting(effect, property, beat) ==
    SetToSortSeq({play \in effect.plays : play.weight > 0 /\ PlayedValue(play, property, beat) # <<>>},
                 LAMBDA one, two : one.name < two.name)
Upon(effect, property, beat, below) ==
    LET plays == Acting(effect, property, beat)
        given == [i \in DOMAIN plays |-> [weight |-> plays[i].weight,
                                          value |-> PlayedValue(plays[i], property, beat)[1]]]
    IN  GroupOutput(effect, [weight |-> effect.whole], property, below, given)
EffectsAt(effects, property, beat) ==
    {effect \in effects : effect.whole > 0 /\ effect.weight > 0 /\ Acting(effect, property, beat) # <<>>}
PlayedAsWritten(effects, property, beat) ==
    FoldLeft(LAMBDA below, effect : Upon(effect, property, beat, below), BaselineOf(property),
             SetToSortSeq(effects, LAMBDA one, two : one.priority < two.priority))

(* The document with its lists the other way round.                        *)
TurnedClip(clip) ==
    LET turn(tracks) == [i \in DOMAIN tracks |-> [tracks[i] EXCEPT !.segments = Reverse(@)]]
    IN  [clip EXCEPT !.tracks = Reverse(turn(@)), !.steps = Reverse(turn(@))]
TurnedAnimator(animator) ==
    LET group(g) == [g EXCEPT !.instances = Reverse(@)]
        layer(l) == [l EXCEPT !.groups = Reverse([i \in DOMAIN l.groups |-> group(l.groups[i])])]
    IN  [bindings |-> Reverse(animator.bindings),
         layers |-> Reverse([i \in DOMAIN animator.layers |-> layer(animator.layers[i])])]
TurnedOwner(owner) ==
    LET all(animators) == [i \in DOMAIN animators |-> TurnedAnimator(animators[i])]
    IN  [owner EXCEPT !.animator = all(@),
                      !.patches = [i \in DOMAIN @ |-> [@[i] EXCEPT !.animator = all(@)]]]
TurnedAnimations(document) ==
    [document EXCEPT !.parameters = Reverse(@), !.imports = Reverse(@),
        !.clips = Reverse([i \in DOMAIN @ |-> TurnedClip(@[i])]),
        !.templates = Reverse([i \in DOMAIN @ |-> TurnedOwner(@[i])]),
        !.objects = Reverse([i \in DOMAIN @ |-> TurnedOwner(@[i])])]

(* Every instance of the chart has a name of its own, and the layers and   *)
(* the clips that the bindings generate are counted with the others.       *)
ObjectsAnimator(document, id) == LastAnimator(document, WithId(document.objects, id))[1]
InstancesHaveNames(document, program) ==
    LET places == UNION {UNION {UNION {{<<animated.id, layer.id, group.id, i.id>> : i \in ToSet(group.instances)} :
                           group \in ToSet(layer.groups)} :
                           layer \in ToSet(ObjectsAnimator(document, animated.id).layers)} :
                           animated \in ToSet(program.objects)}
    IN  \A one, two \in places : one[4] = two[4] => one = two

(* A document resolves to the same chart and program, or is refused,       *)
(* whatever order its lists are in; what resolves is compiled unless two   *)
(* instances share a name or the generated records are too many; and what  *)
(* is compiled writes at every beat what the document says, of which       *)
(* evaluate discards nothing.                                              *)
AnimatesAsWritten(document, inputs, documents, beats) ==
    LET turned == TurnedAnimations(document)
        parameters == ResolvedParameters(document, inputs)
        program == Program(document, parameters, documents)
        same(animated, property) ==
          LET effects == Effects(document, parameters, documents, ObjectsAnimator(document, animated.id), property)
              sameAt(beat) ==
                LET mixed == MixProperty(program, animated, property, beat)
                    acting == EffectsAt(effects, property, beat)
                IN  /\ ~mixed.discards
                    /\ mixed.written <=> acting # {}
                    /\ mixed.value = PlayedAsWritten(acting, property, beat)
          IN  \A beat \in beats : sameAt(beat)
    IN  /\ Resolves(document, inputs, documents) <=> Resolves(turned, Reverse(inputs), Reverse(documents))
        /\ Resolves(document, inputs, documents) =>
              /\ Resolved(turned, Reverse(inputs), Reverse(documents)) = Resolved(document, inputs, documents)
              /\ {animated.id : animated \in ToSet(program.objects)}
                    = {object.id : object \in {o \in ToSet(document.objects) : LastAnimator(document, o) # <<>>}}
              /\ ProgramCompiles(program) <=> InstancesHaveNames(document, program) /\ BudgetsFit(program)
              /\ ProgramCompiles(program) =>
                    \A animated \in ToSet(program.objects), property \in DOMAIN NeededPart :
                       same(animated, property)
===============================================================================
