---------------------------- MODULE ChartResolver ----------------------------
(***************************************************************************)
(* A chart of version 4 and the documents of its project, resolved: the    *)
(* checks of loadV4Value and of its readers, the parameters, the templates *)
(* and what ChartV4Resolver makes of them.  A document has                 *)
(*   parameters [id, type, default, bounds], None where there is none,     *)
(*   imports    [id, path] of animation templates,                         *)
(*   clips      [id, duration, tracks, steps],                             *)
(*   templates  [id, extends, parts, animator, patches], 0 for a root,     *)
(*   objects    [id, template, parts, animator, patches], 0 for its own,   *)
(*   fov        a number of the camera, and required extensions.           *)
(* A number that a parameter may stand for is [parameter, literal]; an     *)
(* animator is <<>> or <<[bindings, layers]>>.  Beats are whole, a weight  *)
(* is one of 0..One, and -1 fits no property.                              *)
(***************************************************************************)
EXTENDS ChartCompiler

CONSTANTS
    Limits,     \* ChartLimits: a record of BOUNDs
    Supported   \* the extensions of the host

None == -9
One == 2
Literal(value) == [parameter |-> 0, literal |-> value]

(* What a property needs, what a prefix selects, what may be added.        *)
NeededPart == [x |-> "transform", scale |-> "transform", tint |-> "renderable", visible |-> "renderable"]
AnimatedInOrder == <<"x", "scale", "tint">>
Discrete == {"visible"}
Additive == {"x", "scale"}
Selected == [transform |-> {"x", "scale"}, position |-> {"x"}, material |-> {"tint"}, render |-> {"visible"}]
AnimatedMatches(property, value) ==
    CASE property = "tint" -> value \in 0..One
      [] property = "visible" -> value \in {0, 1}
      [] OTHER -> value >= 0

IdsOf(items) == {item.id : item \in ToSet(items)}
IdsDiffer(items) == AllDiffer([i \in DOMAIN items |-> items[i].id])
WithId(items, id) == CHOOSE item \in ToSet(items) : item.id = id

-------------------------------------------------------------------------------
(* readPropertyMask and expandMask.                                        *)
Expand(mask) == ToSet(mask.properties) \cup UNION {Selected[prefix] : prefix \in ToSet(mask.prefixes)}

MaskIsValid(mask) ==
    LET properties == ToSet(mask.properties)
        prefixes == ToSet(mask.prefixes)
    IN  /\ Len(mask.properties) + Len(mask.prefixes) \in 1..Limits.mask
        /\ AllDiffer(mask.properties) /\ AllDiffer(mask.prefixes)
        /\ properties \subseteq DOMAIN NeededPart /\ prefixes \subseteq DOMAIN Selected
        /\ \A prefix \in prefixes :
              /\ properties \cap Selected[prefix] = {}
              /\ \A other \in prefixes \ {prefix} : Selected[prefix] \cap Selected[other] = {}

(* readAnimationClip.                                                      *)
SegmentFits(clip, property, segment) ==
    /\ segment.start >= 0 /\ segment.duration >= 0
    /\ segment.slope # "invalid"
    /\ AnimatedMatches(property, segment.from) /\ AnimatedMatches(property, segment.to)
    /\ segment.duration = 0 => segment.from = segment.to /\ segment.slope = "none"
    /\ Until(segment) <= clip.duration

ClipProperties(clip) ==
    {track.property : track \in ToSet(clip.tracks)} \cup {track.property : track \in ToSet(clip.steps)}

TrackIsValid(clip, track) ==
    /\ track.property \in ToSet(AnimatedInOrder)
    /\ Len(track.segments) \in 1..Limits.segments
    /\ \A segment \in ToSet(track.segments) : SegmentFits(clip, track.property, segment)
    /\ EventsFollow(track.segments)
StepTrackIsValid(clip, track) ==
    /\ track.property \in Discrete
    /\ Len(track.segments) \in 1..Limits.segments
    /\ AllDiffer([i \in DOMAIN track.segments |-> track.segments[i].beat])
    /\ \A step \in ToSet(track.segments) :
          step.beat \in 0..clip.duration /\ AnimatedMatches(track.property, step.value)
ClipIsValid(clip) ==
    /\ clip.duration > 0
    /\ Len(clip.tracks) + Len(clip.steps) \in 1..Limits.tracks
    /\ \A tracks \in {clip.tracks, clip.steps} : AllDiffer([i \in DOMAIN tracks |-> tracks[i].property])
    /\ \A track \in ToSet(clip.tracks) : TrackIsValid(clip, track)
    /\ \A track \in ToSet(clip.steps) : StepTrackIsValid(clip, track)

ReadClip(clip) ==
    LET tracks == SelectSeq(AnimatedInOrder, LAMBDA p : Each(clip.tracks, p) # <<>>)
    IN  [clip EXCEPT
           !.tracks = [i \in DOMAIN tracks |->
              [property |-> tracks[i], segments |-> InBeatOrder(Each(clip.tracks, tracks[i])[1].segments)]],
           !.steps = [i \in DOMAIN @ |-> [@[i] EXCEPT !.segments = KeysInOrder(@)]]]

(* readIterations, readFillMode, readWeightSource, readRationalSource.  An *)
(* endless count is 0.                                                     *)
PlaysProperly(play) ==
    /\ play.count \in 0..Limits.count
    /\ play.fill \in {"none", "hold"}
    /\ play.count = 0 => play.fill = "none"
WeightIsValid(weight) == weight.parameter = 0 => weight.literal \in 0..One
ScaleIsValid(scale) == scale.parameter = 0 => scale.literal > 0

(* readAnimatorComponent.                                                  *)
LayersAreApart(layers) ==
    \A one, two \in DOMAIN layers :
       one # two /\ layers[one].priority = layers[two].priority =>
          Expand(layers[one].mask) \cap Expand(layers[two].mask) = {}

BindingIsValid(binding) == ScaleIsValid(binding.scale) /\ WeightIsValid(binding.weight)
InstanceIsValid(instance) ==
    MaskIsValid(instance.mask) /\ WeightIsValid(instance.weight) /\ PlaysProperly(instance)
BlendGroupIsValid(group) ==
    /\ group.mode \in {"override", "additive"} /\ WeightIsValid(group.weight)
    /\ Len(group.instances) <= Limits.instances /\ IdsDiffer(group.instances)
    /\ \A instance \in ToSet(group.instances) : InstanceIsValid(instance)
LayerIsValid(layer) ==
    /\ MaskIsValid(layer.mask) /\ WeightIsValid(layer.weight)
    /\ Len(layer.groups) <= Limits.groups /\ IdsDiffer(layer.groups)
    /\ \A group \in ToSet(layer.groups) : BlendGroupIsValid(group)

AnimatorIsValid(animator) ==
    /\ Len(animator.bindings) <= Limits.bindings /\ Len(animator.layers) <= Limits.layers
    /\ IdsDiffer(animator.bindings) /\ IdsDiffer(animator.layers)
    /\ \A binding \in ToSet(animator.bindings) : BindingIsValid(binding)
    /\ \A layer \in ToSet(animator.layers) : LayerIsValid(layer)
    /\ LayersAreApart(animator.layers)

-------------------------------------------------------------------------------
(* AnimationTemplateLoader::load: what is added may not be discrete, and   *)
(* is not added to a tint; a factor of a scale is positive.                *)
ScaleIsPositive(clip) ==
    \A track \in ToSet(clip.tracks) : track.property = "scale" =>
       \A segment \in ToSet(track.segments) : segment.from > 0 /\ segment.to > 0

AnimationTemplateIsValid(content) ==
    /\ content # <<>>
    /\ PlaysProperly(content) /\ content.mode \in {"override", "additive"}
    /\ ClipIsValid(content.clip)
    /\ content.mode = "additive" => ClipProperties(content.clip) \subseteq Additive /\ ScaleIsPositive(content.clip)

(* readParameterValue, readParameters, validateConstraints.                *)
ValueIsOf(type, value) == type = "weight" => value \in 0..One
InBounds(value, bounds) ==
    /\ bounds.minimum # None => value >= bounds.minimum
    /\ bounds.above # None => value > bounds.above
    /\ bounds.maximum # None => value <= bounds.maximum
    /\ bounds.below # None => value < bounds.below

BoundsAreSatisfiable(bounds) ==
    LET Given(one, two) == one # None /\ two # None
    IN  /\ Given(bounds.minimum, bounds.maximum) => bounds.minimum <= bounds.maximum
        /\ Given(bounds.minimum, bounds.below) => bounds.minimum < bounds.below
        /\ Given(bounds.above, bounds.maximum) => bounds.above < bounds.maximum
        /\ Given(bounds.above, bounds.below) => bounds.above < bounds.below

ParametersAreValid(parameters) ==
    /\ Len(parameters) <= Limits.parameters /\ IdsDiffer(parameters)
    /\ \A declared \in ToSet(parameters) :
          /\ declared.type \in {"number", "rational", "weight"}
          /\ \A value \in {declared.default} \cup {declared.bounds[end] : end \in DOMAIN declared.bounds} :
                value # None => ValueIsOf(declared.type, value)
          /\ BoundsAreSatisfiable(declared.bounds)
          /\ declared.default # None => InBounds(declared.default, declared.bounds)

ImportsAreValid(imports) ==
    /\ Len(imports) <= Limits.imports /\ IdsDiffer(imports)
    /\ AllDiffer([i \in DOMAIN imports |-> imports[i].path])

-------------------------------------------------------------------------------
(* Every animator of a document, those that no object comes to use too.    *)
Animators(document) ==
    UNION {ToSet(owner.animator) \cup
             UNION {ToSet(patch.animator) : patch \in {p \in ToSet(owner.patches) :
                                                p.target = "animator" /\ p.op # "remove"}} :
             owner \in ToSet(document.templates) \cup ToSet(document.objects)}

ParameterUse(number, type) == IF number.parameter = 0 THEN {} ELSE {[id |-> number.parameter, type |-> type]}
AnimatorUses(animator) ==
    LET weights == {binding.weight : binding \in ToSet(animator.bindings)}
                   \cup UNION {{layer.weight} \cup
                         UNION {{group.weight} \cup {instance.weight : instance \in ToSet(group.instances)} :
                                  group \in ToSet(layer.groups)} : layer \in ToSet(animator.layers)}
    IN  UNION {ParameterUse(weight, "weight") : weight \in weights}
        \cup UNION {ParameterUse(binding.scale, "rational") : binding \in ToSet(animator.bindings)}
ParameterUses(document) ==
    ParameterUse(document.fov, "number") \cup UNION {AnimatorUses(animator) : animator \in Animators(document)}

ParameterUsesAreValid(document) ==
    \A use \in ParameterUses(document) :
       \E declared \in ToSet(document.parameters) : declared.id = use.id /\ declared.type = use.type

ReferencesAreValid(document) ==
    \A animator \in Animators(document) :
       /\ {binding.template : binding \in ToSet(animator.bindings)} \subseteq IdsOf(document.imports)
       /\ \A layer \in ToSet(animator.layers) : \A group \in ToSet(layer.groups) :
             {instance.clip : instance \in ToSet(group.instances)} \subseteq IdsOf(document.clips)

-------------------------------------------------------------------------------
(* The templates from the root of an inheritance down to one of them, or   *)
(* none if it ends in a missing template or in itself.                     *)
RECURSIVE Ancestry(_, _)
Ancestry(templates, line) ==
    LET parent == WithId(templates, Head(line)).extends
    IN  IF parent = 0 THEN [i \in DOMAIN line |-> WithId(templates, line[i])]
        ELSE IF parent \notin IdsOf(templates) \/ parent \in ToSet(line) THEN <<>>
        ELSE Ancestry(templates, <<parent>> \o line)

PatchFits(there, patch) ==
    /\ patch.op \in {"add", "remove", "replace"}
    /\ patch.given <=> patch.op # "remove"
    /\ patch.op # "add" => there

(* applyPatches, which does not see the patches of the animator, and       *)
(* applyAnimatorPatches, which does not see the others: the state is       *)
(* whether all of them fit so far, and the result.                         *)
PatchedParts(state, patch) ==
    IF patch.target = "animator" THEN state
    ELSE [fits |-> state.fits /\ patch.target \in {"transform", "renderable", "element"}
                   /\ PatchFits(patch.target \in state.value, patch),
          value |-> IF patch.op = "remove" THEN state.value \ {patch.target}
                    ELSE state.value \cup {patch.target}]

PatchedAnimator(state, patch) ==
    IF patch.target # "animator" THEN state
    ELSE [fits |-> state.fits /\ PatchFits(state.value # <<>>, patch),
          value |-> IF patch.op = "remove" THEN <<>> ELSE patch.animator]

(* What an owner has of its own, and what its patches make of the rest.    *)
Inherited(line, own, Apply(_, _)) ==
    FoldLeft(LAMBDA state, owner : FoldLeft(Apply, [state EXCEPT !.fits = @ /\ Len(owner.patches) <= Limits.patches],
                                            owner.patches),
             [fits |-> TRUE, value |-> own], Tail(line))

(* A component record is never empty: the place of an animator is taken.   *)
OwnParts(owner) == IF owner.parts = {} THEN {"element"} ELSE owner.parts

LineOf(document, object) ==
    IF object.template = 0 THEN <<object>>
    ELSE Append(Ancestry(document.templates, <<object.template>>), object)
PartsOf(line) == Inherited(line, OwnParts(line[1]), PatchedParts)
AnimatorOf(line) == Inherited(line, line[1].animator, PatchedAnimator)

TemplatesAreValid(document) ==
    /\ Len(document.templates) <= Limits.templates /\ IdsDiffer(document.templates)
    /\ \A template \in ToSet(document.templates) :
          LET line == Ancestry(document.templates, <<template.id>>)
          IN  /\ IF template.extends = 0 THEN template.patches = <<>>
                 ELSE template.parts = {} /\ template.animator = <<>>
              /\ line # <<>>
              /\ PartsOf(line).fits /\ PartsOf(line).value # {} /\ AnimatorOf(line).fits

ObjectsInherit(document) ==
    /\ Len(document.objects) <= MaxObjects /\ IdsDiffer(document.objects)
    /\ \A object \in ToSet(document.objects) :
          /\ object.template \in IdsOf(document.templates) \cup {0}
          /\ IF object.template = 0 THEN object.patches = <<>>
             ELSE object.parts = {} /\ object.animator = <<>>
          /\ LET line == LineOf(document, object)
             IN  PartsOf(line).fits /\ PartsOf(line).value # {} /\ AnimatorOf(line).fits

-------------------------------------------------------------------------------
(* loadV4Value.                                                            *)
PatchPathsAreValid(document) ==
    \A owner \in ToSet(document.templates) \cup ToSet(document.objects) :
       \A patch \in ToSet(owner.patches) : patch.target # "animator.layers"

ChartLoads(document) ==
    /\ ParametersAreValid(document.parameters)
    /\ ImportsAreValid(document.imports)
    /\ Len(document.clips) <= Limits.clips /\ IdsDiffer(document.clips)
    /\ \A clip \in ToSet(document.clips) : ClipIsValid(clip)
    /\ PatchPathsAreValid(document)
    /\ \A animator \in Animators(document) : AnimatorIsValid(animator)
    /\ document.fov.parameter = 0 => document.fov.literal > 0
    /\ ParameterUsesAreValid(document)
    /\ ReferencesAreValid(document)
    /\ TemplatesAreValid(document) /\ ObjectsInherit(document)

(* resolveChartParameters.                                                 *)
InputFits(document, input) ==
    \E declared \in ToSet(document.parameters) :
       declared.id = input.id /\ declared.type = input.type /\ ValueIsOf(input.type, input.value)
ParameterValue(declared, inputs) ==
    LET given == {input.value : input \in {i \in ToSet(inputs) : i.id = declared.id}}
    IN  IF given # {} THEN CHOOSE value \in given : TRUE ELSE declared.default

InputsAreValid(document, inputs) ==
    /\ Len(inputs) <= Limits.parameters /\ IdsDiffer(inputs)
    /\ \A input \in ToSet(inputs) : InputFits(document, input)
    /\ \A declared \in ToSet(document.parameters) :
          LET value == ParameterValue(declared, inputs)
          IN  value # None /\ InBounds(value, declared.bounds)

ResolvedParameters(document, inputs) ==
    [id \in IdsOf(document.parameters) |-> ParameterValue(WithId(document.parameters, id), inputs)]

(* resolvedWeight, resolvedRational.                                       *)
NumberIn(parameters, number) ==
    IF number.parameter = 0 THEN number.literal ELSE parameters[number.parameter]

(* loadImports, with the documents [path, content] of the project.         *)
ImportLoads(documents, import) ==
    \E document \in ToSet(documents) :
       /\ document.path = import.path
       /\ AnimationTemplateIsValid(document.content)
       /\ document.content.id = import.id
       /\ document.content.required \subseteq Supported
ImportsLoad(document, documents) ==
    /\ AllDiffer([i \in DOMAIN documents |-> documents[i].path])
    /\ \A import \in ToSet(document.imports) : ImportLoads(documents, import)
ImportedTemplate(document, documents, id) ==
    (CHOOSE d \in ToSet(documents) : d.path = WithId(document.imports, id).path).content

-------------------------------------------------------------------------------
(* buildProgram.  An identity is <<0, 0, 0, id>> for a record that the     *)
(* chart names, and of the object, the binding and the template for one    *)
(* that a binding generates.                                               *)
Authored(id) == <<0, 0, 0, id>>
Generated(object, binding) == <<1, object, binding.id, binding.template>>
IdentityBefore(one, two) ==
    \E i \in 1..4 : one[i] < two[i] /\ \A j \in 1..(i - 1) : one[j] = two[j]
InIdentityOrder(records) == SortSeq(records, LAMBDA one, two : IdentityBefore(one.identity, two.identity))

AuthoredLayer(parameters, layer) ==
    LET play(i) == [identity |-> Authored(i.id), clip |-> Authored(i.clip), start |-> i.start, scale |-> 1,
                    count |-> i.count, fill |-> i.fill, weight |-> NumberIn(parameters, i.weight),
                    mask |-> i.mask]
        blend(g) == [identity |-> Authored(g.id), mode |-> g.mode, weight |-> NumberIn(parameters, g.weight),
                     instances |-> InIdentityOrder([i \in DOMAIN g.instances |-> play(g.instances[i])])]
    IN  [identity |-> Authored(layer.id), priority |-> layer.priority,
         weight |-> NumberIn(parameters, layer.weight), mask |-> layer.mask,
         groups |-> InIdentityOrder([g \in DOMAIN layer.groups |-> blend(layer.groups[g])])]

GeneratedLayer(parameters, object, binding, template) ==
    LET identity == Generated(object, binding)
        mask == [properties |-> SetToSeq(ClipProperties(template.clip)), prefixes |-> <<>>]
        play == [identity |-> identity, clip |-> identity, start |-> binding.start,
                 scale |-> NumberIn(parameters, binding.scale), count |-> template.count,
                 fill |-> template.fill, weight |-> One, mask |-> mask]
    IN  [identity |-> identity, priority |-> binding.priority, weight |-> One, mask |-> mask,
         groups |-> <<[identity |-> identity, mode |-> template.mode,
                       weight |-> NumberIn(parameters, binding.weight), instances |-> <<play>>]>>]

LayersInOrder(layers) ==
    SortSeq(layers, LAMBDA one, two : \/ one.priority < two.priority
                                      \/ /\ one.priority = two.priority
                                         /\ IdentityBefore(one.identity, two.identity))

Animated(document) ==
    SelectSeq(InIdSequence(document.objects), LAMBDA object : AnimatorOf(LineOf(document, object)).value # <<>>)

Program(document, parameters, documents) ==
    LET animator(object) == AnimatorOf(LineOf(document, object)).value[1]
        template(binding) == ImportedTemplate(document, documents, binding.template)
        layers(object) ==
          LET own == animator(object)
          IN  [i \in DOMAIN own.layers |-> AuthoredLayer(parameters, own.layers[i])]
              \o [i \in DOMAIN own.bindings |->
                    GeneratedLayer(parameters, object.id, own.bindings[i], template(own.bindings[i]))]
        clips(object) ==
          LET own == animator(object)
          IN  [i \in DOMAIN own.bindings |->
                 [identity |-> Generated(object.id, own.bindings[i]),
                  clip |-> ReadClip(template(own.bindings[i]).clip)]]
        objects == Animated(document)
    IN  [clips |-> InIdentityOrder(
            FlattenSeq(<<[i \in DOMAIN document.clips |->
                           [identity |-> Authored(document.clips[i].id), clip |-> ReadClip(document.clips[i])]]>>
                       \o [i \in DOMAIN objects |-> clips(objects[i])])),
         objects |-> [i \in DOMAIN objects |->
            [id |-> objects[i].id, layers |-> LayersInOrder(layers(objects[i]))]]]

-------------------------------------------------------------------------------
(* validateProgram.                                                        *)
ClipOf(program, identity) ==
    (CHOOSE record \in ToSet(program.clips) : record.identity = identity).clip
Effective(program, layer, instance) ==
    ClipProperties(ClipOf(program, instance.clip)) \cap Expand(instance.mask) \cap Expand(layer.mask)
GroupProperties(program, layer, group) ==
    UNION {Effective(program, layer, instance) : instance \in ToSet(group.instances)}

GroupIsValid(program, layer, group, parts) ==
    LET properties == GroupProperties(program, layer, group)
    IN  /\ \A instance \in ToSet(group.instances) :
              /\ Expand(instance.mask) \subseteq Expand(layer.mask)
              /\ group.mode = "additive" /\ "scale" \in Effective(program, layer, instance) =>
                    ScaleIsPositive(ClipOf(program, instance.clip))
        /\ group.mode = "additive" => properties \subseteq Additive
        /\ properties \cap Discrete # {} => layer.weight = One /\ group.weight = One
        /\ {NeededPart[property] : property \in properties} \subseteq parts

(* A bug: only the groups that follow each other are compared.             *)
GroupsAreApartFromNext(program, layer) ==
    \A i \in 2..Len(layer.groups) :
       GroupProperties(program, layer, layer.groups[i - 1]) \cap GroupProperties(program, layer, layer.groups[i]) = {}

GroupsAreApart(program, layer) ==
    \A i, j \in DOMAIN layer.groups : i # j =>
       GroupProperties(program, layer, layer.groups[i]) \cap GroupProperties(program, layer, layer.groups[j]) = {}

(* The tracks of the imports count, and again in the clips they generate.  *)
TracksOfClip(clip) == Len(clip.tracks) + Len(clip.steps)
TracksFit(document, documents, program) ==
    SumOver(document.imports,
            LAMBDA import : TracksOfClip(ImportedTemplate(document, documents, import.id).clip))
       + SumOver(program.clips, LAMBDA record : TracksOfClip(record.clip)) <= Limits.allTracks

ProgramIsValid(document, program) ==
    \A animated \in ToSet(program.objects) :
       LET line == LineOf(document, WithId(document.objects, animated.id))
       IN  /\ LayersAreApart(animated.layers)
           /\ \A layer \in ToSet(animated.layers) :
                 /\ GroupsAreApart(program, layer)
                 /\ \A group \in ToSet(layer.groups) : GroupIsValid(program, layer, group, PartsOf(line).value)

(* resolveParsedV4Source: whether there is no error, and the artifact.     *)
GeneratedBindings(document) ==
    SumOver(Animated(document), LAMBDA object : Len(AnimatorOf(LineOf(document, object)).value[1].bindings))
NumbersAreValid(document, parameters) ==
    /\ NumberIn(parameters, document.fov) > 0
    /\ \A animator \in Animators(document) : \A binding \in ToSet(animator.bindings) :
          NumberIn(parameters, binding.scale) > 0

Resolves(document, inputs, documents) ==
    /\ ChartLoads(document)
    /\ InputsAreValid(document, inputs)
    /\ document.required \subseteq Supported
    /\ ImportsLoad(document, documents)
    /\ LET parameters == ResolvedParameters(document, inputs)
           program == Program(document, parameters, documents)
       IN  /\ NumbersAreValid(document, parameters)
           /\ 4 * GeneratedBindings(document) <= Limits.generated
           /\ TracksFit(document, documents, program)
           /\ ProgramIsValid(document, program)

(* capabilityRequirements.                                                 *)
Capabilities(document) ==
    {"chart"} \cup (IF document.imports # <<>> THEN {"templates"} ELSE {})
    \cup (IF \/ document.imports # <<>> \/ document.clips # <<>>
             \/ \E animator \in Animators(document) : animator.bindings # <<>> \/ animator.layers # <<>>
          THEN {"clips", "layers"} ELSE {})

Resolved(document, inputs, documents) ==
    LET parameters == ResolvedParameters(document, inputs)
        objects == InIdSequence(document.objects)
    IN  [parameters |-> parameters, fov |-> NumberIn(parameters, document.fov),
         objects |-> [i \in DOMAIN objects |->
            [id |-> objects[i].id, parts |-> PartsOf(LineOf(document, objects[i])).value]],
         program |-> Program(document, parameters, documents),
         capabilities |-> Capabilities(document)]
===============================================================================
