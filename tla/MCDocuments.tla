------------------------------ MODULE MCDocuments ------------------------------
(***************************************************************************)
(* Documents on their way: a project directory is edited, packed, changed  *)
(* as a package, and unpacked into a directory; the file of a package is   *)
(* damaged; a chart is edited and compiled, one with animations played,    *)
(* and one packed, damaged and read.                                       *)
(***************************************************************************)
EXTENDS CxcTools, AnimationMixer, PackedChart

-------------------------------------------------------------------------------
(* The charts: small documents, and their changes.                         *)
ObjectRecord(id, parent, parts, behavior) ==
    [id |-> id, parent |-> parent, parts |-> parts, sound |-> TRUE, behavior |-> behavior]
Key(beat, value, easing) == [beat |-> beat, value |-> value, easing |-> easing]
Track(property, keys) == [property |-> property, keys |-> keys]
Event(property, start, duration, from, to) ==
    [property |-> property, start |-> start, duration |-> duration, from |-> from, to |-> to,
     slope |-> "none", group |-> 0]
Step(property, beat, value) ==
    [property |-> property, beat |-> beat, value |-> value, group |-> 0]
Behavior(id, type, tracks, events, steps) ==
    [id |-> id, type |-> type, tracks |-> tracks, events |-> events, steps |-> steps]
Tempo(start, duration, from, to) ==
    [start |-> start, duration |-> duration, from |-> from, to |-> to, slope |-> "none"]
Stop(beat, duration) == [beat |-> beat, duration |-> duration]

(* Three objects in a chain, its root last in the order of the ids; a      *)
(* chart with keyframes, and one with events, a ramp and a stop.           *)
Three == <<ObjectRecord(3, 0, {"transform"}, 1), ObjectRecord(1, 3, {"renderable", "transform"}, 2),
           ObjectRecord(2, 1, {}, 0)>>
KeyframeChart ==
    [version |-> 2, audio |-> "none", camera |-> TRUE, period |-> 2, tempo |-> <<>>, stops |-> <<>>,
     objects |-> Three,
     behaviors |->
        <<Behavior(2, "keyframe", <<Track("position", <<Key(1, 5, "linear"), Key(0, 2, "none")>>)>>,
                   <<>>, <<>>),
          Behavior(1, "keyframe", <<>>, <<>>, <<>>)>>]
EventChart ==
    [version |-> 4, audio |-> "music", camera |-> TRUE, period |-> 2,
     tempo |-> <<Tempo(1, 2, 1, 3)>>, stops |-> <<Stop(1, 1)>>, objects |-> Three,
     behaviors |->
        <<Behavior(2, "event", <<>>,
                   <<Event("position", 2, 1, 4, 5), Event("position", -1, 2, 2, 4),
                     Event("opacity", 0, 0, 1, 1)>>,
                   <<Step("visible", 1, 1), Step("visible", 0, 0)>>),
          Behavior(1, "event", <<>>, <<Event("position", 0, 2, 1, 2)>>, <<>>)>>]
MCCharts == {KeyframeChart, EventChart}

(* One change of a chart.                                                  *)
Changed(seq, Menu(_)) == UNION {{[seq EXCEPT ![i] = x] : x \in Menu(seq[i])} : i \in DOMAIN seq}
ObjectChanges(object) ==
    {[object EXCEPT !.id = id] : id \in 0..3} \cup {[object EXCEPT !.parent = id] : id \in 0..4}
    \cup {[object EXCEPT !.behavior = id] : id \in {0, 1, 3}}
    \cup {[object EXCEPT !.sound = FALSE], [object EXCEPT !.parts = {}]}
TrackChanges(track) ==
    {[track EXCEPT !.keys = Append(@, Key(beat, value, "linear"))] : beat \in {-1, 1, 2}, value \in {-1, 3}}
    \cup {[track EXCEPT !.keys = <<>>], [track EXCEPT !.property = "fov"]}
    \cup IF track.keys = <<>> THEN {} ELSE {[track EXCEPT !.keys[1].easing = "none"]}
EventChanges(event) ==
    {[event EXCEPT !.start = beat] : beat \in {-2, 0, 1, 3}}
    \cup {[event EXCEPT !.duration = beats] : beats \in {-1, 0, 1, 3, 7}}
    \cup {[event EXCEPT !.property = property] : property \in {"position", "fov"}}
    \cup {[event EXCEPT !.group = name] : name \in {-1, 1}}
    \cup {[event EXCEPT !.from = -1], [event EXCEPT !.slope = "some"]}
StepChanges(step) ==
    {[step EXCEPT !.beat = beat] : beat \in {-1, 0, 1}}
    \cup {[step EXCEPT !.property = "material"], [step EXCEPT !.value = -1], [step EXCEPT !.group = 1]}
BehaviorChanges(behavior) ==
    {[behavior EXCEPT !.tracks = tracks] : tracks \in Changed(behavior.tracks, TrackChanges)}
    \cup {[behavior EXCEPT !.events = events] : events \in Changed(behavior.events, EventChanges)}
    \cup {[behavior EXCEPT !.steps = steps] : steps \in Changed(behavior.steps, StepChanges)}
    \cup {[behavior EXCEPT !.id = 1], [behavior EXCEPT !.type = "event"]}
ChartChanges(document) ==
    {[document EXCEPT !.version = version] : version \in {0, 1, 3}}
    \cup {[document EXCEPT !.audio = music] : music \in {"empty", "music"}}
    \cup {[document EXCEPT !.camera = FALSE]}
    \cup {[document EXCEPT !.objects = objects] : objects \in Changed(document.objects, ObjectChanges)}
    \cup {[document EXCEPT !.behaviors = all] : all \in Changed(document.behaviors, BehaviorChanges)}
    \cup {[document EXCEPT !.tempo = Append(@, Tempo(start, beats, 2, 2))] :
             start \in {0, 1, 3}, beats \in {0, 1}}
    \cup {[document EXCEPT !.stops = Append(@, Stop(beat, 2))] : beat \in {-1, 1, 2}}
    \cup {[document EXCEPT !.objects = Append(@, ObjectRecord(4, parent, {}, 0))] : parent \in {1, 5}}

(* A tempo alone: any event, and any stop, may be added.                   *)
MCTempi == {[period |-> 2, events |-> <<>>, stops |-> <<>>]}
TempoChanges(tempo) ==
    {[tempo EXCEPT !.events = Append(@, event)] :
        event \in {Tempo(start, beats, from, to) : start \in {-2, 0, 2}, beats \in {0, 2, 3},
                                                   from \in {1, 3}, to \in {1, 3}}}
    \cup {[tempo EXCEPT !.stops = Append(@, Stop(beat, beats))] :
             beat \in {-1, 0, 1, 3}, beats \in {0, 1, 2}}
ChartTimes == -5..8
-------------------------------------------------------------------------------
(* Animations.  The first object takes its animator from a template of a   *)
(* template, whose three groups fade between two plays, add a scale and    *)
(* switch; the second has two bindings to an imported one; and the layers  *)
(* of both are of two priorities.                                          *)
MCLimits ==
    [mask |-> 3, tracks |-> 3, segments |-> 3, count |-> 2, bindings |-> 2, layers |-> 3, groups |-> 4,
     instances |-> 2, parameters |-> 2, imports |-> 2, clips |-> 4, templates |-> 3, patches |-> 2,
     generated |-> 12, allTracks |-> 14, writesPerObject |-> 4, writes |-> 12]
MCSupported == {"extra"}

Segment(start, duration, from, to) ==
    [start |-> start, duration |-> duration, from |-> from, to |-> to, slope |-> "none"]
Segments(property, segments) == [property |-> property, segments |-> segments]
Clip(id, duration, tracks, steps) == [id |-> id, duration |-> duration, tracks |-> tracks, steps |-> steps]
Of(properties, prefixes) == [properties |-> properties, prefixes |-> prefixes]
Instance(id, clip, start, count, fill, weight, mask) ==
    [id |-> id, clip |-> clip, start |-> start, count |-> count, fill |-> fill, weight |-> weight, mask |-> mask]
Group(id, mode, weight, instances) == [id |-> id, mode |-> mode, weight |-> weight, instances |-> instances]
Layer(id, priority, weight, mask, groups) ==
    [id |-> id, priority |-> priority, weight |-> weight, mask |-> mask, groups |-> groups]
Binding(id, template, start, scale, weight, priority) ==
    [id |-> id, template |-> template, start |-> start, scale |-> scale, weight |-> weight, priority |-> priority]
Parameter(id, type, default, minimum, below) ==
    [id |-> id, type |-> type, default |-> default,
     bounds |-> [minimum |-> minimum, above |-> None, maximum |-> None, below |-> below]]
Named(id) == [parameter |-> id, literal |-> None]
Patch(op, target, animator) ==
    [op |-> op, target |-> target, given |-> op # "remove", animator |-> animator]
Owner(id, parts, animator, patches) ==
    [id |-> id, parts |-> parts, animator |-> animator, patches |-> patches]

Moving == Clip(1, 2, <<Segments("tint", <<Segment(0, 1, 0, 2)>>),
                       Segments("x", <<Segment(1, 1, 4, 5), Segment(0, 1, 2, 4)>>)>>,
                  <<Segments("visible", <<[beat |-> 1, value |-> 1], [beat |-> 0, value |-> 0]>>)>>)
Growing == Clip(2, 1, <<Segments("scale", <<Segment(0, 1, 1, 3)>>)>>, <<>>)
Fading == Group(1, "override", Literal(One),
                <<Instance(2, 1, 1, 1, "hold", Literal(1), Of(<<"x", "tint">>, <<>>)),
                  Instance(1, 1, 0, 0, "none", Named(1), Of(<<"x">>, <<>>))>>)
Swelling == Group(2, "additive", Literal(1),
                  <<Instance(3, 2, 0, 2, "none", Literal(One), Of(<<"scale">>, <<>>))>>)
Blinking == Group(3, "override", Literal(One),
                  <<Instance(4, 1, 0, 1, "hold", Literal(One), Of(<<>>, <<"render">>))>>)
Whole == Layer(1, 0, Literal(One), Of(<<>>, <<"transform", "material", "render">>),
               <<Blinking, Swelling, Fading>>)
Shifting == Layer(2, 1, Literal(1), Of(<<"x">>, <<>>),
                  <<Group(1, "additive", Literal(One),
                          <<Instance(5, 1, 1, 1, "none", Literal(One), Of(<<"x">>, <<>>))>>)>>)
Moves == [bindings |-> <<>>, layers |-> <<Shifting, Whole>>]
Borrows == [bindings |-> <<Binding(2, 1, 1, Named(2), Literal(One), 1),
                           Binding(1, 1, 0, Literal(1), Named(1), 0)>>,
            layers |-> <<>>]

AnimationDocument ==
    [parameters |-> <<Parameter(2, "rational", None, 1, 3), Parameter(1, "weight", 1, None, None)>>,
     imports |-> <<[id |-> 1, path |-> "swing"]>>, clips |-> <<Growing, Moving>>,
     templates |->
        <<[extends |-> 1] @@ Owner(2, {}, <<>>, <<Patch("add", "animator", <<Moves>>)>>),
          [extends |-> 0] @@ Owner(1, {"transform", "renderable"}, <<>>, <<>>)>>,
     objects |->
        <<[template |-> 0] @@ Owner(2, {"transform"}, <<Borrows>>, <<>>),
          [template |-> 2] @@ Owner(1, {}, <<>>, <<>>)>>,
     fov |-> Literal(1), required |-> {}]
Swing == [id |-> 1, mode |-> "override", count |-> 1, fill |-> "hold", required |-> {},
          clip |-> Clip(0, 2, <<Segments("x", <<Segment(0, 2, 1, 3)>>)>>, <<>>)]
MCAnimations ==
    {[document |-> AnimationDocument, inputs |-> <<[id |-> 2, type |-> "rational", value |-> 2]>>,
      documents |-> <<[path |-> "swing", content |-> Swing]>>]}

(* One change of an animation.                                             *)
MaskChanges(mask) ==
    {Of(<<"x">>, <<>>), Of(<<>>, <<"position">>), Of(<<"x">>, <<"transform">>), Of(<<"tint", "scale">>, <<>>),
     Of(<<>>, <<>>)}
WeightChanges(weight) == {Literal(0), Literal(1), Named(1), Named(2), Literal(3)}
InstanceChanges(instance) ==
    {[instance EXCEPT !.id = id] : id \in {1, 4}} \cup {[instance EXCEPT !.clip = clip] : clip \in {1, 2, 3}}
    \cup {[instance EXCEPT !.start = beat] : beat \in {-1, 3}} \cup {[instance EXCEPT !.count = n] : n \in {0, 2}}
    \cup {[instance EXCEPT !.fill = "none"]}
    \cup {[instance EXCEPT !.weight = weight] : weight \in WeightChanges(instance.weight)}
    \cup {[instance EXCEPT !.mask = mask] : mask \in MaskChanges(instance.mask)}
GroupChanges(group) ==
    {[group EXCEPT !.id = id] : id \in {1, 4}} \cup {[group EXCEPT !.mode = mode] : mode \in {"override", "additive"}}
    \cup {[group EXCEPT !.weight = weight] : weight \in WeightChanges(group.weight)}
    \cup {[group EXCEPT !.instances = all] : all \in Changed(group.instances, InstanceChanges)}
LayerChanges(layer) ==
    {[layer EXCEPT !.id = 1], [layer EXCEPT !.groups = Append(@, [Fading EXCEPT !.id = 4])]}
    \cup {[layer EXCEPT !.priority = priority] : priority \in {0, 2}}
    \cup {[layer EXCEPT !.weight = weight] : weight \in WeightChanges(layer.weight)}
    \cup {[layer EXCEPT !.mask = mask] : mask \in MaskChanges(layer.mask)}
    \cup {[layer EXCEPT !.groups = all] : all \in Changed(layer.groups, GroupChanges)}
BindingChanges(binding) ==
    {[binding EXCEPT !.id = 1], [binding EXCEPT !.template = 2], [binding EXCEPT !.start = -1]}
    \cup {[binding EXCEPT !.priority = priority] : priority \in {0, 2}}
    \cup {[binding EXCEPT !.scale = scale] : scale \in {Literal(0), Literal(2), Named(1), Named(2)}}
    \cup {[binding EXCEPT !.weight = weight] : weight \in WeightChanges(binding.weight)}
AnimatorChanges(animator) ==
    {[animator EXCEPT !.bindings = all] : all \in Changed(animator.bindings, BindingChanges)}
    \cup {[animator EXCEPT !.layers = all] : all \in Changed(animator.layers, LayerChanges)}
    \cup {[animator EXCEPT !.layers = Append(@, Whole)],
          [animator EXCEPT !.bindings = Append(@, Binding(3, 1, 0, Literal(1), Literal(1), 2))]}
PatchChanges(patch) ==
    {[patch EXCEPT !.op = op] : op \in {"add", "remove", "replace"}} \cup {[patch EXCEPT !.target = "element"]}
    \cup {[patch EXCEPT !.animator = all] : all \in Changed(patch.animator, AnimatorChanges)}
PatchedOwners(owner) ==
    {[owner EXCEPT !.patches = Append(@, patch)] :
        patch \in {Patch("remove", "animator", <<>>), Patch("replace", "animator", <<Borrows>>),
                   Patch("remove", "renderable", <<>>), Patch("add", "animator.layers", <<>>)}}
OwnerChanges(owner) ==
    {[owner EXCEPT !.id = id] : id \in 1..3} \cup {[owner EXCEPT !.animator = <<Borrows>>]}
    \cup {[owner EXCEPT !.parts = parts] : parts \in {{}, {"transform"}}}
    \cup {[owner EXCEPT !.animator = all] : all \in Changed(owner.animator, AnimatorChanges)}
    \cup {[owner EXCEPT !.patches = all] : all \in Changed(owner.patches, PatchChanges)}
    \cup PatchedOwners(owner)
TemplateOwnerChanges(template) ==
    {[template EXCEPT !.extends = id] : id \in {0, 1, 2, 3}} \cup OwnerChanges(template)
ObjectOwnerChanges(object) == {[object EXCEPT !.template = id] : id \in {0, 1, 2, 3}} \cup OwnerChanges(object)
SegmentChanges(segment) ==
    {[segment EXCEPT !.start = 1], [segment EXCEPT !.duration = 0], [segment EXCEPT !.duration = 2],
     [segment EXCEPT !.to = 0], [segment EXCEPT !.slope = "some"]}
SegmentsChanges(track) ==
    {[track EXCEPT !.property = property] : property \in {"x", "scale"}}
    \cup {[track EXCEPT !.segments = all] : all \in Changed(track.segments, SegmentChanges)}
ClipChanges(clip) ==
    {[clip EXCEPT !.duration = beats] : beats \in 0..3} \cup {[clip EXCEPT !.id = 1]}
    \cup {[clip EXCEPT !.tracks = all] : all \in Changed(clip.tracks, SegmentsChanges)}
    \cup {[clip EXCEPT !.tracks = Append(@, track)] :
             track \in {Segments("x", <<Segment(1, 0, 4, 4)>>), Segments("scale", <<Segment(0, 1, 0, 1)>>)}}
    \cup {[clip EXCEPT !.steps = <<Segments("visible", <<[beat |-> 1, value |-> 1]>>)>>]}
ParameterChanges(parameter) ==
    {[parameter EXCEPT !.id = 1], [parameter EXCEPT !.default = 2], [parameter EXCEPT !.type = "weight"],
     [parameter EXCEPT !.bounds.above = 0], [parameter EXCEPT !.bounds.above = 2],
     [parameter EXCEPT !.bounds.maximum = 1]}
TemplateFileChanges(content) ==
    IF content = <<>> THEN {} ELSE
    {[content EXCEPT !.clip = clip] : clip \in ClipChanges(content.clip)}
    \cup {[content EXCEPT !.mode = "additive"], [content EXCEPT !.count = 0], [content EXCEPT !.fill = "none"],
          [content EXCEPT !.id = 2], [content EXCEPT !.required = {"extra"}],
          [content EXCEPT !.required = {"unknown"}], [content EXCEPT !.count = 2]}
AnimationChanges(animation) ==
    {[animation EXCEPT !.document.parameters = all] : all \in Changed(animation.document.parameters, ParameterChanges)}
    \cup {[animation EXCEPT !.document.clips = all] : all \in Changed(animation.document.clips, ClipChanges)}
    \cup {[animation EXCEPT !.document.templates = all] :
             all \in Changed(animation.document.templates, TemplateOwnerChanges)}
    \cup {[animation EXCEPT !.document.objects = all] :
             all \in Changed(animation.document.objects, ObjectOwnerChanges)
                     \cup {Append(animation.document.objects, [template |-> 2] @@ Owner(3, {}, <<>>, <<>>))}}
    \cup {[animation EXCEPT !.document.imports = Append(@, [id |-> 2, path |-> path])] : path \in {"swing", "none"}}
    \cup {[animation EXCEPT !.document.fov = fov] : fov \in {Literal(0), Named(1)}}
    \cup {[animation EXCEPT !.document.required = {"unknown"}]}
    \cup {[animation EXCEPT !.inputs[1].value = value] : value \in {0, 1, 3}}
    \cup {[animation EXCEPT !.inputs = <<>>]}
    \cup {[animation EXCEPT !.documents[1].content = content] :
             content \in TemplateFileChanges(animation.documents[1].content) \cup {<<>>}}
    \cup {[animation EXCEPT !.documents[1].path = "none"]}

(* The changes that may follow another one.                                *)
LateChanges(animation) ==
    {[animation EXCEPT !.document.templates = all] : all \in Changed(animation.document.templates, PatchedOwners)}
    \cup {[animation EXCEPT !.document.objects = all] :
             all \in Changed(animation.document.objects, PatchedOwners)
                     \cup {Append(animation.document.objects, [template |-> 2] @@ Owner(3, {}, <<>>, <<>>))}}
    \cup {[animation EXCEPT !.documents[1].content = content] :
             content \in TemplateFileChanges(animation.documents[1].content)}
    \cup {[animation EXCEPT !.inputs = <<[id |-> 2, type |-> "rational", value |-> value]>>] : value \in {1, 3}}
    \cup {[animation EXCEPT !.inputs = Append(@, [id |-> 1, type |-> "weight", value |-> 2])]}
AnimationBeats == {0, 1, 2, 3, 5}
-------------------------------------------------------------------------------
(* Charts to be packed: an entity with a tap, and two generated from one   *)
(* scope, which hang one below the other, and whose transforms differ in   *)
(* a field.  Names: 1 is the chart, 5 the feature, 6 and 7 what is judged. *)
MCPackedLimits == [entities |-> 4, requirements |-> 2, strings |-> 10, references |-> 7]

PathStep(node, iteration) == [node |-> node, iteration |-> iteration]
Clone(iteration) ==
    [generated |-> TRUE, id |-> 1, scope |-> <<2, 9, 2>>, path |-> <<PathStep(3, iteration), PathStep(4, 0)>>]
Component(kind, fields) == [kind |-> kind, fields |-> fields]
Tap(name, beat, lane) ==
    [name |-> name, kind |-> "tap", interval |-> "point", beat |-> beat, end |-> <<>>,
     category |-> <<"judgement-domain", "action">>, domain |-> 6, action |-> 7, lanes |-> <<lane>>, effects |-> <<>>]
Entity(identity, parent, components, requirements) ==
    [identity |-> identity, parent |-> parent, components |-> components, requirements |-> requirements]
MCPackedCharts ==
    {[id |-> 1, music |-> 2, camera |-> [type |-> 1, lens |-> 1, position |-> 0, turned |-> FALSE],
      features |-> <<[id |-> 5, version |-> 1]>>, period |-> 2, tempo |-> <<Tempo(1, 2, 1, 3)>>,
      stops |-> <<Stop(2, 1)>>, closure |-> {<<2, "music">>, <<3, "mesh">>, <<4, "material">>},
      entities |->
        <<Entity(Clone(2), <<Clone(1)>>, <<Component(1, <<1, 2, 4>>)>>, <<>>),
          Entity(Explicit(2), <<>>, <<Component(2, <<3, 4, 1>>), Component(1, <<1, 1, 1>>)>>,
                 <<Tap(9, 1, 1), Tap(8, 0, 2)>>),
          Entity(Clone(1), <<Explicit(2)>>, <<Component(1, <<1, 2, 3>>)>>, <<>>)>>]}

RequirementChanges(requirement) ==
    {[requirement EXCEPT !.name = 9], [requirement EXCEPT !.lanes = <<3>>], [requirement EXCEPT !.lanes = <<4>>],
     [requirement EXCEPT !.lanes = <<1, 2>>], [requirement EXCEPT !.interval = "range", !.end = <<3>>],
     [requirement EXCEPT !.domain = 3], [requirement EXCEPT !.action = 6], [requirement EXCEPT !.kind = "hold"],
     [requirement EXCEPT !.category = <<"action">>], [requirement EXCEPT !.effects = <<1>>]}
ComponentChanges(component) ==
    {[component EXCEPT !.kind = kind] : kind \in {1}} \cup {[component EXCEPT !.fields[field] = 4] : field \in 1..3}
IdentityChanges(identity) ==
    {Explicit(1), Explicit(2), Clone(1), Clone(3), [Clone(1) EXCEPT !.path[2].iteration = 1],
     [Clone(1) EXCEPT !.id = 2], [Clone(1) EXCEPT !.path = <<>>], [Clone(1) EXCEPT !.scope[2] = 2],
     [Clone(1) EXCEPT !.path = Tail(@)], [Clone(2) EXCEPT !.path = <<PathStep(3, 1)>> \o @]}
EntityChanges(entity) ==
    {[entity EXCEPT !.identity = identity] : identity \in IdentityChanges(entity.identity)}
    \cup {[entity EXCEPT !.parent = parent] :
             parent \in {<<>>, <<Explicit(1)>>, <<Explicit(2)>>, <<Clone(1)>>, <<Clone(2)>>}}
    \cup {[entity EXCEPT !.components = all] :
             all \in Changed(entity.components, ComponentChanges)
                     \cup {Tail(entity.components), Append(entity.components, Component(3, <<1, 2, 3, 4>>)),
                           Append(entity.components, Component(3, <<2, 2, 3, 4>>)),
                           Append(entity.components, Component(1, <<1, 1, 1>>))}}
    \cup {[entity EXCEPT !.requirements = all] :
             all \in Changed(entity.requirements, RequirementChanges) \cup {<<>>, <<Tap(10, 1, 1)>>}}
PackedChanges(chart) ==
    {[chart EXCEPT !.features = features] :
        features \in {<<>>, chart.features \o chart.features, <<[id |-> 6, version |-> 1]>>,
                      <<[id |-> 5, version |-> 2]>>}}
    \cup {[chart EXCEPT !.music = 0], [chart EXCEPT !.music = 0, !.closure = @ \ {<<2, "music">>}],
          [chart EXCEPT !.camera.type = 2], [chart EXCEPT !.camera.turned = TRUE],
          [chart EXCEPT !.tempo = Append(@, Tempo(0, 1, 2, 2))], [chart EXCEPT !.tempo = Append(@, Tempo(1, 0, 2, 2))],
          [chart EXCEPT !.stops = Append(@, Stop(1, 1))], [chart EXCEPT !.stops = Append(@, Stop(2, 2))]}
    \cup {[chart EXCEPT !.entities = all] :
             all \in Changed(chart.entities, EntityChanges)
                     \cup {<<>>, Tail(chart.entities),
                           Append(chart.entities, Entity(Explicit(1), <<Clone(2)>>, <<>>, <<>>)),
                           Append(chart.entities, Entity(Clone(3), <<>>, <<Component(1, <<1, 2, 4>>)>>, <<Tap(1, 1, 0)>>))}}

(* One change of a packed file: of the header, of the directory, of the    *)
(* rows of a section or of a row; a file is filed again with the counts of *)
(* its sections.                                                           *)
Filed(file, sections) ==
    LET codes == SelectSeq(CodesInOrder, LAMBDA code : code \in DOMAIN sections)
        count(code) == IF code \in DOMAIN sections THEN RowsOf(code, sections[code]) ELSE 0
    IN  [file EXCEPT !.sections = sections,
                     !.header.entities = count("ENT0"), !.header.requirements = count("REQ0"),
                     !.header.strings = count("STR0"), !.header.references = count("REF0"),
                     !.directory = [i \in DOMAIN codes |->
                         [code |-> codes[i], flags |-> 0, at |-> i, sound |-> TRUE,
                          records |-> RowsOf(codes[i], sections[codes[i]])]]]
HeaderChanges(header) ==
    {[header EXCEPT !.plain = FALSE], [header EXCEPT !.entities = 4], [header EXCEPT !.requirements = 1],
     [header EXCEPT !.strings = 11], [header EXCEPT !.references = 2], [header EXCEPT !.identity = <<>>]}
DirectoryChanges(entries) ==
    UNION {{[entries EXCEPT ![i].flags = flags] : flags \in {1, 2}}
           \cup {[entries EXCEPT ![i].sound = FALSE], [entries EXCEPT ![i].at = 13],
                 [entries EXCEPT ![i].records = @ + 1]} : i \in DOMAIN entries}
    \cup {Reverse(entries)}
    \cup {Append(entries, [code |-> code, flags |-> flags, at |-> Len(entries) + 1, sound |-> TRUE,
                              records |-> 0]) :
             code \in {"DBG0", "BEH0", "XXX0", "STR0"}, flags \in {0, 1}}
RowsChanges(rows) ==
    {RemoveAt(rows, i) : i \in DOMAIN rows}
    \cup {InsertAt(rows, i, rows[i]) : i \in DOMAIN rows}
    \cup {[rows EXCEPT ![i] = rows[i + 1], ![i + 1] = rows[i]] : i \in 1..(Len(rows) - 1)}
StreamRowChanges(row) ==
    {[row EXCEPT !.ordinal = i] : i \in 0..4} \cup {[row EXCEPT !.mask = mask] : mask \in {0, 1, 8, 16, 128}}
    \cup {[row EXCEPT !.values = [i \in DOMAIN row.values |-> 1]], [row EXCEPT !.values = Append(@, 1)]}
RecordChanges(row) ==
    {[row EXCEPT !.id = 1], [row EXCEPT !.scope = 1], [row EXCEPT !.scope = 0, !.path = 0, !.iterations = <<>>]}
    \cup IF row.scope = 0 THEN {}
         ELSE {[row EXCEPT !.scope = 2], [row EXCEPT !.path = 0], [row EXCEPT !.path = 2]}
              \cup {[row EXCEPT !.iterations = iterations] : iterations \in {<<>>, <<0>>, <<1>>, <<3>>, <<1, 1>>}}
TapRowChanges(row) ==
    {[row EXCEPT !.delta = i] : i \in -1..3} \cup {[row EXCEPT !.name = i] : i \in {0, 1, 9}}
    \cup {[row EXCEPT !.domain = i] : i \in {1, 5, 6}} \cup {[row EXCEPT !.constraint = i] : i \in 0..3}
    \cup {[row EXCEPT !.interval = 1, !.end = <<3>>], [row EXCEPT !.interval = 1], [row EXCEPT !.effect = 1],
          [row EXCEPT !.kind = 2]}
RowChanges(code, row) ==
    CASE code = "STR0" -> 1..11
      [] code = "REF0" -> {<<kind, row[2]>> : kind \in {1, 4, 5, 7}} \cup {<<row[1], index>> : index \in 0..9}
      [] code = "ARCH" -> {[row EXCEPT !.mask = mask] : mask \in {0, 1, 3, 8, 16}}
                          \cup {[row EXCEPT !.defaults[1] = <<1, 2, 2>>], [row EXCEPT !.defaults[2] = <<1, 1, 1>>],
                                [row EXCEPT !.defaults[3] = <<2, 1, 1, 1>>]}
      [] code = "ENT0" -> {[row EXCEPT !.parent = i] : i \in 0..4} \cup {[row EXCEPT !.archetype = i] : i \in 0..3}
      [] code = "CNS0" -> {<<kind, lane>> : kind \in 1..2, lane \in 0..4}
      [] code = "REQ0" -> TapRowChanges(row)
      [] OTHER -> StreamRowChanges(row)
SectionChanges(code, section) ==
    CASE code = "META" -> {[section EXCEPT !.music = i] : i \in {0, 2, 9}}
                          \cup {[section EXCEPT !.features[1].ref = 1], [section EXCEPT !.features = @ \o @],
                                [section EXCEPT !.features[1].version = 2], [section EXCEPT !.camera.type = 2],
                                [section EXCEPT !.id = 2]}
      [] code = "TIME" -> {[section EXCEPT !.tempo = @ \o @], [section EXCEPT !.stops = Append(@, Stop(1, 1))],
                           [section EXCEPT !.period = 3]}
      [] code = "IDN0" -> {[section EXCEPT !.scopes = rows] :
                             rows \in RowsChanges(section.scopes) \cup {<<<<1, 1, 0, 1>>>>, <<<<2, 2, 8, 2>>>>}}
                          \cup {[section EXCEPT !.paths = rows] :
                                   rows \in RowsChanges(section.paths)
                                            \cup {<<<<<<3, 0>>, <<4, 0>>>>>>, <<<<<<3, 1>>, <<4, 1>>>>>>, <<<<>>>>,
                                                  <<<<<<3, 1>>, <<4, 2>>>>>>, <<<<<<3, 1>>, <<11, 0>>>>>>}}
                          \cup {[section EXCEPT !.records = rows] :
                                   rows \in RowsChanges(section.records) \cup Changed(section.records, RecordChanges)}
      [] OTHER -> RowsChanges(section)
                  \cup UNION {{[section EXCEPT ![i] = row] : row \in RowChanges(code, section[i])} : i \in DOMAIN section}
DamagedFiles(file) ==
    {[file EXCEPT !.header = header] : header \in HeaderChanges(file.header)}
    \cup {[file EXCEPT !.directory = all] : all \in DirectoryChanges(file.directory)}
    \cup {Filed(file, [other \in DOMAIN file.sections \ {code} |-> file.sections[other]]) : code \in DOMAIN file.sections}
    \cup UNION {{Filed(file, [file.sections EXCEPT ![code] = section]) :
                     section \in SectionChanges(code, file.sections[code])} : code \in DOMAIN file.sections}

-------------------------------------------------------------------------------
(* The directory, the packages and the draft.                              *)

VARIABLES
    family,
    directory, \* the files of a project
    package,   \* the last package, <<>> if there is none
    envelope,  \* a small archive
    draft,     \* a beat, a tempo, a chart or an animation with its inputs and documents
    edits

documentVars == <<directory, package, envelope>>
vars == <<family, documentVars, draft, edits, toolVars>>

CONSTANTS
    MaxEdits,       \* BOUND on the changes of a document
    MaxTempoEdits   \* BOUND on the changes of a tempo
CONSTANTS t1, t2

Symmetry == Permutations(Tool)

(* Names: ".." is not portable; "A" folds to "a".                          *)
MCNotPortable == {".."}
MCLowerCase == "A" :> "a"
In(name) == <<"content", name>>
MCPathsInOrder ==
    <<In(".."), In("A"), In("a"), <<"content", "a", "b">>, In("b"), In("c"), In("chart"), In("index"),
      In("template"), <<"extra", "a">>, <<"extra", "index">>, ManifestPath, ProjectPath>>

Root(id, path) == [id |-> id, path |-> path]
Asset(id, type, source, dependencies) ==
    [id |-> id, type |-> type, source |-> source, dependencies |-> dependencies]
Use(id, type) == [id |-> id, type |-> type]
Import(source, id) == [source |-> source, id |-> id]

Data == [kind |-> "data"]
Config(roots) ==
    [kind |-> "project", roots |-> roots, entry |-> [root |-> 1, path |-> <<"chart">>]]
Index(version, assets) == [kind |-> "index", version |-> version, assets |-> assets]
Chart(uses, imports) == [kind |-> "chart", uses |-> uses, imports |-> imports]
Template(id, uses) == [kind |-> "template", id |-> id, uses |-> uses]

Sprite == Asset(1, "material", <<"a">>, {2})
Picture == Asset(2, "texture", <<"b">>, {})
Third == Asset(3, "mesh", <<"c">>, {1})

(* A project with an imported template, one with two roots, and one whose  *)
(* assets are a chain, its root first.                                     *)
Small(assets) ==
    (ProjectPath :> Config(<<Root(1, <<"content">>)>>)) @@ (In("index") :> Index(3, assets))
    @@ (In("a") :> Data) @@ (In("b") :> Data)
    @@ (In("chart") :> Chart({Use(1, "material")}, <<Import(In("template"), 1)>>))
    @@ (In("template") :> Template(1, {}))
TwoRoots ==
    (ProjectPath :> Config(<<Root(1, <<"content">>), Root(2, <<"extra">>)>>))
    @@ (<<"extra", "index">> :> Index(2, <<Asset(3, "audio", <<"a">>, {})>>))
    @@ (<<"extra", "a">> :> Data) @@ Small(<<Sprite, Picture>>)
Chain == (In("c") :> Data) @@ Small(<<Third, Sprite, Picture>>)
MCProjects == {Small(<<Sprite, Picture>>), TwoRoots, Chain}

-------------------------------------------------------------------------------
(* One change of a document.                                               *)
EditedConfigs(config) ==
    {[config EXCEPT !.roots = Append(@, root)] :
        root \in {Root(2, <<"extra">>), Root(1, <<"extra">>), Root(2, <<"content", "a">>)}}
    \cup {[config EXCEPT !.roots[1] = root] : root \in {Root(0, <<"content">>), Root(1, <<"..">>)}}
    \cup {[config EXCEPT !.entry.root = 2], [config EXCEPT !.entry.path = <<"a">>],
          [config EXCEPT !.entry.path = <<"index">>]}

EditedAssets(asset) ==
    {[asset EXCEPT !.dependencies = ids] : ids \in SUBSET (1..3) \cup {{0}}}
    \cup {[asset EXCEPT !.type = type] : type \in {"audio", "shader", "mesh"}}
    \cup {[asset EXCEPT !.source = path] : path \in {<<"a">>, <<"index">>, <<"chart">>, <<"..">>}}
    \cup {[asset EXCEPT !.id = id] : id \in {0, 3}}

EditedIndexes(index) ==
    {[index EXCEPT !.version = version] : version \in {0, 1, 2}}
    \cup {[index EXCEPT !.assets = Append(@, Third)], [index EXCEPT !.assets = Reverse(@)]}
    \cup UNION {{[index EXCEPT !.assets[k] = asset] : asset \in EditedAssets(index.assets[k])} :
                   k \in DOMAIN index.assets}

EditedCharts(chart) ==
    {[chart EXCEPT !.uses = uses] : uses \in {{Use(2, "audio")}, {Use(3, "mesh")}}}
    \cup {[chart EXCEPT !.imports = imports] :
            imports \in {<<>>, <<Import(In("template"), 1), Import(In("template"), 1)>>,
                         <<Import(In("template"), 2)>>, <<Import(In("a"), 1)>>}}

EditedTemplates(template) == {Template(2, {}), Template(1, {Use(2, "mesh")})}

EditedDocuments(content) ==
    CASE content.kind = "project" -> EditedConfigs(content)
      [] content.kind = "index" -> EditedIndexes(content)
      [] content.kind = "chart" -> EditedCharts(content)
      [] content.kind = "template" -> EditedTemplates(content)
      [] OTHER -> {}

Without(files, path) == [other \in DOMAIN files \ {path} |-> files[other]]

Edited(files) ==
    UNION {{[files EXCEPT ![path] = content] : content \in EditedDocuments(files[path])} :
              path \in DOMAIN files}
    \cup {Without(files, path) : path \in DOMAIN files}
    \cup {(path :> Data) @@ files : path \in ToSet(MCPathsInOrder) \ (DOMAIN files \cup {ManifestPath})}

(* One change of a package that leaves the digests right.                  *)
EditedManifests(manifest) ==
    {[manifest EXCEPT !.required = ids] : ids \in {<<1>>, <<1, 1>>, <<0>>}}
    \cup {[manifest EXCEPT !.playback = {In("b"), In("c")}], [manifest EXCEPT !.version = 2],
          [manifest EXCEPT !.entries = Reverse(@)], [manifest EXCEPT !.entries = Tail(@)],
          [manifest EXCEPT !.entries = Append(@, Last(@))]}
Written(manifest, files) ==
    LET paths == InPathOrder(DOMAIN files)
    IN  Archive(<<PackageEntry(ManifestPath, manifest)>>
                  \o [i \in DOMAIN paths |-> PackageEntry(paths[i], files[paths[i]])])
RelistedPackages(file) ==
    {Written(other, Unpacked(file)) : other \in EditedManifests(FilesOf(file)[ManifestPath])}
EditedPackages(file) ==
    LET files == Unpacked(file)
        manifest == FilesOf(file)[ManifestPath]
    IN  RelistedPackages(file)
        \cup {Package(other, manifest.playback) : other \in Edited(files)}
        \cup {Written(manifest, other) : other \in Edited(files)}

(* One change of a small archive.                                          *)
SmallArchives ==
    {Archive(<<[path |-> <<"a">>, bytes |-> bytes], [path |-> path, bytes |-> <<1>>]>>) :
        bytes \in {<<>>, <<1>>, <<1, 2>>}, path \in {<<"A">>, <<"b">>, <<"a", "b">>}}
EditedCells(cell) ==
    CASE cell.kind = "end" ->
           {[cell EXCEPT !.at = @ + 1], [cell EXCEPT !.count = @ - 1], [cell EXCEPT !.size = @ - 1],
            [cell EXCEPT !.at = @ + 1, !.size = @ - 1, !.count = @ - 1],
            [cell EXCEPT !.at = @ - 1], [cell EXCEPT !.at = @ + 1]}
      [] cell.kind = "byte" -> {Byte(2)}
      [] OTHER ->
           {[cell EXCEPT !.plain = FALSE], [cell EXCEPT !.path = <<"c">>], [cell EXCEPT !.path = <<"..">>],
            [cell EXCEPT !.size = @ + 1], [cell EXCEPT !.crc = <<2>>, !.size = 1]}
           \cup IF cell.kind = "local" THEN {}
                ELSE {[cell EXCEPT !.at = at] : at \in {0, 1, 2, 3} \ {cell.at}}
EditedArchives(file) ==
    UNION {{[file EXCEPT ![k] = cell] : cell \in EditedCells(file[k])} : k \in DOMAIN file}
    \cup {RemoveAt(file, k) : k \in DOMAIN file}
    \cup {InsertAt(file, k, Byte(1)) : k \in DOMAIN file}
    \cup {[file EXCEPT ![k] = file[k + 1], ![k + 1] = file[k]] : k \in 1..(Len(file) - 1)}

(* An editor adds the second root, or breaks the index; the configuration  *)
(* that names the second root is saved.                                    *)
MCSavedConfigs == {Config(<<Root(1, <<"content">>), Root(2, <<"extra">>)>>)}
MCEditorWrites ==
    {[path |-> <<"extra", "index">>, content |-> Index(2, <<>>)],
     [path |-> In("index"), content |-> Index(3, <<Picture>>)]}
MCForeignTree == In("a") :> Data

-------------------------------------------------------------------------------
Init ==
    /\ family \in {"project", "envelope", "tools", "beats", "tempo", "chart", "animation", "packed"}
    /\ directory \in IF family = "project" THEN MCProjects ELSE {<<>>}
    /\ envelope \in IF family = "envelope" THEN SmallArchives ELSE {<<>>}
    /\ project = IF family = "tools" THEN Small(<<Sprite, Picture>>) ELSE <<>>
    /\ draft \in CASE family = "beats" -> Beats
                   [] family = "tempo" -> MCTempi
                   [] family = "chart" -> MCCharts
                   [] family = "animation" -> MCAnimations
                   [] family = "packed" -> MCPackedCharts
                   [] OTHER -> {<<>>}
    /\ package = <<>>
    /\ edits = 0
    /\ ToolsInit

EditDirectory ==
    /\ family = "project" /\ package = <<>> /\ edits < MaxEdits
    /\ directory' \in Edited(directory)
    /\ edits' = edits + 1
    /\ UNCHANGED <<package, envelope>>

Pack ==
    /\ family = "project" /\ package = <<>>
    /\ WriterAccepts(directory)
    /\ package' = Package(directory, {})
    /\ UNCHANGED <<directory, envelope, edits>>

EditPackage ==
    /\ package # <<>> /\ edits < MaxEdits
    /\ package' \in IF edits = 0 THEN EditedPackages(package) ELSE RelistedPackages(package)
    /\ edits' = edits + 1
    /\ UNCHANGED <<directory, envelope>>

Unpack ==
    /\ package # <<>> /\ PackageIsValid(package)
    /\ directory' = Unpacked(package)
    /\ UNCHANGED <<package, envelope, edits>>

EditEnvelope ==
    /\ family = "envelope" /\ edits < MaxEdits
    /\ envelope' \in EditedArchives(envelope)
    /\ edits' = edits + 1
    /\ UNCHANGED <<directory, package>>

EditTempo ==
    /\ family = "tempo" /\ edits < MaxTempoEdits
    /\ draft' \in TempoChanges(draft)

EditChart ==
    /\ family = "chart" /\ edits < MaxEdits
    /\ draft' \in ChartChanges(draft)

EditAnimation ==
    /\ family = "animation" /\ edits < MaxEdits
    /\ draft' \in IF edits = 0 THEN AnimationChanges(draft) ELSE LateChanges(draft)

EditPackedChart ==
    /\ family = "packed" /\ edits = 0
    /\ draft' \in PackedChanges(draft)

Next ==
    /\ \/ /\ EditDirectory \/ Pack \/ EditPackage \/ Unpack \/ EditEnvelope
          /\ UNCHANGED <<draft, toolVars>>
       \/ /\ EditTempo \/ EditChart \/ EditAnimation \/ EditPackedChart
          /\ edits' = edits + 1
          /\ UNCHANGED <<documentVars, toolVars>>
       \/ /\ family = "tools" /\ ToolsNext
          /\ UNCHANGED <<documentVars, draft, edits>>
    /\ UNCHANGED family

Spec == Init /\ [][Next]_vars

-------------------------------------------------------------------------------
(* A package is accepted exactly when it is sound, whatever the order of   *)
(* buildPackage's checks, and the archive in it exactly when every byte    *)
(* belongs to one entry.                                                   *)
PackagesAreExact ==
    /\ package # <<>> => (PackageIsValid(package) <=> IsSound(package))
    /\ envelope # <<>> => (EnvelopeIsValid(envelope) <=> IsArchive(envelope))

(* Two readers agree: what CxcPackage accepts, once it is unpacked, is a   *)
(* directory that the project loader and the asset database accept, and    *)
(* packing it gives the same bytes if it has no compiled charts.           *)
DirectoryLoads(files) ==
    LET dir == [files |-> files, links |-> <<>>]
        config == files[ProjectPath]
        roots == [i \in DOMAIN config.roots |->
                    [path |-> RootPath(dir, config, i),
                     index |-> files[IndexPath(config.roots[i].path)]]]
    IN  ConfigIsValid(config) /\ ProjectIsPrepared(dir, config) /\ DatabaseIsBuilt(dir, roots)

UnpackedPackagesLoad ==
    package # <<>> /\ PackageIsValid(package) =>
       LET files == Unpacked(package)
           manifest == FilesOf(package)[ManifestPath]
       IN  /\ DirectoryLoads(files)
           /\ manifest.playback = {} /\ manifest.required = <<>> /\ EntriesOf(package)[1].path = ManifestPath =>
                 WriterAccepts(files) /\ Package(files, {}) = package

(* Chart time is exact: fractions of a fixed width, or a refusal, and a    *)
(* beat and a time that agree in both directions over every tempo.         *)
ChartTimeIsExact ==
    /\ family = "beats" =>
          /\ BeatsAreExact(draft)
          /\ \A below \in 1..MaxInt : ApproximationsAreClose(draft, below)
    /\ family = "tempo" => TimesAreExact(draft.period, draft.events, draft.stops, -4..6, -6..6)

(* A chart that compiles plays what its document says, in whatever order   *)
(* the document says it, as it is given and after every change.            *)
ChartsCompileAsWritten ==
    /\ family = "chart" => CompiledAsWritten(draft, ChartTimes)
    /\ [][family = "chart" => \A document \in {draft'} : CompiledAsWritten(document, ChartTimes)]_draft

(* A chart with animations is resolved and played as it is written, in     *)
(* whatever order it is written, or refused, and so it is when it changes. *)
PlaysAsWritten(animation) ==
    AnimatesAsWritten(animation.document, animation.inputs, animation.documents, AnimationBeats)
AnimationsPlayAsWritten ==
    /\ family = "animation" => PlaysAsWritten(draft)
    /\ [][family = "animation" => \A animation \in {draft'} : PlaysAsWritten(animation)]_draft

(* A packed chart is read as the chart that was packed, in whatever order  *)
(* that was written, and lowered to the objects of its entities; and a     *)
(* file with one damage is refused, or read as a chart that packs again.   *)
(* Not all the format refuses is: a file that lacks rows of a stream, or   *)
(* whose archetypes say nothing of its requirements, is read, and what is  *)
(* said of it is that it is the chart its identity names, in another order *)
(* of components at most.                                                  *)
PacksAndReads(chart) ==
    /\ PacksAsWritten(chart)
    /\ IsEncodable(chart) => \A file \in DamagedFiles(Encoded(chart)) : ReadsAsPacked(file, chart)
PackedChartsAreExact ==
    /\ family = "beats" => BeatAtomsAreExact(draft)
    /\ family = "packed" => NumbersAreExact /\ PacksAndReads(draft)
    /\ [][family = "packed" => \A chart \in {draft'} : PacksAndReads(chart)]_draft
===============================================================================
