---------------------------- MODULE Presentation ----------------------------
(***************************************************************************)
(* What a prepared chart needs to be drawn.  RuntimeSession::prepare holds *)
(* the resources of every renderable object in a scope, preparePresentation*)
(* reads the portable payloads behind them and checks them against the     *)
(* asset index, buildSnapshotLayout gives every object the references it   *)
(* may show, and buildPresentationCommands draws a frame from them.        *)
(*                                                                         *)
(* A source is a chart and a database, or None in its place.  An object of *)
(* a chart is a mesh, a base material and the materials its step tracks    *)
(* set, or has mesh None.  A payload is its kind, the assets it names, and *)
(* a version that stands for the bytes.  Two sets of assets are readable:  *)
(* while the scope is filled and while the presentation is prepared.       *)
(***************************************************************************)
EXTENDS SequencesExt, FiniteSetsExt

CONSTANTS
    Asset,    \* AssetIds
    MaxDepth, \* ResourceManagerLimits::maxDependencyDepth
    None

(* ResourceScope: the resources one session holds.  A request loads an     *)
(* asset after everything it depends on, keeps a lease on each, and takes  *)
(* all of them back when one fails; the policy of the request then says    *)
(* what the caller gets instead.  A scope is the list of its entries and   *)
(* the index that finds them.  A database gives an asset its type and its  *)
(* dependencies, in order.                                                 *)

Key == {"mesh", "material", "texture", "shader", "audio"} \X Asset

Scope == [entries: Seq([key: Key, loaded: BOOLEAN]), index: [Key -> Nat]]

EmptyScope == [entries |-> <<>>, index |-> [key \in Key |-> 0]]

Holds(scope, key) == scope.index[key] # 0
EntryOf(scope, key) == scope.entries[scope.index[key]]
HoldsLoaded(scope, key) == Holds(scope, key) /\ EntryOf(scope, key).loaded

AddEntry(scope, key, loaded) ==
    [entries |-> Append(scope.entries, [key |-> key, loaded |-> loaded]),
     index |-> [scope.index EXCEPT ![key] = Len(scope.entries) + 1]]

RollbackTo(scope, size) ==
    [entries |-> SubSeq(scope.entries, 1, size),
     index |-> [key \in Key |-> IF scope.index[key] <= size THEN scope.index[key] ELSE 0]]

IsIndexed(database, key) == key[2] \in DOMAIN database /\ database[key[2]].type = key[1]

(* The acquire lambda of request: visiting is the path from the request.    *)
Acquire(database, readable, start, wanted) ==
    LET acquire[scope \in Scope, key \in Key, visiting \in SUBSET Key] ==
            IF Holds(scope, key) THEN [ok |-> EntryOf(scope, key).loaded, scope |-> scope]
            ELSE IF \/ Cardinality(visiting) + 1 > MaxDepth \/ key \in visiting
                    \/ ~IsIndexed(database, key)
            THEN [ok |-> FALSE, scope |-> scope]
            ELSE LET Depend(done, id) ==
                         IF ~done.ok THEN done
                         ELSE IF id \notin DOMAIN database THEN [done EXCEPT !.ok = FALSE]
                         ELSE acquire[done.scope, <<database[id].type, id>>, visiting \cup {key}]
                     depended == FoldLeft(Depend, [ok |-> TRUE, scope |-> scope],
                                          database[key[2]].dependencies)
                 IN IF depended.ok /\ key[2] \in readable
                    THEN [ok |-> TRUE, scope |-> AddEntry(depended.scope, key, TRUE)]
                    ELSE [ok |-> FALSE, scope |-> depended.scope]
    IN acquire[start, wanted, {}]

-----------------------------------------------------------------------------
(* What the caller gets: a handle to the resource, one to a fallback, or    *)
(* none, and whether that is reported as an error.                          *)
Answer(resource, error, scope) == [resource |-> resource, error |-> error, scope |-> scope]

Cached(scope, key, policy) ==
    IF EntryOf(scope, key).loaded THEN Answer("loaded", FALSE, scope)
    ELSE CASE policy = "required" -> Answer("none", TRUE, scope)
           [] policy = "fallback" -> Answer("fallback", FALSE, scope)
           [] policy = "optional" -> Answer("none", FALSE, scope)

Resort(scope, key, policy) ==
    CASE policy = "required" -> Answer("none", TRUE, scope)
      [] policy = "optional" -> Answer("none", FALSE, scope)
      [] policy = "fallback" -> Answer("fallback", FALSE, AddEntry(scope, key, FALSE))

Request(database, readable, scope, key, policy) ==
    IF Holds(scope, key) THEN Cached(scope, key, policy)
    ELSE LET acquired == Acquire(database, readable, scope, key)
         IN IF acquired.ok THEN Answer("loaded", FALSE, acquired.scope)
            ELSE Resort(RollbackTo(acquired.scope, Len(scope.entries)), key, policy)

-----------------------------------------------------------------------------

(* The index finds exactly the entries, and what a loaded entry depends on  *)
(* is held loaded as well.                                                  *)
IsClosed(database, scope) ==
    /\ \A key \in Key : Holds(scope, key) =>
           scope.index[key] \in DOMAIN scope.entries /\ EntryOf(scope, key).key = key
    /\ \A i \in DOMAIN scope.entries :
           /\ Holds(scope, scope.entries[i].key)
           /\ scope.entries[i].loaded =>
                  \A d \in ToSet(database[scope.entries[i].key[2]].dependencies) :
                      HoldsLoaded(scope, <<database[d].type, d>>)

-----------------------------------------------------------------------------
Renderables(chart) == {o \in ToSet(chart.objects) : o.mesh # None}

(* A bug: the materials that a behaviour sets later are forgotten.          *)
BaseMaterial(object) == {object.material}

Materials(object) == {object.material} \cup ToSet(object.steps)

Required(chart) ==
    UNION {{<<"mesh", o.mesh>>} \cup {<<"material", m>> : m \in Materials(o)}
              : o \in Renderables(chart)}

-----------------------------------------------------------------------------
(* RuntimeSession::prepare: every request in the order of the objects, to  *)
(* the first error.  Mesh and base material may fall back.                 *)
Requests(chart) ==
    FlattenSeq([i \in DOMAIN chart.objects |->
        LET o == chart.objects[i]
        IN IF o.mesh = None THEN <<>>
           ELSE <<[key |-> <<"mesh", o.mesh>>, policy |-> "fallback"],
                  [key |-> <<"material", o.material>>, policy |-> "fallback"]>>
                \o [j \in DOMAIN o.steps |->
                       [key |-> <<"material", o.steps[j]>>, policy |-> "required"]]])

HoldAll(database, readable, chart) ==
    LET Hold(held, request) ==
            IF held.error THEN held
            ELSE Request(database, readable, held.scope, request.key, request.policy)
    IN IF database = None THEN Answer("none", FALSE, EmptyScope)
       ELSE FoldLeft(Hold, Answer("none", FALSE, EmptyScope), Requests(chart))

-----------------------------------------------------------------------------
Kind(database, id) == database[id].payload.kind
Names(database, id) == ToSet(database[id].payload.names)
IsPortable(database, id) == Kind(database, id) # "legacy"

(* A reference is the asset and the identity of what it holds: its payload *)
(* with the payloads it names.                                             *)
Reference(database, id) ==
    [id |-> id, kind |-> Kind(database, id),
     identity |-> <<database[id].payload,
                    [n \in Names(database, id) |-> database[n].payload]>>]

Entry(database, id) ==
    [reference |-> Reference(database, id),
     dependencies |-> {Reference(database, n) : n \in Names(database, id)}]

(* A bug: a payload may name assets that the index does not list.           *)
NamesExist(database, id, types) == Names(database, id) \subseteq DOMAIN database

(* The index lists exactly what the payload names, each once, and gives it *)
(* the right type; what is named depends on nothing.                       *)
NamesMatch(database, id, types) ==
    LET names == database[id].payload.names
    IN /\ ToSet(names) = ToSet(database[id].dependencies)
       /\ IsInjective(database[id].dependencies)
       /\ \A i \in DOMAIN names : /\ IsIndexed(database, <<types[i], names[i]>>)
                                  /\ database[names[i]].dependencies = <<>>

IsSound(database, type, id) ==
    LET names == database[id].payload.names
    IN CASE type = "mesh" -> Kind(database, id) = "mesh" /\ database[id].dependencies = <<>>
         [] type = "material" ->
              \/ /\ Kind(database, id) = "unlit" /\ Len(names) <= 1
                 /\ NamesMatch(database, id, [i \in DOMAIN names |-> "texture"])
              \/ /\ Kind(database, id) = "parameterized" /\ names # <<>>
                 /\ NamesMatch(database, id, [i \in DOMAIN names |->
                        IF i = 1 THEN "shader" ELSE "texture"])

Refused == [ok |-> FALSE, manifest |-> None]
Presented(manifest) == [ok |-> TRUE, manifest |-> manifest]

(* loadable: what the manager can give a lease on now.                      *)
PreparePresentation(database, loadable, chart) ==
    LET required == Required(chart)
        ids == {key[2] : key \in required}
        named == UNION {Names(database, id) : id \in ids}
    IN CASE required = {} -> Presented({})
         [] required # {} /\
              \/ database = None
              \/ \E k, l \in required : k[2] = l[2] /\ k[1] # l[1]
              \/ \E k \in required : ~IsIndexed(database, k) \/ k[2] \notin loadable
              \/ chart.v4 /\ \E id \in ids : ~IsPortable(database, id) -> Refused
         [] OTHER ->
              IF \A id \in ids : ~IsPortable(database, id) THEN Presented(None)
              ELSE IF \/ \E k \in required : ~IsSound(database, k[1], k[2])
                      \/ \E n \in named : n \notin loadable \/ Kind(database, n) # database[n].type
              THEN Refused
              ELSE Presented({Entry(database, id) : id \in ids \cup named})

-----------------------------------------------------------------------------
ReferencesOf(manifest) == {e.reference : e \in manifest}

(* buildSnapshotLayout: what every object may show.                        *)
LayoutOf(chart, manifest) ==
    LET Of(id) == CHOOSE r \in ReferencesOf(manifest) : r.id = id
    IN [i \in DOMAIN chart.objects |->
           LET o == chart.objects[i]
           IN IF o.mesh = None \/ manifest = None THEN [mesh |-> None, materials |-> <<>>]
              ELSE [mesh |-> Of(o.mesh), materials |-> [m \in Materials(o) |-> Of(m)]]]

(* The material an object shows at a time: what the last step up to then   *)
(* set, unless a host override says another.                               *)
Shows(object, time, override) ==
    IF override # None THEN override
    ELSE IF time = 0 \/ object.steps = <<>> THEN object.material
    ELSE object.steps[Min({time, Len(object.steps)})]

(* extractFrame refuses a frame in which an object shows a material that   *)
(* its layout does not have.  Every object is taken to be visible, which    *)
(* asks the most of the manifest.                                          *)
CanExtract(chart, layout, time, override) ==
    \A i \in DOMAIN layout :
        layout[i].mesh # None =>
            Shows(chart.objects[i], time, override) \in DOMAIN layout[i].materials

(* extractFrame: the references of every object.                           *)
ExtractFrame(chart, layout, time, override) ==
    [camera |-> chart.camera,
     objects |-> [i \in DOMAIN layout |->
         [named |-> chart.objects[i].mesh # None, mesh |-> layout[i].mesh,
          material |-> IF layout[i].mesh = None THEN None
                       ELSE layout[i].materials[Shows(chart.objects[i], time, override)]]]]

(* buildPresentationCommands: whether all of the frame can be drawn from   *)
(* the resources of a manifest.                                            *)
Draws(frame, manifest) ==
    \/ manifest = {}
    \/ \A i \in DOMAIN frame.objects :
           LET o == frame.objects[i]
           IN IF o.mesh = None THEN ~o.named
              ELSE /\ frame.camera
                   /\ {o.mesh, o.material} \subseteq ReferencesOf(manifest)
                   /\ \A e \in manifest : e.reference = o.material =>
                          e.dependencies \subseteq ReferencesOf(manifest)

-----------------------------------------------------------------------------
(* PlaybackSession::prepare, from the chart to the layout.                 *)
PrepareContent(chart, database, readable, later) ==
    LET music == chart.music = None \/
                     (database # None /\ IsIndexed(database, <<"audio", chart.music>>)
                                      /\ chart.music \in readable)
        held == HoldAll(database, readable, chart)
        loadable == later \cup {e.key[2] : e \in {e \in ToSet(held.scope.entries) : e.loaded}}
        presented == PreparePresentation(database, loadable, chart)
    IN IF music /\ ~held.error /\ presented.ok
       THEN [chart |-> chart, manifest |-> presented.manifest,
             layout |-> LayoutOf(chart, presented.manifest)]
       ELSE None

-----------------------------------------------------------------------------
(* What prepare asks of a chart and its assets, without its order.  An     *)
(* asset is whole when it and all it depends on can be read within the     *)
(* depth limit.                                                            *)
WholeAssets(database, readable) ==
    LET whole[depth \in 0..MaxDepth] ==
            IF depth = 0 THEN {}
            ELSE {id \in readable \cap DOMAIN database :
                     ToSet(database[id].dependencies) \subseteq whole[depth - 1]}
    IN whole[MaxDepth]

DependenciesOf(database, ids) ==
    LET reached[depth \in 0..MaxDepth] ==
            IF depth = 0 THEN ids
            ELSE reached[depth - 1] \cup
                     UNION {ToSet(database[id].dependencies) : id \in reached[depth - 1]}
    IN reached[MaxDepth]

(* A payload and the index agree on a mesh or on a material.               *)
Agrees(database, id) ==
    LET asset == database[id]
        names == asset.payload.names
        textures == {n \in ToSet(names) : database[n].type = "texture"}
    IN /\ ToSet(names) = ToSet(asset.dependencies)
       /\ Len(asset.dependencies) = Cardinality(ToSet(names))
       /\ \A n \in ToSet(names) : n \in DOMAIN database /\ database[n].dependencies = <<>>
       /\ CASE asset.payload.kind = "mesh" -> asset.type = "mesh" /\ names = <<>>
            [] asset.payload.kind = "unlit" -> asset.type = "material" /\ Len(names) = Cardinality(textures)
            [] asset.payload.kind = "parameterized" ->
                 /\ asset.type = "material" /\ names # <<>>
                 /\ database[names[1]].type = "shader"
                 /\ \A i \in DOMAIN names : i > 1 => names[i] \in textures
            [] OTHER -> FALSE

IsComplete(chart, database, readable, later) ==
    LET meshes == {o.mesh : o \in Renderables(chart)}
        steps == UNION {ToSet(o.steps) : o \in Renderables(chart)}
        materials == steps \cup {o.material : o \in Renderables(chart)}
        ids == meshes \cup materials
        whole == WholeAssets(database, readable)
        loadable == later \cup DependenciesOf(database, ids \cap whole)
        named == UNION {Names(database, id) : id \in ids}
    IN /\ chart.music # None => database # None /\ chart.music \in readable \cap DOMAIN database
                                               /\ database[chart.music].type = "audio"
       /\ ids # {} =>
            /\ database # None
            /\ ids \subseteq DOMAIN database
            /\ \A id \in meshes : database[id].type = "mesh"
            /\ \A id \in materials : database[id].type = "material"
            /\ steps \subseteq whole
            /\ ids \subseteq loadable
            /\ \/ ~chart.v4 /\ \A id \in ids : Kind(database, id) = "legacy"
               \/ /\ \A id \in ids : Agrees(database, id)
                  /\ \A n \in named : n \in loadable /\ Kind(database, n) = database[n].type
=============================================================================
