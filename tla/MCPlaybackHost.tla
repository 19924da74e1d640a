--------------------------- MODULE MCPlaybackHost ---------------------------
(***************************************************************************)
(* Model values and instances for PlaybackHost: one small asset database   *)
(* and the ways it can be wrong, and the charts that use it.               *)
(***************************************************************************)
EXTENDS PlaybackHost, TLC

CONSTANTS m, n, u, l, p, t, s, a,      \* assets
          stepped, legacy

Record(type, dependencies, kind, names) ==
    [type |-> type, dependencies |-> dependencies,
     payload |-> [kind |-> kind, names |-> names, version |-> 1]]

Base ==
    m :> Record("mesh", <<>>, "mesh", <<>>) @@ n :> Record("mesh", <<>>, "legacy", <<>>)
 @@ u :> Record("material", <<t>>, "unlit", <<t>>) @@ l :> Record("material", <<>>, "legacy", <<>>)
 @@ p :> Record("material", <<t, s>>, "parameterized", <<s, t>>)
 @@ t :> Record("texture", <<>>, "texture", <<>>) @@ s :> Record("shader", <<>>, "shader", <<>>)
 @@ a :> Record("audio", <<>>, "audio", <<>>)

(* What an index or a payload may have wrong.                               *)
Databases ==
    {Base, None,
     [Base EXCEPT ![u].dependencies = <<>>], [Base EXCEPT ![u].dependencies = <<t, t>>],
     [Base EXCEPT ![u] = Record("material", <<s>>, "unlit", <<s>>)],
     [Base EXCEPT ![u] = Record("material", <<p>>, "unlit", <<t>>)],
     [Base EXCEPT ![p] = Record("material", <<t>>, "parameterized", <<t>>)],
     [Base EXCEPT ![p] = Record("material", <<>>, "parameterized", <<>>)],
     [Base EXCEPT ![t].dependencies = <<s>>], [Base EXCEPT ![t].dependencies = <<u>>],
     [Base EXCEPT ![t].payload.kind = "malformed"], [Base EXCEPT ![m].payload.kind = "malformed"],
     [id \in Asset \ {p} |-> Base[id]], [id \in Asset \ {s} |-> Base[id]]}

Object(mesh, material, steps) == [mesh |-> mesh, material |-> material, steps |-> steps]

Chart(objects, camera, v4, music) ==
    [objects |-> objects, camera |-> camera, v4 |-> v4, music |-> music]

Objects ==
    {Object(mesh, material, steps) :
        mesh \in {None, m, n, u}, material \in {u, p, l}, steps \in {<<>>, <<p>>, <<u, l>>}}

Charts ==
    {Chart(<<o>>, TRUE, v4, music) : o \in Objects, v4 \in BOOLEAN, music \in {None, a}}
      \cup {Chart(<<Object(m, u, <<>>), o>>, TRUE, TRUE, t) : o \in Objects}
      \cup {Chart(<<Object(m, p, <<u>>), o>>, TRUE, TRUE, None) : o \in Objects}

(* What can be read while the scope is filled, and afterwards.              *)
Readings ==
    {[first |-> Asset \ lost, later |-> Asset \ missing] :
        lost \in {{}, {m}, {p}, {t}, {s}, {a}}, missing \in {{}, {t, u}}}

IsExact(chart, database, reading) ==
    /\ P!PrepareContent(chart, database, reading.first, reading.later) # None
           <=> P!IsComplete(chart, database, reading.first, reading.later)
    /\ P!IsClosed(database, P!HoldAll(database, reading.first, chart).scope)

Misjudged ==
    {chart \in Charts : \E database \in Databases, reading \in Readings :
                           ~IsExact(chart, database, reading)}

(* A prepare succeeds exactly when every asset the chart can ever show has *)
(* been read and agrees with the index, and the scope it leaves, whatever  *)
(* fallbacks and rollbacks it went through, holds all that a held asset     *)
(* depends on (RuntimeSession::prepare, ResourceScope::request,            *)
(* preparePresentation).  It is about the operators, so one state is enough *)
(* to evaluate it in: the initial one, without a session.                  *)
PrepareIsExact == (\A address \in Session : ~Exists(address)) /\ nextToken = 1 => Misjudged = {}

-----------------------------------------------------------------------------
(* An old chart with music, which no adapter draws, and a new one without. *)
Sources == {stepped, legacy}

ChartOf ==
    stepped :> Chart(<<Object(m, u, <<p>>), Object(None, u, <<>>)>>, TRUE, TRUE, None)
 @@ legacy :> Chart(<<Object(n, l, <<>>)>>, FALSE, FALSE, a)

(* All can be read, or an asset is lost: a step material, and a texture     *)
(* that comes back.                                                        *)
Losses == {[first |-> Asset \ lost, later |-> Asset] : lost \in {{}, {p}, {t}}}

MCPreparations ==
    [source \in Sources |->
        {P!PrepareContent(ChartOf[source], Base, reading.first, reading.later) :
            reading \in Losses}]

MCContent == UNION {MCPreparations[source] : source \in Sources} \ {None}
MCHasMusic == {source \in Sources : ChartOf[source].music # None}
MCTime == {0, 1}
MCMaterial == {p}

Symmetry == Permutations(Slot)
=============================================================================
