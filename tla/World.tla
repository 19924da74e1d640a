-------------------------------- MODULE World --------------------------------
(***************************************************************************)
(* cuexis::world::World: the components of a session's entities, and the   *)
(* world matrices that updateWorldTransforms derives from the local        *)
(* transforms and caches; and the PropertyResolver, which gives a frame's  *)
(* components their values.                                                *)
(*                                                                         *)
(* A cell is one component that properties resolve into: the transform     *)
(* every entity has, a camera, an appearance.  Its value is a natural      *)
(* number, for a transform a scale, so that a matrix is the product of the *)
(* scales up the parents; a product above Limit is not finite.             *)
(***************************************************************************)
EXTENDS Integers

CONSTANTS Entity,
          Parent,      \* the entity's parent in the hierarchy, or None
          Cell,        \* pairs of an entity and a kind of component
          Limit,       \* the largest finite scale
          None

Transform(e) == <<e, "transform">>

ASSUME WorldAssumption ==
    /\ None \notin Entity
    /\ Parent \in [Entity -> Entity \cup {None}]
    /\ Cell \subseteq Entity \X {"transform", "camera", "appearance"}
    /\ \A e \in Entity : Transform(e) \in Cell
    /\ Limit \in Nat
    (* The hierarchy has no cycle, or the chart is refused.                *)
    /\ \A descent \in SUBSET Entity \ {{}} : \E e \in descent : Parent[e] \notin descent

Transforms == {Transform(e) : e \in Entity}

WorldType == [value: [Cell -> Nat], removed: SUBSET Cell, cached: BOOLEAN,
              local: [Entity -> Nat], matrix: [Entity -> Nat]]

(* A new World: nothing is cached, so the first update derives everything. *)
New(value) ==
    [value |-> value, removed |-> {}, cached |-> FALSE,
     local |-> [e \in Entity |-> 0], matrix |-> [e \in Entity |-> 0]]

(* The reference: what the matrices of these local scales are.             *)
Composed(value) ==
    LET m[e \in Entity] ==
            value[Transform(e)] * IF Parent[e] = None THEN 1 ELSE m[Parent[e]]
    IN  m

(* Entities whose local transform, or an ancestor's, differs from the one  *)
(* cached; all of them where the cache is not valid.                       *)
Dirty(w) ==
    LET d[e \in Entity] == \/ ~w.cached
                           \/ w.value[Transform(e)] # w.local[e]
                           \/ Parent[e] # None /\ d[Parent[e]]
    IN  {e \in Entity : d[e]}

(* The matrices of the dirty entities over the cached ones of the others.  *)
Scratch(w, dirty) ==
    LET m[e \in Entity] ==
            IF e \notin dirty THEN w.matrix[e]
            ELSE w.value[Transform(e)] * IF Parent[e] = None THEN 1 ELSE m[Parent[e]]
    IN  m

CanUpdate(w) == LET dirty == Dirty(w) IN \A e \in dirty : Scratch(w, dirty)[e] <= Limit

UpdateWorldTransforms(w) ==
    LET dirty == Dirty(w) IN
    [w EXCEPT !.cached = TRUE,
              !.local = [e \in Entity |-> IF e \in dirty THEN w.value[Transform(e)] ELSE @[e]],
              !.matrix = Scratch(w, dirty)]

(* The cells take the values, and those that are taken back, once more     *)
(* those of before.                                                        *)
Write(w, cells, value) ==
    [w EXCEPT !.value = [c \in Cell |-> IF c \in cells THEN value[c] ELSE @[c]]]

Present(w, cells) == cells \cap w.removed = {}

-----------------------------------------------------------------------------
(***************************************************************************)
(* cuexis::world::PropertyResolver: a frame's candidate values, resolved   *)
(* layer over layer from the captured baselines.  It resets only the       *)
(* entries an earlier frame touched, and commits those it touched now or   *)
(* ever committed; an entry holds all the properties of one entity.        *)
(*                                                                         *)
(* The writes of a layer are a function from the cells it writes to their  *)
(* values; the value Bad is one that the property's parser refuses.  The   *)
(* conflict marks, which only a debug record shows, are left out.          *)
(***************************************************************************)

Bad == 0
LayerName == {"behavior", "animation", "host", "preview"}

CellsAt(entities) == {c \in Cell : c[1] \in entities}

ResolverType ==
    [baseline: [Cell -> Nat], candidate: [Cell -> Nat], touched: SUBSET Entity,
     committed: SUBSET Entity, seen: SUBSET (LayerName \X Cell)]

(* capture, and registerBaseline of the cameras and appearances.           *)
Capture(value) ==
    [baseline |-> value, candidate |-> value, touched |-> {}, committed |-> {}, seen |-> {}]

(* A bug: only what was committed is reset.                                *)
BeginCommitted(r) ==
    LET stale == CellsAt(r.committed) IN
    [r EXCEPT !.candidate = [c \in Cell |-> IF c \in stale THEN r.baseline[c] ELSE @[c]],
              !.seen = {s \in @ : s[2] \notin stale}, !.touched = {}]

BeginFrame(r) ==
    LET stale == CellsAt(r.committed \cup r.touched) IN
    [r EXCEPT !.candidate = [c \in Cell |-> IF c \in stale THEN r.baseline[c] ELSE @[c]],
              !.seen = {s \in @ : s[2] \notin stale}, !.touched = {}]

(* A write is refused for its value, or as the layer's second to the cell. *)
Accepts(r, writes, layer) ==
    \A c \in DOMAIN writes : writes[c] # Bad /\ <<layer, c>> \notin r.seen

(* Where a write is refused the frame fails, and which of the layer's      *)
(* others are stored by then does not matter: their entries are touched,   *)
(* and reset by the next frame.                                            *)
ApplyLayer(r, writes, layer) ==
    [r EXCEPT !.candidate = [c \in Cell |-> IF c \in DOMAIN writes THEN writes[c] ELSE @[c]],
              !.seen = @ \cup ({layer} \X DOMAIN writes),
              !.touched = @ \cup {c[1] : c \in DOMAIN writes}]

Writers(tokens, c) == {t \in tokens : c \in DOMAIN t.writes}
Strongest(tokens) == {t \in tokens : \A u \in tokens : u.priority <= t.priority}

(* The token that writes the cell: the one of the highest priority; two at *)
(* that priority are a conflict, which drops every write to the cell.      *)
Wins(t, tokens, c) == Strongest(Writers(tokens, c)) = {t}

Winning(tokens) ==
    [c \in {d \in Cell : \E t \in tokens : Wins(t, tokens, d)} |->
        (CHOOSE t \in tokens : Wins(t, tokens, c)).writes[c]]

(* The local matrix of every transform that a layer wrote is finite.       *)
Finite(r) ==
    \A c \in Transforms :
        (\E layer \in LayerName : <<layer, c>> \in r.seen) => r.candidate[c] <= Limit

(* A bug: an entry is committed only in the frames that touch it.         *)
CommitTouched(r) == r.touched

(* The entries a commit writes into the World, and is remembered for.      *)
CommitEntries(r) == r.committed \cup r.touched

Committed(r) == [r EXCEPT !.committed = CommitEntries(r)]

(* applyBaseProperty, of a value the parser accepts.                       *)
ApplyBaseProperty(r, cell, value) ==
    [r EXCEPT !.baseline[cell] = value,
              !.candidate = [c \in Cell |->
                  IF c = cell THEN value
                  ELSE @[c]],
              !.touched = @ \cup {cell[1]}, !.committed = @ \cup {cell[1]}]
=============================================================================
