------------------------- MODULE RuntimeSessionProof -------------------------
(***************************************************************************)
(* Proofs about RuntimeSession for any hierarchy, cells, charts, overrides *)
(* and frames: what a frame presents is resolved from its inputs alone,    *)
(* its matrices are derived from nothing else, and a frame that fails      *)
(* leaves no trace.                                                        *)
(***************************************************************************)
EXTENDS RuntimeSession, TLAPS

(* Induction down the hierarchy: a set without a root of its own is empty. *)
LEMMA Descent ==
    ASSUME NEW S, S \subseteq Entity, S # {}
    PROVE  \E e \in S : Parent[e] \notin S
BY WorldAssumption

LEMMA Parents ==
    ASSUME NEW e \in Entity
    PROVE  /\ Parent[e] = None \/ Parent[e] \in Entity
           /\ None \notin Entity
BY WorldAssumption

(* m is derived from the roots' values by a step from the parent's.        *)
Solves(m, base, step) ==
    \A e \in Entity : m[e] = IF Parent[e] = None THEN base[e] ELSE step[e][m[Parent[e]]]

(* A part of the hierarchy with all its ancestors, and what is derived.    *)
Part(D, f, V, base, step) ==
    /\ D \subseteq Entity
    /\ \A e \in D : Parent[e] = None \/ Parent[e] \in D
    /\ f \in [D -> V]
    /\ \A e \in D : f[e] = IF Parent[e] = None THEN base[e] ELSE step[e][f[Parent[e]]]

LEMMA PartsAgree ==
    ASSUME NEW V, NEW base, NEW step, NEW D, NEW f, NEW E, NEW g,
           Part(D, f, V, base, step), Part(E, g, V, base, step), NEW x \in D \cap E
    PROVE  f[x] = g[x]
<1> DEFINE S == {e \in D \cap E : f[e] # g[e]}
<1>1. SUFFICES ASSUME S # {} PROVE FALSE
    OBVIOUS
<1>2. S \subseteq Entity
    BY DEF Part
<1>3. PICK e \in S : Parent[e] \notin S
  <2> HIDE DEF S
  <2> QED BY <1>1, <1>2, Descent
<1>4. CASE Parent[e] = None
    BY <1>4 DEF Part
<1>5. CASE Parent[e] # None
  <2>1. Parent[e] \in D \cap E
      BY <1>5 DEF Part
  <2>2. f[Parent[e]] = g[Parent[e]]
      BY <1>3, <2>1
  <2> QED BY <1>5, <2>2 DEF Part
<1> QED BY <1>4, <1>5

LEMMA PartExists ==
    ASSUME NEW V, NEW base \in [Entity -> V], NEW step \in [Entity -> [V -> V]], NEW x \in Entity
    PROVE  \E D \in SUBSET Entity : \E f \in [D -> V] : x \in D /\ Part(D, f, V, base, step)
<1> DEFINE Has(e) == \E D \in SUBSET Entity : \E f \in [D -> V] : e \in D /\ Part(D, f, V, base, step)
           S == {e \in Entity : ~Has(e)}
<1>1. SUFFICES ASSUME S # {} PROVE FALSE
    OBVIOUS
<1>2. PICK e \in S : Parent[e] \notin S
  <2> HIDE DEF S
  <2>1. S \subseteq Entity
      BY DEF S
  <2> QED BY <1>1, <2>1, Descent
<1>3. CASE Parent[e] = None
  <2> DEFINE D == {e}
             f == [y \in D |-> base[y]]
  <2>1. f \in [D -> V] /\ Part(D, f, V, base, step)
      BY <1>3 DEF Part
  <2> QED BY <2>1
<1>4. CASE Parent[e] # None
  <2> DEFINE p == Parent[e]
  <2>1. p \in Entity /\ Has(p) /\ e \in Entity
      BY <1>2, <1>4, Parents
  <2>0. PICK E \in SUBSET Entity : \E g \in [E -> V] : p \in E /\ Part(E, g, V, base, step)
      BY <2>1
  <2>2. PICK g \in [E -> V] : p \in E /\ Part(E, g, V, base, step)
      BY <2>0
  <2>3. e \notin E
      BY <1>2, <2>2
  <2> DEFINE D == E \cup {e}
             f == [y \in D |-> IF y = e THEN step[e][g[p]] ELSE g[y]]
  <2>4. f \in [D -> V]
      BY <2>1, <2>2
  <2>5. \A y \in D : Parent[y] = None \/ (Parent[y] \in E /\ f[Parent[y]] = g[Parent[y]])
      BY <2>2, <2>3 DEF Part
  <2>6. \A y \in D : f[y] = IF Parent[y] = None THEN base[y] ELSE step[y][f[Parent[y]]]
    <3> TAKE y \in D
    <3>1. CASE y = e
        BY <1>4, <2>5, <3>1
    <3>2. CASE y # e
        BY <2>2, <2>5, <3>2 DEF Part
    <3> QED BY <3>1, <3>2
  <2>7. Part(D, f, V, base, step)
      BY <2>1, <2>4, <2>5, <2>6 DEF Part
  <2>8. D \in SUBSET Entity /\ e \in D
      BY <2>1
  <2> HIDE DEF D, f
  <2> QED BY <2>4, <2>7, <2>8
<1> QED BY <1>3, <1>4

(* What is derived down a hierarchy without a cycle exists.                *)
LEMMA DerivationExists ==
    ASSUME NEW V, NEW base \in [Entity -> V], NEW step \in [Entity -> [V -> V]]
    PROVE  \E m \in [Entity -> V] : Solves(m, base, step)
<1> DEFINE Is(e, y) == \E D \in SUBSET Entity : \E f \in [D -> V] :
                           e \in D /\ Part(D, f, V, base, step) /\ y = f[e]
           m == [e \in Entity |-> CHOOSE y \in V : Is(e, y)]
<1>1. ASSUME NEW D \in SUBSET Entity, NEW f \in [D -> V], NEW e \in D, Part(D, f, V, base, step)
      PROVE  m[e] = f[e]
  <2>1. e \in Entity /\ f[e] \in V /\ Is(e, f[e])
      BY <1>1
  <2>2. \A y \in V : Is(e, y) => y = f[e]
      BY <1>1, PartsAgree
  <2> HIDE DEF Is
  <2> QED BY <2>1, <2>2
<1> HIDE DEF m
<1>2. \A e \in Entity : m[e] \in V /\ m[e] = IF Parent[e] = None THEN base[e] ELSE step[e][m[Parent[e]]]
  <2> TAKE e \in Entity
  <2>0. PICK D \in SUBSET Entity : \E f \in [D -> V] : e \in D /\ Part(D, f, V, base, step)
      BY PartExists
  <2>1. PICK f \in [D -> V] : e \in D /\ Part(D, f, V, base, step)
      BY <2>0
  <2>2. m[e] = f[e]
      BY <1>1, <2>1
  <2>3. Parent[e] # None => Parent[e] \in D /\ m[Parent[e]] = f[Parent[e]]
      BY <1>1, <2>1 DEF Part
  <2> QED BY <2>1, <2>2, <2>3 DEF Part
<1>3. m \in [Entity -> V]
    BY <1>2 DEF m
<1> QED BY <1>2, <1>3 DEF Solves

-----------------------------------------------------------------------------
Product(a, m, e) == a * IF Parent[e] = None THEN 1 ELSE m[Parent[e]]

LEMMA ProductIsNat == \A a, b \in Nat : a * b \in Nat
OBVIOUS

(* The matrices derived where some entities keep theirs.                   *)
LEMMA ScratchIsDerived ==
    ASSUME NEW w \in WorldType, NEW dirty \in SUBSET Entity
    PROVE  LET m == Scratch(w, dirty)
           IN  /\ m \in [Entity -> Nat]
               /\ \A e \in Entity : m[e] = IF e \notin dirty THEN w.matrix[e]
                                           ELSE Product(w.value[Transform(e)], m, e)
<1> DEFINE v(e) == w.value[Transform(e)]
           base == [e \in Entity |-> IF e \notin dirty THEN w.matrix[e] ELSE v(e) * 1]
           step == [e \in Entity |-> [n \in Nat |-> IF e \notin dirty THEN w.matrix[e] ELSE v(e) * n]]
           body(m) == [e \in Entity |-> IF e \notin dirty THEN w.matrix[e] ELSE Product(v(e), m, e)]
<1>1. \A e \in Entity : v(e) \in Nat /\ w.matrix[e] \in Nat
    BY WorldAssumption DEF WorldType
<1> HIDE DEF v
<1>2. base \in [Entity -> Nat] /\ step \in [Entity -> [Nat -> Nat]]
    BY <1>1, ProductIsNat
<1>3. PICK m \in [Entity -> Nat] : Solves(m, base, step)
  <2> HIDE DEF base, step
  <2> QED BY <1>2, DerivationExists
<1>4. m = body(m)
  <2>1. \A e \in Entity : m[e] = body(m)[e]
    <3> TAKE e \in Entity
    <3>1. CASE Parent[e] = None
        BY <1>3, <3>1 DEF Solves, Product
    <3>2. CASE Parent[e] # None
      <4>1. m[Parent[e]] \in Nat
          BY <3>2, Parents
      <4>2. m[e] = step[e][m[Parent[e]]]
          BY <1>3, <3>2 DEF Solves
      <4> QED BY <3>2, <4>1, <4>2 DEF Product
    <3> QED BY <3>1, <3>2
  <2> QED BY <2>1
<1> DEFINE s == CHOOSE n : n = body(n)
<1>5. s = body(s)
    BY <1>4
<1>6. Scratch(w, dirty) = s
    BY DEF Scratch, Product, v
<1> HIDE DEF s
<1>7. s \in [Entity -> Nat]
  <2> DEFINE S == {e \in Entity : s[e] \notin Nat}
  <2>1. S = {}
    <3> SUFFICES ASSUME S # {} PROVE FALSE
        OBVIOUS
    <3>1. PICK e \in S : Parent[e] \notin S
      <4>1. S \subseteq Entity
          OBVIOUS
      <4> HIDE DEF S
      <4> QED BY <4>1, Descent
    <3>2. s[e] = IF e \notin dirty THEN w.matrix[e] ELSE Product(v(e), s, e)
        BY <1>5
    <3>3. Parent[e] # None => s[Parent[e]] \in Nat
        BY <3>1, Parents
    <3> QED BY <1>1, <3>2, <3>3, ProductIsNat DEF Product
  <2> QED BY <1>5, <2>1
<1>8. \A e \in Entity : s[e] = IF e \notin dirty THEN w.matrix[e] ELSE Product(v(e), s, e)
    BY <1>5
<1> QED BY <1>6, <1>7, <1>8 DEF v

LEMMA ComposedIsDerived ==
    ASSUME NEW value \in [Cell -> Nat]
    PROVE  LET m == Composed(value)
           IN  /\ m \in [Entity -> Nat]
               /\ \A e \in Entity : m[e] = Product(value[Transform(e)], m, e)
<1> DEFINE w == [value |-> value, removed |-> {}, cached |-> FALSE,
                 local |-> [e \in Entity |-> 0], matrix |-> [e \in Entity |-> 0]]
<1>1. w \in WorldType
    BY DEF WorldType
<1>2. Scratch(w, Entity) = Composed(value)
  <2>1. \A m : [e \in Entity |-> IF e \notin Entity THEN w.matrix[e]
                                 ELSE w.value[Transform(e)] * IF Parent[e] = None THEN 1 ELSE m[Parent[e]]]
             = [e \in Entity |-> value[Transform(e)] * IF Parent[e] = None THEN 1 ELSE m[Parent[e]]]
      OBVIOUS
  <2> QED BY <2>1, Zenon DEF Scratch, Composed
<1> HIDE DEF w
<1>3. w.value = value
    BY DEF w
<1> QED BY <1>1, <1>2, <1>3, ScratchIsDerived

LEMMA DirtyIsDerived ==
    ASSUME NEW w \in WorldType
    PROVE  /\ Dirty(w) \subseteq Entity
           /\ \A e \in Entity :
                  e \in Dirty(w) <=> \/ ~w.cached
                                     \/ w.value[Transform(e)] # w.local[e]
                                     \/ Parent[e] # None /\ Parent[e] \in Dirty(w)
<1> DEFINE own(e) == ~w.cached \/ w.value[Transform(e)] # w.local[e]
           base == [e \in Entity |-> own(e)]
           step == [e \in Entity |-> [b \in BOOLEAN |-> own(e) \/ b]]
           body(d) == [e \in Entity |-> \/ ~w.cached
                                        \/ w.value[Transform(e)] # w.local[e]
                                        \/ Parent[e] # None /\ d[Parent[e]]]
<1>1. \A e \in Entity : own(e) \in BOOLEAN
    OBVIOUS
<1>2. base \in [Entity -> BOOLEAN] /\ step \in [Entity -> [BOOLEAN -> BOOLEAN]]
    BY <1>1
<1>3. PICK d \in [Entity -> BOOLEAN] : Solves(d, base, step)
  <2> HIDE DEF base, step
  <2> QED BY <1>2, DerivationExists
<1>4. d = body(d)
  <2>1. \A e \in Entity : d[e] = body(d)[e]
    <3> TAKE e \in Entity
    <3>1. CASE Parent[e] = None
        BY <1>3, <3>1 DEF Solves
    <3>2. CASE Parent[e] # None
      <4>1. d[Parent[e]] \in BOOLEAN
          BY <3>2, Parents
      <4>2. d[e] = step[e][d[Parent[e]]]
          BY <1>3, <3>2 DEF Solves
      <4> QED BY <3>2, <4>1, <4>2
    <3> QED BY <3>1, <3>2
  <2> QED BY <2>1
<1> DEFINE s == CHOOSE n : n = body(n)
<1>5. s = body(s)
    BY <1>4
<1>6. Dirty(w) = {e \in Entity : s[e]}
    BY DEF Dirty
<1> HIDE DEF s
<1>7. \A e \in Entity : s[e] <=> \/ ~w.cached
                                 \/ w.value[Transform(e)] # w.local[e]
                                 \/ Parent[e] # None /\ s[Parent[e]]
    BY <1>5
<1> QED BY <1>6, <1>7, Parents

-----------------------------------------------------------------------------
(* The cached matrices are those of the cached local transforms.           *)
CacheOK(w) ==
    w.cached => \A e \in Entity : w.matrix[e] = Product(w.local[e], w.matrix, e)

LEMMA UpdateIsComposed ==
    ASSUME NEW w \in WorldType, CacheOK(w)
    PROVE  LET u == UpdateWorldTransforms(w)
           IN  /\ u \in WorldType /\ CacheOK(u)
               /\ u.value = w.value /\ u.removed = w.removed
               /\ u.matrix = Composed(w.value)
               /\ CanUpdate(w) <=> \A e \in Dirty(w) : Composed(w.value)[e] <= Limit
<1> DEFINE u == UpdateWorldTransforms(w)
           dirty == Dirty(w)
           m == Scratch(w, dirty)
           l == [e \in Entity |-> IF e \in dirty THEN w.value[Transform(e)] ELSE w.local[e]]
<1>1. dirty \subseteq Entity
    BY DirtyIsDerived
<1>2. /\ m \in [Entity -> Nat]
      /\ \A e \in Entity : m[e] = IF e \notin dirty THEN w.matrix[e]
                                  ELSE Product(w.value[Transform(e)], m, e)
    BY <1>1, ScratchIsDerived
<1>3. u = [w EXCEPT !.cached = TRUE, !.local = l, !.matrix = m]
    BY DEF UpdateWorldTransforms, WorldType
<1>4. \A e \in Entity : w.value[Transform(e)] \in Nat /\ w.local[e] \in Nat
    BY WorldAssumption DEF WorldType
<1>5. l \in [Entity -> Nat]
    BY <1>4
<1>6. \A e \in Entity : l[e] = w.value[Transform(e)]
  <2> TAKE e \in Entity
  <2>1. CASE e \in dirty
      BY <2>1
  <2>2. CASE e \notin dirty
      BY <2>2, DirtyIsDerived
  <2> QED BY <2>1, <2>2
<1> HIDE DEF m, l, u
<1>7. u \in WorldType
    BY <1>2, <1>3, <1>5 DEF WorldType
<1>8. u.value = w.value /\ u.removed = w.removed /\ u.matrix = m /\ u.local = l /\ u.cached
    BY <1>3 DEF WorldType
<1>9. \A e \in Entity : m[e] = Product(w.value[Transform(e)], m, e)
  <2> TAKE e \in Entity
  <2>1. CASE e \in dirty
      BY <1>2, <2>1
  <2>2. CASE e \notin dirty
    <3>1. /\ w.cached /\ w.value[Transform(e)] = w.local[e]
          /\ Parent[e] = None \/ Parent[e] \in Entity \ dirty
        BY <2>2, DirtyIsDerived, Parents
    <3>2. m[e] = w.matrix[e] /\ (Parent[e] # None => m[Parent[e]] = w.matrix[Parent[e]])
        BY <1>2, <2>2, <3>1
    <3>3. w.matrix[e] = Product(w.local[e], w.matrix, e)
        BY <3>1 DEF CacheOK
    <3> QED BY <3>1, <3>2, <3>3 DEF Product
  <2> QED BY <2>1, <2>2
<1>10. m = Composed(w.value)
  <2> DEFINE c == Composed(w.value)
  <2>1. w.value \in [Cell -> Nat]
      BY DEF WorldType
  <2>2. c \in [Entity -> Nat] /\ \A e \in Entity : c[e] = Product(w.value[Transform(e)], c, e)
      BY <2>1, ComposedIsDerived
  <2> HIDE DEF c
  <2> DEFINE S == {e \in Entity : m[e] # c[e]}
  <2>3. S = {}
    <3> SUFFICES ASSUME S # {} PROVE FALSE
        OBVIOUS
    <3>1. PICK e \in S : Parent[e] \notin S
      <4>1. S \subseteq Entity
          OBVIOUS
      <4> HIDE DEF S
      <4> QED BY <4>1, Descent
    <3>2. Parent[e] # None => m[Parent[e]] = c[Parent[e]]
        BY <3>1, Parents
    <3> QED BY <1>9, <2>2, <3>1, <3>2 DEF Product
  <2>4. m = c
      BY <1>2, <2>2, <2>3
  <2> QED BY <2>4 DEF c
<1>11. CacheOK(u)
    BY <1>6, <1>8, <1>9 DEF CacheOK
<1>12. CanUpdate(w) <=> \A e \in dirty : m[e] <= Limit
    BY DEF CanUpdate, m
<1> QED BY <1>7, <1>8, <1>10, <1>11, <1>12 DEF u

-----------------------------------------------------------------------------
(* A resolver within a frame: only what was touched differs from the base. *)
InFrame(r) ==
    /\ r \in ResolverType
    /\ \A c \in Cell : c[1] \notin r.touched => r.candidate[c] = r.baseline[c]
    /\ \A s \in r.seen : s[2][1] \in r.touched

(* Between frames what was ever committed may differ as well.              *)
ResolverOK(r) ==
    /\ r \in ResolverType
    /\ \A c \in Cell : r.baseline[c] # Bad
    /\ \A c \in Cell : c[1] \notin r.touched \cup r.committed => r.candidate[c] = r.baseline[c]
    /\ \A s \in r.seen : s[2][1] \in r.touched \cup r.committed

IsWrites(f) == DOMAIN f \subseteq Cell /\ f \in [DOMAIN f -> Nat]

LEMMA CellsHaveEntities == \A c \in Cell : c[1] \in Entity
BY WorldAssumption

LEMMA BeginFrameIsBase ==
    ASSUME NEW r, ResolverOK(r)
    PROVE  LET b == BeginFrame(r)
           IN  /\ InFrame(b) /\ b.baseline = r.baseline /\ b.committed = r.committed
               /\ b.candidate = r.baseline /\ b.seen = {} /\ b.touched = {}
<1> DEFINE stale == CellsAt(r.committed \cup r.touched)
           k == [c \in Cell |-> IF c \in stale THEN r.baseline[c] ELSE r.candidate[c]]
           n == {s \in r.seen : s[2] \notin stale}
           b == BeginFrame(r)
<1>1. r \in ResolverType /\ r.baseline \in [Cell -> Nat]
    BY DEF ResolverOK, ResolverType
<1>2. b = [r EXCEPT !.candidate = k, !.seen = n, !.touched = {}]
    BY <1>1 DEF BeginFrame, ResolverType
<1>3. k = r.baseline
  <2>1. \A c \in Cell : k[c] = r.baseline[c]
      BY DEF ResolverOK, CellsAt
  <2> QED BY <1>1, <2>1
<1>4. n = {}
  <2>1. \A s \in r.seen : s[2] \in Cell
      BY <1>1 DEF ResolverType
  <2> QED BY <2>1 DEF ResolverOK, CellsAt
<1> HIDE DEF k, n, b
<1>5. /\ b \in ResolverType /\ b.baseline = r.baseline /\ b.committed = r.committed
      /\ b.candidate = r.baseline /\ b.seen = {} /\ b.touched = {}
  <2>1. b = [r EXCEPT !.candidate = r.baseline, !.seen = {}, !.touched = {}]
      BY <1>2, <1>3, <1>4
  <2> QED BY <1>1, <2>1 DEF ResolverType
<1> QED BY <1>5 DEF InFrame, b

LEMMA ApplyLayerWrites ==
    ASSUME NEW r, InFrame(r), NEW writes, IsWrites(writes), NEW layer \in LayerName
    PROVE  LET a == ApplyLayer(r, writes, layer)
           IN  /\ InFrame(a) /\ a.baseline = r.baseline /\ a.committed = r.committed
               /\ a.candidate = [c \in Cell |-> IF c \in DOMAIN writes THEN writes[c] ELSE r.candidate[c]]
               /\ a.seen = r.seen \cup ({layer} \X DOMAIN writes)
               /\ a.touched = r.touched \cup {c[1] : c \in DOMAIN writes}
<1> DEFINE k == [c \in Cell |-> IF c \in DOMAIN writes THEN writes[c] ELSE r.candidate[c]]
           n == r.seen \cup ({layer} \X DOMAIN writes)
           t == r.touched \cup {c[1] : c \in DOMAIN writes}
           a == ApplyLayer(r, writes, layer)
<1>1. r \in ResolverType
    BY DEF InFrame
<1>2. a = [r EXCEPT !.candidate = k, !.seen = n, !.touched = t]
    BY <1>1 DEF ApplyLayer, ResolverType
<1>3. k \in [Cell -> Nat] /\ n \in SUBSET (LayerName \X Cell) /\ t \in SUBSET Entity
    BY <1>1, CellsHaveEntities DEF IsWrites, ResolverType
<1>4. /\ \A c \in Cell : c[1] \notin t => k[c] = r.baseline[c]
      /\ \A s \in n : s[2][1] \in t
    BY <1>1 DEF InFrame
<1> HIDE DEF k, n, t, a
<1>5. /\ a \in ResolverType /\ a.baseline = r.baseline /\ a.committed = r.committed
      /\ a.candidate = k /\ a.seen = n /\ a.touched = t
    BY <1>1, <1>2, <1>3 DEF ResolverType
<1>6. InFrame(a)
    BY <1>4, <1>5 DEF InFrame
<1> QED BY <1>5, <1>6 DEF a, k, n, t

(* What the token that wins writes is what the reference takes.            *)
LEMMA WinningIsOverridden ==
    ASSUME NEW tokens, NEW c \in Cell, NEW below
    PROVE  (IF c \in DOMAIN Winning(tokens) THEN Winning(tokens)[c] ELSE below)
               = OverriddenBy(tokens, c, below)
<1> DEFINE writers == {t \in tokens : c \in DOMAIN t.writes}
           top == {t \in writers : \A u \in writers : t.priority >= u.priority}
           wins(t) == Wins(t, tokens, c)
<1>1. Strongest(Writers(tokens, c)) = top
    BY DEF Strongest, Writers
<1>2. \A t : wins(t) <=> top = {t}
    BY <1>1 DEF Wins
<1>3. c \in DOMAIN Winning(tokens) <=> \E t \in tokens : wins(t)
    BY DEF Winning
<1>4. CASE \E t \in tokens : wins(t)
  <2>1. PICK t \in tokens : top = {t}
      BY <1>2, <1>4
  <2>2. (CHOOSE u \in tokens : wins(u)) = t
      BY <1>2, <2>1
  <2>3. Winning(tokens)[c] = t.writes[c]
      BY <1>3, <1>4, <2>2 DEF Winning
  <2>4. (CHOOSE u \in top : TRUE) = t
      BY <2>1
  <2> QED BY <1>3, <1>4, <2>1, <2>3, <2>4 DEF OverriddenBy
<1>5. CASE ~\E t \in tokens : wins(t)
  <2>1. ~\E t \in top : top = {t}
      BY <1>2, <1>5
  <2> QED BY <1>3, <1>5, <2>1 DEF OverriddenBy
<1> QED BY <1>4, <1>5

LEMMA WinningIsWrites ==
    ASSUME NEW tokens, \A t \in tokens : IsWrites(t.writes)
    PROVE  IsWrites(Winning(tokens))
<1> DEFINE w == Winning(tokens)
<1>1. DOMAIN w = {d \in Cell : \E t \in tokens : Wins(t, tokens, d)}
    BY DEF Winning
<1>2. ASSUME NEW c \in DOMAIN w PROVE w[c] \in Nat
  <2> DEFINE t == CHOOSE t \in tokens : Wins(t, tokens, c)
  <2>1. t \in tokens /\ Wins(t, tokens, c)
      BY <1>1
  <2>2. c \in DOMAIN t.writes
      BY <2>1 DEF Wins, Strongest, Writers
  <2>3. w[c] = t.writes[c]
      BY <1>1 DEF Winning
  <2> HIDE DEF t
  <2> QED BY <2>1, <2>2, <2>3 DEF IsWrites
<1>3. w = [c \in DOMAIN w |-> w[c]]
    BY DEF Winning
<1> HIDE DEF w
<1>4. w \in [DOMAIN w -> Nat]
    BY <1>2, <1>3
<1> QED BY <1>1, <1>4 DEF IsWrites, w

-----------------------------------------------------------------------------
(* The behaviors keep their own copy of the base values.                   *)
EvaluationOK(e) ==
    /\ e \in EvaluationType
    /\ ResolverOK(e.resolver)
    /\ e.baselines = [c \in DOMAIN e.chart.tracks |-> e.resolver.baseline[c]]
    /\ \A t, u \in e.tokens : t.id = u.id => t = u
    /\ \A t \in e.tokens : t.id \in 1 .. (e.nextId - 1)

LEMMA ChartIsTyped ==
    ASSUME NEW chart \in ChartType
    PROVE  /\ chart.initial \in [Cell -> Nat \ {Bad}]
           /\ DOMAIN chart.tracks \subseteq Cell
           /\ \A c \in DOMAIN chart.tracks :
                  chart.tracks[c].beat \in Int /\ chart.tracks[c].value \in Nat
           /\ DOMAIN chart.clips \subseteq Cell
           /\ \A c \in DOMAIN chart.clips :
                  chart.clips[c].beat \in Int /\ chart.clips[c].add \in Nat
           /\ \A time \in Times : chart.beat[time] \in Int
<1>1. PICK a \in Charts, b \in Charts, d \in Charts :
          chart.tracks = a.tracks /\ chart.clips = b.clips /\ chart.beat = d.beat
    BY DEF ChartType
<1>2. chart.initial \in [Cell -> Nat \ {Bad}]
    BY DEF ChartType
<1>3. /\ DOMAIN a.tracks \subseteq Cell /\ a.tracks \in [DOMAIN a.tracks -> [beat: Int, value: Nat]]
      /\ DOMAIN b.clips \subseteq Cell /\ b.clips \in [DOMAIN b.clips -> [beat: Int, add: Nat]]
      /\ Times \subseteq DOMAIN d.beat /\ d.beat \in [DOMAIN d.beat -> Int]
    BY SessionAssumption
<1> QED BY <1>1, <1>2, <1>3

LEMMA TokenIsTyped ==
    ASSUME NEW t \in TokenType
    PROVE  IsWrites(t.writes) /\ t.kind \in {"host", "preview"} /\ t.id \in Nat
BY SessionAssumption DEF TokenType, IsWrites

(* Resolved, layer by layer.                                               *)
Tracked(e, time, c) ==
    IF c \in DOMAIN e.chart.tracks /\ e.chart.beat[time] >= e.chart.tracks[c].beat
    THEN e.chart.tracks[c].value ELSE e.resolver.baseline[c]
Animated(e, time, c) ==
    IF c \in DOMAIN e.chart.clips /\ e.chart.beat[time] >= e.chart.clips[c].beat
    THEN Tracked(e, time, c) + e.chart.clips[c].add ELSE Tracked(e, time, c)
Hosted(e, tokens, time, c) ==
    OverriddenBy(OfKind(Active(tokens, time), "host"), c, Animated(e, time, c))
Previewed(e, tokens, time, c) ==
    OverriddenBy(OfKind(Active(tokens, time), "preview"), c, Hosted(e, tokens, time, c))

LEMMA ResolvedInLayers ==
    ASSUME NEW e, NEW tokens, NEW time, NEW c
    PROVE  Resolved(e, tokens, time, c) =
               IF Bad \in {Tracked(e, time, c), Animated(e, time, c), Hosted(e, tokens, time, c)}
               THEN Bad ELSE Previewed(e, tokens, time, c)
BY Zenon DEF Resolved, Tracked, Animated, Hosted, Previewed, Active

(* A layer that is accepted, over one that was.                            *)
LEMMA LayerIsApplied ==
    ASSUME NEW below, below.ok, InFrame(below.resolver), NEW writes, IsWrites(writes),
           NEW layer \in LayerName, \A s \in below.resolver.seen : s[1] # layer
    PROVE  LET l == Layer(below, writes, layer)
           IN  /\ l.ok <=> \A c \in DOMAIN writes : writes[c] # Bad
               /\ InFrame(l.resolver)
               /\ l.resolver.baseline = below.resolver.baseline
               /\ l.resolver.committed = below.resolver.committed
               /\ l.resolver.candidate =
                      [c \in Cell |-> IF c \in DOMAIN writes THEN writes[c]
                                      ELSE below.resolver.candidate[c]]
               /\ l.resolver.seen = below.resolver.seen \cup ({layer} \X DOMAIN writes)
               /\ l.resolver.touched = below.resolver.touched \cup {c[1] : c \in DOMAIN writes}
<1>1. Accepts(below.resolver, writes, layer) <=> \A c \in DOMAIN writes : writes[c] # Bad
    BY DEF Accepts
<1>2. Layer(below, writes, layer) = [ok |-> Accepts(below.resolver, writes, layer),
                                     resolver |-> ApplyLayer(below.resolver, writes, layer)]
    BY DEF Layer
<1> HIDE DEF Accepts
<1> QED BY <1>1, <1>2, ApplyLayerWrites

LEMMA LayeredIsResolved ==
    ASSUME NEW e, EvaluationOK(e), NEW time \in Times
    PROVE  LET l == Layered(e, time)
           IN  /\ InFrame(l.resolver)
               /\ l.resolver.baseline = e.resolver.baseline
               /\ l.resolver.committed = e.resolver.committed
               /\ l.ok => l.resolver.candidate = Reference(e, e.tokens, time)
               /\ ~l.ok => \E c \in Cell : Reference(e, e.tokens, time)[c] = Bad
<1> DEFINE begun == [ok |-> TRUE, resolver |-> BeginFrame(e.resolver)]
           behaved == Layer(begun, Behavior(e, time), "behavior")
           animation == Animation(e, behaved.resolver, time)
           animated == Layer(behaved, animation, "animation")
           host == Winning(OfKind(Active(e.tokens, time), "host"))
           hosted == Layer(animated, host, "host")
           preview == Winning(OfKind(Active(e.tokens, time), "preview"))
           l == Layer(hosted, preview, "preview")
           base == e.resolver.baseline
           value(c) == Resolved(e, e.tokens, time, c)
           Fine(r) == /\ InFrame(r) /\ r.baseline = base /\ r.committed = e.resolver.committed
<1>0. /\ Layered(e, time) = l
      /\ e.chart \in ChartType /\ e.resolver \in ResolverType /\ e.tokens \subseteq TokenType
      /\ base \in [Cell -> Nat] /\ \A c \in Cell : base[c] # Bad
    BY DEF Layered, EvaluationOK, EvaluationType, ResolverOK, ResolverType
<1>00. /\ "behavior" \in LayerName /\ "animation" \in LayerName /\ "host" \in LayerName
       /\ "preview" \in LayerName
    BY DEF LayerName
<1>1. /\ InFrame(begun.resolver) /\ begun.ok /\ begun.resolver.seen = {}
      /\ begun.resolver.candidate = base /\ begun.resolver.baseline = base
      /\ begun.resolver.committed = e.resolver.committed
    BY BeginFrameIsBase DEF EvaluationOK
<1>2. /\ IsWrites(Behavior(e, time)) /\ DOMAIN Behavior(e, time) = DOMAIN e.chart.tracks
      /\ \A c \in DOMAIN e.chart.tracks : Behavior(e, time)[c] = Tracked(e, time, c)
  <2>1. e.baselines = [c \in DOMAIN e.chart.tracks |-> base[c]]
      BY DEF EvaluationOK
  <2>2. /\ DOMAIN e.chart.tracks \subseteq Cell /\ e.chart.beat[time] \in Int
        /\ \A c \in DOMAIN e.chart.tracks :
               e.chart.tracks[c].beat \in Int /\ e.chart.tracks[c].value \in Nat
      BY <1>0, ChartIsTyped
  <2>3. \A c \in DOMAIN e.chart.tracks : Tracked(e, time, c) \in Nat
      BY <1>0, <2>2 DEF Tracked
  <2>4. Behavior(e, time) = [c \in DOMAIN e.chart.tracks |-> Tracked(e, time, c)]
    <3>1. \A c \in DOMAIN e.chart.tracks :
              (IF e.chart.beat[time] < e.chart.tracks[c].beat
               THEN e.baselines[c] ELSE e.chart.tracks[c].value) = Tracked(e, time, c)
        BY <2>1, <2>2 DEF Tracked
    <3> QED BY <3>1 DEF Behavior
  <2> QED BY <2>2, <2>3, <2>4 DEF IsWrites
<1>3. \A c \in Cell : c \notin DOMAIN e.chart.tracks => Tracked(e, time, c) = base[c]
    BY DEF Tracked
<1>4. /\ Fine(behaved.resolver)
      /\ behaved.ok <=> \A c \in Cell : Tracked(e, time, c) # Bad
      /\ \A c \in Cell : behaved.resolver.candidate[c] = Tracked(e, time, c)
      /\ \A s \in behaved.resolver.seen : s[1] = "behavior"
  <2> HIDE DEF begun
  <2>1. /\ behaved.ok <=> \A c \in DOMAIN e.chart.tracks : Tracked(e, time, c) # Bad
        /\ Fine(behaved.resolver)
        /\ behaved.resolver.candidate =
               [c \in Cell |-> IF c \in DOMAIN e.chart.tracks THEN Tracked(e, time, c) ELSE base[c]]
        /\ behaved.resolver.seen = {"behavior"} \X DOMAIN e.chart.tracks
      BY <1>00, <1>1, <1>2, LayerIsApplied
  <2>2. DOMAIN e.chart.tracks \subseteq Cell
      BY <1>0, ChartIsTyped
  <2> QED BY <1>0, <1>3, <2>1, <2>2
<1>5. ASSUME ~behaved.ok
      PROVE  l = behaved /\ \E c \in Cell : value(c) = Bad
    BY <1>4, <1>5, ResolvedInLayers DEF Layer
<1> HIDE DEF behaved
<1>6. ASSUME behaved.ok
      PROVE  /\ Fine(animated.resolver)
             /\ animated.ok <=> \A c \in Cell : Animated(e, time, c) # Bad
             /\ \A c \in Cell : animated.resolver.candidate[c] = Animated(e, time, c)
             /\ \A s \in animated.resolver.seen : s[1] \in {"behavior", "animation"}
  <2>1. /\ DOMAIN e.chart.clips \subseteq Cell
        /\ \A c \in DOMAIN e.chart.clips : e.chart.clips[c].add \in Nat
      BY <1>0, ChartIsTyped
  <2>2. \A c \in Cell : behaved.resolver.candidate[c] \in Nat
      BY <1>4 DEF InFrame, ResolverType
  <2>3. \A c \in DOMAIN animation : c \in DOMAIN e.chart.clips /\ c \in Cell
      BY <2>1 DEF Animation
  <2>4. \A c \in DOMAIN animation : animation[c] = Animated(e, time, c) /\ animation[c] \in Nat
      BY <1>4, <2>1, <2>2 DEF Animation, Animated
  <2>5. \A c \in Cell : c \notin DOMAIN animation => Animated(e, time, c) = Tracked(e, time, c)
      BY DEF Animation, Animated
  <2>6. IsWrites(animation)
    <3>1. animation = [c \in DOMAIN animation |-> animation[c]]
        BY DEF Animation
    <3> HIDE DEF animation
    <3>2. animation \in [DOMAIN animation -> Nat]
        BY <2>4, <3>1
    <3> QED BY <2>3, <3>2 DEF IsWrites
  <2> HIDE DEF animation
  <2>7. \A s \in behaved.resolver.seen : s[1] # "animation"
      BY <1>4
  <2>8. /\ animated.ok <=> \A c \in DOMAIN animation : animation[c] # Bad
        /\ Fine(animated.resolver)
        /\ animated.resolver.candidate =
               [c \in Cell |-> IF c \in DOMAIN animation THEN animation[c]
                               ELSE behaved.resolver.candidate[c]]
        /\ animated.resolver.seen = behaved.resolver.seen \cup ({"animation"} \X DOMAIN animation)
      BY <1>00, <1>4, <1>6, <2>6, <2>7, LayerIsApplied
  <2> QED BY <1>4, <1>6, <2>3, <2>4, <2>5, <2>8
<1>7. ASSUME behaved.ok, ~animated.ok
      PROVE  l = animated /\ \E c \in Cell : value(c) = Bad
    BY <1>6, <1>7, ResolvedInLayers DEF Layer
<1> HIDE DEF animated
<1>8. \A kind \in {"host", "preview"} : IsWrites(Winning(OfKind(Active(e.tokens, time), kind)))
  <2>1. \A kind : \A t \in OfKind(Active(e.tokens, time), kind) : IsWrites(t.writes)
      BY <1>0, TokenIsTyped DEF OfKind, Active
  <2> QED BY <2>1, WinningIsWrites
<1>9. ASSUME behaved.ok, animated.ok
      PROVE  /\ Fine(hosted.resolver)
             /\ hosted.ok <=> \A c \in Cell : Hosted(e, e.tokens, time, c) # Bad
             /\ \A c \in Cell : hosted.resolver.candidate[c] = Hosted(e, e.tokens, time, c)
             /\ \A s \in hosted.resolver.seen : s[1] \in {"behavior", "animation", "host"}
  <2>1. \A c \in Cell : (IF c \in DOMAIN host THEN host[c] ELSE Animated(e, time, c))
                            = Hosted(e, e.tokens, time, c)
      BY WinningIsOverridden DEF Hosted
  <2>2. IsWrites(host)
      BY <1>8
  <2> HIDE DEF host
  <2>3. \A s \in animated.resolver.seen : s[1] # "host"
      BY <1>6, <1>9
  <2>4. /\ hosted.ok <=> \A c \in DOMAIN host : host[c] # Bad
        /\ Fine(hosted.resolver)
        /\ hosted.resolver.candidate =
               [c \in Cell |-> IF c \in DOMAIN host THEN host[c] ELSE animated.resolver.candidate[c]]
        /\ hosted.resolver.seen = animated.resolver.seen \cup ({"host"} \X DOMAIN host)
      BY <1>00, <1>6, <1>9, <2>2, <2>3, LayerIsApplied
  <2> QED BY <1>6, <1>9, <2>1, <2>2, <2>4 DEF IsWrites
<1>10. ASSUME behaved.ok, animated.ok, ~hosted.ok
       PROVE  l = hosted /\ \E c \in Cell : value(c) = Bad
    BY <1>9, <1>10, ResolvedInLayers DEF Layer
<1> HIDE DEF hosted
<1>11. ASSUME behaved.ok, animated.ok, hosted.ok
       PROVE  /\ Fine(l.resolver)
              /\ l.ok <=> \A c \in Cell : Previewed(e, e.tokens, time, c) # Bad
              /\ \A c \in Cell : l.resolver.candidate[c] = Previewed(e, e.tokens, time, c)
  <2>1. \A c \in Cell : (IF c \in DOMAIN preview THEN preview[c] ELSE Hosted(e, e.tokens, time, c))
                            = Previewed(e, e.tokens, time, c)
      BY WinningIsOverridden DEF Previewed
  <2>2. IsWrites(preview)
      BY <1>8
  <2> HIDE DEF preview
  <2>3. \A s \in hosted.resolver.seen : s[1] # "preview"
      BY <1>9, <1>11
  <2>4. /\ l.ok <=> \A c \in DOMAIN preview : preview[c] # Bad
        /\ Fine(l.resolver)
        /\ l.resolver.candidate =
               [c \in Cell |-> IF c \in DOMAIN preview THEN preview[c] ELSE hosted.resolver.candidate[c]]
      BY <1>00, <1>9, <1>11, <2>2, <2>3, LayerIsApplied
  <2> QED BY <1>9, <1>11, <2>1, <2>2, <2>4 DEF IsWrites
<1> HIDE DEF l
<1>12. ASSUME behaved.ok, animated.ok, hosted.ok
       PROVE  /\ \A c \in Cell : value(c) = Previewed(e, e.tokens, time, c)
              /\ l.ok => l.resolver.candidate = [c \in Cell |-> value(c)]
              /\ ~l.ok => \E c \in Cell : value(c) = Bad
  <2>1. \A c \in Cell : value(c) = Previewed(e, e.tokens, time, c)
      BY <1>4, <1>6, <1>9, <1>12, ResolvedInLayers
  <2>2. l.resolver.candidate \in [Cell -> Nat]
      BY <1>11, <1>12 DEF InFrame, ResolverType
  <2> HIDE DEF value
  <2> QED BY <1>11, <1>12, <2>1, <2>2
<1>13. Reference(e, e.tokens, time) = [c \in Cell |-> value(c)]
    BY DEF Reference
<1> HIDE DEF value
<1>14. /\ Fine(l.resolver)
       /\ l.ok => l.resolver.candidate = [c \in Cell |-> value(c)]
       /\ ~l.ok => \E c \in Cell : value(c) = Bad
  <2>1. CASE ~behaved.ok
      BY <1>4, <1>5, <2>1
  <2>2. CASE behaved.ok /\ ~animated.ok
      BY <1>6, <1>7, <2>2
  <2>3. CASE behaved.ok /\ animated.ok /\ ~hosted.ok
      BY <1>9, <1>10, <2>3
  <2>4. CASE behaved.ok /\ animated.ok /\ hosted.ok
      BY <1>11, <1>12, <2>4
  <2> QED BY <2>1, <2>2, <2>3, <2>4
<1> QED BY <1>0, <1>13, <1>14

-----------------------------------------------------------------------------
(* Between frames a transform shows its base value, unless its entry was   *)
(* ever committed: those are all that a commit has to write.               *)
Agrees(e, w) ==
    \A c \in Transforms : c[1] \notin e.resolver.committed => w.value[c] = e.resolver.baseline[c]

WorldOK(w) == w \in WorldType /\ CacheOK(w)

LEMMA CellsByKind ==
    LET kind(k) == {c \in Cell : c[2] = k}
    IN  /\ Transforms \subseteq Cell
        /\ Cell = Transforms \cup (kind("camera") \cup kind("appearance"))
        /\ \A c \in Transforms : c[2] = "transform"
<1>1. \A e \in Entity : Transform(e) \in Cell /\ Transform(e)[2] = "transform"
    BY WorldAssumption DEF Transform
<1>2. \A c \in Cell : \E e \in Entity : c \in {<<e, "transform">>, <<e, "camera">>, <<e, "appearance">>}
    BY WorldAssumption
<1> QED BY <1>1, <1>2 DEF Transforms, Transform

LEMMA WriteChangesValue ==
    ASSUME NEW w \in WorldType, NEW cells, NEW value \in [Cell -> Nat]
    PROVE  LET x == Write(w, cells, value)
           IN  /\ x \in WorldType
               /\ x.value = [c \in Cell |-> IF c \in cells THEN value[c] ELSE w.value[c]]
               /\ x.removed = w.removed /\ x.cached = w.cached
               /\ x.local = w.local /\ x.matrix = w.matrix
<1> DEFINE v == [c \in Cell |-> IF c \in cells THEN value[c] ELSE w.value[c]]
           x == Write(w, cells, value)
<1>1. v \in [Cell -> Nat]
    BY DEF WorldType
<1>2. x = [w EXCEPT !.value = v]
    BY DEF Write, WorldType
<1> HIDE DEF v, x
<1>3. x \in WorldType /\ x.value = v /\ x.removed = w.removed /\ x.cached = w.cached
      /\ x.local = w.local /\ x.matrix = w.matrix
    BY <1>1, <1>2 DEF WorldType
<1> QED BY <1>3 DEF v, x

(* What a failed stage takes back is everything it has written.            *)
LEMMA RollBackRestores ==
    ASSUME NEW w \in WorldType, NEW cells, NEW value \in [Cell -> Nat]
    PROVE  RollBack(Write(w, cells, value), cells, w) = w
<1> DEFINE x == Write(w, cells, value)
           y == Write(x, cells, w.value)
<1>1. w.value \in [Cell -> Nat]
    BY DEF WorldType
<1>2. /\ x \in WorldType
      /\ x.value = [c \in Cell |-> IF c \in cells THEN value[c] ELSE w.value[c]]
      /\ x.removed = w.removed /\ x.cached = w.cached /\ x.local = w.local /\ x.matrix = w.matrix
    BY WriteChangesValue
<1> HIDE DEF x
<1>3. /\ y \in WorldType
      /\ y.value = [c \in Cell |-> IF c \in cells THEN w.value[c] ELSE x.value[c]]
      /\ y.removed = x.removed /\ y.cached = x.cached /\ y.local = x.local /\ y.matrix = x.matrix
    BY <1>1, <1>2, WriteChangesValue
<1> HIDE DEF y
<1>4. y.value = w.value
    BY <1>1, <1>2, <1>3
<1>5. y = w
    BY <1>2, <1>3, <1>4 DEF WorldType
<1> QED BY <1>5 DEF RollBack, x, y

LEMMA CommittedIsOK ==
    ASSUME NEW r, InFrame(r), \A c \in Cell : r.baseline[c] # Bad
    PROVE  LET k == Committed(r)
           IN  /\ ResolverOK(k) /\ k.baseline = r.baseline
               /\ k.committed = r.committed \cup r.touched
<1> DEFINE k == Committed(r)
           s == r.committed \cup r.touched
<1>1. r \in ResolverType /\ s \in SUBSET Entity
    BY DEF InFrame, ResolverType
<1>2. k = [r EXCEPT !.committed = s]
    BY DEF Committed, CommitEntries
<1>3. s = r.committed \cup r.touched
    OBVIOUS
<1> HIDE DEF k, s
<1>4. /\ k \in ResolverType /\ k.baseline = r.baseline /\ k.candidate = r.candidate
      /\ k.touched = r.touched /\ k.seen = r.seen /\ k.committed = s
    BY <1>1, <1>2 DEF ResolverType
<1>5. ResolverOK(k)
    BY <1>1, <1>3, <1>4 DEF InFrame, ResolverOK
<1> QED BY <1>3, <1>4, <1>5 DEF k

(* A commit presents the whole candidate, or leaves the World as it was.   *)
LEMMA CommitPresents ==
    ASSUME NEW e, InFrame(e.resolver), NEW w, WorldOK(w), Agrees(e, w)
    PROVE  LET o == Commit(e, w)
               k == e.resolver.candidate
           IN  /\ o.evaluation = [e EXCEPT !.resolver = Committed(e.resolver)]
               /\ \/ /\ o.ok /\ WorldOK(o.world) /\ o.world.value = k
                     /\ o.world.matrix = Composed(k)
                  \/ /\ o.ok = FALSE /\ o.world = w
                     /\ w.removed # {} \/ \E x \in Entity : Composed(k)[x] > Limit
<1> DEFINE kind(k) == {c \in Cell : c[2] = k}
           transforms == CellsAt(CommitEntries(e.resolver)) \cap Transforms
           cameras == transforms \cup kind("camera")
           complete == cameras \cup kind("appearance")
           committed == [e EXCEPT !.resolver = Committed(e.resolver)]
           value == e.resolver.candidate
           after(cells) == Write(w, cells, value)
           o == Commit(e, w)
<1>1. /\ w \in WorldType /\ w.removed \subseteq Cell /\ w.value \in [Cell -> Nat]
      /\ value \in [Cell -> Nat] /\ e.resolver.baseline \in [Cell -> Nat]
    BY DEF WorldOK, WorldType, InFrame, ResolverType
<1>2. /\ \A cells : RollBack(after(cells), cells, w) = w
      /\ \A cells : after(cells) \in WorldType
      /\ \A cells : after(cells).value = [c \in Cell |-> IF c \in cells THEN value[c] ELSE w.value[c]]
      /\ \A cells : after(cells).removed = w.removed /\ after(cells).cached = w.cached
      /\ \A cells : after(cells).local = w.local /\ after(cells).matrix = w.matrix
  <2>1. ASSUME NEW cells
        PROVE  /\ RollBack(after(cells), cells, w) = w /\ after(cells) \in WorldType
               /\ after(cells).value = [c \in Cell |-> IF c \in cells THEN value[c] ELSE w.value[c]]
               /\ after(cells).removed = w.removed /\ after(cells).cached = w.cached
               /\ after(cells).local = w.local /\ after(cells).matrix = w.matrix
    <3> HIDE DEF value
    <3> QED BY <1>1, RollBackRestores, WriteChangesValue
  <2> QED BY <2>1
<1>3. CacheOK(after(complete))
    BY <1>2 DEF CacheOK, WorldOK
<1>4. after(complete).value = value
  <2>1. ASSUME NEW c \in Cell, c \notin complete
        PROVE  c \in Transforms /\ c[1] \notin e.resolver.committed \cup e.resolver.touched
    <3>1. c \in Transforms
        BY <2>1, CellsByKind
    <3> QED BY <2>1, <3>1 DEF CellsAt, CommitEntries
  <2>2. \A c \in Cell : c \notin complete => w.value[c] = value[c]
      BY <2>1 DEF Agrees, InFrame
  <2> HIDE DEF complete, value
  <2>3. after(complete).value = [c \in Cell |-> IF c \in complete THEN value[c] ELSE w.value[c]]
      BY <1>2
  <2> QED BY <1>1, <2>2, <2>3
<1>5. /\ Commit(e, w) =
             CASE ~Present(w, kind("camera")) ->
                      Outcome(FALSE, committed, RollBack(after(transforms), transforms, w))
               [] Present(w, kind("camera")) /\ ~Present(w, kind("appearance")) ->
                      Outcome(FALSE, committed, RollBack(after(cameras), cameras, w))
               [] Present(w, kind("camera") \cup kind("appearance")) ->
                      IF CanUpdate(after(complete))
                      THEN Outcome(TRUE, committed, UpdateWorldTransforms(after(complete)))
                      ELSE Outcome(FALSE, committed, RollBack(after(complete), complete, w))
    BY DEF Commit
<1> DEFINE u == UpdateWorldTransforms(after(complete))
<1>6. /\ u \in WorldType /\ CacheOK(u) /\ u.value = value /\ u.matrix = Composed(value)
      /\ CanUpdate(after(complete)) <=> \A x \in Dirty(after(complete)) : Composed(value)[x] <= Limit
      /\ Dirty(after(complete)) \subseteq Entity
  <2> DEFINE a == after(complete)
  <2>1. a \in WorldType /\ CacheOK(a) /\ a.value = value
      BY <1>2, <1>3, <1>4
  <2> HIDE DEF a, value
  <2>2. /\ u = UpdateWorldTransforms(a) /\ a = after(complete)
      BY DEF a
  <2> HIDE DEF u, after
  <2>3. Dirty(a) \subseteq Entity
      BY <2>1, DirtyIsDerived
  <2> QED BY <2>1, <2>2, <2>3, UpdateIsComposed
<1>7. \A x \in Entity : Composed(value)[x] \in Nat
    BY <1>1, ComposedIsDerived
<1>8. /\ Present(w, kind("camera") \cup kind("appearance"))
             <=> Present(w, kind("camera")) /\ Present(w, kind("appearance"))
      /\ ~Present(w, kind("camera")) => w.removed # {}
      /\ ~Present(w, kind("appearance")) => w.removed # {}
    BY DEF Present
<1> HIDE DEF after, committed, value, u, complete, cameras, transforms, kind
<1>9. CASE ~Present(w, kind("camera"))
  <2>1. o = Outcome(FALSE, committed, w)
      BY <1>2, <1>5, <1>8, <1>9
  <2> QED BY <1>8, <1>9, <2>1 DEF Outcome, committed, value
<1>10. CASE Present(w, kind("camera")) /\ ~Present(w, kind("appearance"))
  <2>1. o = Outcome(FALSE, committed, w)
      BY <1>2, <1>5, <1>8, <1>10
  <2> QED BY <1>8, <1>10, <2>1 DEF Outcome, committed, value
<1>11. CASE Present(w, kind("camera") \cup kind("appearance")) /\ CanUpdate(after(complete))
  <2>1. o = Outcome(TRUE, committed, u)
      BY <1>5, <1>8, <1>11 DEF u
  <2>2. o.ok /\ o.evaluation = committed /\ o.world = u
      BY <2>1 DEF Outcome
  <2> QED BY <1>6, <2>2 DEF committed, value, WorldOK
<1>12. CASE Present(w, kind("camera") \cup kind("appearance")) /\ ~CanUpdate(after(complete))
  <2>1. o = Outcome(FALSE, committed, w)
      BY <1>2, <1>5, <1>8, <1>12
  <2>2. \E x \in Entity : Composed(value)[x] > Limit
      BY <1>6, <1>7, <1>12, WorldAssumption
  <2> QED BY <2>1, <2>2 DEF Outcome, committed, value
<1> QED BY <1>8, <1>9, <1>10, <1>11, <1>12

-----------------------------------------------------------------------------
EvaluationFields(e) ==
    /\ e \in EvaluationType
    /\ e.chart \in ChartType /\ e.resolver \in ResolverType
    /\ e.tokens \in SUBSET TokenType /\ e.nextId \in Nat

LEMMA EvaluationIsTyped ==
    ASSUME NEW e \in EvaluationType
    PROVE  EvaluationFields(e)
BY DEF EvaluationType, EvaluationFields

(* The evaluation with another state of its resolver.                      *)
LEMMA ResolverIsReplaced ==
    ASSUME NEW e, e \in EvaluationType, NEW r \in ResolverType
    PROVE  LET f == [e EXCEPT !.resolver = r]
           IN  /\ f \in EvaluationType /\ f.resolver = r /\ f.chart = e.chart
               /\ f.baselines = e.baselines /\ f.tokens = e.tokens /\ f.nextId = e.nextId
BY DEF EvaluationType

LEMMA EvaluationKeepsBase ==
    ASSUME NEW e, EvaluationOK(e), NEW r, ResolverOK(r), r.baseline = e.resolver.baseline
    PROVE  /\ EvaluationOK([e EXCEPT !.resolver = r])
           /\ [e EXCEPT !.resolver = r].chart = e.chart
           /\ [e EXCEPT !.resolver = r].resolver = r
<1> DEFINE f == [e EXCEPT !.resolver = r]
<1>1. e \in EvaluationType /\ r \in ResolverType
    BY DEF EvaluationOK, ResolverOK
<1>2. /\ f \in EvaluationType /\ f.resolver = r /\ f.chart = e.chart
      /\ f.baselines = e.baselines /\ f.tokens = e.tokens /\ f.nextId = e.nextId
    BY <1>1, ResolverIsReplaced
<1> HIDE DEF f
<1>3. EvaluationOK(f)
    BY <1>2 DEF EvaluationOK
<1> QED BY <1>2, <1>3 DEF f

(* A lifetime that is counted down is still one of the same token.         *)
LEMMA TickedKeepsId ==
    ASSUME NEW t \in TokenType
    PROVE  Ticked(t) \in TokenType /\ Ticked(t).id = t.id
<1> DEFINE life == [t.life EXCEPT !.n = t.life.n - 1]
<1>1. t.life \in Life
    BY DEF TokenType
<1>2. life \in Life
    BY <1>1 DEF Life
<1>3. Ticked(t) = IF t.life.kind = "frames" /\ t.life.n > 0
                  THEN [t EXCEPT !.life = life] ELSE t
    BY DEF Ticked
<1> HIDE DEF life
<1> QED BY <1>2, <1>3 DEF TokenType

LEMMA TickedIsOK ==
    ASSUME NEW e, EvaluationOK(e), NEW time
    PROVE  LET f == [e EXCEPT !.tokens = Active({Ticked(t) : t \in e.tokens}, time)]
           IN  /\ EvaluationOK(f) /\ f.resolver = e.resolver /\ f.chart = e.chart
<1> DEFINE tokens == Active({Ticked(t) : t \in e.tokens}, time)
           f == [e EXCEPT !.tokens = tokens]
<1>1. e \in EvaluationType /\ EvaluationFields(e)
    BY EvaluationIsTyped DEF EvaluationOK
<1>2. \A t \in tokens : \E u \in e.tokens : t = Ticked(u)
    BY DEF Active
<1>3. \A u \in e.tokens : Ticked(u) \in TokenType /\ Ticked(u).id = u.id
    BY <1>1, TickedKeepsId DEF EvaluationFields
<1> HIDE DEF tokens
<1>4. tokens \in SUBSET TokenType
    BY <1>2, <1>3
<1>5. /\ f \in EvaluationType /\ f.resolver = e.resolver /\ f.chart = e.chart
      /\ f.baselines = e.baselines /\ f.tokens = tokens /\ f.nextId = e.nextId
    BY <1>1, <1>4 DEF EvaluationType
<1> HIDE DEF f
<1>6. EvaluationOK(f)
    BY <1>2, <1>3, <1>5 DEF EvaluationOK
<1> QED BY <1>5, <1>6 DEF f, tokens

(* The reference depends on the chart, the base and the tokens alone.      *)
LEMMA ReferenceDependsOnInputs ==
    ASSUME NEW e, NEW f, f.chart = e.chart, f.resolver.baseline = e.resolver.baseline,
           NEW tokens, NEW time
    PROVE  Reference(f, tokens, time) = Reference(e, tokens, time)
BY DEF Reference, Resolved

(* Why a frame may fail.                                                   *)
Deserved(value, w) ==
    \/ \E c \in Cell : value[c] = Bad
    \/ \E c \in Transforms : value[c] > Limit
    \/ \E x \in Entity : Composed(value)[x] > Limit
    \/ w.removed # {}

(* What a frame does to the evaluation and to the World.                   *)
LEMMA FramePresents ==
    ASSUME NEW e, EvaluationOK(e), NEW w, WorldOK(w), Agrees(e, w), NEW time \in Times
    PROVE  LET o == UpdatePrepared(e, w, time)
               value == Reference(e, e.tokens, time)
           IN  /\ EvaluationOK(o.evaluation) /\ o.evaluation.chart = e.chart
               /\ o.evaluation.resolver.baseline = e.resolver.baseline
               /\ WorldOK(o.world) /\ Agrees(o.evaluation, o.world)
               /\ \/ o.ok /\ o.world.value = value /\ o.world.matrix = Composed(value)
                  \/ o.ok = FALSE /\ o.world = w /\ Deserved(value, w)
<1> DEFINE layered == Layered(e, time)
           r == layered.resolver
           resolved == [e EXCEPT !.resolver = r]
           ticked == [resolved EXCEPT !.tokens = Active({Ticked(t) : t \in resolved.tokens}, time)]
           value == Reference(e, e.tokens, time)
           o == UpdatePrepared(e, w, time)
<1>1. /\ InFrame(r) /\ r.baseline = e.resolver.baseline /\ r.committed = e.resolver.committed
      /\ layered.ok => r.candidate = value
      /\ ~layered.ok => \E c \in Cell : value[c] = Bad
    BY LayeredIsResolved
<1>2. o = CASE ~layered.ok -> Outcome(FALSE, resolved, w)
            [] layered.ok /\ ~Finite(r) -> Outcome(FALSE, ticked, w)
            [] layered.ok /\ Finite(r) -> Commit(ticked, w)
    BY DEF UpdatePrepared
<1> HIDE DEF layered, r, value, o
<1>3. /\ \A c \in Cell : r.baseline[c] # Bad
      /\ ResolverOK(r)
  <2>1. \A c \in Cell : r.baseline[c] # Bad
      BY <1>1 DEF EvaluationOK, ResolverOK
  <2> QED BY <1>1, <2>1 DEF InFrame, ResolverOK
<1>4. /\ EvaluationOK(resolved) /\ resolved.chart = e.chart /\ resolved.resolver = r
    BY <1>1, <1>3, EvaluationKeepsBase
<1> HIDE DEF resolved
<1>5. /\ EvaluationOK(ticked) /\ ticked.chart = e.chart /\ ticked.resolver = r
    BY <1>4, TickedIsOK
<1> HIDE DEF ticked
<1>6. \A f : f.resolver = r => Agrees(f, w)
    BY <1>1 DEF Agrees
<1>7. CASE ~layered.ok
  <2>1. o.evaluation = resolved /\ o.world = w /\ o.ok = FALSE
      BY <1>2, <1>7 DEF Outcome
  <2> QED BY <1>1, <1>4, <1>6, <1>7, <2>1 DEF Deserved, o, value
<1>8. CASE layered.ok /\ ~Finite(r)
  <2>1. o.evaluation = ticked /\ o.world = w /\ o.ok = FALSE
      BY <1>2, <1>8 DEF Outcome
  <2>2. \E c \in Transforms : ~(value[c] <= Limit)
      BY <1>1, <1>8 DEF Finite
  <2>3. \E c \in Transforms : value[c] > Limit
    <3>1. value \in [Cell -> Nat]
        BY <1>1, <1>8 DEF InFrame, ResolverType
    <3> QED BY <2>2, <3>1, CellsByKind, WorldAssumption
  <2> QED BY <1>1, <1>5, <1>6, <2>1, <2>3 DEF Deserved, o, value
<1>9. CASE layered.ok /\ Finite(r)
  <2> DEFINE k == Committed(r)
             f == [ticked EXCEPT !.resolver = k]
  <2>1. o = Commit(ticked, w) /\ Agrees(ticked, w)
      BY <1>2, <1>5, <1>6, <1>9
  <2>2. /\ o.evaluation = f
        /\ \/ /\ o.ok /\ WorldOK(o.world) /\ o.world.value = value
              /\ o.world.matrix = Composed(value)
           \/ /\ o.ok = FALSE /\ o.world = w
              /\ w.removed # {} \/ \E x \in Entity : Composed(value)[x] > Limit
    <3>1. InFrame(ticked.resolver) /\ ticked.resolver.candidate = value /\ ticked.resolver = r
        BY <1>1, <1>5, <1>9
    <3>2. LET c == Commit(ticked, w)
              j == ticked.resolver.candidate
          IN  /\ c.evaluation = [ticked EXCEPT !.resolver = Committed(ticked.resolver)]
              /\ \/ c.ok /\ WorldOK(c.world) /\ c.world.value = j /\ c.world.matrix = Composed(j)
                 \/ /\ c.ok = FALSE /\ c.world = w
                    /\ w.removed # {} \/ \E x \in Entity : Composed(j)[x] > Limit
        BY <2>1, <3>1, CommitPresents
    <3> QED BY <2>1, <3>1, <3>2
  <2>3. /\ ResolverOK(k) /\ k.baseline = r.baseline
        /\ k.committed = r.committed \cup r.touched
      BY <1>1, <1>3, CommittedIsOK
  <2> HIDE DEF k
  <2>4. EvaluationOK(f) /\ f.chart = e.chart /\ f.resolver = k
      BY <1>5, <2>3, EvaluationKeepsBase
  <2> HIDE DEF f
  <2>5. Agrees(f, o.world)
    <3>1. \A c \in Transforms : c \in Cell
        BY CellsByKind
    <3>2. CASE o.world = w
        BY <1>1, <2>3, <2>4, <3>2 DEF Agrees
    <3>3. CASE o.world.value = value
        BY <1>1, <1>9, <2>3, <2>4, <3>1, <3>3 DEF Agrees, InFrame
    <3> QED BY <2>2, <3>2, <3>3
  <2> QED BY <1>1, <2>2, <2>3, <2>4, <2>5 DEF Deserved, o, value
<1> QED BY <1>7, <1>8, <1>9

-----------------------------------------------------------------------------
(* What holds of the evaluation and the World between two calls.           *)
SceneOK(e, w) ==
    \/ e = None /\ w = None
    \/ EvaluationOK(e) /\ WorldOK(w) /\ Agrees(e, w)

LEMMA SceneIsThere ==
    /\ \A e : EvaluationOK(e) => e # None
    /\ \A w : WorldOK(w) => w # None
BY SessionAssumption DEF EvaluationOK, WorldOK

LEMMA EvaluationBegins ==
    ASSUME NEW chart \in ChartType
    PROVE  LET e == Evaluation(chart)
               w == New(chart.initial)
           IN  /\ EvaluationOK(e) /\ WorldOK(w) /\ Agrees(e, w) /\ e.tokens = {}
<1> DEFINE r == Capture(chart.initial)
           b == [c \in DOMAIN chart.tracks |-> chart.initial[c]]
           e == Evaluation(chart)
           w == New(chart.initial)
<1>1. /\ chart.initial \in [Cell -> Nat] /\ \A c \in Cell : chart.initial[c] # Bad
      /\ DOMAIN chart.tracks \subseteq Cell
    BY ChartIsTyped
<1>2. /\ r \in ResolverType /\ r.baseline = chart.initial /\ r.candidate = chart.initial
      /\ r.touched = {} /\ r.committed = {} /\ r.seen = {}
    BY <1>1 DEF Capture, ResolverType
<1>3. ResolverOK(r)
  <2> HIDE DEF r
  <2> QED BY <1>1, <1>2 DEF ResolverOK
<1>4. b \in UNION {[DOMAIN a.tracks -> Nat] : a \in Charts}
  <2>1. PICK a \in Charts : chart.tracks = a.tracks
      BY DEF ChartType
  <2>2. b \in [DOMAIN a.tracks -> Nat]
      BY <1>1, <2>1
  <2> HIDE DEF b
  <2> QED BY <2>2
<1>5. e = [chart |-> chart, resolver |-> r, baselines |-> b, tokens |-> {}, nextId |-> 1]
    BY DEF Evaluation
<1>6. b = [c \in DOMAIN chart.tracks |-> r.baseline[c]]
    BY <1>2
<1> HIDE DEF r, b, e
<1>7. e \in EvaluationType
    BY <1>2, <1>4, <1>5 DEF EvaluationType
<1>8. EvaluationOK(e)
    BY <1>3, <1>5, <1>6, <1>7 DEF EvaluationOK
<1>9. w \in WorldType /\ w.value = chart.initial /\ w.cached = FALSE
    BY <1>1 DEF New, WorldType
<1> HIDE DEF w
<1>10. WorldOK(w) /\ Agrees(e, w)
    BY <1>2, <1>5, <1>9 DEF WorldOK, CacheOK, Agrees
<1> QED BY <1>5, <1>8, <1>10 DEF e, w

LEMMA BaseIsOK ==
    ASSUME NEW e, EvaluationOK(e), NEW w, Agrees(e, w),
           NEW cell \in Cell, NEW value \in Nat, value # Bad
    PROVE  LET f == WithBase(e, cell, value)
           IN  EvaluationOK(f) /\ Agrees(f, w)
<1> DEFINE r == e.resolver
           base == [r.baseline EXCEPT ![cell] = value]
           candidate == [c \in Cell |-> IF c = cell THEN value ELSE r.candidate[c]]
           s == ApplyBaseProperty(r, cell, value)
           b == [c \in DOMAIN e.baselines |-> IF c = cell THEN value ELSE e.baselines[c]]
           f == WithBase(e, cell, value)
<1>1. /\ e \in EvaluationType /\ r \in ResolverType /\ e.chart \in ChartType
      /\ r.baseline \in [Cell -> Nat] /\ r.candidate \in [Cell -> Nat]
      /\ r.touched \subseteq Entity /\ r.committed \subseteq Entity
    BY EvaluationIsTyped DEF EvaluationOK, EvaluationFields, ResolverType
<1>2. base \in [Cell -> Nat] /\ candidate \in [Cell -> Nat] /\ cell[1] \in Entity
    BY <1>1, CellsHaveEntities
<1>3. \A c \in Cell : base[c] = IF c = cell THEN value ELSE r.baseline[c]
    BY <1>1
<1>4. s = [r EXCEPT !.baseline = base, !.candidate = candidate,
                    !.touched = r.touched \cup {cell[1]}, !.committed = r.committed \cup {cell[1]}]
    BY <1>1 DEF ApplyBaseProperty, ResolverType
<1>5. f = [e EXCEPT !.resolver = s, !.baselines = b]
    BY <1>1 DEF WithBase, EvaluationType
<1>6. \A c \in Cell : candidate[c] = IF c = cell THEN value ELSE r.candidate[c]
    OBVIOUS
<1>7. e.baselines = [c \in DOMAIN e.chart.tracks |-> r.baseline[c]] /\ DOMAIN e.chart.tracks \subseteq Cell
    BY <1>1, ChartIsTyped DEF EvaluationOK
<1>8. b = [c \in DOMAIN e.chart.tracks |-> base[c]]
  <2>1. \A c \in DOMAIN e.chart.tracks :
            (IF c = cell THEN value ELSE e.baselines[c]) = base[c]
      BY <1>3, <1>7
  <2>2. DOMAIN e.baselines = DOMAIN e.chart.tracks
      BY <1>7
  <2> QED BY <2>1, <2>2
<1>9. b \in UNION {[DOMAIN a.tracks -> Nat] : a \in Charts}
  <2>1. PICK a \in Charts : e.chart.tracks = a.tracks
      BY <1>1 DEF ChartType
  <2>2. b \in [DOMAIN a.tracks -> Nat]
      BY <1>2, <1>7, <1>8, <2>1
  <2> HIDE DEF b
  <2> QED BY <2>2
<1> HIDE DEF base, candidate, s, b, f
<1>10. /\ s \in ResolverType /\ s.baseline = base /\ s.candidate = candidate /\ s.seen = r.seen
       /\ s.touched = r.touched \cup {cell[1]} /\ s.committed = r.committed \cup {cell[1]}
    BY <1>1, <1>2, <1>4 DEF ResolverType
<1>11. ResolverOK(s)
    BY <1>3, <1>6, <1>10 DEF ResolverOK, EvaluationOK
<1>12. /\ f \in EvaluationType /\ f.chart = e.chart /\ f.resolver = s /\ f.baselines = b
       /\ f.tokens = e.tokens /\ f.nextId = e.nextId
    BY <1>1, <1>5, <1>9, <1>10 DEF EvaluationType
<1>13. EvaluationOK(f)
    BY <1>8, <1>10, <1>11, <1>12 DEF EvaluationOK
<1>14. Agrees(f, w)
  <2>1. \A c \in Transforms : c \in Cell
      BY CellsByKind
  <2> QED BY <1>3, <1>10, <1>12, <2>1 DEF Agrees
<1> QED BY <1>13, <1>14 DEF f

(* The tokens and the next id may change where the ids stay their own.     *)
WithTokens(e, tokens, n) == [e EXCEPT !.nextId = n, !.tokens = tokens]

LEMMA TokensAreReplaced ==
    ASSUME NEW e \in EvaluationType, NEW tokens \in SUBSET TokenType, NEW n \in Nat
    PROVE  LET f == WithTokens(e, tokens, n)
           IN  /\ f \in EvaluationType /\ f.resolver = e.resolver /\ f.chart = e.chart
               /\ f.baselines = e.baselines /\ f.tokens = tokens /\ f.nextId = n
BY DEF EvaluationType, WithTokens

LEMMA TokensChange ==
    ASSUME NEW e, EvaluationOK(e), NEW w, Agrees(e, w), NEW tokens \in SUBSET TokenType,
           NEW n \in Nat, \A t, u \in tokens : t.id = u.id => t = u,
           \A t \in tokens : t.id \in 1 .. (n - 1)
    PROVE  EvaluationOK(WithTokens(e, tokens, n)) /\ Agrees(WithTokens(e, tokens, n), w)
<1> DEFINE f == WithTokens(e, tokens, n)
<1>1. /\ f \in EvaluationType /\ f.resolver = e.resolver /\ f.chart = e.chart
      /\ f.baselines = e.baselines /\ f.tokens = tokens /\ f.nextId = n
    BY TokensAreReplaced DEF EvaluationOK
<1> HIDE DEF f
<1>2. EvaluationOK(f) /\ Agrees(f, w)
    BY <1>1 DEF EvaluationOK, Agrees
<1> QED BY <1>2 DEF f

-----------------------------------------------------------------------------
(* The inductive invariant: between calls the evaluation and the World     *)
(* agree, and what the last call presented or refused was its inputs'.     *)
SessionInv ==
    /\ result \in {"ok", "failed"}
    /\ lastFrame # None => lastFrame.time \in Times
    /\ SceneOK(evaluation, world)
    /\ PresentedIsResolved
    /\ FailsForItsOwnInputs

LEMMA PresentsStep ==
    ASSUME NEW e, EvaluationOK(e), WorldOK(world), Agrees(e, world), NEW time \in Times,
           Presents(e, time)
    PROVE  /\ result' \in {"ok", "failed"} /\ SceneOK(evaluation', world')
           /\ PresentedIsResolved' /\ FailsForItsOwnInputs'
           /\ result' = "failed" => world' = world
<1> DEFINE o == UpdatePrepared(e, world, time)
           value == Reference(e, e.tokens, time)
<1>1. /\ evaluation' = o.evaluation /\ world' = o.world
      /\ result' = IF o.ok THEN "ok" ELSE "failed"
      /\ asked' = [time |-> time, tokens |-> e.tokens]
    BY DEF Presents
<1>2. /\ EvaluationOK(o.evaluation) /\ o.evaluation.chart = e.chart
      /\ o.evaluation.resolver.baseline = e.resolver.baseline
      /\ WorldOK(o.world) /\ Agrees(o.evaluation, o.world)
      /\ \/ o.ok /\ o.world.value = value /\ o.world.matrix = Composed(value)
         \/ o.ok = FALSE /\ o.world = world /\ Deserved(value, world)
    BY FramePresents
<1> HIDE DEF o, value
<1>3. Reference(evaluation', asked'.tokens, asked'.time) = value
    BY <1>1, <1>2, ReferenceDependsOnInputs DEF value
<1>4. PresentedIsResolved'
    BY <1>1, <1>2, <1>3 DEF PresentedIsResolved
<1>5. FailsForItsOwnInputs'
    BY <1>1, <1>2, <1>3 DEF FailsForItsOwnInputs, Deserved
<1> QED BY <1>1, <1>2, <1>4, <1>5 DEF SceneOK

LEMMA AnswerStep ==
    ASSUME NEW answer \in {"ok", "failed"}, Answer(answer)
    PROVE  result' \in {"ok", "failed"} /\ PresentedIsResolved' /\ FailsForItsOwnInputs'
BY DEF Answer, PresentedIsResolved, FailsForItsOwnInputs

(* No step breaks the invariant, and none that fails changes the World.    *)
LEMMA SessionStep ==
    ASSUME SessionInv, Next
    PROVE  SessionInv' /\ (result' = "failed" => world' = world)
<1>0. SceneOK(evaluation, world)
    BY DEF SessionInv
<1>1. ASSUME NEW chart \in Charts, Load(chart)
      PROVE  SessionInv' /\ (result' = "failed" => world' = world)
  <2>1. chart \in ChartType
      BY SessionAssumption
  <2>2. CASE /\ evaluation' = Evaluation(chart) /\ world' = New(chart.initial) /\ Answer("ok")
             /\ UNCHANGED <<lastFrame, reloads>>
    <3>1. SceneOK(evaluation', world')
        BY <2>1, <2>2, EvaluationBegins DEF SceneOK
    <3>2. result' = "ok" /\ PresentedIsResolved' /\ FailsForItsOwnInputs'
        BY <2>2, AnswerStep DEF Answer
    <3> QED BY <2>2, <3>1, <3>2 DEF SessionInv
  <2>3. CASE UNCHANGED <<evaluation, world>> /\ Answer("failed") /\ UNCHANGED <<lastFrame, reloads>>
      BY <1>0, <2>3, AnswerStep DEF SessionInv
  <2> QED BY <1>1, <2>2, <2>3 DEF Load
<1>2. ASSUME NEW frame \in Frames, Update(frame)
      PROVE  SessionInv' /\ (result' = "failed" => world' = world)
  <2>1. frame.time \in Times
      BY DEF Times
  <2>2. CASE world # None /\ Valid(frame)
    <3>1. EvaluationOK(evaluation) /\ WorldOK(world) /\ Agrees(evaluation, world)
        BY <1>0, <2>2 DEF SceneOK
    <3>2. Presents(evaluation, frame.time) /\ lastFrame' = IF result' = "ok" THEN frame ELSE lastFrame
        BY <1>2, <2>2 DEF Update
    <3>3. /\ result' \in {"ok", "failed"} /\ SceneOK(evaluation', world')
          /\ PresentedIsResolved' /\ FailsForItsOwnInputs'
          /\ result' = "failed" => world' = world
        BY <2>1, <3>1, <3>2, PresentsStep
    <3> QED BY <2>1, <3>2, <3>3 DEF SessionInv
  <2>3. CASE ~(world # None /\ Valid(frame))
    <3>1. UNCHANGED <<evaluation, world, lastFrame>> /\ Answer("failed")
        BY <1>2, <2>3 DEF Update
    <3> QED BY <1>0, <3>1, AnswerStep DEF SessionInv
  <2> QED BY <2>2, <2>3
<1>3. ASSUME NEW o \in Overrides, AcquireOverride(o)
      PROVE  SessionInv' /\ (result' = "failed" => world' = world)
  <2> DEFINE e == evaluation
             t == [id |-> e.nextId, kind |-> o.kind, priority |-> o.priority,
                   life |-> o.life, writes |-> o.writes]
  <2>1. EvaluationOK(e) /\ WorldOK(world) /\ Agrees(e, world)
      BY <1>0, <1>3 DEF SceneOK, AcquireOverride
  <2>2. /\ e \in EvaluationType /\ e.nextId \in Nat /\ e.tokens \subseteq TokenType
        /\ \A u, v \in e.tokens : u.id = v.id => u = v
        /\ \A u \in e.tokens : u.id \in 1 .. (e.nextId - 1)
      BY <2>1, EvaluationIsTyped DEF EvaluationOK, EvaluationFields
  <2>3. t \in TokenType /\ t.id = e.nextId
      BY <2>2, SessionAssumption DEF TokenType
  <2>4. /\ e.nextId >= 1
        /\ [e EXCEPT !.nextId = e.nextId + 1] = WithTokens(e, e.tokens, e.nextId + 1)
    <3>1. e.nextId >= 1
        BY <1>3 DEF AcquireOverride, Token
    <3> DEFINE f == [e EXCEPT !.nextId = e.nextId + 1]
               g == WithTokens(e, e.tokens, e.nextId + 1)
    <3>2. /\ f \in EvaluationType /\ f.resolver = e.resolver /\ f.chart = e.chart
          /\ f.baselines = e.baselines /\ f.tokens = e.tokens /\ f.nextId = e.nextId + 1
        BY <2>2 DEF EvaluationType
    <3>3. /\ g \in EvaluationType /\ g.resolver = e.resolver /\ g.chart = e.chart
          /\ g.baselines = e.baselines /\ g.tokens = e.tokens /\ g.nextId = e.nextId + 1
        BY <2>2, TokensAreReplaced
    <3> HIDE DEF f, g
    <3>4. f = g
        BY <3>2, <3>3 DEF EvaluationType
    <3> QED BY <3>1, <3>4 DEF f, g
  <2> HIDE DEF t
  <2>5. e.tokens \cup {t} \in SUBSET TokenType /\ \A u \in e.tokens \cup {t} : u.id \in 1 .. e.nextId
      BY <2>2, <2>3, <2>4
  <2>6. \A u, v \in e.tokens \cup {t} : u.id = v.id => u = v
      BY <2>2, <2>3
  <2>7. ASSUME NEW tokens \in {e.tokens, e.tokens \cup {t}}
        PROVE  LET f == WithTokens(e, tokens, e.nextId + 1)
               IN  EvaluationOK(f) /\ Agrees(f, world)
    <3>1. /\ tokens \in SUBSET TokenType /\ \A u, v \in tokens : u.id = v.id => u = v
          /\ \A u \in tokens : u.id \in 1 .. ((e.nextId + 1) - 1)
        BY <2>2, <2>5, <2>6
    <3> QED BY <2>1, <2>2, <3>1, TokensChange
  <2>8. /\ \/ evaluation' = WithTokens(e, e.tokens \cup {t}, e.nextId + 1)
           \/ evaluation' = WithTokens(e, e.tokens, e.nextId + 1)
        /\ \E a \in {"ok", "failed"} : Answer(a)
        /\ world' = world /\ lastFrame' = lastFrame
    <3>1. [e EXCEPT !.nextId = e.nextId + 1, !.tokens = e.tokens \cup {t}]
              = WithTokens(e, e.tokens \cup {t}, e.nextId + 1)
        BY DEF WithTokens
    <3>2. \/ evaluation' = [e EXCEPT !.nextId = e.nextId + 1, !.tokens = e.tokens \cup {t}]
                /\ Answer("ok")
          \/ evaluation' = [e EXCEPT !.nextId = e.nextId + 1] /\ Answer("failed")
        BY <1>3 DEF AcquireOverride, t
    <3> QED BY <1>3, <2>4, <3>1, <3>2 DEF AcquireOverride
  <2>9. SceneOK(evaluation', world')
      BY <2>1, <2>7, <2>8 DEF SceneOK
  <2> QED BY <2>8, <2>9, AnswerStep DEF SessionInv
<1>4. ASSUME NEW id \in Token, ReleaseOverride(id)
      PROVE  SessionInv' /\ (result' = "failed" => world' = world)
  <2> DEFINE e == evaluation
             left == e.tokens \ {t \in e.tokens : t.id = id}
  <2>1. EvaluationOK(e) /\ WorldOK(world) /\ Agrees(e, world)
      BY <1>0, <1>4 DEF SceneOK, ReleaseOverride
  <2>2. /\ e \in EvaluationType /\ e.nextId \in Nat /\ left \in SUBSET TokenType
        /\ \A u, v \in left : u.id = v.id => u = v
        /\ \A u \in left : u.id \in 1 .. (e.nextId - 1)
      BY <2>1, EvaluationIsTyped DEF EvaluationOK, EvaluationFields
  <2>3. /\ evaluation' = [e EXCEPT !.tokens = left]
        /\ \E a \in {"ok", "failed"} : Answer(a)
        /\ world' = world /\ lastFrame' = lastFrame
      BY <1>4 DEF ReleaseOverride
  <2> HIDE DEF left
  <2>4. evaluation' = WithTokens(e, left, e.nextId)
    <3> DEFINE f == [e EXCEPT !.tokens = left]
               g == WithTokens(e, left, e.nextId)
    <3>1. /\ f \in EvaluationType /\ f.resolver = e.resolver /\ f.chart = e.chart
          /\ f.baselines = e.baselines /\ f.tokens = left /\ f.nextId = e.nextId
        BY <2>2 DEF EvaluationType
    <3>2. /\ g \in EvaluationType /\ g.resolver = e.resolver /\ g.chart = e.chart
          /\ g.baselines = e.baselines /\ g.tokens = left /\ g.nextId = e.nextId
        BY <2>2, TokensAreReplaced
    <3>3. evaluation' = f
        BY <2>3
    <3> HIDE DEF f, g
    <3>4. f = g
        BY <3>1, <3>2 DEF EvaluationType
    <3> QED BY <3>3, <3>4 DEF g
  <2>5. SceneOK(evaluation', world')
      BY <2>1, <2>2, <2>3, <2>4, TokensChange DEF SceneOK
  <2> QED BY <2>3, <2>5, AnswerStep DEF SessionInv
<1>5. ASSUME NEW cell \in Cell, NEW value \in Nat, ApplyBase(cell, value)
      PROVE  SessionInv' /\ (result' = "failed" => world' = world)
  <2>1. EvaluationOK(evaluation) /\ WorldOK(world) /\ Agrees(evaluation, world)
      BY <1>0, <1>5 DEF SceneOK, ApplyBase
  <2> DEFINE based == WithBase(evaluation, cell, value)
  <2>2. CASE value = Bad
    <3>1. UNCHANGED <<evaluation, world, lastFrame>> /\ Answer("failed")
        BY <1>5, <2>2 DEF ApplyBase
    <3> QED BY <1>0, <3>1, AnswerStep DEF SessionInv
  <2>3. CASE value # Bad /\ lastFrame = None
    <3>1. evaluation' = based /\ UNCHANGED <<world, lastFrame>> /\ Answer("ok")
        BY <1>5, <2>3 DEF ApplyBase
    <3>2. SceneOK(evaluation', world')
        BY <2>1, <2>3, <3>1, BaseIsOK DEF SceneOK
    <3> QED BY <3>1, <3>2, AnswerStep DEF SessionInv
  <2>4. CASE value # Bad /\ lastFrame # None
    <3>1. Presents(based, lastFrame.time) /\ lastFrame' = lastFrame
        BY <1>5, <2>4 DEF ApplyBase
    <3>2. EvaluationOK(based) /\ Agrees(based, world)
        BY <2>1, <2>4, BaseIsOK
    <3>3. lastFrame.time \in Times
        BY <2>4 DEF SessionInv
    <3> HIDE DEF based
    <3>4. /\ result' \in {"ok", "failed"} /\ SceneOK(evaluation', world')
          /\ PresentedIsResolved' /\ FailsForItsOwnInputs'
          /\ result' = "failed" => world' = world
        BY <2>1, <3>1, <3>2, <3>3, PresentsStep
    <3> QED BY <3>1, <3>3, <3>4 DEF SessionInv
  <2> QED BY <2>2, <2>3, <2>4
<1>6. ASSUME NEW cell \in Cell, RemoveComponent(cell)
      PROVE  SessionInv' /\ (result' = "failed" => world' = world)
  <2>1. EvaluationOK(evaluation) /\ WorldOK(world) /\ Agrees(evaluation, world)
      BY <1>0, <1>6 DEF SceneOK, RemoveComponent
  <2>2. /\ world' = [world EXCEPT !.removed = world.removed \cup {cell}]
        /\ UNCHANGED <<evaluation, lastFrame>> /\ Answer("ok")
      BY <1>6 DEF RemoveComponent
  <2>3. world \in WorldType
      BY <2>1 DEF WorldOK
  <2>4. /\ world' \in WorldType /\ world'.value = world.value /\ world'.cached = world.cached
        /\ world'.local = world.local /\ world'.matrix = world.matrix
      BY <2>2, <2>3 DEF WorldType
  <2>5. SceneOK(evaluation', world')
      BY <2>1, <2>2, <2>4 DEF SceneOK, WorldOK, CacheOK, Agrees
  <2>6. result' = "ok" /\ PresentedIsResolved' /\ FailsForItsOwnInputs'
      BY <2>2, AnswerStep DEF Answer
  <2> QED BY <2>2, <2>5, <2>6 DEF SessionInv
<1>7. ASSUME NEW chart \in Charts, NEW frame \in Frames, NEW restart \in BOOLEAN,
             Reload(chart, frame, restart)
      PROVE  SessionInv' /\ (result' = "failed" => world' = world)
  <2> DEFINE target == [frame EXCEPT !.delta = 0, !.time = IF restart THEN 0 ELSE @]
             kept == [chart EXCEPT !.clips = evaluation.chart.clips]
             fresh == Evaluation(kept)
             w == New(chart.initial)
             o == UpdatePrepared(fresh, w, target.time)
             value == Reference(fresh, fresh.tokens, target.time)
  <2>1. EvaluationOK(evaluation) /\ WorldOK(world) /\ Agrees(evaluation, world)
      BY <1>0, <1>7 DEF SceneOK, Reload
  <2>2. kept \in ChartType /\ kept.initial = chart.initial
    <3>1. chart \in ChartType /\ evaluation.chart \in ChartType
        BY <2>1, EvaluationIsTyped, SessionAssumption DEF EvaluationOK, EvaluationFields
    <3> QED BY <3>1 DEF ChartType
  <2>3. target.time \in Times
    <3>1. frame \in [time: {frame.time}, delta: Nat, id: {frame.id}]
        BY SessionAssumption
    <3>2. target.time = IF restart THEN 0 ELSE frame.time
        BY <3>1
    <3> QED BY <3>2 DEF Times
  <2>4. /\ \/ /\ o.ok /\ evaluation' = o.evaluation /\ world' = o.world
              /\ lastFrame' = target /\ result' = "ok"
              /\ asked' = [time |-> target.time, tokens |-> {}]
           \/ UNCHANGED <<evaluation, world, lastFrame>> /\ Answer("failed")
      BY <1>7 DEF Reload
  <2> HIDE DEF target
  <2>5. EvaluationOK(fresh) /\ WorldOK(w) /\ Agrees(fresh, w) /\ fresh.tokens = {}
      BY <2>2, EvaluationBegins
  <2> HIDE DEF kept, fresh, w
  <2>6. /\ EvaluationOK(o.evaluation) /\ o.evaluation.chart = fresh.chart
        /\ o.evaluation.resolver.baseline = fresh.resolver.baseline
        /\ WorldOK(o.world) /\ Agrees(o.evaluation, o.world)
        /\ o.ok => o.world.value = value /\ o.world.matrix = Composed(value)
    <3> DEFINE time == target.time
    <3>1. time \in Times
        BY <2>3
    <3> HIDE DEF time
    <3>2. LET p == UpdatePrepared(fresh, w, time)
              v == Reference(fresh, fresh.tokens, time)
          IN  /\ EvaluationOK(p.evaluation) /\ p.evaluation.chart = fresh.chart
              /\ p.evaluation.resolver.baseline = fresh.resolver.baseline
              /\ WorldOK(p.world) /\ Agrees(p.evaluation, p.world)
              /\ \/ p.ok /\ p.world.value = v /\ p.world.matrix = Composed(v)
                 \/ p.ok = FALSE /\ p.world = w /\ Deserved(v, w)
        BY <2>5, <3>1, FramePresents
    <3> QED BY <3>2 DEF time
  <2> HIDE DEF o, value
  <2>7. CASE /\ o.ok /\ evaluation' = o.evaluation /\ world' = o.world
             /\ lastFrame' = target /\ result' = "ok"
             /\ asked' = [time |-> target.time, tokens |-> {}]
    <3>1. Reference(evaluation', asked'.tokens, asked'.time) = value
        BY <2>5, <2>6, <2>7, ReferenceDependsOnInputs DEF value
    <3>2. PresentedIsResolved' /\ FailsForItsOwnInputs'
        BY <2>6, <2>7, <3>1 DEF PresentedIsResolved, FailsForItsOwnInputs
    <3> QED BY <2>3, <2>6, <2>7, <3>2 DEF SessionInv, SceneOK
  <2>8. CASE UNCHANGED <<evaluation, world, lastFrame>> /\ Answer("failed")
      BY <1>0, <2>8, AnswerStep DEF SessionInv
  <2> QED BY <2>4, <2>7, <2>8
<1>8. ASSUME Unload
      PROVE  SessionInv' /\ (result' = "failed" => world' = world)
  <2>1. evaluation' = None /\ world' = None /\ lastFrame' = None /\ Answer("ok")
      BY <1>8 DEF Unload
  <2> QED BY <2>1, AnswerStep DEF SessionInv, SceneOK, Answer
<1>9. \A write \in BaseWrites : write[1] \in Cell /\ write[2] \in Nat
    BY SessionAssumption
<1> QED BY <1>1, <1>2, <1>3, <1>4, <1>5, <1>6, <1>7, <1>8, <1>9 DEF Next

LEMMA SessionInvariant == Spec => [](SessionInv)
<1>1. Init => SessionInv
    BY DEF Init, SessionInv, SceneOK, PresentedIsResolved, FailsForItsOwnInputs
<1>2. SessionInv /\ [Next]_vars => SessionInv'
  <2>1. CASE Next
      BY <2>1, SessionStep
  <2>2. CASE UNCHANGED vars
      BY <2>2 DEF vars, SessionInv, PresentedIsResolved, FailsForItsOwnInputs
  <2> QED BY <2>1, <2>2
<1> QED BY <1>1, <1>2, PTL DEF Spec

(* The session's fields are what the code's types allow, an evaluation and *)
(* a World are there together, and no two tokens ever share an id, of      *)
(* runtime_session.cpp's acquireOverride.                                  *)
THEOREM TypeCorrect == Spec => []TypeOK
<1>1. SessionInv => TypeOK
  <2> SUFFICES ASSUME SessionInv PROVE TypeOK
      OBVIOUS
  <2>1. CASE evaluation = None /\ world = None
      BY <2>1 DEF SessionInv, TypeOK
  <2>2. CASE EvaluationOK(evaluation) /\ WorldOK(world)
    <3>1. EvaluationFields(evaluation) /\ world \in WorldType
        BY <2>2, EvaluationIsTyped DEF EvaluationOK, WorldOK
    <3>2. evaluation # None /\ world # None
        BY <2>2, SceneIsThere
    <3> QED BY <2>2, <3>1, <3>2
            DEF SessionInv, TypeOK, EvaluationFields, EvaluationOK, ResolverType, WorldType
  <2> QED BY <2>1, <2>2 DEF SessionInv, SceneOK
<1> QED BY <1>1, SessionInvariant, PTL

(* What a presented World shows, and every matrix derived from it, is      *)
(* resolved from the chart, the base values, the active tokens and the     *)
(* time alone: no earlier frame, ended override, rolled-back commit or     *)
(* replaced World leaves anything in it.                                   *)
THEOREM PresentedFromInputs == Spec => []PresentedIsResolved
<1>1. SessionInv => PresentedIsResolved
    BY DEF SessionInv
<1> QED BY <1>1, SessionInvariant, PTL

(* A frame fails only for a refused value, a matrix that is not finite or  *)
(* a component that is gone: no failure of before makes updatePrepared     *)
(* refuse a frame it would have presented.                                 *)
THEOREM FailuresAreDeserved == Spec => []FailsForItsOwnInputs
<1>1. SessionInv => FailsForItsOwnInputs
    BY DEF SessionInv
<1> QED BY <1>1, SessionInvariant, PTL

(* A call that fails, in any of the commit's stages, leaves the World as   *)
(* it was: what the stages before it wrote is all taken back.              *)
THEOREM FailuresLeaveNoTrace == Spec => FailureKeepsWorld
<1>1. SessionInv /\ [Next]_vars => [result' = "failed" => world' = world]_vars
    BY SessionStep
<1> QED BY <1>1, SessionInvariant, PTL DEF Spec, FailureKeepsWorld
=============================================================================
