----------------------------- MODULE ProjectFiles -----------------------------
(***************************************************************************)
(* What a project directory must hold: ProjectConfigReader, prepareProject *)
(* AssetIndexReader and AssetDatabase::build, as operators on documents.   *)
(*                                                                         *)
(* A path is a sequence of names, an id a number (0 stands for one with    *)
(* illegal characters), and a document a record with its kind.  Every      *)
(* diagnostic of these functions refuses the document, so that a function  *)
(* is the conjunction of what it checks.                                   *)
(***************************************************************************)
EXTENDS Integers, SequencesExt

CONSTANTS
    NotPortable,        \* names like "..", "nul" or one with a backslash
    LowerCase,          \* the names with capitals, and what they fold to
    MaxDependencyDepth, \* the limits of the readers
    MaxRoots, MaxAssets, MaxDependencies

Lower(name) == IF name \in DOMAIN LowerCase THEN LowerCase[name] ELSE name
Folded(path) == [k \in DOMAIN path |-> Lower(path[k])]

IsPortablePath(path) == path # <<>> /\ ToSet(path) \cap NotPortable = {}

Distinct(s) == \A i, j \in DOMAIN s : s[i] = s[j] => i = j

Overlap(path, other) == IsPrefix(path, other) \/ IsPrefix(other, path)

-------------------------------------------------------------------------------
ConfigIsValid(config) ==
    /\ config.kind = "project"
    /\ Len(config.roots) \in 1..MaxRoots
    /\ \A i \in DOMAIN config.roots :
          config.roots[i].id # 0 /\ IsPortablePath(config.roots[i].path)
    /\ Distinct([i \in DOMAIN config.roots |-> config.roots[i].id])
    /\ config.entry.root \in {config.roots[i].id : i \in DOMAIN config.roots}
    /\ IsPortablePath(config.entry.path)

(* A directory is its files, at canonical paths, and its links, which give *)
(* the canonical path of another.  One outside begins with "..".           *)
Canonical(dir, path) == IF path \in DOMAIN dir.links THEN dir.links[path] ELSE path
IsOutside(path) == path # <<>> /\ path[1] = ".."
IsFile(dir, path) == path \in DOMAIN dir.files
IsDirectory(dir, path) == \E file \in DOMAIN dir.files : IsStrictPrefix(path, file)

RootPath(dir, config, i) == Canonical(dir, config.roots[i].path)

IndexName == "index"
IndexPath(root) == Append(root, IndexName)

(* Strictly inside: a link to the project directory itself is refused.     *)
ProjectIsPrepared(dir, config) ==
    /\ \A i \in DOMAIN config.roots :
          /\ IsDirectory(dir, RootPath(dir, config, i))
          /\ RootPath(dir, config, i) # <<>>
          /\ ~IsOutside(RootPath(dir, config, i))
    /\ \A i, j \in DOMAIN config.roots :
          i # j => ~Overlap(RootPath(dir, config, i), RootPath(dir, config, j))
    /\ \A i \in DOMAIN config.roots : config.roots[i].id = config.entry.root =>
          LET chart == Canonical(dir, RootPath(dir, config, i) \o config.entry.path)
          IN  IsFile(dir, chart) /\ IsStrictPrefix(RootPath(dir, config, i), chart)

-------------------------------------------------------------------------------
TypesIn(version) ==
    {"mesh", "material", "texture"}
       \cup (IF version \in {2, 3} THEN {"audio"} ELSE {})
       \cup (IF version = 3 THEN {"shader"} ELSE {})

(* Music and shaders depend on nothing, nothing but music may name music,  *)
(* and nothing but a material a shader.                                    *)
Allowed(asset, dependency) ==
    /\ asset.type # "audio" => dependency.type # "audio"
    /\ asset.type # "material" => dependency.type # "shader"

IsLeaf(asset) == asset.type \in {"audio", "shader"}

(* "assets" is a set of records.                                           *)
LeavesAreKept(assets) ==
    \A asset \in assets :
       /\ IsLeaf(asset) => asset.dependencies = {}
       /\ \A other \in assets : other.id \in asset.dependencies => Allowed(asset, other)

IndexIsValid(index) ==
    /\ index.kind = "index"
    /\ index.version \in 1..3
    /\ Len(index.assets) <= MaxAssets
    /\ Distinct([i \in DOMAIN index.assets |-> index.assets[i].id])
    /\ \A asset \in ToSet(index.assets) :
          /\ asset.id # 0 /\ 0 \notin asset.dependencies
          /\ asset.type \in TypesIn(index.version)
          /\ IsPortablePath(asset.source)
          /\ Cardinality(asset.dependencies) <= MaxDependencies
    /\ index.version \in {2, 3} => LeavesAreKept(ToSet(index.assets))

-------------------------------------------------------------------------------
(* AssetDatabase::build.  Records are visited in the order of the indexes, *)
(* the dependencies of one in the order of their ids.  An asset that was   *)
(* left is not entered again, however deep the place it is named at.       *)
InIdOrder(ids) == SetToSortSeq(ids, <)
ById(records, id) == CHOOSE asset \in ToSet(records) : asset.id = id
Ids(records) == {asset.id : asset \in ToSet(records)}

(* What a visit of the last asset of a stack makes of the state before it.  *)
DatabaseVisit(records) ==
    LET VisitState == [left : SUBSET Ids(records), cyclic : BOOLEAN, deep : BOOLEAN]
        visit[stack \in Seq(Ids(records)), state \in VisitState] ==
           LET enter(v, id) ==
                  IF id \notin Ids(records) THEN v
                  ELSE IF id \in ToSet(stack) THEN [v EXCEPT !.cyclic = TRUE]
                  ELSE IF id \in v.left THEN v
                  ELSE visit[Append(stack, id), v]
               entered ==
                  IF Len(stack) > MaxDependencyDepth THEN [state EXCEPT !.deep = TRUE]
                  ELSE FoldLeft(enter, state, InIdOrder(ById(records, Last(stack)).dependencies))
           IN  [entered EXCEPT !.left = @ \cup {Last(stack)}]
    IN  visit

NotVisited == [left |-> {}, cyclic |-> FALSE, deep |-> FALSE]

DatabaseVisits(records) ==
    LET begin(v, asset) ==
           IF asset.id \in v.left THEN v ELSE DatabaseVisit(records)[<<asset.id>>, v]
    IN  FoldLeft(begin, NotVisited, records)

GraphIsAccepted(records) ==
    /\ LeavesAreKept(ToSet(records))
    /\ \A asset \in ToSet(records) : asset.dependencies \subseteq Ids(records)
    /\ ~DatabaseVisits(records).cyclic
    /\ ~DatabaseVisits(records).deep

(* "roots" has the canonical path and the index of each declared root.     *)
DatabaseIsBuilt(dir, roots) ==
    LET records == FlattenSeq([i \in DOMAIN roots |-> roots[i].index.assets])
        source(i, k) == Canonical(dir, roots[i].path \o roots[i].index.assets[k].source)
        places == UNION {{<<i, k>> : k \in DOMAIN roots[i].index.assets} : i \in DOMAIN roots}
    IN  /\ Len(roots) \in 1..MaxRoots
        /\ \A i \in DOMAIN roots : IndexIsValid(roots[i].index)
        /\ Len(records) <= MaxAssets
        /\ Distinct([k \in DOMAIN records |-> records[k].id])
        /\ \A place \in places :
              LET i == place[1]  k == place[2]
              IN  /\ roots[i].index.assets[k].source # <<IndexName>>
                  /\ IsFile(dir, source(i, k))
                  /\ IsPrefix(roots[i].path, source(i, k))
        /\ \A one, two \in places :
              source(one[1], one[2]) = source(two[1], two[2]) => one = two
        /\ GraphIsAccepted(records)

-------------------------------------------------------------------------------
(* What acceptance should mean, without an order: a dependency is there,   *)
(* is allowed, and no chain of them is longer than the limit.  A cycle is  *)
(* a chain of any length.                                                  *)
HasChain(records, length) ==
    \E chain \in [1..length -> Ids(records)] :
       \A k \in 1..(length - 1) : chain[k + 1] \in ById(records, chain[k]).dependencies

GraphIsSound(records) ==
    /\ LeavesAreKept(ToSet(records))
    /\ \A asset \in ToSet(records) : asset.dependencies \subseteq Ids(records)
    /\ ~HasChain(records, MaxDependencyDepth + 1)
===============================================================================
