----------------------------- MODULE StoresProof -----------------------------
(***************************************************************************)
(* Proofs about Files and the three stores that are built on it, for any   *)
(* processes and paths: Preferences, MediaImporter and ShaderCache; and,   *)
(* at the end, about the tools that share a project directory, CxcTools.   *)
(***************************************************************************)
EXTENDS Preferences, MediaImporter, ShaderCache, CxcTools, FiniteSetTheorems, TLAPS

-----------------------------------------------------------------------------
(* The file system: no two paths lead to one inode.                        *)
FilesOK ==
    /\ inodeAt \in [Path -> Inode \cup {0}]
    /\ open \in [Process -> Inode \cup {0}]
    /\ offset \in [Process -> Nat]
    /\ DOMAIN data = Inode
    /\ \A f, g \in Path : Exists(f) /\ inodeAt[f] = inodeAt[g] => f = g

LEMMA InodeFacts ==
    /\ Inode \subseteq Nat /\ 0 \notin Inode /\ IsFiniteSet(Inode)
    /\ Cardinality(Inode) = Cardinality(Path) + Cardinality(Process)
    /\ Cardinality(Path) \in Nat /\ Cardinality(Process) \in Nat
<1>1. Cardinality(Path) \in Nat /\ Cardinality(Process) \in Nat
    BY FilesAssumption, FS_CardinalityType
<1> DEFINE n == Cardinality(Path) + Cardinality(Process)
<1>2. n \in Nat
    BY <1>1
<1>3. IsFiniteSet(1 .. n) /\ Cardinality(1 .. n) = n
    BY <1>2, FS_Interval
<1> QED BY <1>1, <1>2, <1>3 DEF Inode

(* The values of a function of a finite set are no more than its elements. *)
LEMMA FewValues ==
    ASSUME NEW S, IsFiniteSet(S), NEW T, NEW f \in [S -> T]
    PROVE  IsFiniteSet(Range(f)) /\ Cardinality(Range(f)) <= Cardinality(S)
<1>1. f \in Surjection(S, Range(f))
    BY DEF Surjection, Range
<1> QED BY <1>1, FS_Surjection

(* While some path leads nowhere, an inode is free.                        *)
LEMMA FreeInodeIsFree ==
    ASSUME FilesOK, NEW path \in Path, ~Exists(path)
    PROVE  /\ FreeInode \in Inode
           /\ \A f \in Path : inodeAt[f] # FreeInode
           /\ \A p \in Process : open[p] # FreeInode
<1> DEFINE used == Range(inodeAt) \cup Range(open)
<1>1. DOMAIN inodeAt = Path /\ DOMAIN open = Process
    BY DEF FilesOK
<1>2. /\ IsFiniteSet(Range(inodeAt)) /\ Cardinality(Range(inodeAt)) <= Cardinality(Path)
      /\ IsFiniteSet(Range(open)) /\ Cardinality(Range(open)) <= Cardinality(Process)
    BY FilesAssumption, FewValues DEF FilesOK
<1>3. IsFiniteSet(used) /\ Cardinality(used) <= Cardinality(Path) + Cardinality(Process)
  <2>1. IsFiniteSet(Range(inodeAt) \cap Range(open))
      BY <1>2, FS_Subset
  <2>2. /\ Cardinality(Range(inodeAt)) \in Nat /\ Cardinality(Range(open)) \in Nat
        /\ Cardinality(Range(inodeAt) \cap Range(open)) \in Nat
      BY <1>2, <2>1, FS_CardinalityType
  <2>3. IsFiniteSet(used) /\ Cardinality(used) =
            Cardinality(Range(inodeAt)) + Cardinality(Range(open))
              - Cardinality(Range(inodeAt) \cap Range(open))
      BY <1>2, FS_Union
  <2> QED BY <1>2, <2>2, <2>3, InodeFacts
<1>4. ~(Inode \subseteq used)
  <2> SUFFICES ASSUME Inode \subseteq used PROVE FALSE
      OBVIOUS
  <2>1. 0 \in used
      BY <1>1 DEF Range, Exists
  <2>2. Inode \cup {0} \subseteq used
      BY <2>1
  <2>3. Cardinality(Inode \cup {0}) = Cardinality(Inode) + 1
      BY InodeFacts, FS_AddElement
  <2>4. Cardinality(Inode \cup {0}) <= Cardinality(used)
      BY <1>3, <2>2, FS_Subset
  <2>5. Cardinality(used) \in Nat
      BY <1>3, FS_CardinalityType
  <2> HIDE DEF used
  <2> QED BY <1>3, <2>3, <2>4, <2>5, InodeFacts
<1>5. PICK i \in Inode : i \notin used
    BY <1>4
<1>6. /\ \A f \in Path : inodeAt[f] # i
      /\ \A p \in Process : open[p] # i
    BY <1>1, <1>5 DEF Range
<1> QED BY <1>6 DEF FreeInode

(* std::ofstream{path, trunc}: the inode of the path, or one of its own.   *)
LEMMA OpenTruncatedGives ==
    ASSUME FilesOK, NEW p \in Process, NEW path \in Path, OpenTruncated(p, path)
    PROVE  /\ FilesOK'
           /\ Exists(path)' /\ open'[p] = inodeAt'[path]
           /\ offset'[p] = 0 /\ Bytes(path)' = <<>>
           /\ Exists(path) => inodeAt'[path] = inodeAt[path]
           /\ ~Exists(path) => /\ \A q \in Process : open[q] # inodeAt'[path]
                               /\ \A f \in Path : inodeAt[f] # inodeAt'[path]
           /\ \A f \in Path \ {path} : inodeAt'[f] = inodeAt[f] /\ Bytes(f)' = Bytes(f)
           /\ \A q \in Process \ {p} : open'[q] = open[q] /\ offset'[q] = offset[q]
           /\ \A j \in Inode : data'[j] = IF j = inodeAt'[path] THEN <<>> ELSE data[j]
<1> DEFINE i == IF Exists(path) THEN inodeAt[path] ELSE FreeInode
<1>1. /\ i \in Inode
      /\ \A f \in Path \ {path} : inodeAt[f] # i
      /\ ~Exists(path) => /\ \A q \in Process : open[q] # i
                          /\ \A f \in Path : inodeAt[f] # i
  <2>1. CASE Exists(path)
      BY <2>1 DEF FilesOK, Exists
  <2>2. CASE ~Exists(path)
      BY <2>2, FreeInodeIsFree
  <2> QED BY <2>1, <2>2
<1>2. /\ inodeAt' = [inodeAt EXCEPT ![path] = i]
      /\ open' = [open EXCEPT ![p] = i]
      /\ offset' = [offset EXCEPT ![p] = 0]
      /\ data' = [data EXCEPT ![i] = <<>>]
    BY DEF OpenTruncated
<1>3. Exists(path) => i = inodeAt[path]
    OBVIOUS
<1> HIDE DEF i
<1>4. i # 0
    BY <1>1, InodeFacts
<1>5. FilesOK'
    BY <1>1, <1>2, <1>4 DEF FilesOK, Exists
<1>6. /\ inodeAt'[path] = i /\ data'[i] = <<>> /\ open'[p] = i
      /\ \A f \in Path \ {path} : inodeAt'[f] = inodeAt[f]
      /\ \A j \in Inode \ {i} : data'[j] = data[j]
    BY <1>1, <1>2 DEF FilesOK
<1>7. \A f \in Path \ {path} : Bytes(f)' = Bytes(f)
    BY <1>1, <1>6 DEF Bytes, Exists, FilesOK
<1> QED BY <1>1, <1>2, <1>3, <1>4, <1>5, <1>6, <1>7 DEF Bytes, Exists, FilesOK

LEMMA MaxOfTwo ==
    ASSUME NEW a \in Nat, NEW b \in Nat
    PROVE  Max({a, b}) = IF a <= b THEN b ELSE a
<1>1. \E x \in {a, b} : \A y \in {a, b} : x >= y
    OBVIOUS
<1>2. Max({a, b}) \in {a, b} /\ \A y \in {a, b} : Max({a, b}) >= y
    BY <1>1 DEF Max
<1> QED BY <1>2

(* One chunk: no other file changes.                                       *)
LEMMA WriteChunkGives ==
    ASSUME FilesOK, NEW p \in Process, open[p] # 0, NEW content, WriteChunk(p, content)
    PROVE  /\ FilesOK' /\ UNCHANGED <<inodeAt, open>>
           /\ offset' = [offset EXCEPT ![p] = @ + 1]
           /\ \A j \in Inode \ {open[p]} : data'[j] = data[j]
           /\ \A f \in Path : inodeAt[f] # open[p] => Bytes(f)' = Bytes(f)
<1>1. UNCHANGED <<inodeAt, open>> /\ offset' = [offset EXCEPT ![p] = @ + 1]
    BY DEF WriteChunk
<1>2. DOMAIN data' = Inode /\ \A j \in Inode \ {open[p]} : data'[j] = data[j]
    BY DEF WriteChunk, FilesOK
<1>3. FilesOK'
    BY <1>1, <1>2 DEF FilesOK, Exists
<1> QED BY <1>1, <1>2, <1>3 DEF Bytes, Exists, FilesOK

(* A chunk at the end of what this process wrote.                          *)
LEMMA WriteChunkExtends ==
    ASSUME FilesOK, NEW p \in Process, open[p] # 0, NEW content, WriteChunk(p, content),
           Len(data[open[p]]) = offset[p]
    PROVE  data'[open[p]] = [k \in 1 .. offset'[p] |->
                               IF k = offset'[p] THEN content ELSE data[open[p]][k]]
<1> DEFINE n == offset[p]
           i == open[p]
<1>1. n \in Nat /\ i \in Inode
    BY DEF FilesOK
<1>2. Max({n, n + 1}) = n + 1
    BY <1>1, MaxOfTwo
<1>3. data'[i] = [k \in 1 .. (n + 1) |->
                    IF k = n + 1 THEN content
                    ELSE IF k <= n THEN data[i][k] ELSE Hole]
    BY <1>1, <1>2 DEF WriteChunk, FilesOK
<1>4. \A k \in 1 .. (n + 1) : k # n + 1 => k <= n
    BY <1>1
<1>5. offset'[p] = n + 1
    BY DEF WriteChunk, FilesOK
<1> QED BY <1>3, <1>4, <1>5

LEMMA WriteChunkAppends ==
    ASSUME FilesOK, NEW p \in Process, open[p] # 0, NEW content, WriteChunk(p, content),
           data[open[p]] = [k \in 1 .. offset[p] |-> content]
    PROVE  data'[open[p]] = [k \in 1 .. offset'[p] |-> content]
<1>1. offset[p] \in Nat /\ offset'[p] = offset[p] + 1
    BY DEF FilesOK, WriteChunk
<1>2. Len(data[open[p]]) = offset[p]
  <2>1. [k \in 1 .. offset[p] |-> content] \in Seq({content})
      BY <1>1
  <2> QED BY <1>1, <2>1
<1>3. data'[open[p]] = [k \in 1 .. offset'[p] |->
                          IF k = offset'[p] THEN content ELSE data[open[p]][k]]
    BY <1>2, WriteChunkExtends
<1>4. \A k \in 1 .. offset'[p] : k # offset'[p] => data[open[p]][k] = content
    BY <1>1
<1> QED BY <1>3, <1>4

(* The stream is closed; what still has a name keeps its content.          *)
LEMMA RelinkGives ==
    ASSUME FilesOK, NEW p \in Process, NEW links \in [Path -> Inode \cup {0}],
           \A f, g \in Path : links[f] # 0 /\ links[f] = links[g] => f = g,
           Relink(p, links)
    PROVE  /\ FilesOK' /\ inodeAt' = links
           /\ open' = [open EXCEPT ![p] = 0] /\ offset' = [offset EXCEPT ![p] = 0]
           /\ \A f \in Path : links[f] # 0 => data'[links[f]] = data[links[f]]
           /\ \A q \in Process \ {p} : open[q] # 0 => data'[open[q]] = data[open[q]]
<1> DEFINE newOpen == [open EXCEPT ![p] = 0]
<1>1. /\ inodeAt' = links /\ open' = newOpen /\ offset' = [offset EXCEPT ![p] = 0]
      /\ data' = [i \in Inode |-> IF i \in Range(links) \cup Range(newOpen)
                                  THEN data[i] ELSE <<>>]
    BY DEF Relink, Kept
<1>2. FilesOK'
    BY <1>1 DEF FilesOK, Exists
<1>3. \A f \in Path : links[f] # 0 => data'[links[f]] = data[links[f]]
    BY <1>1 DEF Range
<1>4. \A q \in Process \ {p} : open[q] # 0 => data'[open[q]] = data[open[q]]
  <2> SUFFICES ASSUME NEW q \in Process \ {p}, open[q] # 0
               PROVE  data'[open[q]] = data[open[q]]
      OBVIOUS
  <2>1. open[q] \in Inode /\ newOpen[q] = open[q] /\ q \in DOMAIN newOpen
      BY DEF FilesOK
  <2>2. open[q] \in Range(newOpen)
      BY <2>1 DEF Range
  <2> QED BY <1>1, <2>1, <2>2
<1> QED BY <1>1, <1>2, <1>3, <1>4

LEMMA CloseFileGives ==
    ASSUME FilesOK, NEW p \in Process, CloseFile(p)
    PROVE  /\ FilesOK' /\ UNCHANGED inodeAt
           /\ open' = [open EXCEPT ![p] = 0] /\ offset' = [offset EXCEPT ![p] = 0]
           /\ \A f \in Path : Bytes(f)' = Bytes(f)
           /\ \A q \in Process \ {p} : open[q] # 0 => data'[open[q]] = data[open[q]]
<1>1. inodeAt \in [Path -> Inode \cup {0}]
    BY DEF FilesOK
<1>2. \A f, g \in Path : inodeAt[f] # 0 /\ inodeAt[f] = inodeAt[g] => f = g
    BY DEF FilesOK, Exists
<1>3. Relink(p, inodeAt)
    BY DEF CloseFile
<1>4. /\ FilesOK' /\ UNCHANGED inodeAt
      /\ open' = [open EXCEPT ![p] = 0] /\ offset' = [offset EXCEPT ![p] = 0]
      /\ \A f \in Path : inodeAt[f] # 0 => data'[inodeAt[f]] = data[inodeAt[f]]
      /\ \A q \in Process \ {p} : open[q] # 0 => data'[open[q]] = data[open[q]]
    BY <1>1, <1>2, <1>3, RelinkGives
<1> QED BY <1>4 DEF Bytes, Exists

LEMMA RemoveFileGives ==
    ASSUME FilesOK, NEW p \in Process, NEW path \in Path, RemoveFile(p, path)
    PROVE  /\ FilesOK' /\ ~Exists(path)'
           /\ open' = [open EXCEPT ![p] = 0] /\ offset' = [offset EXCEPT ![p] = 0]
           /\ \A f \in Path \ {path} : inodeAt'[f] = inodeAt[f] /\ Bytes(f)' = Bytes(f)
           /\ \A q \in Process \ {p} : open[q] # 0 => data'[open[q]] = data[open[q]]
<1> DEFINE links == [inodeAt EXCEPT ![path] = 0]
<1>1. /\ links \in [Path -> Inode \cup {0}] /\ links[path] = 0
      /\ \A f \in Path \ {path} : links[f] = inodeAt[f]
    BY DEF FilesOK
<1>2. Relink(p, links)
    BY DEF RemoveFile
<1> HIDE DEF links
<1>3. \A f, g \in Path : links[f] # 0 /\ links[f] = links[g] => f = g
    BY <1>1 DEF FilesOK, Exists
<1>4. /\ FilesOK' /\ inodeAt' = links
      /\ open' = [open EXCEPT ![p] = 0] /\ offset' = [offset EXCEPT ![p] = 0]
      /\ \A f \in Path : links[f] # 0 => data'[links[f]] = data[links[f]]
      /\ \A q \in Process \ {p} : open[q] # 0 => data'[open[q]] = data[open[q]]
    BY <1>1, <1>2, <1>3, RelinkGives
<1> QED BY <1>1, <1>4 DEF Bytes, Exists

(* rename: the file is now what the other was.                             *)
LEMMA RenameFileGives ==
    ASSUME FilesOK, NEW p \in Process, NEW from \in Path, NEW to \in Path, from # to,
           RenameFile(p, from, to)
    PROVE  /\ FilesOK' /\ ~Exists(from)' /\ inodeAt'[to] = inodeAt[from]
           /\ Bytes(to)' = Bytes(from)
           /\ open' = [open EXCEPT ![p] = 0] /\ offset' = [offset EXCEPT ![p] = 0]
           /\ \A f \in Path \ {from, to} : inodeAt'[f] = inodeAt[f] /\ Bytes(f)' = Bytes(f)
           /\ \A q \in Process \ {p} : open[q] # 0 => data'[open[q]] = data[open[q]]
<1> DEFINE links == [inodeAt EXCEPT ![to] = inodeAt[from], ![from] = 0]
<1>1. /\ links \in [Path -> Inode \cup {0}] /\ links[from] = 0 /\ links[to] = inodeAt[from]
      /\ \A f \in Path \ {from, to} : links[f] = inodeAt[f]
    BY DEF FilesOK
<1>2. Relink(p, links)
    BY DEF RenameFile
<1> HIDE DEF links
<1>3. \A f, g \in Path : links[f] # 0 /\ links[f] = links[g] => f = g
    BY <1>1 DEF FilesOK, Exists
<1>4. /\ FilesOK' /\ inodeAt' = links
      /\ open' = [open EXCEPT ![p] = 0] /\ offset' = [offset EXCEPT ![p] = 0]
      /\ \A f \in Path : links[f] # 0 => data'[links[f]] = data[links[f]]
      /\ \A q \in Process \ {p} : open[q] # 0 => data'[open[q]] = data[open[q]]
    BY <1>1, <1>2, <1>3, RelinkGives
<1> QED BY <1>1, <1>4 DEF Bytes, Exists

LEMMA DepositGives ==
    ASSUME FilesOK, NEW p \in Process, NEW path \in Path, NEW bytes, Deposit(p, path, bytes)
    PROVE  /\ FilesOK' /\ Exists(path)' /\ Bytes(path)' = bytes
           /\ UNCHANGED <<open, offset>>
           /\ Exists(path) => inodeAt'[path] = inodeAt[path]
           /\ ~Exists(path) => \A q \in Process : open[q] # inodeAt'[path]
           /\ \A f \in Path \ {path} : inodeAt'[f] = inodeAt[f] /\ Bytes(f)' = Bytes(f)
           /\ \A j \in Inode : data'[j] = IF j = inodeAt'[path] THEN bytes ELSE data[j]
<1> DEFINE i == IF Exists(path) THEN inodeAt[path] ELSE FreeInode
<1>1. /\ i \in Inode
      /\ \A f \in Path \ {path} : inodeAt[f] # i
      /\ ~Exists(path) => \A q \in Process : open[q] # i
  <2>1. CASE Exists(path)
      BY <2>1 DEF FilesOK, Exists
  <2>2. CASE ~Exists(path)
      BY <2>2, FreeInodeIsFree
  <2> QED BY <2>1, <2>2
<1>2. /\ inodeAt' = [inodeAt EXCEPT ![path] = i]
      /\ data' = [data EXCEPT ![i] = bytes]
      /\ UNCHANGED <<open, offset>>
    BY DEF Deposit
<1>3. Exists(path) => i = inodeAt[path]
    OBVIOUS
<1> HIDE DEF i
<1>4. i # 0
    BY <1>1, InodeFacts
<1>5. FilesOK'
    BY <1>1, <1>2, <1>4 DEF FilesOK, Exists
<1>6. /\ inodeAt'[path] = i /\ data'[i] = bytes
      /\ \A f \in Path \ {path} : inodeAt'[f] = inodeAt[f]
      /\ \A j \in Inode \ {i} : data'[j] = data[j]
    BY <1>1, <1>2 DEF FilesOK
<1>7. \A f \in Path \ {path} : Bytes(f)' = Bytes(f)
    BY <1>1, <1>6 DEF Bytes, Exists, FilesOK
<1> QED BY <1>1, <1>2, <1>3, <1>4, <1>5, <1>6, <1>7 DEF Bytes, Exists, FilesOK

(* What a file may hold after a step, if it holds chunks of C now.         *)
LEMMA ChunksStay ==
    ASSUME FilesOK, NEW C, data \in [Inode -> Seq(C)], NEW p \in Process
    PROVE  /\ \A path \in Path : OpenTruncated(p, path) => data' \in [Inode -> Seq(C)]
           /\ \A links : Relink(p, links) => data' \in [Inode -> Seq(C)]
           /\ \A path \in Path, bytes \in Seq(C) :
                  Deposit(p, path, bytes) => data' \in [Inode -> Seq(C)]
<1>0. <<>> \in Seq(C)
    OBVIOUS
<1>1. ASSUME NEW path \in Path, OpenTruncated(p, path) PROVE data' \in [Inode -> Seq(C)]
    BY <1>0, <1>1 DEF OpenTruncated
<1>2. ASSUME NEW links, Relink(p, links) PROVE data' \in [Inode -> Seq(C)]
  <2>1. \A i \in Inode : data[i] \in Seq(C) /\ <<>> \in Seq(C)
      OBVIOUS
  <2> QED BY <1>2, <2>1 DEF Relink, Kept
<1>3. ASSUME NEW path \in Path, NEW bytes \in Seq(C), Deposit(p, path, bytes)
      PROVE  data' \in [Inode -> Seq(C)]
    BY <1>3 DEF Deposit
<1> QED BY <1>1, <1>2, <1>3

LEMMA WrittenChunksStay ==
    ASSUME FilesOK, NEW C, data \in [Inode -> Seq(C)], Hole \in C,
           NEW p \in Process, open[p] # 0, NEW content \in C, WriteChunk(p, content)
    PROVE  data' \in [Inode -> Seq(C)]
<1> DEFINE i == open[p]
           n == Len(data[i])
           length == Max({n, offset[p] + 1})
           new == [k \in 1 .. length |->
                    IF k = offset[p] + 1 THEN content
                    ELSE IF k <= n THEN data[i][k] ELSE Hole]
<1>1. i \in Inode /\ data[i] \in Seq(C) /\ n \in Nat /\ offset[p] + 1 \in Nat
    BY DEF FilesOK
<1>2. length \in Nat
    BY <1>1, MaxOfTwo
<1>3. data' = [data EXCEPT ![i] = new]
    BY DEF WriteChunk
<1>4. \A k \in 1 .. n : data[i][k] \in C
    BY <1>1
<1> HIDE DEF length, n
<1>5. new \in [1 .. length -> C]
    BY <1>1, <1>2, <1>4
<1>6. new \in Seq(C)
    BY <1>2, <1>5
<1> QED BY <1>1, <1>3, <1>6

LEMMA NoFilesAreOK == NoFiles => FilesOK
BY InodeFacts DEF NoFiles, NothingOpen, FilesOK, Exists

-----------------------------------------------------------------------------
(* Preferences: who is past the lock file, and what it may count on.       *)
SaveType ==
    [step : {"idle", "check", "lock", "open", "write", "verify", "replace", "discard", "unlock"},
     wanted : Settings \cup {"none"},
     result : {"none", "refused", "busy", "saved", "failed"}]

UnderLock(p) == save[p].step \in {"open", "write", "verify", "replace", "discard", "unlock"}

LockIsHeld ==
    /\ \A p \in Process : UnderLock(p) => Exists(PreferencesLock)
    /\ \A p, q \in Process : UnderLock(p) /\ UnderLock(q) => p = q

(* What p has written so far.                                              *)
Written(p) == [k \in 1 .. offset[p] |-> Document(save[p].wanted)]

TemporaryIsRight ==
    \A p \in Process :
        /\ Saving(p, "write") => /\ Exists(PreferencesTemporary)
                                 /\ open[p] = inodeAt[PreferencesTemporary]
                                 /\ data[open[p]] = Written(p)
        /\ ~Saving(p, "write") => open[p] = 0
        /\ save[p].step \in {"verify", "replace"} =>
               Holds(PreferencesTemporary, Document(save[p].wanted))

FutureIsKept ==
    UnsupportedVersion(Bytes(PreferencesFile)) =>
        \A p \in Process : save[p].step \in {"idle", "check"}

PreferencesInv ==
    /\ FilesOK
    /\ save \in [Process -> SaveType]
    /\ LockIsHeld
    /\ TemporaryIsRight
    /\ FutureIsKept

LEMMA PreferencesPathFacts ==
    /\ PreferencesFile \in Path /\ PreferencesLock \in Path /\ PreferencesTemporary \in Path
    /\ PreferencesFile # PreferencesLock /\ PreferencesFile # PreferencesTemporary
    /\ PreferencesLock # PreferencesTemporary
<1>1. /\ PreferencesFile # PreferencesLock /\ PreferencesFile # PreferencesTemporary
      /\ PreferencesLock # PreferencesTemporary
    BY DEF PreferencesFile, PreferencesLock, PreferencesTemporary
<1> QED BY <1>1, PreferencesPathsAssumption DEF PreferencesPaths

LEMMA PreferencesContents ==
    ASSUME NEW s
    PROVE  ~UnsupportedVersion(WholeOf(Document(s)))
BY DEF UnsupportedVersion, WholeOf, Document, Future

(* The files at the start: no other is there.                              *)
LEMMA PreferencesInitIsGood ==
    PreferencesFiles /\ PreferencesInit => PreferencesInv
<1> SUFFICES ASSUME PreferencesFiles, PreferencesInit
             PROVE  PreferencesInv
    OBVIOUS
<1>1. save \in [Process -> SaveType] /\ \A p \in Process : Saving(p, "idle")
    BY DEF PreferencesInit, NotSaving, SaveType, Saving
<1>2. open = [p \in Process |-> 0] /\ offset = [p \in Process |-> 0] /\ DOMAIN data = Inode
    BY DEF PreferencesFiles, NoFiles, OneFile, NothingOpen
<1>3. 1 \in Inode
  <2>1. PreferencesFile \in Path
      BY PreferencesPathFacts
  <2>2. Cardinality(Path) # 0
      BY <2>1, FilesAssumption, FS_EmptySet
  <2> QED BY <2>2, InodeFacts DEF Inode
<1>4. inodeAt \in [Path -> Inode \cup {0}]
    BY <1>3 DEF PreferencesFiles, NoFiles, OneFile
<1>5. \A f, g \in Path : Exists(f) /\ inodeAt[f] = inodeAt[g] => f = g
    BY DEF PreferencesFiles, NoFiles, OneFile, Exists
<1>6. FilesOK
    BY <1>2, <1>4, <1>5 DEF FilesOK
<1>7. LockIsHeld /\ TemporaryIsRight /\ FutureIsKept
    BY <1>1, <1>2 DEF LockIsHeld, UnderLock, TemporaryIsRight, FutureIsKept, Saving
<1> QED BY <1>1, <1>6, <1>7 DEF PreferencesInv

(* PreferencesAreReplacedWhole, of one step.                               *)
ReplacesWhole ==
    Bytes(PreferencesFile)' # Bytes(PreferencesFile) =>
        /\ ~LoadPreferences.preserve
        /\ \E p \in Process : /\ Saving(p, "replace")
                              /\ save'[p].result = "saved"
                              /\ Holds(PreferencesFile, Document(save[p].wanted))'

(* A step of a player while no other is under the lock.                    *)
LEMMA AloneKeepsPreferences ==
    ASSUME PreferencesInv, NEW p \in Process, NEW r \in SaveType,
           save' = [save EXCEPT ![p] = r],
           \A q \in Process \ {p} : ~UnderLock(q) /\ open'[q] = open[q],
           FilesOK',
           UnderLock(p)' => Exists(PreferencesLock)',
           r.step = "write" => /\ Exists(PreferencesTemporary)'
                               /\ open'[p] = inodeAt'[PreferencesTemporary]
                               /\ data'[open'[p]] = [k \in 1 .. offset'[p] |-> Document(r.wanted)],
           r.step # "write" => open'[p] = 0,
           r.step \in {"verify", "replace"} =>
               Bytes(PreferencesTemporary)' = WholeOf(Document(r.wanted)),
           Bytes(PreferencesFile)' = Bytes(PreferencesFile),
           r.step \notin {"idle", "check"} =>
               ~UnsupportedVersion(Bytes(PreferencesFile))
    PROVE  PreferencesInv'
<1>1. save'[p] = r /\ \A q \in Process \ {p} : save'[q] = save[q]
    BY DEF PreferencesInv
<1>2. save' \in [Process -> SaveType]
    BY DEF PreferencesInv
<1>3. LockIsHeld'
    BY <1>1 DEF LockIsHeld, UnderLock
<1>4. TemporaryIsRight'
  <2> SUFFICES ASSUME NEW q \in Process
               PROVE  (/\ Saving(q, "write") => /\ Exists(PreferencesTemporary)
                                                /\ open[q] = inodeAt[PreferencesTemporary]
                                                /\ data[open[q]] = Written(q)
                       /\ ~Saving(q, "write") => open[q] = 0
                       /\ save[q].step \in {"verify", "replace"} =>
                              Holds(PreferencesTemporary, Document(save[q].wanted)))'
      BY DEF TemporaryIsRight
  <2>1. CASE q = p
      BY <1>1, <2>1 DEF Saving, Written, Holds
  <2>2. CASE q # p
      BY <1>1, <2>2 DEF Saving, UnderLock, PreferencesInv, TemporaryIsRight
  <2> QED BY <2>1, <2>2
<1>5. FutureIsKept'
    BY <1>1 DEF FutureIsKept, PreferencesInv
<1> QED BY <1>2, <1>3, <1>4, <1>5 DEF PreferencesInv

(* A step of a player that is not under the lock, and no file.             *)
LEMMA OutsideKeepsPreferences ==
    ASSUME PreferencesInv, NEW p \in Process, ~UnderLock(p), NEW r \in SaveType,
           save' = [save EXCEPT ![p] = r], r.step \in {"idle", "check", "lock"},
           r.step = "lock" => ~UnsupportedVersion(Bytes(PreferencesFile)),
           FilesUnchanged
    PROVE  PreferencesInv' /\ ReplacesWhole
<1>1. save'[p] = r /\ \A q \in Process \ {p} : save'[q] = save[q]
    BY DEF PreferencesInv
<1>2. UNCHANGED <<inodeAt, data, open, offset>>
    BY DEF FilesUnchanged, fileVars
<1>3. FilesOK' /\ \A f \in Path : Bytes(f)' = Bytes(f) /\ Exists(f)' = Exists(f)
    BY <1>2 DEF PreferencesInv, FilesOK, Bytes, Exists
<1>4. save' \in [Process -> SaveType]
    BY DEF PreferencesInv
<1>5. LockIsHeld'
    BY <1>1, <1>3, PreferencesPathFacts DEF LockIsHeld, UnderLock, PreferencesInv
<1>6. TemporaryIsRight'
  <2>1. ~Saving(p, "write") /\ ~Saving(p, "write")'
      BY <1>1 DEF Saving, UnderLock
  <2> QED BY <1>1, <1>2, <1>3, <2>1, PreferencesPathFacts, ZenonT(60)
          DEF TemporaryIsRight, PreferencesInv, Saving, Written, Holds, UnderLock
<1>7. FutureIsKept'
    BY <1>1, <1>3, PreferencesPathFacts DEF FutureIsKept, PreferencesInv
<1> QED BY <1>3, <1>4, <1>5, <1>6, <1>7, PreferencesPathFacts
        DEF PreferencesInv, ReplacesWhole

(* A player under the lock is alone, and no later version was found.       *)
LEMMA UnderLockFacts ==
    ASSUME PreferencesInv, NEW p \in Process, UnderLock(p)
    PROVE  /\ \A q \in Process \ {p} : ~UnderLock(q)
           /\ Exists(PreferencesLock)
           /\ ~UnsupportedVersion(Bytes(PreferencesFile))
           /\ save[p] \in SaveType /\ save \in [Process -> SaveType]
           /\ FilesOK
BY DEF PreferencesInv, LockIsHeld, FutureIsKept, UnderLock

LEMMA BeginSaveIsSafe ==
    ASSUME PreferencesInv, NEW p \in Process, NEW s \in Settings, BeginSave(p, s)
    PROVE  PreferencesInv' /\ ReplacesWhole
<1> DEFINE r == [step |-> "check", wanted |-> s, result |-> "none"]
<1>1. r \in SaveType /\ r.step = "check"
    BY DEF SaveType
<1>2. save' = [save EXCEPT ![p] = r] /\ FilesUnchanged /\ ~UnderLock(p)
    BY DEF BeginSave, Saving, UnderLock
<1> QED BY <1>1, <1>2, OutsideKeepsPreferences

LEMMA CheckSaveIsSafe ==
    ASSUME PreferencesInv, NEW p \in Process, CheckSave(p) \/ PreferencesAreBusy(p)
    PROVE  PreferencesInv' /\ ReplacesWhole
<1>1. save \in [Process -> SaveType] /\ FilesUnchanged /\ ~UnderLock(p)
    BY DEF PreferencesInv, CheckSave, PreferencesAreBusy, Saving, UnderLock
<1>2. \E r \in SaveType : /\ save' = [save EXCEPT ![p] = r]
                          /\ r.step \in {"idle", "lock"}
                          /\ r.step = "lock" => ~UnsupportedVersion(Bytes(PreferencesFile))
  <2>1. CASE SaveGoes(p, "lock") /\ ~UnsupportedVersion(Bytes(PreferencesFile))
    <3>1. [save[p] EXCEPT !.step = "lock"] \in SaveType
        BY <1>1 DEF SaveType
    <3>2. save' = [save EXCEPT ![p] = [save[p] EXCEPT !.step = "lock"]]
        BY <2>1 DEF SaveGoes
    <3>3. [save[p] EXCEPT !.step = "lock"].step = "lock"
        BY <1>1 DEF SaveType
    <3> QED BY <2>1, <3>1, <3>2, <3>3
  <2>2. ASSUME NEW why \in {"refused", "busy"}, SaveEnds(p, "idle", why)
        PROVE  \E r \in SaveType : save' = [save EXCEPT ![p] = r] /\ r.step = "idle"
    <3> DEFINE r == [save[p] EXCEPT !.step = "idle", !.result = why]
    <3>1. r \in SaveType /\ r.step = "idle"
        BY <1>1 DEF SaveType
    <3>2. save' = [save EXCEPT ![p] = r]
        BY <1>1, <2>2 DEF SaveEnds
    <3> QED BY <3>1, <3>2
  <2> QED BY <2>1, <2>2 DEF CheckSave, PreferencesAreBusy
<1> QED BY <1>1, <1>2, OutsideKeepsPreferences

LEMMA LockPreferencesIsSafe ==
    ASSUME PreferencesInv, NEW p \in Process, LockPreferences(p)
    PROVE  PreferencesInv' /\ ReplacesWhole
<1> DEFINE r == [save[p] EXCEPT !.step = "open"]
<1>1. /\ FilesOK /\ save \in [Process -> SaveType] /\ save[p] \in SaveType
      /\ \A q \in Process : ~UnderLock(q)
      /\ ~UnsupportedVersion(Bytes(PreferencesFile)) /\ open[p] = 0
    BY DEF PreferencesInv, LockIsHeld, LockPreferences, Saving, FutureIsKept, TemporaryIsRight
<1>2. r \in SaveType /\ r.step = "open" /\ save' = [save EXCEPT ![p] = r]
    BY <1>1 DEF SaveType, LockPreferences, SaveGoes
<1>3. /\ FilesOK' /\ UNCHANGED open /\ Exists(PreferencesLock)'
      /\ Bytes(PreferencesFile)' = Bytes(PreferencesFile)
    BY <1>1, PreferencesPathFacts, DepositGives DEF LockPreferences
<1>4. PreferencesInv'
    BY <1>1, <1>2, <1>3, AloneKeepsPreferences
<1> QED BY <1>3, <1>4 DEF ReplacesWhole

LEMMA OpenTemporaryIsSafe ==
    ASSUME PreferencesInv, NEW p \in Process, OpenTemporary(p)
    PROVE  PreferencesInv' /\ ReplacesWhole
<1> DEFINE r == [save[p] EXCEPT !.step = "write"]
<1>1. UnderLock(p)
    BY DEF OpenTemporary, Saving, UnderLock
<1>2. r \in SaveType /\ r.step = "write" /\ save' = [save EXCEPT ![p] = r]
    BY <1>1, UnderLockFacts DEF SaveType, OpenTemporary, SaveGoes
<1> HIDE DEF r
<1>3. /\ FilesOK' /\ open'[p] = inodeAt'[PreferencesTemporary] /\ Exists(PreferencesTemporary)'
      /\ \A q \in Process \ {p} : open'[q] = open[q]
      /\ offset'[p] = 0 /\ data'[open'[p]] = <<>>
      /\ Bytes(PreferencesFile)' = Bytes(PreferencesFile)
      /\ Exists(PreferencesLock)' = Exists(PreferencesLock)
    BY <1>1, UnderLockFacts, PreferencesPathFacts, OpenTruncatedGives
       DEF OpenTemporary, Exists, Bytes
<1>4. data'[open'[p]] = [k \in 1 .. offset'[p] |-> Document(r.wanted)]
    BY <1>3
<1>5. PreferencesInv'
    BY <1>1, <1>2, <1>3, <1>4, UnderLockFacts, AloneKeepsPreferences
<1> QED BY <1>3, <1>5 DEF ReplacesWhole

LEMMA WriteTemporaryIsSafe ==
    ASSUME PreferencesInv, NEW p \in Process, WriteTemporaryChunk(p)
    PROVE  PreferencesInv' /\ ReplacesWhole
<1> DEFINE r == save[p]
<1>1. UnderLock(p) /\ r.step = "write" /\ open[p] # 0
    BY DEF WriteTemporaryChunk, Saving, UnderLock, PreferencesInv, TemporaryIsRight, Exists
<1>2. r \in SaveType /\ save' = [save EXCEPT ![p] = r]
    BY <1>1, UnderLockFacts DEF WriteTemporaryChunk
<1>3. /\ Exists(PreferencesTemporary) /\ open[p] = inodeAt[PreferencesTemporary]
      /\ data[open[p]] = [k \in 1 .. offset[p] |-> Document(r.wanted)]
    BY <1>1 DEF PreferencesInv, TemporaryIsRight, Saving, Written
<1>4. /\ FilesOK' /\ UNCHANGED <<inodeAt, open>>
      /\ \A f \in Path : inodeAt[f] # open[p] => Bytes(f)' = Bytes(f)
    BY <1>1, UnderLockFacts, WriteChunkGives DEF WriteTemporaryChunk
<1>5. data'[open'[p]] = [k \in 1 .. offset'[p] |-> Document(r.wanted)]
    BY <1>1, <1>3, <1>4, UnderLockFacts, WriteChunkAppends, ZenonT(60) DEF WriteTemporaryChunk
<1>6. Bytes(PreferencesFile)' = Bytes(PreferencesFile)
    BY <1>1, <1>3, <1>4, UnderLockFacts, PreferencesPathFacts DEF FilesOK
<1>7. Exists(PreferencesLock)' /\ Exists(PreferencesTemporary)'
    BY <1>1, <1>3, <1>4, UnderLockFacts DEF Exists
<1> HIDE DEF r
<1>8. PreferencesInv'
    BY <1>1, <1>2, <1>3, <1>4, <1>5, <1>6, <1>7, UnderLockFacts, AloneKeepsPreferences
<1> QED BY <1>6, <1>8 DEF ReplacesWhole

LEMMA CloseTemporaryIsSafe ==
    ASSUME PreferencesInv, NEW p \in Process, CloseTemporary(p)
    PROVE  PreferencesInv' /\ ReplacesWhole
<1> DEFINE r == [save[p] EXCEPT !.step = "verify"]
<1>1. UnderLock(p) /\ save[p].step = "write" /\ offset[p] = 2
    BY DEF CloseTemporary, Saving, UnderLock, AllWritten
<1>2. /\ r \in SaveType /\ r.step = "verify" /\ r.wanted = save[p].wanted
      /\ save' = [save EXCEPT ![p] = r]
    BY <1>1, UnderLockFacts DEF SaveType, CloseTemporary, SaveGoes
<1> HIDE DEF r
<1>3. Bytes(PreferencesTemporary) = WholeOf(Document(r.wanted))
  <2>1. /\ Exists(PreferencesTemporary)
        /\ data[inodeAt[PreferencesTemporary]] = [k \in 1 .. 2 |-> Document(r.wanted)]
      BY <1>1, <1>2 DEF PreferencesInv, TemporaryIsRight, Saving, Written
  <2>2. [k \in 1 .. 2 |-> Document(r.wanted)] = WholeOf(Document(r.wanted))
      BY DEF WholeOf
  <2> QED BY <2>1, <2>2 DEF Bytes
<1>4. /\ FilesOK' /\ UNCHANGED inodeAt /\ open' = [open EXCEPT ![p] = 0]
      /\ \A f \in Path : Bytes(f)' = Bytes(f)
    BY <1>1, UnderLockFacts, CloseFileGives DEF CloseTemporary
<1>5. Bytes(PreferencesTemporary)' = WholeOf(Document(r.wanted))
    BY <1>3, <1>4, PreferencesPathFacts
<1>6. open'[p] = 0 /\ \A q \in Process \ {p} : open'[q] = open[q]
    BY <1>1, <1>4, UnderLockFacts DEF FilesOK
<1>7. Exists(PreferencesLock)' /\ Bytes(PreferencesFile)' = Bytes(PreferencesFile)
    BY <1>1, <1>4, UnderLockFacts, PreferencesPathFacts DEF Exists
<1>8. PreferencesInv'
    BY <1>1, <1>2, <1>4, <1>5, <1>6, <1>7, UnderLockFacts, AloneKeepsPreferences
<1> QED BY <1>7, <1>8 DEF ReplacesWhole

(* Steps after the file was closed that write nothing.                     *)
LEMMA VerifyIsSafe ==
    ASSUME PreferencesInv, NEW p \in Process, VerifyTemporary(p)
    PROVE  PreferencesInv' /\ ReplacesWhole
<1>1. UnderLock(p) /\ save[p].step = "verify" /\ open[p] = 0
    BY DEF VerifyTemporary, Saving, UnderLock, PreferencesInv, TemporaryIsRight
<1>2. PICK step \in {"replace", "discard"} : SaveGoes(p, step)
    BY DEF VerifyTemporary
<1> DEFINE r == [save[p] EXCEPT !.step = step]
<1>3. /\ r \in SaveType /\ r.step = step /\ r.wanted = save[p].wanted
      /\ save' = [save EXCEPT ![p] = r]
    BY <1>1, <1>2, UnderLockFacts DEF SaveType, SaveGoes
<1> HIDE DEF r
<1>4. UNCHANGED <<inodeAt, data, open, offset>>
    BY DEF VerifyTemporary, FilesUnchanged, fileVars
<1>5. FilesOK' /\ \A f \in Path : Bytes(f)' = Bytes(f) /\ Exists(f)' = Exists(f)
    BY <1>4 DEF PreferencesInv, FilesOK, Bytes, Exists
<1>6. Bytes(PreferencesTemporary)' = WholeOf(Document(r.wanted))
    BY <1>1, <1>3, <1>5, PreferencesPathFacts DEF PreferencesInv, TemporaryIsRight, Holds
<1>7. PreferencesInv'
    BY <1>1, <1>3, <1>4, <1>5, <1>6, UnderLockFacts, PreferencesPathFacts, AloneKeepsPreferences
<1> QED BY <1>5, <1>7, PreferencesPathFacts DEF ReplacesWhole

LEMMA SaveStepFailsIsSafe ==
    ASSUME PreferencesInv, NEW p \in Process, SaveStepFails(p)
    PROVE  PreferencesInv' /\ ReplacesWhole
<1> DEFINE r == [save[p] EXCEPT !.step = "discard"]
<1>1. UnderLock(p)
    BY DEF SaveStepFails, UnderLock
<1>2. r \in SaveType /\ r.step = "discard" /\ save' = [save EXCEPT ![p] = r]
    BY <1>1, UnderLockFacts DEF SaveType, SaveStepFails, SaveGoes
<1> HIDE DEF r
<1>3. /\ FilesOK' /\ UNCHANGED inodeAt /\ open' = [open EXCEPT ![p] = 0]
      /\ \A f \in Path : Bytes(f)' = Bytes(f)
    BY <1>1, UnderLockFacts, CloseFileGives DEF SaveStepFails
<1>4. open'[p] = 0 /\ \A q \in Process \ {p} : open'[q] = open[q]
    BY <1>1, <1>3, UnderLockFacts DEF FilesOK
<1>5. Exists(PreferencesLock)' /\ Bytes(PreferencesFile)' = Bytes(PreferencesFile)
    BY <1>1, <1>3, UnderLockFacts, PreferencesPathFacts DEF Exists
<1>6. PreferencesInv'
    BY <1>1, <1>2, <1>3, <1>4, <1>5, UnderLockFacts, AloneKeepsPreferences
<1> QED BY <1>5, <1>6 DEF ReplacesWhole

LEMMA DiscardIsSafe ==
    ASSUME PreferencesInv, NEW p \in Process, DiscardTemporary(p)
    PROVE  PreferencesInv' /\ ReplacesWhole
<1> DEFINE r == [save[p] EXCEPT !.step = "unlock", !.result = "failed"]
<1>1. UnderLock(p)
    BY DEF DiscardTemporary, UnderLock, Saving
<1>2. r \in SaveType /\ r.step = "unlock" /\ save' = [save EXCEPT ![p] = r]
    BY <1>1, UnderLockFacts DEF SaveType, DiscardTemporary, SaveEnds
<1> HIDE DEF r
<1>3. /\ FilesOK' /\ open' = [open EXCEPT ![p] = 0]
      /\ \A f \in Path \ {PreferencesTemporary} : inodeAt'[f] = inodeAt[f] /\ Bytes(f)' = Bytes(f)
    BY <1>1, UnderLockFacts, PreferencesPathFacts, RemoveFileGives DEF DiscardTemporary
<1>4. open'[p] = 0 /\ \A q \in Process \ {p} : open'[q] = open[q]
    BY <1>1, <1>3, UnderLockFacts DEF FilesOK
<1>5. Exists(PreferencesLock)' /\ Bytes(PreferencesFile)' = Bytes(PreferencesFile)
    BY <1>1, <1>3, UnderLockFacts, PreferencesPathFacts DEF Exists
<1>6. PreferencesInv'
    BY <1>1, <1>2, <1>3, <1>4, <1>5, UnderLockFacts, AloneKeepsPreferences
<1> QED BY <1>5, <1>6 DEF ReplacesWhole

LEMMA UnlockIsSafe ==
    ASSUME PreferencesInv, NEW p \in Process, UnlockPreferences(p)
    PROVE  PreferencesInv' /\ ReplacesWhole
<1> DEFINE r == [save[p] EXCEPT !.step = "idle"]
<1>1. UnderLock(p)
    BY DEF UnlockPreferences, UnderLock, Saving
<1>2. r \in SaveType /\ r.step = "idle" /\ save' = [save EXCEPT ![p] = r]
    BY <1>1, UnderLockFacts DEF SaveType, UnlockPreferences, SaveGoes
<1> HIDE DEF r
<1>3. /\ FilesOK' /\ open' = [open EXCEPT ![p] = 0]
      /\ Bytes(PreferencesFile)' = Bytes(PreferencesFile)
    BY <1>1, UnderLockFacts, PreferencesPathFacts, RemoveFileGives DEF UnlockPreferences
<1>4. open'[p] = 0 /\ \A q \in Process \ {p} : open'[q] = open[q]
    BY <1>1, <1>3, UnderLockFacts DEF FilesOK
<1>5. ~UnderLock(p)'
    BY <1>1, <1>2, UnderLockFacts DEF UnderLock
<1>6. PreferencesInv'
    BY <1>1, <1>2, <1>3, <1>4, <1>5, UnderLockFacts, AloneKeepsPreferences
<1> QED BY <1>3, <1>6 DEF ReplacesWhole

(* The rename: the file is all of what this player was asked for.          *)
LEMMA ReplaceIsSafe ==
    ASSUME PreferencesInv, NEW p \in Process, ReplacePreferences(p)
    PROVE  PreferencesInv' /\ ReplacesWhole
<1> DEFINE r == [save[p] EXCEPT !.step = "unlock", !.result = "saved"]
<1>1. UnderLock(p) /\ save[p].step = "replace"
    BY DEF ReplacePreferences, UnderLock, Saving
<1>2. /\ r \in SaveType /\ r.step = "unlock" /\ r.wanted = save[p].wanted /\ r.result = "saved"
      /\ save' = [save EXCEPT ![p] = r]
    BY <1>1, UnderLockFacts DEF SaveType, ReplacePreferences, SaveEnds
<1> HIDE DEF r
<1>3. /\ FilesOK' /\ open' = [open EXCEPT ![p] = 0]
      /\ Bytes(PreferencesFile)' = Bytes(PreferencesTemporary)
      /\ inodeAt'[PreferencesLock] = inodeAt[PreferencesLock]
    BY <1>1, UnderLockFacts, PreferencesPathFacts, RenameFileGives DEF ReplacePreferences
<1>4. open'[p] = 0 /\ \A q \in Process \ {p} : open'[q] = open[q]
    BY <1>1, <1>3, UnderLockFacts DEF FilesOK
<1>5. Bytes(PreferencesFile)' = WholeOf(Document(save[p].wanted))
    BY <1>1, <1>3 DEF PreferencesInv, TemporaryIsRight, Holds
<1>6. save'[p] = r /\ \A q \in Process \ {p} : save'[q] = save[q]
    BY <1>1, <1>2, UnderLockFacts
<1>7. Holds(PreferencesFile, Document(save[p].wanted))'
    BY <1>2, <1>5, <1>6 DEF Holds
<1>8. ReplacesWhole
    BY <1>1, <1>2, <1>6, <1>7, UnderLockFacts DEF ReplacesWhole, Saving, LoadPreferences
<1>9. save' \in [Process -> SaveType]
    BY <1>1, <1>2, UnderLockFacts
<1>10. \A q \in Process \ {p} : ~UnderLock(q) /\ ~UnderLock(q)'
    BY <1>1, <1>6, UnderLockFacts DEF UnderLock
<1>11. Exists(PreferencesLock)'
    BY <1>1, <1>3, UnderLockFacts DEF Exists
<1>12. LockIsHeld'
    BY <1>10, <1>11 DEF LockIsHeld
<1>13. TemporaryIsRight'
    BY <1>2, <1>4, <1>6, <1>10
       DEF TemporaryIsRight, PreferencesInv, Saving, UnderLock
<1>14. FutureIsKept'
    BY <1>5, PreferencesContents DEF FutureIsKept
<1> QED BY <1>3, <1>8, <1>9, <1>12, <1>13, <1>14 DEF PreferencesInv

(* A player that dies under the lock leaves the lock file, and nobody is   *)
(* under the lock again.                                                   *)
LEMMA PlayerDiesIsSafe ==
    ASSUME PreferencesInv, NEW p \in Process, PlayerDies(p)
    PROVE  PreferencesInv' /\ ReplacesWhole
<1>1. FilesOK /\ save \in [Process -> SaveType]
    BY DEF PreferencesInv
<1>2. /\ save' = [save EXCEPT ![p] = NotSaving] /\ CloseFile(p)
      /\ NotSaving \in SaveType /\ NotSaving.step = "idle"
    BY DEF PlayerDies, NotSaving, SaveType
<1>3. save'[p] = NotSaving /\ \A q \in Process \ {p} : save'[q] = save[q]
    BY <1>1, <1>2
<1>4. /\ FilesOK' /\ UNCHANGED inodeAt
      /\ open' = [open EXCEPT ![p] = 0] /\ offset' = [offset EXCEPT ![p] = 0]
      /\ \A f \in Path : Bytes(f)' = Bytes(f)
      /\ \A q \in Process \ {p} : open[q] # 0 => data'[open[q]] = data[open[q]]
    BY <1>1, <1>2, CloseFileGives
<1>5. LockIsHeld'
    BY <1>2, <1>3, <1>4 DEF PreferencesInv, LockIsHeld, UnderLock, Exists
<1>6. \A q \in Process \ {p} : open'[q] = open[q] /\ offset'[q] = offset[q]
    BY <1>1, <1>4 DEF FilesOK
<1>7. open'[p] = 0
    BY <1>1, <1>4 DEF FilesOK
<1>8. TemporaryIsRight'
  <2> SUFFICES ASSUME NEW q \in Process
               PROVE  (/\ Saving(q, "write") => /\ Exists(PreferencesTemporary)
                                                /\ open[q] = inodeAt[PreferencesTemporary]
                                                /\ data[open[q]] = Written(q)
                       /\ ~Saving(q, "write") => open[q] = 0
                       /\ save[q].step \in {"verify", "replace"} =>
                              Holds(PreferencesTemporary, Document(save[q].wanted)))'
      BY DEF TemporaryIsRight
  <2>1. CASE q = p
      BY <1>2, <1>3, <1>7, <2>1 DEF Saving
  <2>2. CASE q # p
    <3>1. /\ Saving(q, "write") => /\ Exists(PreferencesTemporary)
                                   /\ open[q] = inodeAt[PreferencesTemporary]
                                   /\ open[q] # 0
                                   /\ data[open[q]] = Written(q)
          /\ ~Saving(q, "write") => open[q] = 0
          /\ save[q].step \in {"verify", "replace"} =>
                 Holds(PreferencesTemporary, Document(save[q].wanted))
        BY DEF PreferencesInv, TemporaryIsRight, Exists
    <3>2. Saving(q, "write")' = Saving(q, "write") /\ Written(q)' = Written(q)
        BY <1>3, <1>6, <2>2 DEF Saving, Written
    <3> QED BY <1>3, <1>4, <1>6, <2>2, <3>1, <3>2, PreferencesPathFacts DEF Exists, Holds
  <2> QED BY <2>1, <2>2
<1>9. FutureIsKept'
    BY <1>2, <1>3, <1>4, PreferencesPathFacts DEF PreferencesInv, FutureIsKept
<1> QED BY <1>1, <1>2, <1>4, <1>5, <1>8, <1>9, PreferencesPathFacts
        DEF PreferencesInv, ReplacesWhole

LEMMA PreferencesStepsAreSafe ==
    PreferencesInv /\ [PreferencesNext]_preferencesVars =>
        PreferencesInv' /\ (ReplacesWhole \/ UNCHANGED preferencesVars)
<1> SUFFICES ASSUME PreferencesInv, [PreferencesNext]_preferencesVars
             PROVE  PreferencesInv' /\ (ReplacesWhole \/ UNCHANGED preferencesVars)
    OBVIOUS
<1>1. CASE PreferencesNext
    BY <1>1, BeginSaveIsSafe, CheckSaveIsSafe, LockPreferencesIsSafe, OpenTemporaryIsSafe,
       WriteTemporaryIsSafe, CloseTemporaryIsSafe, VerifyIsSafe, ReplaceIsSafe,
       SaveStepFailsIsSafe, DiscardIsSafe, UnlockIsSafe, PlayerDiesIsSafe
       DEF PreferencesNext
<1>2. CASE UNCHANGED preferencesVars
  <2>1. UNCHANGED <<save, inodeAt, data, open, offset>>
      BY <1>2 DEF preferencesVars, fileVars
  <2> QED BY <1>2, <2>1 DEF PreferencesInv, FilesOK, LockIsHeld, UnderLock, TemporaryIsRight,
              FutureIsKept, Written, Saving, Holds, Exists, Bytes
<1> QED BY <1>1, <1>2

(* saveUserPreferences: whoever saves, fails or dies at the same time, the *)
(* file changes only to all of what one save was asked for, and a file of  *)
(* a later version stays if it was there before the first save.            *)
THEOREM PreferencesReplaced ==
    PreferencesSpec => PreferencesAreReplacedWhole
<1>1. PreferencesInv /\ [PreferencesNext]_preferencesVars =>
          [Bytes(PreferencesFile)' # Bytes(PreferencesFile) =>
             /\ ~LoadPreferences.preserve
             /\ \E p \in Process : /\ Saving(p, "replace")
                                   /\ save'[p].result = "saved"
                                   /\ Holds(PreferencesFile, Document(save[p].wanted))']_preferencesVars
    BY PreferencesStepsAreSafe DEF ReplacesWhole
<1>2. PreferencesInv /\ [PreferencesNext]_preferencesVars => PreferencesInv'
    BY PreferencesStepsAreSafe
<1> QED BY <1>1, <1>2, PreferencesInitIsGood, PTL DEF PreferencesSpec, PreferencesAreReplacedWhole

-----------------------------------------------------------------------------
(* Media.  A chunk is of an artifact, or of the record or the provenance   *)
(* of what a source converts to, or it is what is left of a file.          *)
MediaChunk ==
    {Media(a) : a \in Artifact} \cup {Record(s, Convert[s]) : s \in Source}
    \cup {Provenance(s, Convert[s]) : s \in Source} \cup {Junk, Hole}

(* What importers write chunk by chunk.                                    *)
StorePaths == CachePaths \cup {Partial(path) : path \in CachePaths}

MediaFiles ==
    /\ FilesOK
    /\ data \in [Inode -> Seq(MediaChunk)]
    /\ \A q \in Process, f \in Path :
           open[q] # 0 /\ inodeAt[f] = open[q] => f \in StorePaths
    /\ \A a \in Artifact : Exists(OutputFile(a)) => Bytes(OutputFile(a)) = WholeOf(Media(a))
    /\ SidecarsAreWhole

KnownSteps == {"readCached", "promote", "promoteRename", "readBack", "publish",
               "publishRename", "store", "storeWrite", "storeRename"}
ReadySteps == {"publish", "publishRename", "store", "storeWrite", "storeRename"}

(* What an importer knows, step by step.                                   *)
ImportOK(r) ==
    /\ r \in [step : {"idle", "discard", "look", "readRecord", "convert"} \cup KnownSteps,
              source : Source \cup {"none"}, id : AssetIds \cup {""}, worker : BOOLEAN,
              goal : {"none", "output", "sidecar", "cached", "record"},
              artifact : SUBSET Artifact, bytes : Seq(MediaChunk), cached : BOOLEAN,
              result : {"none", "ok", "corrupt", "conflict", "identity", "io"}]
    /\ r.step # "idle" => r.source \in Source /\ r.result = "none"
    /\ r.result = "ok" => r.source \in Source
    /\ r.step \in KnownSteps => r.artifact = {Convert[r.source]}
    /\ r.step \in {"promote", "promoteRename", "readBack"} => r.goal = "output"
    /\ r.step \in {"publish", "publishRename"} =>
           r.goal = "output" \/ (r.goal = "sidecar" /\ r.id # "")
    /\ r.step \in {"store", "storeWrite", "storeRename"} => r.goal \in {"cached", "record"}
    /\ r.step \in ReadySteps => r.bytes = WholeOf(Media(Convert[r.source]))

(* The output of this import is in place.                                  *)
HasPublished(r) ==
    \/ r.step \in {"readBack", "store", "storeWrite", "storeRename"}
    \/ r.step \in {"publish", "publishRename"} /\ r.goal = "sidecar"
    \/ r.result = "ok"

(* What the file of this importer holds.                                   *)
OwnIsRight(r, bytes) ==
    /\ \/ r.step \in {"promote", "promoteRename"}
       \/ r.step = "publishRename" /\ r.goal = "output"
       => bytes = WholeOf(Media(Convert[r.source]))
    /\ r.step = "publishRename" /\ r.goal = "sidecar" =>
           bytes = WholeOf(Provenance(r.source, Convert[r.source]))

MediaInv ==
    /\ MediaFiles
    /\ import = [p \in Process |-> import[p]]
    /\ \A p \in Process :
           /\ ImportOK(import[p])
           /\ HasPublished(import[p]) => Exists(OutputFile(Convert[import[p].source]))
           /\ OwnIsRight(import[p], Bytes(Own(p)))
           /\ import[p].step = "storeWrite" => open[p] # 0

(* What a step of one importer may do to the files of the others.          *)
OthersKeep(p) ==
    /\ \A a \in Artifact : Exists(OutputFile(a)) => Exists(OutputFile(a))'
    /\ \A q \in Process \ {p} : Bytes(Own(q))' = Bytes(Own(q)) /\ open'[q] = open[q]

LEMMA MediaPathFacts ==
    /\ CachePaths \subseteq StorePaths /\ StorePaths \subseteq Path
    /\ \A a \in Artifact : OutputFile(a) \in Path \ StorePaths
    /\ \A id \in AssetIds : SidecarFile(id) \in Path \ StorePaths
    /\ \A p \in Process : Own(p) \in Path \ StorePaths
    /\ \A p : (\A a : Own(p) # OutputFile(a)) /\ (\A id : Own(p) # SidecarFile(id))
    /\ \A a, id : OutputFile(a) # SidecarFile(id)
    /\ \A p, q \in Process : p # q => Own(p) # Own(q)
    /\ \A a, b \in Artifact : a # b => OutputFile(a) # OutputFile(b)
    /\ \A i, j \in AssetIds : i # j => SidecarFile(i) # SidecarFile(j)
    /\ \A path \in CachePaths : Partial(path) \in StorePaths /\ Partial(path) # path
<1>1. ImporterPaths \subseteq Path
    BY ImporterPathsAssumption
<1>2. /\ CachePaths \subseteq StorePaths /\ StorePaths \subseteq Path
      /\ \A a \in Artifact : OutputFile(a) \in Path
      /\ \A id \in AssetIds : SidecarFile(id) \in Path
      /\ \A p \in Process : Own(p) \in Path
      /\ \A path \in CachePaths : Partial(path) \in StorePaths
    BY <1>1 DEF ImporterPaths, StorePaths, OutputPaths
<1>3. \A path \in StorePaths : path[1] \in {"record", "cached", "partial"}
    BY DEF StorePaths, CachePaths, RecordFile, CachedFile, Partial
<1>4. /\ \A a : OutputFile(a)[1] = "output" /\ OutputFile(a)[2] = a
      /\ \A id : SidecarFile(id)[1] = "sidecar" /\ SidecarFile(id)[2] = id
      /\ \A p : Own(p)[1] = "own" /\ Own(p)[2] = p
    BY DEF OutputFile, SidecarFile, Own
<1>5. \A path \in CachePaths : Partial(path) # path
  <2>1. \A path : Partial(path)[1] = "partial"
      BY DEF Partial
  <2>2. \A path \in CachePaths : path[1] \in {"record", "cached"}
      BY DEF CachePaths, RecordFile, CachedFile
  <2> QED BY <2>1, <2>2
<1> QED BY <1>2, <1>3, <1>4, <1>5

(* The invariant after a step, importer by importer.                       *)
LEMMA MediaInvIs ==
    ASSUME MediaFiles', import' = [q \in Process |-> import'[q]],
           \A q \in Process : \A s : s = import'[q] =>
               /\ ImportOK(s)
               /\ HasPublished(s) => inodeAt'[OutputFile(Convert[s.source])] # 0
               /\ OwnIsRight(s, Bytes(Own(q))')
               /\ s.step = "storeWrite" => open'[q] # 0
    PROVE  MediaInv'
<1>1. \A q \in Process :
          /\ ImportOK(import[q])'
          /\ HasPublished(import[q])' => Exists(OutputFile(Convert[import[q].source]))'
          /\ OwnIsRight(import[q], Bytes(Own(q)))'
          /\ (import[q].step = "storeWrite" => open[q] # 0)'
    BY DEF Exists, HasPublished, OwnIsRight, ImportOK
<1> QED BY <1>1 DEF MediaInv

(* The step of one importer preserves the invariant when its new record is *)
(* right and the files are.                                                *)
LEMMA ImporterKeeps ==
    ASSUME MediaInv, NEW p \in Process, NEW r, ImportOK(r),
           import' = [import EXCEPT ![p] = r],
           MediaFiles', OthersKeep(p),
           HasPublished(r) => Exists(OutputFile(Convert[r.source]))',
           OwnIsRight(r, Bytes(Own(p))'),
           r.step = "storeWrite" => open'[p] # 0
    PROVE  MediaInv'
<1>1. import' = [q \in Process |-> import'[q]] /\ import'[p] = r
      /\ \A q \in Process \ {p} : import'[q] = import[q]
    BY DEF MediaInv
<1>2. ASSUME NEW q \in Process, NEW s, s = import'[q]
      PROVE  /\ ImportOK(s)
             /\ HasPublished(s) => inodeAt'[OutputFile(Convert[s.source])] # 0
             /\ OwnIsRight(s, Bytes(Own(q))')
             /\ s.step = "storeWrite" => open'[q] # 0
  <2>1. CASE q = p
      BY <1>1, <1>2, <2>1 DEF Exists
  <2>2. CASE q # p
    <3>1. s = import[q] /\ Bytes(Own(q))' = Bytes(Own(q)) /\ open'[q] = open[q]
        BY <1>1, <1>2, <2>2 DEF OthersKeep
    <3>2. ImportOK(s) /\ OwnIsRight(s, Bytes(Own(q))) /\ (s.step = "storeWrite" => open[q] # 0)
        BY <3>1 DEF MediaInv
    <3>3. ASSUME HasPublished(s)
          PROVE  inodeAt'[OutputFile(Convert[s.source])] # 0
      <4>1. s.source \in Source /\ Exists(OutputFile(Convert[s.source]))
          BY <3>1, <3>2, <3>3 DEF MediaInv, HasPublished, ImportOK, KnownSteps
      <4>2. Convert[s.source] \in Artifact
          BY <4>1, ImporterAssumption
      <4> QED BY <4>1, <4>2 DEF OthersKeep, Exists
    <3> QED BY <3>1, <3>2, <3>3
  <2> QED BY <2>1, <2>2
<1> QED BY <1>1, <1>2, MediaInvIs

(* The files, step by step.                                                *)
LEMMA MediaFilesStay ==
    ASSUME MediaFiles, NEW p \in Process, FilesUnchanged
    PROVE  MediaFiles' /\ OthersKeep(p) /\ open' = open /\ (\A f : Bytes(f)' = Bytes(f))
           /\ (\A f : Exists(f)' <=> Exists(f))
<1>1. /\ inodeAt' = inodeAt /\ data' = data /\ open' = open /\ offset' = offset
    BY DEF FilesUnchanged, fileVars
<1>2. (\A f : Bytes(f)' = Bytes(f)) /\ (\A f : Exists(f)' <=> Exists(f))
    BY <1>1 DEF Bytes, Exists
<1>3. SidecarsAreWhole'
    BY <1>2 DEF MediaFiles, SidecarsAreWhole, Holds
<1> QED BY <1>1, <1>2, <1>3 DEF MediaFiles, FilesOK, OthersKeep, Exists

(* Nothing but files of the cache and temporary files changes.             *)
LEMMA OutputsStay ==
    ASSUME MediaFiles, NEW changed,
           \A f \in changed : f \in StorePaths \/ \E p \in Process : f = Own(p),
           \A f \in Path \ changed : inodeAt'[f] = inodeAt[f] /\ Bytes(f)' = Bytes(f),
           FilesOK', data' \in [Inode -> Seq(MediaChunk)],
           \A q \in Process, f \in Path :
               open'[q] # 0 /\ inodeAt'[f] = open'[q] => f \in StorePaths
    PROVE  MediaFiles' /\ \A a \in Artifact : Exists(OutputFile(a)) => Exists(OutputFile(a))'
<1>1. ASSUME NEW a \in Artifact
      PROVE  /\ inodeAt'[OutputFile(a)] = inodeAt[OutputFile(a)]
             /\ Bytes(OutputFile(a))' = Bytes(OutputFile(a))
  <2>1. OutputFile(a) \in Path \ changed
      BY MediaPathFacts
  <2> QED BY <2>1
<1>2. ASSUME NEW id \in AssetIds
      PROVE  /\ inodeAt'[SidecarFile(id)] = inodeAt[SidecarFile(id)]
             /\ Bytes(SidecarFile(id))' = Bytes(SidecarFile(id))
  <2>1. SidecarFile(id) \in Path \ changed
      BY MediaPathFacts
  <2> QED BY <2>1
<1>3. SidecarsAreWhole'
    BY <1>2 DEF MediaFiles, SidecarsAreWhole, Holds, Exists
<1> QED BY <1>1, <1>3 DEF MediaFiles, Exists

LEMMA MediaRemove ==
    ASSUME MediaFiles, NEW p \in Process, NEW f \in StorePaths \cup {Own(p)}, RemoveFile(p, f)
    PROVE  MediaFiles' /\ OthersKeep(p)
<1>1. f \in Path /\ FilesOK /\ data \in [Inode -> Seq(MediaChunk)]
    BY MediaPathFacts DEF MediaFiles
<1>2. /\ FilesOK' /\ ~Exists(f)'
      /\ open' = [open EXCEPT ![p] = 0] /\ offset' = [offset EXCEPT ![p] = 0]
      /\ \A g \in Path \ {f} : inodeAt'[g] = inodeAt[g] /\ Bytes(g)' = Bytes(g)
    BY <1>1, RemoveFileGives
<1>3. data' \in [Inode -> Seq(MediaChunk)]
    BY <1>1, ChunksStay DEF RemoveFile
<1>4. \A q \in Process : open'[q] = IF q = p THEN 0 ELSE open[q]
    BY <1>1, <1>2 DEF FilesOK
<1>5. \A q \in Process, g \in Path :
          open'[q] # 0 /\ inodeAt'[g] = open'[q] => g \in StorePaths
    BY <1>2, <1>4 DEF MediaFiles, Exists
<1>6. MediaFiles' /\ \A a \in Artifact : Exists(OutputFile(a)) => Exists(OutputFile(a))'
    BY <1>2, <1>3, <1>5, OutputsStay
<1>7. \A q \in Process \ {p} : Own(q) \in Path \ {f}
    BY MediaPathFacts
<1> QED BY <1>2, <1>4, <1>6, <1>7 DEF OthersKeep

LEMMA MediaDeposit ==
    ASSUME MediaFiles, NEW p \in Process, NEW bytes \in Seq(MediaChunk),
           Deposit(p, Own(p), bytes)
    PROVE  MediaFiles' /\ OthersKeep(p) /\ Bytes(Own(p))' = bytes
<1>1. Own(p) \in Path \ StorePaths /\ FilesOK /\ data \in [Inode -> Seq(MediaChunk)]
    BY MediaPathFacts DEF MediaFiles
<1> DEFINE f == Own(p)
<1> HIDE DEF f
<1>2. PICK g \in Path : g = Own(p) /\ Deposit(p, g, bytes)
    BY <1>1
<1>3. /\ FilesOK' /\ Exists(g)' /\ Bytes(g)' = bytes /\ UNCHANGED <<open, offset>>
      /\ Exists(g) => inodeAt'[g] = inodeAt[g]
      /\ ~Exists(g) => \A q \in Process : open[q] # inodeAt'[g]
      /\ \A h \in Path \ {g} : inodeAt'[h] = inodeAt[h] /\ Bytes(h)' = Bytes(h)
    BY <1>1, <1>2, DepositGives
<1>4. data' \in [Inode -> Seq(MediaChunk)]
    BY <1>1, <1>2, ChunksStay
<1>5. \A q \in Process, h \in Path :
          open'[q] # 0 /\ inodeAt'[h] = open'[q] => h \in StorePaths
    BY <1>1, <1>2, <1>3 DEF MediaFiles
<1>6. MediaFiles' /\ \A a \in Artifact : Exists(OutputFile(a)) => Exists(OutputFile(a))'
  <2>1. \A h \in {g} : h \in StorePaths \/ \E q \in Process : h = Own(q)
      BY <1>2
  <2> QED BY <1>3, <1>4, <1>5, <2>1, OutputsStay
<1>7. \A q \in Process \ {p} : Own(q) \in Path \ {g}
    BY <1>2, MediaPathFacts
<1> QED BY <1>2, <1>3, <1>6, <1>7 DEF OthersKeep

(* The file of an importer becomes an output file or a sidecar.            *)
LEMMA MediaPublish ==
    ASSUME MediaFiles, NEW p \in Process, NEW f, RenameFile(p, Own(p), f),
           \/ \E a \in Artifact : f = OutputFile(a) /\ Bytes(Own(p)) = WholeOf(Media(a))
           \/ \E id \in AssetIds, s \in Source :
                  f = SidecarFile(id) /\ Bytes(Own(p)) = WholeOf(Provenance(s, Convert[s]))
    PROVE  MediaFiles' /\ OthersKeep(p) /\ Exists(f)'
<1>1. /\ f \in Path \ StorePaths /\ Own(p) \in Path \ StorePaths /\ Own(p) # f
      /\ FilesOK /\ data \in [Inode -> Seq(MediaChunk)]
    BY MediaPathFacts DEF MediaFiles
<1>2. PICK own \in Path : own = Own(p)
    BY <1>1
<1>3. /\ FilesOK' /\ ~Exists(own)' /\ inodeAt'[f] = inodeAt[own] /\ Bytes(f)' = Bytes(own)
      /\ open' = [open EXCEPT ![p] = 0]
      /\ \A g \in Path \ {own, f} : inodeAt'[g] = inodeAt[g] /\ Bytes(g)' = Bytes(g)
    BY <1>1, <1>2, RenameFileGives
<1>4. Exists(own)
  <2>1. Bytes(own) # <<>>
      BY <1>2 DEF WholeOf
  <2> QED BY <2>1 DEF Bytes
<1>5. data' \in [Inode -> Seq(MediaChunk)]
    BY <1>1, ChunksStay DEF RenameFile
<1>6. \A q \in Process : open'[q] = IF q = p THEN 0 ELSE open[q]
    BY <1>1, <1>3 DEF FilesOK
<1>7. \A q \in Process, g \in Path :
          open'[q] # 0 /\ inodeAt'[g] = open'[q] => g \in StorePaths
    BY <1>1, <1>2, <1>3, <1>6 DEF MediaFiles, Exists
<1>8. \A a \in Artifact : /\ Exists(OutputFile(a)) => Exists(OutputFile(a))'
                          /\ Exists(OutputFile(a))' =>
                                 Bytes(OutputFile(a))' = WholeOf(Media(a))
  <2> SUFFICES ASSUME NEW a \in Artifact
               PROVE  /\ Exists(OutputFile(a)) => Exists(OutputFile(a))'
                      /\ Exists(OutputFile(a))' =>
                             Bytes(OutputFile(a))' = WholeOf(Media(a))
      OBVIOUS
  <2>1. CASE f = OutputFile(a)
    <3>1. Bytes(own) = WholeOf(Media(a))
        BY <1>2, <2>1, MediaPathFacts
    <3> QED BY <1>3, <1>4, <2>1, <3>1 DEF Exists
  <2>2. CASE f # OutputFile(a)
    <3>1. OutputFile(a) \in Path \ {own, f}
        BY <1>2, <2>2, MediaPathFacts
    <3> QED BY <1>3, <3>1 DEF MediaFiles, Exists
  <2> QED BY <2>1, <2>2
<1>9. SidecarsAreWhole'
  <2> SUFFICES ASSUME NEW id \in AssetIds, Exists(SidecarFile(id))'
               PROVE  \E s \in Source : Bytes(SidecarFile(id))' = WholeOf(Provenance(s, Convert[s]))
      BY DEF SidecarsAreWhole, Holds
  <2>1. CASE f = SidecarFile(id)
    <3>1. PICK s \in Source : Bytes(own) = WholeOf(Provenance(s, Convert[s]))
        BY <1>2, <2>1, MediaPathFacts
    <3> QED BY <1>3, <2>1, <3>1
  <2>2. CASE f # SidecarFile(id)
    <3>1. SidecarFile(id) \in Path \ {own, f}
        BY <1>2, <2>2, MediaPathFacts
    <3> QED BY <1>3, <3>1 DEF MediaFiles, SidecarsAreWhole, Holds, Exists
  <2> QED BY <2>1, <2>2
<1>10. \A q \in Process \ {p} : Own(q) \in Path \ {own, f}
    BY <1>2, MediaPathFacts
<1> QED BY <1>3, <1>4, <1>5, <1>6, <1>7, <1>8, <1>9, <1>10
        DEF MediaFiles, OthersKeep, Exists

LEMMA MediaOpen ==
    ASSUME MediaFiles, NEW p \in Process, NEW f \in StorePaths, OpenTruncated(p, f)
    PROVE  MediaFiles' /\ OthersKeep(p) /\ open'[p] # 0
<1>1. f \in Path /\ FilesOK /\ data \in [Inode -> Seq(MediaChunk)]
    BY MediaPathFacts DEF MediaFiles
<1>2. /\ FilesOK' /\ Exists(f)' /\ open'[p] = inodeAt'[f]
      /\ Exists(f) => inodeAt'[f] = inodeAt[f]
      /\ ~Exists(f) => \A q \in Process : open[q] # inodeAt'[f]
      /\ \A g \in Path \ {f} : inodeAt'[g] = inodeAt[g] /\ Bytes(g)' = Bytes(g)
      /\ \A q \in Process \ {p} : open'[q] = open[q] /\ offset'[q] = offset[q]
    BY <1>1, OpenTruncatedGives
<1>3. data' \in [Inode -> Seq(MediaChunk)]
    BY <1>1, ChunksStay
<1>4. \A q \in Process, g \in Path :
          open'[q] # 0 /\ inodeAt'[g] = open'[q] => g \in StorePaths
  <2> SUFFICES ASSUME NEW q \in Process, NEW g \in Path \ {f},
                      open'[q] # 0, inodeAt'[g] = open'[q]
               PROVE  g \in StorePaths
      OBVIOUS
  <2>1. CASE q = p
      BY <1>1, <1>2, <2>1 DEF FilesOK, Exists
  <2>2. CASE q # p
      BY <1>2, <2>2 DEF MediaFiles
  <2> QED BY <2>1, <2>2
<1>5. MediaFiles' /\ \A a \in Artifact : Exists(OutputFile(a)) => Exists(OutputFile(a))'
    BY <1>2, <1>3, <1>4, OutputsStay
<1>6. \A q \in Process \ {p} : Own(q) \in Path \ {f}
    BY MediaPathFacts
<1> QED BY <1>2, <1>5, <1>6 DEF OthersKeep, Exists

LEMMA MediaWrite ==
    ASSUME MediaFiles, NEW p \in Process, open[p] # 0, NEW content \in MediaChunk,
           WriteChunk(p, content)
    PROVE  MediaFiles' /\ OthersKeep(p) /\ open' = open /\ Bytes(Own(p))' = Bytes(Own(p))
<1>1. FilesOK /\ data \in [Inode -> Seq(MediaChunk)] /\ Hole \in MediaChunk
    BY DEF MediaFiles, MediaChunk
<1>2. /\ FilesOK' /\ UNCHANGED <<inodeAt, open>>
      /\ \A f \in Path : inodeAt[f] # open[p] => Bytes(f)' = Bytes(f)
    BY <1>1, WriteChunkGives
<1>3. data' \in [Inode -> Seq(MediaChunk)]
    BY <1>1, WrittenChunksStay
<1>4. \A f \in Path \ StorePaths : inodeAt'[f] = inodeAt[f] /\ Bytes(f)' = Bytes(f)
    BY <1>2 DEF MediaFiles
<1>5. MediaFiles' /\ \A a \in Artifact : Exists(OutputFile(a)) => Exists(OutputFile(a))'
  <2>1. \A q \in Process, f \in Path :
            open'[q] # 0 /\ inodeAt'[f] = open'[q] => f \in StorePaths
      BY <1>2 DEF MediaFiles
  <2> QED BY <1>2, <1>3, <1>4, <2>1, OutputsStay
<1> QED BY <1>2, <1>4, <1>5, MediaPathFacts DEF OthersKeep

LEMMA MediaStore ==
    ASSUME MediaFiles, NEW p \in Process, NEW from \in StorePaths, NEW to \in StorePaths,
           from # to, RenameFile(p, from, to)
    PROVE  MediaFiles' /\ OthersKeep(p)
<1>1. /\ from \in Path /\ to \in Path /\ FilesOK /\ data \in [Inode -> Seq(MediaChunk)]
    BY MediaPathFacts DEF MediaFiles
<1>2. /\ FilesOK' /\ open' = [open EXCEPT ![p] = 0]
      /\ \A g \in Path \ {from, to} : inodeAt'[g] = inodeAt[g] /\ Bytes(g)' = Bytes(g)
    BY <1>1, RenameFileGives
<1>3. data' \in [Inode -> Seq(MediaChunk)]
    BY <1>1, ChunksStay DEF RenameFile
<1>4. \A q \in Process : open'[q] = IF q = p THEN 0 ELSE open[q]
    BY <1>1, <1>2 DEF FilesOK
<1>5. \A q \in Process, g \in Path :
          open'[q] # 0 /\ inodeAt'[g] = open'[q] => g \in StorePaths
    BY <1>2, <1>4 DEF MediaFiles
<1>6. MediaFiles' /\ \A a \in Artifact : Exists(OutputFile(a)) => Exists(OutputFile(a))'
  <2>1. \A f \in {from, to} : f \in StorePaths
      OBVIOUS
  <2> QED BY <1>2, <1>3, <1>5, <2>1, OutputsStay
<1>7. \A q \in Process : Own(q) \in Path \ {from, to}
    BY MediaPathFacts
<1> QED BY <1>2, <1>4, <1>6, <1>7 DEF OthersKeep

-----------------------------------------------------------------------------
LEMMA ImportFacts ==
    ASSUME MediaInv, NEW p \in Process
    PROVE  /\ MediaFiles /\ ImportOK(import[p])
           /\ import[p].step # "idle" => SourceOf(p) \in Source /\ Convert[SourceOf(p)] \in Artifact
           /\ import[p].step \in KnownSteps =>
                  SourceOf(p) \in Source /\ Convert[SourceOf(p)] \in Artifact
                  /\ ArtifactOf(p) = Convert[SourceOf(p)]
<1>1. MediaFiles /\ ImportOK(import[p])
    BY DEF MediaInv
<1>2. import[p].step # "idle" => SourceOf(p) \in Source /\ Convert[SourceOf(p)] \in Artifact
    BY <1>1, ImporterAssumption DEF ImportOK, SourceOf
<1>3. ASSUME import[p].step \in KnownSteps
      PROVE  ArtifactOf(p) = Convert[SourceOf(p)] /\ import[p].step # "idle"
    BY <1>1, <1>3 DEF ImportOK, ArtifactOf, SourceOf, KnownSteps
<1> QED BY <1>1, <1>2, <1>3

LEMMA NoImportIsOK ==
    ASSUME NEW why \in {"none", "corrupt", "conflict", "identity", "io"}, NEW bytes
    PROVE  \A r \in {NoImport, [NoImport EXCEPT !.result = why]} :
               ImportOK(r) /\ ~HasPublished(r) /\ OwnIsRight(r, bytes) /\ r.step # "storeWrite"
<1>1. <<>> \in Seq(MediaChunk)
    OBVIOUS
<1>2. ASSUME NEW r, r = NoImport
      PROVE  ImportOK(r) /\ ~HasPublished(r) /\ OwnIsRight(r, bytes) /\ r.step # "storeWrite"
    BY <1>1, <1>2 DEF NoImport, ImportOK, HasPublished, OwnIsRight, KnownSteps, ReadySteps
<1>3. ASSUME NEW r, r = [NoImport EXCEPT !.result = why]
      PROVE  ImportOK(r) /\ ~HasPublished(r) /\ OwnIsRight(r, bytes) /\ r.step # "storeWrite"
    BY <1>1, <1>3 DEF NoImport, ImportOK, HasPublished, OwnIsRight, KnownSteps, ReadySteps
<1> QED BY <1>2, <1>3

LEMMA ImportFailsKeeps ==
    ASSUME MediaInv, NEW p \in Process, NEW why \in {"none", "corrupt", "conflict", "identity", "io"},
           ImportFails(p, why) \/ import' = [import EXCEPT ![p] = NoImport],
           MediaFiles', OthersKeep(p)
    PROVE  MediaInv'
<1>1. PICK r \in {NoImport, [NoImport EXCEPT !.result = why]} :
          import' = [import EXCEPT ![p] = r]
    BY DEF ImportFails
<1>2. ImportOK(r) /\ ~HasPublished(r) /\ OwnIsRight(r, Bytes(Own(p))') /\ r.step # "storeWrite"
    BY NoImportIsOK
<1> QED BY <1>1, <1>2, ImporterKeeps

(* The next steps of an import that knows no artifact yet.                 *)
LEMMA ImportGoesKeeps ==
    ASSUME MediaInv, NEW p \in Process, import[p].step \in {"discard", "look"},
           NEW step \in {"look", "readRecord", "convert"}, ImportGoes(p, step),
           MediaFiles', OthersKeep(p)
    PROVE  MediaInv'
<1> DEFINE r == [import[p] EXCEPT !.step = step]
<1>1. import' = [import EXCEPT ![p] = r]
    BY DEF ImportGoes
<1>2. ImportOK(import[p])
    BY DEF MediaInv
<1>3. ImportOK(r) /\ ~HasPublished(r) /\ OwnIsRight(r, Bytes(Own(p))') /\ r.step # "storeWrite"
    BY <1>2 DEF ImportOK, HasPublished, OwnIsRight, KnownSteps, ReadySteps
<1> HIDE DEF r
<1> QED BY <1>1, <1>3, ImporterKeeps

(* An import that knows its artifact goes on with the same goal.           *)
LEMMA ImportGoesOnKeeps ==
    ASSUME MediaInv, NEW p \in Process, NEW step, ImportGoes(p, step),
           \/ import[p].step = "promote" /\ step = "promoteRename"
           \/ import[p].step \in {"promote", "promoteRename"} /\ step = "readBack"
              /\ inodeAt'[OutputFile(Convert[SourceOf(p)])] # 0
           \/ import[p].step = "publish" /\ step = "publishRename"
           \/ import[p].step = "store" /\ step = "storeWrite" /\ open'[p] # 0
           \/ import[p].step = "storeWrite" /\ step = "storeRename",
           MediaFiles', OthersKeep(p),
           OwnIsRight([import[p] EXCEPT !.step = step], Bytes(Own(p))')
    PROVE  MediaInv'
<1> DEFINE r == [import[p] EXCEPT !.step = step]
<1>1. import' = [import EXCEPT ![p] = r]
    BY DEF ImportGoes
<1>2. ImportOK(import[p])
    BY DEF MediaInv
<1>3. ImportOK(r) /\ (r.step = "storeWrite" => open'[p] # 0)
    BY <1>2 DEF ImportOK, KnownSteps, ReadySteps
<1>4. ASSUME HasPublished(r)
      PROVE  inodeAt'[OutputFile(Convert[r.source])] # 0
  <2>1. r.source = SourceOf(p) /\ Convert[SourceOf(p)] \in Artifact
      BY <1>2, ImportFacts DEF ImportOK, SourceOf
  <2>2. CASE step = "readBack"
      BY <2>1, <2>2
  <2>3. CASE step # "readBack"
    <3>1. HasPublished(import[p])
        BY <1>2, <1>4, <2>3 DEF HasPublished, ImportOK
    <3>2. Exists(OutputFile(Convert[SourceOf(p)]))
        BY <3>1 DEF MediaInv, SourceOf
    <3> QED BY <2>1, <3>2 DEF OthersKeep, Exists
  <2> QED BY <2>2, <2>3
<1>5. OwnIsRight(r, Bytes(Own(p))')
    OBVIOUS
<1> HIDE DEF r
<1> QED BY <1>1, <1>3, <1>4, <1>5, ImporterKeeps DEF Exists

LEMMA ProceedsKeeps ==
    ASSUME MediaInv, NEW p \in Process, Proceeds(p),
           import[p].step \in {"publish", "publishRename", "store", "storeRename"},
           import[p].goal = "output" => inodeAt'[OutputFile(Convert[SourceOf(p)])] # 0,
           MediaFiles', OthersKeep(p)
    PROVE  MediaInv'
<1> DEFINE r == IF NextGoal(p) = "none"
                THEN [NoImport EXCEPT !.source = SourceOf(p), !.result = "ok"]
                ELSE [import[p] EXCEPT !.goal = NextGoal(p),
                        !.step = IF NextGoal(p) = "sidecar" THEN "publish" ELSE "store"]
<1>1. import' = [import EXCEPT ![p] = r]
    BY DEF Proceeds
<1>2. ImportOK(import[p])
    BY DEF MediaInv
<1>3. /\ NextGoal(p) \in {"none", "sidecar", "cached", "record"}
      /\ NextGoal(p) = "sidecar" => import[p].id # ""
    BY DEF NextGoal
<1>4. SourceOf(p) \in Source /\ Convert[SourceOf(p)] \in Artifact /\ r.source = SourceOf(p)
    BY <1>2, ImportFacts DEF SourceOf, NoImport, ImportOK
<1>5. ImportOK(r) /\ r.step \in {"idle", "publish", "store"}
  <2>1. CASE NextGoal(p) = "none"
    <3>1. <<>> \in Seq(MediaChunk)
        OBVIOUS
    <3> QED BY <1>4, <2>1, <3>1 DEF NoImport, ImportOK, KnownSteps, ReadySteps
  <2>2. CASE NextGoal(p) # "none"
      BY <1>2, <1>3, <2>2, ZenonT(60) DEF ImportOK, KnownSteps, ReadySteps
  <2> QED BY <2>1, <2>2
<1>6. inodeAt'[OutputFile(Convert[r.source])] # 0
  <2>1. CASE import[p].goal = "output"
      BY <1>4, <2>1
  <2>2. CASE import[p].goal # "output"
    <3>1. HasPublished(import[p])
        BY <1>2, <2>2 DEF HasPublished, ImportOK
    <3>2. Exists(OutputFile(Convert[SourceOf(p)]))
        BY <3>1 DEF MediaInv, SourceOf
    <3> QED BY <1>4, <3>2 DEF OthersKeep, Exists
  <2> QED BY <2>1, <2>2
<1> HIDE DEF r
<1>7. OwnIsRight(r, Bytes(Own(p))') /\ r.step # "storeWrite"
    BY <1>5 DEF OwnIsRight
<1> QED BY <1>1, <1>5, <1>6, <1>7, ImporterKeeps DEF Exists

-----------------------------------------------------------------------------
LEMMA BeginImportIsSafe ==
    ASSUME MediaInv, NEW p \in Process, NEW a \in ImportRequests, BeginImport(p, a)
    PROVE  MediaInv'
<1> DEFINE r == [NoImport EXCEPT !.source = a.source, !.id = a.id, !.worker = a.worker,
                                 !.step = IF a.rebuild THEN "discard" ELSE "look"]
<1>1. import' = [import EXCEPT ![p] = r] /\ FilesUnchanged
    BY DEF BeginImport
<1>2. a.source \in Source /\ a.id \in AssetIds \cup {""} /\ a.worker \in BOOLEAN
    BY ImporterAssumption DEF AssetIds
<1>3. <<>> \in Seq(MediaChunk)
    OBVIOUS
<1>4. ImportOK(r) /\ ~HasPublished(r) /\ OwnIsRight(r, Bytes(Own(p))') /\ r.step # "storeWrite"
    BY <1>2, <1>3 DEF NoImport, ImportOK, HasPublished, OwnIsRight, KnownSteps, ReadySteps
<1> HIDE DEF r
<1>5. MediaFiles' /\ OthersKeep(p)
    BY <1>1, MediaFilesStay DEF MediaInv
<1> QED BY <1>1, <1>4, <1>5, ImporterKeeps

LEMMA DiscardRecordIsSafe ==
    ASSUME MediaInv, NEW p \in Process, DiscardRecord(p)
    PROVE  MediaInv'
<1>1. import[p].step = "discard" /\ ImportGoes(p, "look")
    BY DEF DiscardRecord, Importing
<1>2. SourceOf(p) \in Source
    BY <1>1, ImportFacts
<1>3. RecordFile(SourceOf(p)) \in StorePaths
    BY <1>2, MediaPathFacts DEF CachePaths
<1>4. MediaFiles' /\ OthersKeep(p)
    BY <1>3, MediaRemove DEF DiscardRecord, MediaInv
<1> QED BY <1>1, <1>4, ImportGoesKeeps

LEMMA LookForRecordIsSafe ==
    ASSUME MediaInv, NEW p \in Process, LookForRecord(p)
    PROVE  MediaInv'
<1>1. import[p].step = "look" /\ FilesUnchanged
      /\ (ImportGoes(p, "readRecord") \/ ImportGoes(p, "convert"))
    BY DEF LookForRecord, Importing
<1>2. MediaFiles' /\ OthersKeep(p)
    BY <1>1, MediaFilesStay DEF MediaInv
<1> QED BY <1>1, <1>2, ImportGoesKeeps

(* A record that is decoded for a source names what it converts to.        *)
LEMMA RecordedIsRight ==
    ASSUME MediaFiles, NEW path \in Path, NEW s \in Source, RecordedFor(s, Bytes(path)) # {}
    PROVE  RecordedFor(s, Bytes(path)) = {Convert[s]}
<1> SUFFICES ASSUME NEW a \in Artifact, Bytes(path) = WholeOf(Record(s, a))
             PROVE  a = Convert[s]
    BY DEF RecordedFor
<1> DEFINE bytes == Bytes(path)
<1>1. bytes \in Seq(MediaChunk)
    BY DEF Bytes, Exists, MediaFiles, FilesOK
<1>2. Len(bytes) = 2 /\ bytes[1] = Record(s, a)
    BY DEF WholeOf
<1>3. Record(s, a) \in MediaChunk
    BY <1>1, <1>2
<1>4. PICK t \in Source : Record(s, a) = Record(t, Convert[t])
    BY <1>3 DEF MediaChunk, Record, Media, Provenance, Junk, Hole
<1> QED BY <1>4 DEF Record

LEMMA NamedIsRight ==
    ASSUME NEW bytes, NEW a, Named(bytes) = {a}
    PROVE  bytes = WholeOf(Media(a))
BY DEF Named

LEMMA ReadRecordIsSafe ==
    ASSUME MediaInv, NEW p \in Process, ReadRecord(p)
    PROVE  MediaInv'
<1> DEFINE found == RecordedFor(SourceOf(p), Bytes(RecordFile(SourceOf(p))))
           r == [import[p] EXCEPT !.step = "readCached", !.artifact = found]
<1>1. import[p].step = "readRecord" /\ FilesUnchanged
    BY DEF ReadRecord, Importing
<1>2. /\ ImportOK(import[p]) /\ MediaFiles
      /\ SourceOf(p) \in Source /\ Convert[SourceOf(p)] \in Artifact
    BY <1>1, ImportFacts
<1>3. MediaFiles' /\ OthersKeep(p)
    BY <1>1, <1>2, MediaFilesStay
<1>4. CASE found = {}
    BY <1>3, <1>4, ImportFailsKeeps DEF ReadRecord
<1>5. CASE found # {}
  <2>1. import' = [import EXCEPT ![p] = r]
      BY <1>5 DEF ReadRecord
  <2>2. RecordFile(SourceOf(p)) \in Path
      BY <1>2, MediaPathFacts DEF CachePaths
  <2>3. found = {Convert[import[p].source]} /\ Convert[import[p].source] \in Artifact
      BY <1>2, <1>5, <2>2, RecordedIsRight DEF SourceOf
  <2> HIDE DEF found
  <2>4. ImportOK(r) /\ ~HasPublished(r) /\ OwnIsRight(r, Bytes(Own(p))') /\ r.step # "storeWrite"
      BY <1>1, <1>2, <2>3 DEF ImportOK, HasPublished, OwnIsRight, KnownSteps, ReadySteps
  <2> HIDE DEF r
  <2> QED BY <1>3, <2>1, <2>4, ImporterKeeps
<1> QED BY <1>4, <1>5

LEMMA WholeIsBytes ==
    ASSUME NEW content \in MediaChunk
    PROVE  WholeOf(content) \in Seq(MediaChunk) /\ WholeOf(content)[1] = content
BY DEF WholeOf

LEMMA MediaContents ==
    ASSUME NEW s \in Source
    PROVE  /\ Media(Convert[s]) \in MediaChunk /\ Record(s, Convert[s]) \in MediaChunk
           /\ Provenance(s, Convert[s]) \in MediaChunk
BY ImporterAssumption DEF MediaChunk

(* The artifact is there: its output is published.                         *)
LEMMA HasMediaKeeps ==
    ASSUME MediaInv, NEW p \in Process, import[p].step \in {"readCached", "convert"},
           NEW r, import' = [import EXCEPT ![p] = r],
           NEW cached \in BOOLEAN,
           r = [import[p] EXCEPT !.step = "publish", !.goal = "output", !.cached = cached,
                    !.artifact = {Convert[SourceOf(p)]},
                    !.bytes = WholeOf(Media(Convert[SourceOf(p)]))],
           MediaFiles', OthersKeep(p)
    PROVE  MediaInv'
<1>1. /\ ImportOK(import[p]) /\ SourceOf(p) \in Source /\ Convert[SourceOf(p)] \in Artifact
      /\ SourceOf(p) = import[p].source
    BY ImportFacts DEF SourceOf
<1>2. WholeOf(Media(Convert[SourceOf(p)])) \in Seq(MediaChunk)
    BY <1>1, MediaContents, WholeIsBytes
<1>3. ImportOK(r) /\ ~HasPublished(r) /\ OwnIsRight(r, Bytes(Own(p))') /\ r.step # "storeWrite"
    BY <1>1, <1>2 DEF ImportOK, HasPublished, OwnIsRight, KnownSteps, ReadySteps
<1>4. import' = [import EXCEPT ![p] = r]
    OBVIOUS
<1> QED BY <1>3, <1>4, ImporterKeeps

LEMMA ReadCachedIsSafe ==
    ASSUME MediaInv, NEW p \in Process, ReadCached(p)
    PROVE  MediaInv'
<1> DEFINE bytes == Bytes(CachedFile(ArtifactOf(p)))
           r == [import[p] EXCEPT !.step = "publish", !.goal = "output", !.bytes = bytes,
                                  !.cached = TRUE]
<1>1. import[p].step = "readCached" /\ FilesUnchanged
    BY DEF ReadCached, Importing
<1>2. MediaFiles' /\ OthersKeep(p)
    BY <1>1, MediaFilesStay DEF MediaInv
<1>3. import[p].artifact = {Convert[SourceOf(p)]} /\ ImportOK(import[p])
    BY <1>1, ImportFacts DEF ImportOK, SourceOf, KnownSteps
<1>4. CASE Named(bytes) # import[p].artifact
    BY <1>2, <1>4, ImportFailsKeeps DEF ReadCached
<1>5. CASE Named(bytes) = import[p].artifact
  <2>1. import' = [import EXCEPT ![p] = r]
      BY <1>5 DEF ReadCached
  <2>2. bytes = WholeOf(Media(Convert[SourceOf(p)]))
      BY <1>3, <1>5, NamedIsRight
  <2> HIDE DEF bytes
  <2>3. r = [import[p] EXCEPT !.step = "publish", !.goal = "output", !.cached = TRUE,
                !.artifact = {Convert[SourceOf(p)]},
                !.bytes = WholeOf(Media(Convert[SourceOf(p)]))]
      BY <1>3, <2>2 DEF ImportOK
  <2> HIDE DEF r
  <2> QED BY <1>1, <1>2, <2>1, <2>3, HasMediaKeeps
<1> QED BY <1>4, <1>5

LEMMA ConvertInProcessIsSafe ==
    ASSUME MediaInv, NEW p \in Process, ConvertInProcess(p)
    PROVE  MediaInv'
<1> DEFINE r == [import[p] EXCEPT !.step = "publish", !.goal = "output",
                    !.artifact = {Convert[SourceOf(p)]},
                    !.bytes = WholeOf(Media(Convert[SourceOf(p)]))]
<1>1. import[p].step = "convert" /\ FilesUnchanged /\ import' = [import EXCEPT ![p] = r]
    BY DEF ConvertInProcess, Importing
<1>2. MediaFiles' /\ OthersKeep(p)
    BY <1>1, MediaFilesStay DEF MediaInv
<1>3. /\ import[p].cached \in BOOLEAN
      /\ r = [import[p] EXCEPT !.step = "publish", !.goal = "output", !.cached = import[p].cached,
                !.artifact = {Convert[SourceOf(p)]},
                !.bytes = WholeOf(Media(Convert[SourceOf(p)]))]
    BY ImportFacts DEF ImportOK
<1> HIDE DEF r
<1> QED BY <1>1, <1>2, <1>3, HasMediaKeeps

LEMMA ConvertInWorkerIsSafe ==
    ASSUME MediaInv, NEW p \in Process, ConvertInWorker(p)
    PROVE  MediaInv'
<1> DEFINE media == WholeOf(Media(Convert[SourceOf(p)]))
           r == [import[p] EXCEPT !.step = "promote", !.goal = "output",
                                  !.artifact = {Convert[SourceOf(p)]}]
<1>1. /\ import[p].step = "convert" /\ import' = [import EXCEPT ![p] = r]
      /\ Deposit(p, Own(p), media)
    BY DEF ConvertInWorker, Importing
<1>2. /\ ImportOK(import[p]) /\ SourceOf(p) \in Source /\ Convert[SourceOf(p)] \in Artifact
      /\ SourceOf(p) = import[p].source
    BY <1>1, ImportFacts DEF SourceOf
<1>3. PICK bytes \in Seq(MediaChunk) : bytes = media
    BY <1>2, MediaContents, WholeIsBytes
<1>4. MediaFiles' /\ OthersKeep(p) /\ Bytes(Own(p))' = bytes
    BY <1>1, <1>3, MediaDeposit DEF MediaInv
<1>5. ImportOK(r) /\ ~HasPublished(r) /\ r.step = "promote" /\ r.source = SourceOf(p)
    BY <1>1, <1>2 DEF ImportOK, HasPublished, KnownSteps, ReadySteps
<1>6. OwnIsRight(r, Bytes(Own(p))')
    BY <1>3, <1>4, <1>5 DEF OwnIsRight
<1> HIDE DEF r
<1> QED BY <1>1, <1>4, <1>5, <1>6, ImporterKeeps

(* Where the file of a goal is, and what goes into it.                     *)
LEMMA GoalFacts ==
    ASSUME MediaInv, NEW p \in Process, import[p].step \in KnownSteps,
           import[p].goal # "none"
    PROVE  LET s == SourceOf(p)
           IN  /\ import[p].goal = "output" => Destination(p) = OutputFile(Convert[s])
               /\ import[p].goal = "sidecar" => Destination(p) = SidecarFile(import[p].id)
               /\ import[p].goal \in {"cached", "record"} => Destination(p) \in CachePaths
               /\ import[p].step \in ReadySteps =>
                      \E content \in MediaChunk :
                          /\ Payload(p) = WholeOf(content)
                          /\ import[p].goal = "output" => content = Media(Convert[s])
                          /\ import[p].goal = "sidecar" => content = Provenance(s, Convert[s])
<1> DEFINE s == SourceOf(p)
<1>1. s \in Source /\ Convert[s] \in Artifact /\ ArtifactOf(p) = Convert[s] /\ ImportOK(import[p])
    BY ImportFacts
<1>2. import[p].goal \in {"output", "sidecar", "cached", "record"}
    BY <1>1 DEF ImportOK
<1>3. /\ Media(Convert[s]) \in MediaChunk /\ Record(s, Convert[s]) \in MediaChunk
      /\ Provenance(s, Convert[s]) \in MediaChunk
    BY <1>1, MediaContents
<1>4. RecordFile(s) \in CachePaths /\ CachedFile(Convert[s]) \in CachePaths
    BY <1>1 DEF CachePaths
<1>5. import[p].step \in ReadySteps => import[p].bytes = WholeOf(Media(Convert[s]))
    BY <1>1 DEF ImportOK, SourceOf
<1>6. CASE import[p].goal = "output"
    BY <1>1, <1>3, <1>5, <1>6 DEF Destination, Payload
<1>7. CASE import[p].goal = "sidecar"
    BY <1>1, <1>3, <1>7 DEF Destination, Payload
<1>8. CASE import[p].goal = "cached"
    BY <1>1, <1>3, <1>4, <1>5, <1>8 DEF Destination, Payload
<1>9. CASE import[p].goal = "record"
    BY <1>1, <1>3, <1>4, <1>9 DEF Destination, Payload
<1> QED BY <1>2, <1>6, <1>7, <1>8, <1>9

LEMMA PromoteKnownIsSafe ==
    ASSUME MediaInv, NEW p \in Process, PromoteKnown(p) \/ PromoteNew(p)
    PROVE  MediaInv'
<1>1. import[p].step = "promote" /\ import[p].step \in KnownSteps
    BY DEF PromoteKnown, PromoteNew, Importing, KnownSteps
<1>2. /\ MediaFiles /\ SourceOf(p) \in Source /\ Convert[SourceOf(p)] \in Artifact
      /\ import[p].goal = "output"
    BY <1>1, ImportFacts DEF ImportOK
<1>3. Destination(p) = OutputFile(Convert[SourceOf(p)])
    BY <1>1, <1>2, GoalFacts
<1>4. CASE PromoteKnown(p)
  <2>1. MediaFiles' /\ OthersKeep(p)
      BY <1>2, <1>4, MediaRemove DEF PromoteKnown
  <2>2. inodeAt'[OutputFile(Convert[SourceOf(p)])] # 0
      BY <1>2, <1>3, <1>4, <2>1 DEF PromoteKnown, OthersKeep, Exists
  <2>3. CASE ImportGoes(p, "readBack")
    <3>1. OwnIsRight([import[p] EXCEPT !.step = "readBack"], Bytes(Own(p))')
        BY ImportFacts DEF OwnIsRight, ImportOK
    <3> QED BY <1>1, <2>1, <2>2, <2>3, <3>1, ImportGoesOnKeeps
  <2>4. CASE ImportFails(p, "conflict")
      BY <2>1, <2>4, ImportFailsKeeps
  <2> QED BY <1>4, <2>3, <2>4 DEF PromoteKnown
<1>5. CASE PromoteNew(p)
  <2>1. /\ MediaFiles' /\ OthersKeep(p) /\ Bytes(Own(p))' = Bytes(Own(p))
        /\ ImportGoes(p, "promoteRename")
      BY <1>2, <1>5, MediaFilesStay DEF PromoteNew
  <2>2. OwnIsRight([import[p] EXCEPT !.step = "promoteRename"], Bytes(Own(p))')
    <3>1. OwnIsRight(import[p], Bytes(Own(p))) /\ ImportOK(import[p])
        BY DEF MediaInv
    <3> QED BY <1>1, <2>1, <3>1 DEF OwnIsRight, ImportOK
  <2> QED BY <1>1, <2>1, <2>2, ImportGoesOnKeeps
<1> QED BY <1>4, <1>5

LEMMA PromoteRenameIsSafe ==
    ASSUME MediaInv, NEW p \in Process, PromoteRename(p)
    PROVE  MediaInv'
<1>1. import[p].step = "promoteRename" /\ import[p].step \in KnownSteps
    BY DEF PromoteRename, Importing, KnownSteps
<1>2. /\ MediaFiles /\ SourceOf(p) \in Source /\ Convert[SourceOf(p)] \in Artifact
      /\ import[p].goal = "output"
    BY <1>1, ImportFacts DEF ImportOK
<1>3. PICK f : f = Destination(p) /\ f = OutputFile(Convert[SourceOf(p)])
    BY <1>1, <1>2, GoalFacts
<1>4. Bytes(Own(p)) = WholeOf(Media(Convert[SourceOf(p)]))
    BY <1>1 DEF MediaInv, OwnIsRight, SourceOf
<1>5. RenameFile(p, Own(p), f) /\ ImportGoes(p, "readBack")
    BY <1>3 DEF PromoteRename
<1>6. MediaFiles' /\ OthersKeep(p) /\ Exists(f)'
    BY <1>2, <1>3, <1>4, <1>5, MediaPublish
<1>7. inodeAt'[OutputFile(Convert[SourceOf(p)])] # 0
    BY <1>3, <1>6 DEF Exists
<1>8. OwnIsRight([import[p] EXCEPT !.step = "readBack"], Bytes(Own(p))')
    BY ImportFacts DEF OwnIsRight, ImportOK
<1> QED BY <1>1, <1>5, <1>6, <1>7, <1>8, ImportGoesOnKeeps

LEMMA ReadBackIsSafe ==
    ASSUME MediaInv, NEW p \in Process, ReadBack(p)
    PROVE  MediaInv'
<1> DEFINE s == SourceOf(p)
           bytes == Bytes(Destination(p))
           r == [import[p] EXCEPT !.bytes = bytes,
                    !.step = IF import[p].id = "" THEN "store" ELSE "publish",
                    !.goal = IF import[p].id = "" THEN "cached" ELSE "output"]
<1>1. import[p].step = "readBack" /\ import[p].step \in KnownSteps /\ FilesUnchanged
    BY DEF ReadBack, Importing, KnownSteps
<1>2. /\ MediaFiles /\ s \in Source /\ Convert[s] \in Artifact
      /\ import[p].goal = "output" /\ import[p].artifact = {Convert[s]} /\ ImportOK(import[p])
    BY <1>1, ImportFacts DEF ImportOK, SourceOf
<1>3. Destination(p) = OutputFile(Convert[s])
    BY <1>1, <1>2, GoalFacts
<1>4. bytes = WholeOf(Media(Convert[s])) /\ inodeAt[OutputFile(Convert[s])] # 0
  <2>1. Exists(OutputFile(Convert[s]))
      BY <1>1 DEF MediaInv, HasPublished, SourceOf
  <2> QED BY <1>2, <1>3, <2>1 DEF MediaFiles, Exists
<1>5. MediaFiles' /\ OthersKeep(p) /\ (\A f : Exists(f)' <=> Exists(f))
    BY <1>1, <1>2, MediaFilesStay
<1>6. CASE import[p].id # "" /\ Named(bytes) # import[p].artifact
    BY <1>5, <1>6, ImportFailsKeeps DEF ReadBack
<1>7. CASE ~(import[p].id # "" /\ Named(bytes) # import[p].artifact)
  <2>1. import' = [import EXCEPT ![p] = r]
      BY <1>7 DEF ReadBack
  <2>2. WholeOf(Media(Convert[s])) \in Seq(MediaChunk)
      BY <1>2, MediaContents, WholeIsBytes
  <2> HIDE DEF bytes
  <2>3. ImportOK(r) /\ r.source = s /\ r.step \in {"store", "publish"}
      BY <1>1, <1>2, <1>4, <2>2 DEF ImportOK, KnownSteps, ReadySteps, SourceOf
  <2>4. inodeAt'[OutputFile(Convert[r.source])] # 0
      BY <1>4, <1>5, <2>3 DEF Exists
  <2> HIDE DEF r
  <2>5. OwnIsRight(r, Bytes(Own(p))') /\ r.step # "storeWrite"
      BY <2>3 DEF OwnIsRight
  <2> QED BY <1>5, <2>1, <2>3, <2>4, <2>5, ImporterKeeps DEF Exists
<1> QED BY <1>6, <1>7

LEMMA PublishKnownIsSafe ==
    ASSUME MediaInv, NEW p \in Process, PublishKnown(p) \/ StoreKnown(p)
    PROVE  MediaInv'
<1>1. /\ import[p].step \in {"publish", "store"} /\ import[p].step \in KnownSteps
      /\ FilesUnchanged /\ Exists(Destination(p))
      /\ Proceeds(p) \/ ImportFails(p, "conflict")
    BY DEF PublishKnown, StoreKnown, Importing, KnownSteps
<1>2. MediaFiles' /\ OthersKeep(p) /\ (\A f : Exists(f)' <=> Exists(f))
    BY <1>1, ImportFacts, MediaFilesStay
<1>3. CASE ImportFails(p, "conflict")
    BY <1>2, <1>3, ImportFailsKeeps
<1>4. CASE Proceeds(p)
  <2>1. ASSUME import[p].goal = "output"
        PROVE  inodeAt'[OutputFile(Convert[SourceOf(p)])] # 0
    <3>1. Destination(p) = OutputFile(Convert[SourceOf(p)])
        BY <1>1, <2>1, GoalFacts
    <3> QED BY <1>1, <1>2, <3>1 DEF Exists
  <2> QED BY <1>1, <1>2, <1>4, <2>1, ProceedsKeeps
<1> QED BY <1>1, <1>3, <1>4

LEMMA PublishNewIsSafe ==
    ASSUME MediaInv, NEW p \in Process, PublishNew(p)
    PROVE  MediaInv'
<1>1. /\ import[p].step = "publish" /\ import[p].step \in KnownSteps
      /\ import[p].step \in ReadySteps /\ ImportGoes(p, "publishRename")
      /\ Deposit(p, Own(p), Payload(p))
    BY DEF PublishNew, Importing, KnownSteps, ReadySteps
<1>2. /\ MediaFiles /\ ImportOK(import[p]) /\ import[p].goal \in {"output", "sidecar"}
    BY <1>1, ImportFacts DEF ImportOK
<1>3. PICK content \in MediaChunk :
          /\ Payload(p) = WholeOf(content)
          /\ import[p].goal = "output" => content = Media(Convert[SourceOf(p)])
          /\ import[p].goal = "sidecar" =>
                 content = Provenance(SourceOf(p), Convert[SourceOf(p)])
    BY <1>1, <1>2, GoalFacts
<1>4. WholeOf(content) \in Seq(MediaChunk)
    BY WholeIsBytes
<1>5. MediaFiles' /\ OthersKeep(p) /\ Bytes(Own(p))' = WholeOf(content)
    BY <1>1, <1>2, <1>3, <1>4, MediaDeposit
<1>6. OwnIsRight([import[p] EXCEPT !.step = "publishRename"], Bytes(Own(p))')
    BY <1>1, <1>2, <1>3, <1>5 DEF OwnIsRight, ImportOK, SourceOf
<1> QED BY <1>1, <1>5, <1>6, ImportGoesOnKeeps

LEMMA PublishRenameIsSafe ==
    ASSUME MediaInv, NEW p \in Process, PublishRename(p)
    PROVE  MediaInv'
<1> DEFINE s == SourceOf(p)
<1>1. /\ import[p].step = "publishRename" /\ import[p].step \in KnownSteps
      /\ Proceeds(p) /\ RenameFile(p, Own(p), Destination(p))
    BY DEF PublishRename, Importing, KnownSteps
<1>2. /\ MediaFiles /\ ImportOK(import[p]) /\ s \in Source /\ Convert[s] \in Artifact
      /\ import[p].goal = "output" \/ (import[p].goal = "sidecar" /\ import[p].id \in AssetIds)
    BY <1>1, ImportFacts DEF ImportOK
<1>3. PICK f : f = Destination(p)
    OBVIOUS
<1>4. /\ import[p].goal = "output" => f = OutputFile(Convert[s])
      /\ import[p].goal = "sidecar" => f = SidecarFile(import[p].id)
    BY <1>1, <1>2, <1>3, GoalFacts
<1>5. /\ import[p].goal = "output" => Bytes(Own(p)) = WholeOf(Media(Convert[s]))
      /\ import[p].goal = "sidecar" => Bytes(Own(p)) = WholeOf(Provenance(s, Convert[s]))
    BY <1>1 DEF MediaInv, OwnIsRight, SourceOf
<1>6. MediaFiles' /\ OthersKeep(p) /\ Exists(f)'
    BY <1>1, <1>2, <1>3, <1>4, <1>5, MediaPublish
<1>7. import[p].goal = "output" => inodeAt'[OutputFile(Convert[SourceOf(p)])] # 0
    BY <1>4, <1>6 DEF Exists
<1> QED BY <1>1, <1>6, <1>7, ProceedsKeeps

LEMMA StoreNewIsSafe ==
    ASSUME MediaInv, NEW p \in Process, StoreNew(p)
    PROVE  MediaInv'
<1>1. /\ import[p].step = "store" /\ import[p].step \in KnownSteps
      /\ ImportGoes(p, "storeWrite") /\ OpenTruncated(p, Partial(Destination(p)))
    BY DEF StoreNew, Importing, KnownSteps
<1>2. MediaFiles /\ import[p].goal \in {"cached", "record"}
    BY <1>1, ImportFacts DEF ImportOK
<1>3. PICK f \in StorePaths : f = Partial(Destination(p))
    BY <1>1, <1>2, GoalFacts, MediaPathFacts
<1>4. MediaFiles' /\ OthersKeep(p) /\ open'[p] # 0
    BY <1>1, <1>2, <1>3, MediaOpen
<1>5. OwnIsRight([import[p] EXCEPT !.step = "storeWrite"], Bytes(Own(p))')
    BY ImportFacts DEF OwnIsRight, ImportOK
<1> QED BY <1>1, <1>4, <1>5, ImportGoesOnKeeps

LEMMA StoreChunkIsSafe ==
    ASSUME MediaInv, NEW p \in Process, StoreChunk(p)
    PROVE  MediaInv'
<1>1. /\ import[p].step = "storeWrite" /\ import[p].step \in KnownSteps
      /\ import[p].step \in ReadySteps /\ WriteChunk(p, Payload(p)[1]) /\ UNCHANGED import
    BY DEF StoreChunk, Importing, KnownSteps, ReadySteps
<1>2. /\ MediaFiles /\ ImportOK(import[p]) /\ import[p].goal \in {"cached", "record"}
      /\ open[p] # 0
    BY <1>1, ImportFacts DEF ImportOK, MediaInv
<1>3. PICK content \in MediaChunk : Payload(p) = WholeOf(content)
    BY <1>1, <1>2, GoalFacts
<1>4. WriteChunk(p, content)
    BY <1>1, <1>3, WholeIsBytes
<1>5. MediaFiles' /\ OthersKeep(p) /\ open' = open
    BY <1>2, <1>4, MediaWrite
<1>6. import' = [import EXCEPT ![p] = import[p]]
    BY <1>1 DEF MediaInv
<1>7. ASSUME HasPublished(import[p])
      PROVE  inodeAt'[OutputFile(Convert[import[p].source])] # 0
    BY <1>1, <1>5, <1>7, ImportFacts DEF MediaInv, OthersKeep, Exists, SourceOf
<1>8. OwnIsRight(import[p], Bytes(Own(p))')
    BY <1>1 DEF OwnIsRight
<1> QED BY <1>2, <1>5, <1>6, <1>7, <1>8, ImporterKeeps DEF Exists

LEMMA StoreRemoveIsSafe ==
    ASSUME MediaInv, NEW p \in Process, StoreRemove(p)
    PROVE  MediaInv'
<1>1. /\ import[p].step = "storeWrite" /\ import[p].step \in KnownSteps
      /\ ImportGoes(p, "storeRename") /\ RemoveFile(p, Destination(p))
    BY DEF StoreRemove, Importing, KnownSteps
<1>2. MediaFiles /\ import[p].goal \in {"cached", "record"}
    BY <1>1, ImportFacts DEF ImportOK
<1>3. PICK f \in StorePaths : f = Destination(p)
    BY <1>1, <1>2, GoalFacts, MediaPathFacts
<1>4. MediaFiles' /\ OthersKeep(p)
    BY <1>1, <1>2, <1>3, MediaRemove
<1>5. OwnIsRight([import[p] EXCEPT !.step = "storeRename"], Bytes(Own(p))')
    BY ImportFacts DEF OwnIsRight, ImportOK
<1> QED BY <1>1, <1>4, <1>5, ImportGoesOnKeeps

LEMMA StoreRenameIsSafe ==
    ASSUME MediaInv, NEW p \in Process, StoreRename(p)
    PROVE  MediaInv'
<1>1. import[p].step = "storeRename" /\ import[p].step \in KnownSteps
    BY DEF StoreRename, Importing, KnownSteps
<1>2. MediaFiles /\ import[p].goal \in {"cached", "record"}
    BY <1>1, ImportFacts DEF ImportOK
<1>3. PICK to \in CachePaths : to = Destination(p)
    BY <1>1, <1>2, GoalFacts
<1>4. PICK from \in StorePaths : from = Partial(to) /\ from # to /\ to \in StorePaths
    BY MediaPathFacts
<1>5. CASE Exists(from)
  <2>1. RenameFile(p, from, to) /\ Proceeds(p)
      BY <1>3, <1>4, <1>5 DEF StoreRename
  <2>2. MediaFiles' /\ OthersKeep(p)
      BY <1>2, <1>4, <2>1, MediaStore
  <2> QED BY <1>1, <1>2, <2>1, <2>2, ProceedsKeeps
<1>6. CASE ~Exists(from)
  <2>1. FilesUnchanged /\ ImportFails(p, "io")
      BY <1>3, <1>4, <1>6 DEF StoreRename
  <2> QED BY <1>2, <2>1, MediaFilesStay, ImportFailsKeeps
<1> QED BY <1>5, <1>6

LEMMA ImportStepFailsIsSafe ==
    ASSUME MediaInv, NEW p \in Process, ImportStepFails(p) \/ ImporterDies(p)
    PROVE  MediaInv'
<1>1. MediaFiles
    BY DEF MediaInv
<1>2. MediaFiles' /\ OthersKeep(p)
  <2>1. CASE FilesUnchanged
      BY <1>1, <2>1, MediaFilesStay
  <2>2. CASE RemoveFile(p, Own(p))
      BY <1>1, <2>2, MediaRemove
  <2>3. CASE /\ import[p].step \in {"storeWrite", "storeRename"}
             /\ RemoveFile(p, Partial(Destination(p)))
    <3>1. import[p].step \in KnownSteps /\ import[p].goal \in {"cached", "record"}
        BY <2>3, ImportFacts DEF ImportOK, KnownSteps
    <3>2. PICK f \in StorePaths : f = Partial(Destination(p))
        BY <3>1, GoalFacts, MediaPathFacts
    <3> QED BY <1>1, <2>3, <3>2, MediaRemove
  <2> QED BY <2>1, <2>2, <2>3 DEF ImportStepFails, ImporterDies
<1>3. CASE ImportStepFails(p)
    BY <1>2, <1>3, ImportFailsKeeps DEF ImportStepFails
<1>4. CASE ImporterDies(p)
    BY <1>2, <1>4, ImportFailsKeeps DEF ImporterDies
<1> QED BY <1>3, <1>4

LEMMA DamageCacheIsSafe ==
    ASSUME MediaInv, NEW path \in CachePaths, DamageCache(path)
    PROVE  MediaInv'
<1>1. path \in Path /\ path \in StorePaths /\ MediaFiles /\ FilesOK
    BY MediaPathFacts DEF MediaInv, MediaFiles
<1>2. /\ UNCHANGED <<import, inodeAt, open, offset>> /\ Exists(path)
      /\ data' = [data EXCEPT ![inodeAt[path]] = WholeOf(Junk)]
    BY DEF DamageCache
<1>3. inodeAt[path] \in Inode
    BY <1>1, <1>2 DEF FilesOK, Exists
<1>4. WholeOf(Junk) \in Seq(MediaChunk)
    BY WholeIsBytes DEF MediaChunk
<1>5. data' \in [Inode -> Seq(MediaChunk)] /\ FilesOK'
    BY <1>1, <1>2, <1>3, <1>4 DEF MediaFiles, FilesOK, Exists
<1>6. \A f \in Path \ {path} : inodeAt'[f] = inodeAt[f] /\ Bytes(f)' = Bytes(f)
    BY <1>1, <1>2, <1>3 DEF MediaFiles, FilesOK, Exists, Bytes
<1>7. \A q \in Process, f \in Path :
          open'[q] # 0 /\ inodeAt'[f] = open'[q] => f \in StorePaths
    BY <1>1, <1>2 DEF MediaFiles
<1>8. MediaFiles'
  <2>1. \A f \in {path} : f \in StorePaths
      BY <1>1
  <2> QED BY <1>1, <1>5, <1>6, <1>7, <2>1, OutputsStay
<1>9. \A q \in Process : Bytes(Own(q))' = Bytes(Own(q))
    BY <1>1, <1>6, MediaPathFacts
<1>10. \A q \in Process : \A s : s = import'[q] =>
          /\ ImportOK(s)
          /\ HasPublished(s) => inodeAt'[OutputFile(Convert[s.source])] # 0
          /\ OwnIsRight(s, Bytes(Own(q))')
          /\ s.step = "storeWrite" => open'[q] # 0
    BY <1>2, <1>9 DEF MediaInv, Exists
<1>11. import' = [q \in Process |-> import'[q]]
    BY <1>2 DEF MediaInv
<1> QED BY <1>8, <1>10, <1>11, MediaInvIs

LEMMA MediaInvInit == NoFiles /\ ImporterInit => MediaInv
<1> SUFFICES ASSUME NoFiles, ImporterInit PROVE MediaInv
    OBVIOUS
<1>1. FilesOK /\ \A f \in Path : ~Exists(f)
    BY NoFilesAreOK DEF NoFiles, Exists
<1>2. <<>> \in Seq(MediaChunk)
    OBVIOUS
<1>3. MediaFiles
    BY <1>1, <1>2, MediaPathFacts DEF MediaFiles, NoFiles, NothingOpen, SidecarsAreWhole
<1>4. \A bytes : ImportOK(NoImport) /\ ~HasPublished(NoImport) /\ OwnIsRight(NoImport, bytes)
                 /\ NoImport.step # "storeWrite"
    BY NoImportIsOK
<1> QED BY <1>3, <1>4 DEF ImporterInit, MediaInv

LEMMA MediaInvStep ==
    ASSUME MediaInv, [ImporterNext]_importVars
    PROVE  MediaInv'
<1>1. ASSUME NEW p \in Process, NEW r \in ImportRequests, BeginImport(p, r) PROVE MediaInv'
    BY <1>1, BeginImportIsSafe
<1>2. ASSUME NEW p \in Process, DiscardRecord(p) PROVE MediaInv'
    BY <1>2, DiscardRecordIsSafe
<1>3. ASSUME NEW p \in Process, LookForRecord(p) PROVE MediaInv'
    BY <1>3, LookForRecordIsSafe
<1>4. ASSUME NEW p \in Process, ReadRecord(p) PROVE MediaInv'
    BY <1>4, ReadRecordIsSafe
<1>5. ASSUME NEW p \in Process, ReadCached(p) PROVE MediaInv'
    BY <1>5, ReadCachedIsSafe
<1>6. ASSUME NEW p \in Process, ConvertInProcess(p) PROVE MediaInv'
    BY <1>6, ConvertInProcessIsSafe
<1>7. ASSUME NEW p \in Process, ConvertInWorker(p) PROVE MediaInv'
    BY <1>7, ConvertInWorkerIsSafe
<1>8. ASSUME NEW p \in Process, PromoteKnown(p) \/ PromoteNew(p) PROVE MediaInv'
    BY <1>8, PromoteKnownIsSafe
<1>9. ASSUME NEW p \in Process, PromoteRename(p) PROVE MediaInv'
    BY <1>9, PromoteRenameIsSafe
<1>10. ASSUME NEW p \in Process, ReadBack(p) PROVE MediaInv'
    BY <1>10, ReadBackIsSafe
<1>11. ASSUME NEW p \in Process, PublishKnown(p) \/ StoreKnown(p) PROVE MediaInv'
    BY <1>11, PublishKnownIsSafe
<1>12. ASSUME NEW p \in Process, PublishNew(p) PROVE MediaInv'
    BY <1>12, PublishNewIsSafe
<1>13. ASSUME NEW p \in Process, PublishRename(p) PROVE MediaInv'
    BY <1>13, PublishRenameIsSafe
<1>14. ASSUME NEW p \in Process, StoreNew(p) PROVE MediaInv'
    BY <1>14, StoreNewIsSafe
<1>15. ASSUME NEW p \in Process, StoreChunk(p) PROVE MediaInv'
    BY <1>15, StoreChunkIsSafe
<1>16. ASSUME NEW p \in Process, StoreRemove(p) PROVE MediaInv'
    BY <1>16, StoreRemoveIsSafe
<1>17. ASSUME NEW p \in Process, StoreRename(p) PROVE MediaInv'
    BY <1>17, StoreRenameIsSafe
<1>18. ASSUME NEW p \in Process, ImportStepFails(p) \/ ImporterDies(p) PROVE MediaInv'
    BY <1>18, ImportStepFailsIsSafe
<1>19. ASSUME NEW path \in CachePaths, DamageCache(path) PROVE MediaInv'
    BY <1>19, DamageCacheIsSafe
<1>20. CASE UNCHANGED importVars
  <2>1. UNCHANGED <<import, inodeAt, data, open, offset>>
      BY <1>20 DEF importVars, fileVars
  <2>2. MediaFiles'
      BY <2>1 DEF MediaInv, MediaFiles, FilesOK, Exists, Bytes, SidecarsAreWhole, Holds
  <2>3. \A q \in Process : \A t : t = import'[q] =>
            /\ ImportOK(t)
            /\ HasPublished(t) => inodeAt'[OutputFile(Convert[t.source])] # 0
            /\ OwnIsRight(t, Bytes(Own(q))')
            /\ t.step = "storeWrite" => open'[q] # 0
    <3>1. \A f : Bytes(f)' = Bytes(f)
        BY <2>1 DEF Bytes, Exists
    <3> QED BY <2>1, <3>1 DEF MediaInv, Exists
  <2>4. import' = [q \in Process |-> import'[q]]
      BY <2>1 DEF MediaInv
  <2> QED BY <2>2, <2>3, <2>4, MediaInvIs
<1> QED BY <1>1, <1>2, <1>3, <1>4, <1>5, <1>6, <1>7, <1>8, <1>9, <1>10, <1>11, <1>12,
           <1>13, <1>14, <1>15, <1>16, <1>17, <1>18, <1>19, <1>20 DEF ImporterNext

(* PublishedMediaAreExact, for any importers, sources, artifacts, failures *)
(* and damage of the cache.                                                *)
THEOREM MediaAreExact == ImporterSpec => []PublishedMediaAreExact
<1>1. MediaInv => PublishedMediaAreExact
  <2> SUFFICES ASSUME MediaInv PROVE OutputsAreExact /\ SidecarsAreWhole
      BY DEF PublishedMediaAreExact
  <2>1. ASSUME NEW p \in Process, import[p].result = "ok"
        PROVE  Holds(OutputFile(Convert[SourceOf(p)]), Media(Convert[SourceOf(p)]))
    <3>1. Convert[SourceOf(p)] \in Artifact /\ Exists(OutputFile(Convert[SourceOf(p)]))
        BY <2>1, ImporterAssumption DEF MediaInv, ImportOK, HasPublished, SourceOf
    <3> QED BY <3>1 DEF MediaInv, MediaFiles, Holds
  <2> QED BY <2>1 DEF MediaInv, MediaFiles, OutputsAreExact, Holds
<1> QED BY <1>1, MediaInvInit, MediaInvStep, PTL DEF ImporterSpec

-----------------------------------------------------------------------------
(* Shaders.  Every chunk of every file says which program it is of, under  *)
(* the key that the program has.  As long as no two players wrote the      *)
(* temporary file of a key at once, its files hold what one player has     *)
(* written of its record, from the start and without a hole, and at most   *)
(* that player is still writing.                                           *)
ShaderChunk ==
    {Entry(RecordKey(r), Program(r), part) : r \in Prepares, part \in 1 .. ShaderParts} \cup {Hole}

PrepareType ==
    [step : {"idle", "load", "compile", "open", "write", "rename"},
     request : {{}} \cup {{r} : r \in Prepares},
     result : {"none", "refused", "ok", "failed"}]

AnyRecord == [key : Programs, program : Programs \cup {TornProgram}]

PipelineType == [candidate : SUBSET AnyRecord, active : SUBSET AnyRecord]

KeyFiles(key) == {ShaderFile(key), ShaderTemporary(key)}
WrittenSoFar(key, n) == [part \in 1 .. n |-> Entry(key, key, part)]
IsLinked(q, path) == open[q] = inodeAt[path]

PathIsRight(key, path) ==
    /\ \E n \in 0 .. ShaderParts : Bytes(path) = WrittenSoFar(key, n)
    /\ \A q \in Process : IsLinked(q, path) =>
          /\ Preparing(q, "write") /\ RecordKey(Asked(q)) = key
          /\ Bytes(path) = WrittenSoFar(key, offset[q])
          /\ \A other \in Process : IsLinked(other, path) => other = q

KeyFilesAreRight ==
    \A key \in Programs : key \notin overlapped =>
        \A path \in KeyFiles(key) : Exists(path) => PathIsRight(key, path)

ShaderInv ==
    /\ FilesOK
    /\ data \in [Inode -> Seq(ShaderChunk)]
    /\ prepare \in [Process -> PrepareType]
    /\ pipeline \in [Process -> PipelineType]
    /\ \A p \in Process : /\ ~Preparing(p, "idle") => prepare[p].request # {}
                          /\ Preparing(p, "write") => open[p] # 0
    /\ ProgramsMatchTheirKeys /\ CandidateIsWhatWasAskedFor
    /\ KeyFilesAreRight

LEMMA ShaderPathFacts ==
    ASSUME NEW r \in Prepares
    PROVE  /\ ShaderFile(RecordKey(r)) \in Path /\ ShaderTemporary(RecordKey(r)) \in Path
           /\ ShaderFile(CacheKey(r.key)) \in Path
           /\ ShaderFile(RecordKey(r)) # ShaderTemporary(RecordKey(r))
<1>1. RecordKey(r) \in ShaderKeys /\ CacheKey(r.key) \in ShaderKeys
    BY DEF ShaderKeys
<1>2. ShaderFile(RecordKey(r)) # ShaderTemporary(RecordKey(r))
    BY DEF ShaderFile, ShaderTemporary
<1> QED BY <1>1, <1>2, ShaderPathsAssumption DEF ShaderPaths

LEMMA KeyFilesArePaths ==
    ASSUME KeysAgree, NEW key \in Programs
    PROVE  KeyFiles(key) \subseteq Path
<1>1. PICK r \in Prepares : key = RecordKey(r)
    BY DEF Programs, KeysAgree
<1> QED BY <1>1, ShaderPathFacts DEF KeyFiles

(* Files of two keys are different files.                                  *)
LEMMA KeyFilesAreApart ==
    ASSUME NEW one, NEW two, ShaderTemporary(one) \in KeyFiles(two) \/ ShaderFile(one) \in KeyFiles(two)
    PROVE  one = two
BY DEF KeyFiles, ShaderTemporary, ShaderFile

LEMMA AskedIsRequest ==
    ASSUME ShaderInv, NEW p \in Process, ~Preparing(p, "idle")
    PROVE  /\ Asked(p) \in Prepares /\ prepare[p].request = {Asked(p)}
           /\ prepare[p] \in PrepareType
<1>1. prepare[p] \in PrepareType /\ prepare[p].request # {}
    BY DEF ShaderInv
<1>2. PICK r \in Prepares : prepare[p].request = {r}
    BY <1>1 DEF PrepareType
<1> QED BY <1>1, <1>2 DEF Asked

LEMMA ChunkIsOfKey ==
    ASSUME KeysAgree, NEW key, NEW program, NEW part, Entry(key, program, part) \in ShaderChunk
    PROVE  key = program /\ key \in Programs
<1>1. Entry(key, program, part) # Hole
    BY DEF Entry, Hole
<1>2. PICK r \in Prepares, n \in 1 .. ShaderParts :
          Entry(key, program, part) = Entry(RecordKey(r), Program(r), n)
    BY <1>1 DEF ShaderChunk
<1>3. key = RecordKey(r) /\ program = Program(r)
    BY <1>2 DEF Entry
<1> QED BY <1>3 DEF KeysAgree, Programs

LEMMA WrittenSoFarIs ==
    ASSUME NEW key, NEW n \in Nat
    PROVE  /\ Len(WrittenSoFar(key, n)) = n
           /\ \A part \in 1 .. n : WrittenSoFar(key, n)[part] = Entry(key, key, part)
<1>1. WrittenSoFar(key, n) \in Seq({Entry(key, key, part) : part \in 1 .. n})
    BY DEF WrittenSoFar
<1> QED BY <1>1 DEF WrittenSoFar

(* Whatever was torn or mixed: the program of a file that starts with a    *)
(* key is that of the key, or it is torn and writers overlapped.           *)
LEMMA ArtifactIsRight ==
    ASSUME KeysAgree, ShaderInv, NEW key, ShaderFile(key) \in Path,
           StartsWithKey(Bytes(ShaderFile(key)), key), EndsWithKey(Bytes(ShaderFile(key)), key)
    PROVE  /\ key \in Programs
           /\ ArtifactIn(key, Bytes(ShaderFile(key))) \in Programs \cup {TornProgram}
           /\ IsProgram(ArtifactIn(key, Bytes(ShaderFile(key))), key, key)
<1> DEFINE path == ShaderFile(key)
           bytes == Bytes(path)
<1>1. bytes \in Seq(ShaderChunk)
    BY DEF Bytes, Exists, ShaderInv, FilesOK
<1>2. bytes # <<>> /\ Len(bytes) = ShaderParts
    BY DEF StartsWithKey, EndsWithKey
<1>3. bytes[1] \in ShaderChunk
    BY <1>1, <1>2 DEF ShaderParts
<1>4. key \in Programs
  <2>1. PICK q \in Programs : bytes[1] = Entry(key, q, 1)
      BY DEF StartsWithKey
  <2> QED BY <1>3, <2>1, ChunkIsOfKey
<1>5. \A q \in Programs : bytes = ShaderRecord(key, q) => q = key
  <2> SUFFICES ASSUME NEW q \in Programs, bytes = ShaderRecord(key, q) PROVE q = key
      OBVIOUS
  <2>1. bytes[1] = Entry(key, q, 1)
      BY DEF ShaderRecord, ShaderParts
  <2> QED BY <1>3, <2>1, ChunkIsOfKey
<1>6. key \notin overlapped => bytes = ShaderRecord(key, key)
  <2> SUFFICES ASSUME key \notin overlapped PROVE bytes = ShaderRecord(key, key)
      OBVIOUS
  <2>1. Exists(path) /\ path \in KeyFiles(key)
      BY <1>2 DEF Bytes, KeyFiles
  <2>2. PICK n \in 0 .. ShaderParts : bytes = WrittenSoFar(key, n)
      BY <1>4, <2>1 DEF ShaderInv, KeyFilesAreRight, PathIsRight
  <2>3. n = ShaderParts
      BY <1>2, <2>2, WrittenSoFarIs DEF ShaderParts
  <2> QED BY <2>2, <2>3 DEF WrittenSoFar, ShaderRecord
<1> HIDE DEF bytes, path
<1>7. CASE \E q \in Programs : bytes = ShaderRecord(key, q)
  <2>1. ArtifactIn(key, bytes) = key
      BY <1>5, <1>7 DEF ArtifactIn
  <2> QED BY <1>4, <2>1 DEF IsProgram, bytes, path
<1>8. CASE ~ \E q \in Programs : bytes = ShaderRecord(key, q)
  <2>1. ArtifactIn(key, bytes) = TornProgram
      BY <1>8 DEF ArtifactIn
  <2>2. key \in overlapped
      BY <1>4, <1>6, <1>8
  <2> QED BY <1>4, <2>1, <2>2 DEF IsProgram, bytes, path
<1> QED BY <1>7, <1>8

LEMMA FoundIsRight ==
    ASSUME KeysAgree, ShaderInv, NEW p \in Process, ~Preparing(p, "idle")
    PROVE  /\ FoundShader(p) \subseteq AnyRecord
           /\ \A r \in FoundShader(p) : /\ r.key = CacheKey(Asked(p).key)
                                        /\ IsProgram(r.program, r.key, r.key)
<1> SUFFICES ASSUME NEW r \in FoundShader(p)
             PROVE  /\ r \in AnyRecord /\ r.key = CacheKey(Asked(p).key)
                    /\ IsProgram(r.program, r.key, r.key)
    OBVIOUS
<1> DEFINE key == CacheKey(Asked(p).key)
           bytes == Bytes(ShaderFile(key))
<1>1. ShaderFile(key) \in Path
    BY AskedIsRequest, ShaderPathFacts
<1>2. r \in Decoded(bytes) /\ r.key = key
    BY DEF FoundShader
<1> HIDE DEF key, bytes
<1>3. /\ r = [key |-> key, program |-> ArtifactIn(key, bytes)]
      /\ StartsWithKey(bytes, key) /\ EndsWithKey(bytes, key)
    BY <1>2 DEF Decoded
<1>4. /\ key \in Programs
      /\ ArtifactIn(key, bytes) \in Programs \cup {TornProgram}
      /\ IsProgram(ArtifactIn(key, bytes), key, key)
    BY <1>1, <1>3, ArtifactIsRight DEF bytes
<1> QED BY <1>3, <1>4 DEF AnyRecord, key

(* A step of one player: it keeps its request, and its candidate may be    *)
(* new.                                                                    *)
LEMMA PlayerKeepsShaders ==
    ASSUME ShaderInv, NEW p \in Process, NEW r \in PrepareType, NEW t \in PipelineType,
           prepare' = [prepare EXCEPT ![p] = r], pipeline' = [pipeline EXCEPT ![p] = t],
           r.step # "idle" => r.request # {},
           r.step = "write" => open'[p] # 0,
           \A q \in Process \ {p} : open'[q] = open[q],
           \A c \in t.candidate \cup t.active : IsProgram(c.program, c.key, c.key),
           r.result = "ok" =>
               LET asked == CHOOSE a \in r.request : TRUE
               IN  Consistent(asked) =>
                       \A c \in t.candidate : IsProgram(c.program, Program(asked), c.key),
           overlapped \subseteq overlapped',
           FilesOK', data' \in [Inode -> Seq(ShaderChunk)], KeyFilesAreRight'
    PROVE  ShaderInv'
<1>1. /\ prepare' \in [Process -> PrepareType] /\ pipeline' \in [Process -> PipelineType]
      /\ prepare'[p] = r /\ pipeline'[p] = t
      /\ \A q \in Process \ {p} : prepare'[q] = prepare[q] /\ pipeline'[q] = pipeline[q]
    BY DEF ShaderInv
<1>2. \A q \in Process : /\ ~Preparing(q, "idle")' => prepare'[q].request # {}
                         /\ Preparing(q, "write")' => open'[q] # 0
    BY <1>1 DEF ShaderInv, Preparing
<1>3. ProgramsMatchTheirKeys'
  <2> SUFFICES ASSUME NEW q \in Process,
                      NEW c \in pipeline'[q].candidate \cup pipeline'[q].active
               PROVE  IsProgram(c.program, c.key, c.key)'
      BY DEF ProgramsMatchTheirKeys
  <2>1. IsProgram(c.program, c.key, c.key)
    <3>1. CASE q = p
        BY <1>1, <3>1
    <3>2. CASE q # p
        BY <1>1, <3>2 DEF ShaderInv, ProgramsMatchTheirKeys
    <3> QED BY <3>1, <3>2
  <2> QED BY <2>1 DEF IsProgram
<1>4. CandidateIsWhatWasAskedFor'
  <2> SUFFICES ASSUME NEW q \in Process, prepare'[q].result = "ok", Consistent(Asked(q)'),
                      NEW c \in pipeline'[q].candidate
               PROVE  \/ c.program = Program(Asked(q)')
                      \/ c.program = TornProgram /\ c.key \in overlapped'
      BY DEF CandidateIsWhatWasAskedFor, Consistent, CacheKey, Program, IsProgram
  <2>1. IsProgram(c.program, Program(Asked(q)'), c.key)
    <3>1. CASE q = p
        BY <1>1, <3>1 DEF Asked
    <3>2. CASE q # p
      <4>1. Asked(q)' = Asked(q)
          BY <1>1, <3>2 DEF Asked
      <4> QED BY <1>1, <3>2, <4>1 DEF ShaderInv, CandidateIsWhatWasAskedFor
    <3> QED BY <3>1, <3>2
  <2> QED BY <2>1 DEF IsProgram
<1> QED BY <1>1, <1>2, <1>3, <1>4 DEF ShaderInv

(* Files that stay, go or are renamed within a key: what they hold and     *)
(* who writes them goes with them.                                         *)
LEMMA KeyFilesFollow ==
    ASSUME KeysAgree, ShaderInv, NEW p \in Process, overlapped' = overlapped,
           \A q \in Process \ {p} : /\ open'[q] = open[q] /\ offset'[q] = offset[q]
                                    /\ prepare'[q] = prepare[q],
           open'[p] = 0 \/ (open'[p] = open[p] /\ ~Preparing(p, "write")),
           \A key \in Programs : \A path \in KeyFiles(key) : Exists(path)' =>
               \E from \in KeyFiles(key) : /\ Exists(from) /\ inodeAt'[path] = inodeAt[from]
                                           /\ Bytes(path)' = Bytes(from)
    PROVE  KeyFilesAreRight'
<1> SUFFICES ASSUME NEW key \in Programs, key \notin overlapped',
                    NEW path \in KeyFiles(key), Exists(path)'
             PROVE  PathIsRight(key, path)'
    BY DEF KeyFilesAreRight
<1>1. PICK from \in KeyFiles(key) : /\ Exists(from) /\ inodeAt'[path] = inodeAt[from]
                                    /\ Bytes(path)' = Bytes(from)
    OBVIOUS
<1>2. PathIsRight(key, from)
    BY <1>1 DEF ShaderInv, KeyFilesAreRight
<1>3. ASSUME NEW q \in Process, IsLinked(q, path)'
      PROVE  q # p /\ IsLinked(q, from)
  <2>1. open'[q] = inodeAt[from] /\ inodeAt[from] # 0
      BY <1>1, <1>3 DEF IsLinked, Exists
  <2>2. q # p
      BY <1>2, <2>1 DEF PathIsRight, IsLinked
  <2> QED BY <2>1, <2>2 DEF IsLinked
<1>4. ASSUME NEW q \in Process, IsLinked(q, path)'
      PROVE  /\ Preparing(q, "write")' /\ RecordKey(Asked(q))' = key
             /\ Bytes(path)' = WrittenSoFar(key, offset'[q])
             /\ \A other \in Process : IsLinked(other, path)' => other = q
  <2>1. q # p /\ IsLinked(q, from)
      BY <1>3, <1>4
  <2>2. prepare'[q] = prepare[q] /\ offset'[q] = offset[q] /\ Asked(q)' = Asked(q)
      BY <2>1 DEF Asked
  <2>3. RecordKey(Asked(q))' = RecordKey(Asked(q))
      BY <2>2 DEF RecordKey, CacheKey, EntryOr
  <2>4. /\ Preparing(q, "write") /\ RecordKey(Asked(q)) = key
        /\ Bytes(from) = WrittenSoFar(key, offset[q])
        /\ \A other \in Process : IsLinked(other, from) => other = q
      BY <1>2, <2>1 DEF PathIsRight
  <2> QED BY <1>1, <1>3, <2>2, <2>3, <2>4 DEF Preparing
<1>5. \E n \in 0 .. ShaderParts : Bytes(path)' = WrittenSoFar(key, n)
    BY <1>1, <1>2 DEF PathIsRight
<1> QED BY <1>4, <1>5 DEF PathIsRight, WrittenSoFar

LEMMA ShaderFilesStay ==
    ASSUME KeysAgree, ShaderInv, FilesUnchanged, overlapped' = overlapped, NEW p \in Process,
           ~Preparing(p, "write"), \A q \in Process \ {p} : prepare'[q] = prepare[q]
    PROVE  /\ FilesOK' /\ data' \in [Inode -> Seq(ShaderChunk)] /\ UNCHANGED open
           /\ KeyFilesAreRight'
<1>1. UNCHANGED <<inodeAt, data, open, offset>>
    BY DEF FilesUnchanged, fileVars
<1>2. FilesOK' /\ data' \in [Inode -> Seq(ShaderChunk)]
    BY <1>1 DEF ShaderInv, FilesOK, Exists
<1>3. \A path : (Exists(path)' <=> Exists(path)) /\ Bytes(path)' = Bytes(path)
    BY <1>1 DEF Exists, Bytes
<1>4. KeyFilesAreRight'
    BY <1>1, <1>3, KeyFilesFollow
<1> QED BY <1>1, <1>2, <1>4

LEMMA BeginPrepareIsSafe ==
    ASSUME KeysAgree, ShaderInv, NEW p \in Process, NEW a \in Prepares, BeginPrepare(p, a)
    PROVE  ShaderInv'
<1> DEFINE r == [request |-> {a}, step |-> IF ValidRequest(a) THEN "load" ELSE "idle",
                 result |-> IF ValidRequest(a) THEN "none" ELSE "refused"]
<1>1. r \in PrepareType /\ r.request # {} /\ r.step # "write" /\ r.result # "ok"
    BY DEF PrepareType
<1>2. prepare' = [prepare EXCEPT ![p] = r] /\ overlapped' = overlapped
    BY DEF BeginPrepare, SameKeys
<1>3. /\ pipeline' = [pipeline EXCEPT ![p] = pipeline[p]] /\ pipeline[p] \in PipelineType
      /\ \A c \in pipeline[p].candidate \cup pipeline[p].active : IsProgram(c.program, c.key, c.key)
    BY DEF BeginPrepare, ShaderInv, ProgramsMatchTheirKeys
<1> HIDE DEF r
<1>4. ~Preparing(p, "write") /\ FilesUnchanged /\ \A q \in Process \ {p} : prepare'[q] = prepare[q]
    BY <1>2 DEF BeginPrepare, Preparing, ShaderInv
<1>5. FilesOK' /\ data' \in [Inode -> Seq(ShaderChunk)] /\ UNCHANGED open /\ KeyFilesAreRight'
    BY <1>2, <1>4, ShaderFilesStay
<1> QED BY <1>1, <1>2, <1>3, <1>5, PlayerKeepsShaders

LEMMA LoadShaderIsSafe ==
    ASSUME KeysAgree, ShaderInv, NEW p \in Process, LoadShader(p)
    PROVE  ShaderInv'
<1> DEFINE r == [prepare[p] EXCEPT !.step = "idle", !.result = "ok"]
           t == [pipeline[p] EXCEPT !.candidate = FoundShader(p)]
<1>1. /\ ~Preparing(p, "idle") /\ ~Preparing(p, "write")
      /\ prepare[p] \in PrepareType /\ pipeline[p] \in PipelineType
    BY DEF LoadShader, Preparing, ShaderInv
<1>2. r \in PrepareType /\ r.step = "idle" /\ r.request = {Asked(p)}
    BY <1>1, AskedIsRequest DEF PrepareType
<1>3. t \in PipelineType /\ t.candidate = FoundShader(p) /\ t.active = pipeline[p].active
    BY <1>1, FoundIsRight DEF PipelineType
<1>4. /\ prepare' = [prepare EXCEPT ![p] = r] /\ pipeline' = [pipeline EXCEPT ![p] = t]
      /\ overlapped' = overlapped /\ FilesUnchanged
    BY <1>1 DEF LoadShader, PrepareEnds, ShaderInv, SameKeys
<1>5. (CHOOSE a \in r.request : TRUE) = Asked(p)
    BY <1>2
<1>6. \A c \in t.candidate \cup t.active : IsProgram(c.program, c.key, c.key)
    BY <1>1, <1>3, FoundIsRight DEF ShaderInv, ProgramsMatchTheirKeys
<1>7. Consistent(Asked(p)) =>
          \A c \in t.candidate : IsProgram(c.program, Program(Asked(p)), c.key)
    BY <1>1, <1>3, FoundIsRight DEF Consistent
<1> HIDE DEF r, t
<1>8. \A q \in Process \ {p} : prepare'[q] = prepare[q]
    BY <1>4 DEF ShaderInv
<1>9. FilesOK' /\ data' \in [Inode -> Seq(ShaderChunk)] /\ UNCHANGED open /\ KeyFilesAreRight'
    BY <1>1, <1>4, <1>8, ShaderFilesStay
<1> QED BY <1>2, <1>3, <1>4, <1>5, <1>6, <1>7, <1>9, PlayerKeepsShaders

(* A step of a call that leaves the records alone: it goes on, or fails.   *)
LEMMA CallKeepsShaders ==
    ASSUME ShaderInv, NEW p \in Process, ~Preparing(p, "idle"), UNCHANGED pipeline,
           NEW step \in {"idle", "compile", "open", "write", "rename"},
           NEW result \in {prepare[p].result, "failed"},
           prepare' = [prepare EXCEPT ![p].step = step, ![p].result = result],
           step = "write" => open'[p] # 0,
           \A q \in Process \ {p} : open'[q] = open[q],
           overlapped \subseteq overlapped',
           FilesOK', data' \in [Inode -> Seq(ShaderChunk)], KeyFilesAreRight'
    PROVE  ShaderInv'
<1> DEFINE r == [prepare[p] EXCEPT !.step = step, !.result = result]
<1>1. /\ Asked(p) \in Prepares /\ prepare[p] \in PrepareType
      /\ prepare[p].request = {Asked(p)}
    BY AskedIsRequest
<1>2. /\ r \in PrepareType /\ r.request = {Asked(p)} /\ r.step = step /\ r.result = result
      /\ prepare' = [prepare EXCEPT ![p] = r]
    BY <1>1 DEF PrepareType
<1>3. /\ pipeline' = [pipeline EXCEPT ![p] = pipeline[p]] /\ pipeline[p] \in PipelineType
      /\ \A c \in pipeline[p].candidate \cup pipeline[p].active : IsProgram(c.program, c.key, c.key)
    BY DEF ShaderInv, ProgramsMatchTheirKeys
<1> HIDE DEF r
<1>4. (CHOOSE a \in r.request : TRUE) = Asked(p)
    BY <1>1, <1>2 DEF Asked
<1>5. r.result = "ok" =>
          (Consistent(Asked(p)) =>
             \A c \in pipeline[p].candidate : IsProgram(c.program, Program(Asked(p)), c.key))
    BY <1>2 DEF ShaderInv, CandidateIsWhatWasAskedFor
<1>6. r.step # "idle" => r.request # {}
    BY <1>2
<1>7. r.step = "write" => open'[p] # 0
    BY <1>2
<1>8. r.result = "ok" =>
          LET asked == CHOOSE a \in r.request : TRUE
          IN  Consistent(asked) =>
                  \A c \in pipeline[p].candidate : IsProgram(c.program, Program(asked), c.key)
    BY <1>4, <1>5
<1> QED BY <1>2, <1>3, <1>6, <1>7, <1>8, PlayerKeepsShaders, ZenonT(60)

LEMMA MissShaderIsSafe ==
    ASSUME KeysAgree, ShaderInv, NEW p \in Process, MissShader(p) \/ CompileOnWorker(p)
    PROVE  ShaderInv'
<1>1. /\ ~Preparing(p, "idle") /\ ~Preparing(p, "write")
      /\ UNCHANGED pipeline /\ FilesUnchanged /\ overlapped' = overlapped
    BY DEF MissShader, CompileOnWorker, SamePipelines, SameKeys, Preparing
<1>2. \E step \in {"idle", "compile", "open"}, result \in {prepare[p].result, "failed"} :
          prepare' = [prepare EXCEPT ![p].step = step, ![p].result = result]
  <2>1. ASSUME NEW step \in {"compile", "open"}, PrepareGoes(p, step) PROVE <1>2
      BY <2>1, AskedIsRequest, <1>1 DEF PrepareGoes, ShaderInv, PrepareType
  <2>2. ASSUME PrepareEnds(p, "failed") PROVE <1>2
      BY <2>2 DEF PrepareEnds
  <2> QED BY <2>1, <2>2 DEF MissShader, CompileOnWorker
<1>3. \A q \in Process \ {p} : prepare'[q] = prepare[q]
    BY <1>2 DEF ShaderInv
<1>4. FilesOK' /\ data' \in [Inode -> Seq(ShaderChunk)] /\ UNCHANGED open /\ KeyFilesAreRight'
    BY <1>1, <1>3, ShaderFilesStay
<1> QED BY <1>1, <1>2, <1>4, CallKeepsShaders

(* Opening the temporary file of a key: it is empty and this player's      *)
(* alone, or another one is writing it and the key is among the            *)
(* overlapped.                                                             *)
LEMMA StoreShaderKeepsFiles ==
    ASSUME KeysAgree, ShaderInv, NEW p \in Process, StoreShader(p)
    PROVE  KeyFilesAreRight'
<1>0. PICK own, temporary : own = RecordKey(Asked(p)) /\ temporary = ShaderTemporary(own)
    OBVIOUS
<1>1. ~Preparing(p, "idle") /\ FilesOK /\ OpenTruncated(p, temporary) /\ overlapped \subseteq overlapped'
    BY <1>0 DEF StoreShader, Preparing, ShaderInv
<1>2. temporary \in Path /\ prepare[p] \in PrepareType
    BY <1>0, <1>1, AskedIsRequest, ShaderPathFacts
<1>3. /\ prepare'[p].step = "write" /\ prepare'[p].request = prepare[p].request
      /\ \A q \in Process \ {p} : prepare'[q] = prepare[q]
    BY <1>2 DEF StoreShader, PrepareGoes, ShaderInv, PrepareType
<1>4. \A q \in Process : Asked(q)' = Asked(q)
    BY <1>3 DEF Asked
<1>5. \A q \in Process : RecordKey(Asked(q))' = RecordKey(Asked(q))
    BY <1>4 DEF RecordKey, CacheKey, EntryOr
<1>6. IsBeingWritten(temporary) => own \in overlapped'
    BY <1>0 DEF StoreShader
<1>7. /\ FilesOK' /\ open'[p] = inodeAt'[temporary] /\ offset'[p] = 0 /\ Bytes(temporary)' = <<>>
      /\ Exists(temporary) => inodeAt'[temporary] = inodeAt[temporary]
      /\ ~Exists(temporary) => \A q \in Process : open[q] # inodeAt'[temporary]
      /\ \A f \in Path \ {temporary} : inodeAt'[f] = inodeAt[f] /\ Bytes(f)' = Bytes(f)
      /\ \A q \in Process \ {p} : open'[q] = open[q] /\ offset'[q] = offset[q]
    BY <1>1, <1>2, OpenTruncatedGives
<1> SUFFICES ASSUME NEW key \in Programs, key \notin overlapped',
                    NEW path \in KeyFiles(key), Exists(path)'
             PROVE  PathIsRight(key, path)'
    BY DEF KeyFilesAreRight
<1>8. path \in Path
    BY KeyFilesArePaths
<1>9. CASE path = temporary
  <2>1. key = own
      BY <1>0, <1>9, KeyFilesAreApart
  <2>2. ~IsBeingWritten(temporary)
      BY <1>6, <2>1
  <2>3. \A q \in Process : IsLinked(q, path)' => q = p
      BY <1>7, <1>9, <2>2 DEF IsLinked, IsBeingWritten
  <2>4. WrittenSoFar(key, 0) = <<>>
      BY DEF WrittenSoFar
  <2>5. Bytes(path)' = WrittenSoFar(key, 0) /\ 0 \in 0 .. ShaderParts
      BY <1>7, <1>9, <2>4 DEF ShaderParts
  <2>6. ASSUME NEW q \in Process, IsLinked(q, path)'
        PROVE  /\ Preparing(q, "write")' /\ RecordKey(Asked(q))' = key
               /\ Bytes(path)' = WrittenSoFar(key, offset'[q])
               /\ \A other \in Process : IsLinked(other, path)' => other = q
    <3>1. q = p
        BY <2>3, <2>6
    <3> QED BY <1>0, <1>3, <1>5, <1>7, <2>1, <2>3, <2>5, <3>1 DEF Preparing
  <2> QED BY <2>5, <2>6 DEF PathIsRight, WrittenSoFar
<1>10. CASE path # temporary
  <2>1. inodeAt'[path] = inodeAt[path] /\ Bytes(path)' = Bytes(path) /\ Exists(path)
      BY <1>7, <1>8, <1>10 DEF Exists
  <2>2. PathIsRight(key, path)
      BY <1>1, <2>1 DEF ShaderInv, KeyFilesAreRight
  <2>3. inodeAt'[path] # inodeAt'[temporary]
      BY <1>2, <1>7, <1>8, <1>10 DEF FilesOK
  <2>4. ASSUME NEW q \in Process, IsLinked(q, path)'
        PROVE  q # p /\ IsLinked(q, path)
      BY <1>7, <2>1, <2>3, <2>4 DEF IsLinked
  <2>5. ASSUME NEW q \in Process, IsLinked(q, path)'
        PROVE  /\ Preparing(q, "write")' /\ RecordKey(Asked(q))' = key
               /\ Bytes(path)' = WrittenSoFar(key, offset'[q])
               /\ \A other \in Process : IsLinked(other, path)' => other = q
    <3>1. q # p /\ IsLinked(q, path)
        BY <2>4, <2>5
    <3>2. /\ Preparing(q, "write") /\ RecordKey(Asked(q)) = key
          /\ Bytes(path) = WrittenSoFar(key, offset[q])
          /\ \A other \in Process : IsLinked(other, path) => other = q
        BY <2>2, <3>1 DEF PathIsRight
    <3> QED BY <1>3, <1>5, <1>7, <2>1, <2>4, <3>1, <3>2 DEF Preparing
  <2>6. \E n \in 0 .. ShaderParts : Bytes(path)' = WrittenSoFar(key, n)
      BY <2>1, <2>2 DEF PathIsRight
  <2> QED BY <2>5, <2>6 DEF PathIsRight, WrittenSoFar
<1> QED BY <1>9, <1>10

LEMMA StoreShaderIsSafe ==
    ASSUME KeysAgree, ShaderInv, NEW p \in Process, StoreShader(p)
    PROVE  ShaderInv'
<1>1. /\ ~Preparing(p, "idle") /\ UNCHANGED pipeline /\ overlapped \subseteq overlapped'
      /\ FilesOK /\ data \in [Inode -> Seq(ShaderChunk)]
    BY DEF StoreShader, SamePipelines, Preparing, ShaderInv
<1>2. PICK path \in Path : OpenTruncated(p, path)
    BY <1>1, AskedIsRequest, ShaderPathFacts DEF StoreShader
<1>3. /\ FilesOK' /\ Exists(path)' /\ open'[p] = inodeAt'[path]
      /\ \A q \in Process \ {p} : open'[q] = open[q] /\ offset'[q] = offset[q]
    BY <1>1, <1>2, OpenTruncatedGives
<1>4. open'[p] # 0
    BY <1>3 DEF Exists
<1>5. data' \in [Inode -> Seq(ShaderChunk)]
    BY <1>1, <1>2, ChunksStay
<1>6. prepare' = [prepare EXCEPT ![p].step = "write", ![p].result = prepare[p].result]
    BY <1>1, AskedIsRequest DEF StoreShader, PrepareGoes, ShaderInv, PrepareType
<1>7. KeyFilesAreRight'
    BY StoreShaderKeepsFiles
<1> QED BY <1>1, <1>3, <1>4, <1>5, <1>6, <1>7, CallKeepsShaders

(* The next part goes to the end of what its only writer has written.      *)
LEMMA WriteShaderKeepsFiles ==
    ASSUME KeysAgree, ShaderInv, NEW p \in Process, WriteShader(p)
    PROVE  KeyFilesAreRight'
<1> DEFINE content == Entry(RecordKey(Asked(p)), Program(Asked(p)), offset[p] + 1)
<1>1. /\ ~Preparing(p, "idle") /\ open[p] # 0 /\ FilesOK /\ WriteChunk(p, content)
      /\ UNCHANGED <<prepare, overlapped>> /\ offset[p] < ShaderParts
    BY DEF WriteShader, SameKeys, Preparing, ShaderInv
<1>2. offset[p] \in Nat /\ offset[p] + 1 \in 0 .. ShaderParts /\ open[p] \in Inode
    BY <1>1 DEF FilesOK, ShaderParts
<1>3. content = Entry(RecordKey(Asked(p)), RecordKey(Asked(p)), offset[p] + 1)
    BY <1>1, AskedIsRequest DEF KeysAgree
<1> HIDE DEF content
<1>4. /\ UNCHANGED <<inodeAt, open>> /\ offset' = [offset EXCEPT ![p] = @ + 1]
      /\ \A f \in Path : inodeAt[f] # open[p] => Bytes(f)' = Bytes(f)
    BY <1>1, WriteChunkGives
<1>5. offset'[p] = offset[p] + 1 /\ \A q \in Process \ {p} : offset'[q] = offset[q]
    BY <1>1, <1>4 DEF FilesOK
<1>6. \A q \in Process : RecordKey(Asked(q))' = RecordKey(Asked(q)) /\ (Preparing(q, "write")' <=> Preparing(q, "write"))
    BY <1>1 DEF Asked, Preparing, RecordKey, CacheKey, EntryOr
<1> SUFFICES ASSUME NEW key \in Programs, key \notin overlapped',
                    NEW path \in KeyFiles(key), Exists(path)'
             PROVE  PathIsRight(key, path)'
    BY DEF KeyFilesAreRight
<1>7. path \in Path /\ Exists(path) /\ \A q \in Process : IsLinked(q, path)' <=> IsLinked(q, path)
    BY <1>4, KeyFilesArePaths DEF Exists, IsLinked
<1>8. PathIsRight(key, path)
    BY <1>1, <1>7 DEF ShaderInv, KeyFilesAreRight
<1>9. CASE IsLinked(p, path)
  <2>1. /\ RecordKey(Asked(p)) = key /\ Preparing(p, "write")
        /\ Bytes(path) = WrittenSoFar(key, offset[p])
        /\ \A other \in Process : IsLinked(other, path) => other = p
      BY <1>8, <1>9 DEF PathIsRight
  <2>2. data[open[p]] = WrittenSoFar(key, offset[p]) /\ Bytes(path)' = data'[open[p]]
      BY <1>4, <1>7, <1>9, <2>1 DEF Bytes, Exists, IsLinked
  <2>3. Len(data[open[p]]) = offset[p]
      BY <1>2, <2>2, WrittenSoFarIs
  <2>4. data'[open[p]] = [k \in 1 .. offset'[p] |->
                            IF k = offset'[p] THEN content ELSE data[open[p]][k]]
      BY <1>1, <2>3, WriteChunkExtends
  <2>5. \A k \in 1 .. offset'[p] : k # offset'[p] => data[open[p]][k] = Entry(key, key, k)
      BY <1>2, <1>5, <2>2, WrittenSoFarIs
  <2>6. content = Entry(key, key, offset'[p])
      BY <1>3, <1>5, <2>1
  <2>7. Bytes(path)' = WrittenSoFar(key, offset'[p])
      BY <2>2, <2>4, <2>5, <2>6 DEF WrittenSoFar
  <2>8. ASSUME NEW q \in Process, IsLinked(q, path)'
        PROVE  /\ Preparing(q, "write")' /\ RecordKey(Asked(q))' = key
               /\ Bytes(path)' = WrittenSoFar(key, offset'[q])
               /\ \A other \in Process : IsLinked(other, path)' => other = q
    <3>1. q = p
        BY <1>7, <2>1, <2>8
    <3> QED BY <1>6, <1>7, <2>1, <2>7, <3>1
  <2>9. \E n \in 0 .. ShaderParts : Bytes(path)' = WrittenSoFar(key, n)
      BY <1>2, <1>5, <2>7
  <2> QED BY <2>8, <2>9 DEF PathIsRight, WrittenSoFar
<1>10. CASE ~IsLinked(p, path)
  <2>1. Bytes(path)' = Bytes(path)
      BY <1>4, <1>7, <1>10 DEF IsLinked
  <2>2. ASSUME NEW q \in Process, IsLinked(q, path)'
        PROVE  /\ Preparing(q, "write")' /\ RecordKey(Asked(q))' = key
               /\ Bytes(path)' = WrittenSoFar(key, offset'[q])
               /\ \A other \in Process : IsLinked(other, path)' => other = q
    <3>1. q # p /\ IsLinked(q, path) /\ offset'[q] = offset[q]
        BY <1>5, <1>7, <1>10, <2>2
    <3>2. /\ Preparing(q, "write") /\ RecordKey(Asked(q)) = key
          /\ Bytes(path) = WrittenSoFar(key, offset[q])
          /\ \A other \in Process : IsLinked(other, path) => other = q
        BY <1>8, <3>1 DEF PathIsRight
    <3> QED BY <1>6, <1>7, <2>1, <3>1, <3>2
  <2>3. \E n \in 0 .. ShaderParts : Bytes(path)' = WrittenSoFar(key, n)
      BY <1>8, <2>1 DEF PathIsRight
  <2> QED BY <2>2, <2>3 DEF PathIsRight, WrittenSoFar
<1> QED BY <1>9, <1>10

LEMMA WriteShaderIsSafe ==
    ASSUME KeysAgree, ShaderInv, NEW p \in Process, WriteShader(p)
    PROVE  ShaderInv'
<1> DEFINE content == Entry(RecordKey(Asked(p)), Program(Asked(p)), offset[p] + 1)
<1>1. /\ ~Preparing(p, "idle") /\ UNCHANGED pipeline /\ WriteChunk(p, content)
      /\ prepare[p].step = "write" /\ open[p] # 0 /\ overlapped' = overlapped
    BY DEF WriteShader, SamePipelines, SameKeys, Preparing, ShaderInv
<1>2. content \in ShaderChunk /\ Hole \in ShaderChunk
  <2>1. offset[p] + 1 \in 1 .. ShaderParts
      BY DEF WriteShader, ShaderInv, FilesOK, ShaderParts
  <2> QED BY <1>1, <2>1, AskedIsRequest DEF ShaderChunk
<1> HIDE DEF content
<1>3. FilesOK' /\ UNCHANGED open
    BY <1>1, WriteChunkGives DEF ShaderInv
<1>4. data' \in [Inode -> Seq(ShaderChunk)]
    BY <1>1, <1>2, WrittenChunksStay DEF ShaderInv
<1>5. prepare' = [prepare EXCEPT ![p].step = "write", ![p].result = prepare[p].result]
    BY <1>1 DEF WriteShader, ShaderInv, PrepareType
<1>6. KeyFilesAreRight'
    BY WriteShaderKeepsFiles
<1> QED BY <1>1, <1>3, <1>4, <1>5, <1>6, CallKeepsShaders

LEMMA RemoveShaderIsSafe ==
    ASSUME KeysAgree, ShaderInv, NEW p \in Process, RemoveShader(p) \/ PrepareStepFails(p)
    PROVE  ShaderInv'
<1> DEFINE key == RecordKey(Asked(p))
<1>1. ~Preparing(p, "idle") /\ UNCHANGED pipeline /\ overlapped' = overlapped
    BY DEF RemoveShader, PrepareStepFails, SamePipelines, SameKeys, Preparing
<1>2. /\ ShaderFile(key) \in Path /\ ShaderTemporary(key) \in Path
      /\ FilesOK /\ data \in [Inode -> Seq(ShaderChunk)]
    BY <1>1, AskedIsRequest, ShaderPathFacts DEF ShaderInv
<1> HIDE DEF key
<1>3. \/ RemoveFile(p, ShaderFile(key)) \/ RemoveFile(p, ShaderTemporary(key))
      \/ CloseFile(p)
    BY DEF RemoveShader, PrepareStepFails, key
<1>4. FilesOK' /\ open' = [open EXCEPT ![p] = 0] /\ offset' = [offset EXCEPT ![p] = 0]
    BY <1>2, <1>3, RemoveFileGives, CloseFileGives
<1>5. data' \in [Inode -> Seq(ShaderChunk)]
    BY <1>2, <1>3, ChunksStay DEF RemoveFile, CloseFile
<1>6. \E step \in {"idle", "rename"}, result \in {prepare[p].result, "failed"} :
          prepare' = [prepare EXCEPT ![p].step = step, ![p].result = result]
  <2>1. CASE RemoveShader(p)
      BY <2>1, <1>1, AskedIsRequest DEF RemoveShader, PrepareGoes, ShaderInv, PrepareType
  <2>2. CASE PrepareStepFails(p)
      BY <2>2 DEF PrepareStepFails, PrepareEnds
  <2> QED BY <2>1, <2>2
<1>7. \A q \in Process \ {p} : /\ open'[q] = open[q] /\ offset'[q] = offset[q]
                               /\ prepare'[q] = prepare[q]
    BY <1>2, <1>4, <1>6 DEF FilesOK, ShaderInv
<1>8. open'[p] = 0
    BY <1>2, <1>4 DEF FilesOK
<1>9. \A f \in Path : Exists(f)' => inodeAt'[f] = inodeAt[f] /\ Bytes(f)' = Bytes(f)
    BY <1>2, <1>3, RemoveFileGives, CloseFileGives
<1>10. \A f \in Path : Exists(f)' => Exists(f)
    BY <1>9 DEF Exists
<1>11. \A k \in Programs : \A f \in KeyFiles(k) : Exists(f)' =>
           \E from \in KeyFiles(k) : /\ Exists(from) /\ inodeAt'[f] = inodeAt[from]
                                     /\ Bytes(f)' = Bytes(from)
    BY <1>9, <1>10, KeyFilesArePaths
<1>12. KeyFilesAreRight'
    BY <1>1, <1>7, <1>8, <1>11, KeyFilesFollow
<1> QED BY <1>1, <1>4, <1>5, <1>6, <1>7, <1>12, CallKeepsShaders

(* What a rename brings is what this player wrote, or another player of    *)
(* the same key: the record in memory is the one it compiled.              *)
LEMMA CommitShaderIsSafe ==
    ASSUME KeysAgree, ShaderInv, NEW p \in Process, CommitShader(p)
    PROVE  ShaderInv'
<1>0. PICK a, key : a = Asked(p) /\ key = RecordKey(a)
    OBVIOUS
<1>1. /\ ~Preparing(p, "idle") /\ ~Preparing(p, "write") /\ overlapped' = overlapped
      /\ prepare[p] \in PrepareType /\ pipeline[p] \in PipelineType
    BY DEF CommitShader, SameKeys, Preparing, ShaderInv
<1>2. /\ ShaderFile(key) \in Path /\ ShaderTemporary(key) \in Path
      /\ ShaderFile(key) # ShaderTemporary(key)
      /\ FilesOK /\ data \in [Inode -> Seq(ShaderChunk)] /\ a \in Prepares
    BY <1>0, <1>1, AskedIsRequest, ShaderPathFacts DEF ShaderInv
<1>3. CASE Exists(ShaderTemporary(key))
  <2> DEFINE r == [prepare[p] EXCEPT !.step = "idle", !.result = "ok"]
             record == [key |-> key, program |-> Program(a)]
             t == [pipeline[p] EXCEPT !.candidate = {record}]
  <2>1. RenameFile(p, ShaderTemporary(key), ShaderFile(key))
      BY <1>0, <1>3 DEF CommitShader
  <2>2. /\ prepare' = [prepare EXCEPT ![p] = r] /\ pipeline' = [pipeline EXCEPT ![p] = t]
      BY <1>0, <1>1, <1>3 DEF CommitShader, PrepareEnds, ShaderInv
  <2>3. record \in AnyRecord /\ record.program = record.key /\ record.program = Program(a)
      BY <1>0, <1>2 DEF KeysAgree, AnyRecord, Programs
  <2>4. t \in PipelineType /\ t.candidate = {record} /\ t.active = pipeline[p].active
      BY <1>1, <2>3 DEF PipelineType
  <2>5. r \in PrepareType /\ r.step = "idle" /\ r.request = {a}
      BY <1>0, <1>1, AskedIsRequest DEF PrepareType
  <2>6. FilesOK' /\ open' = [open EXCEPT ![p] = 0] /\ offset' = [offset EXCEPT ![p] = 0]
      BY <1>2, <2>1, RenameFileGives
  <2>7. data' \in [Inode -> Seq(ShaderChunk)]
      BY <1>2, <2>1, ChunksStay DEF RenameFile
  <2> HIDE DEF r, t, record
  <2>8. /\ \A q \in Process \ {p} : /\ open'[q] = open[q] /\ offset'[q] = offset[q]
                                    /\ prepare'[q] = prepare[q]
        /\ open'[p] = 0
      BY <1>2, <2>2, <2>6 DEF FilesOK, ShaderInv
  <2>9. (CHOOSE b \in r.request : TRUE) = a
      BY <2>5
  <2>10. \A c \in t.candidate : IsProgram(c.program, Program(a), c.key)
      BY <2>3, <2>4 DEF IsProgram
  <2>11. \A c \in t.candidate \cup t.active : IsProgram(c.program, c.key, c.key)
      BY <2>3, <2>4 DEF IsProgram, ShaderInv, ProgramsMatchTheirKeys
  <2>12. KeyFilesAreRight'
    <3>1. /\ ~Exists(ShaderTemporary(key))' /\ inodeAt'[ShaderFile(key)] = inodeAt[ShaderTemporary(key)]
          /\ Bytes(ShaderFile(key))' = Bytes(ShaderTemporary(key))
          /\ \A f \in Path \ {ShaderTemporary(key), ShaderFile(key)} :
                inodeAt'[f] = inodeAt[f] /\ Bytes(f)' = Bytes(f)
        BY <1>2, <2>1, RenameFileGives
    <3>2. ASSUME NEW k \in Programs, NEW f \in KeyFiles(k), Exists(f)'
          PROVE  \E from \in KeyFiles(k) : /\ Exists(from) /\ inodeAt'[f] = inodeAt[from]
                                           /\ Bytes(f)' = Bytes(from)
      <4>1. CASE f = ShaderFile(key)
        <5>1. k = key
            BY <3>2, <4>1, KeyFilesAreApart
        <5>2. ShaderTemporary(key) \in KeyFiles(k)
            BY <5>1 DEF KeyFiles
        <5> QED BY <1>3, <3>1, <4>1, <5>2
      <4>2. CASE f # ShaderFile(key)
        <5>1. f \in Path \ {ShaderTemporary(key), ShaderFile(key)}
            BY <3>1, <3>2, <4>2, KeyFilesArePaths
        <5>2. inodeAt'[f] = inodeAt[f] /\ Bytes(f)' = Bytes(f) /\ Exists(f)
            BY <3>1, <3>2, <5>1 DEF Exists
        <5> QED BY <5>2
      <4> QED BY <4>1, <4>2
    <3> QED BY <1>1, <2>8, <3>2, KeyFilesFollow
  <2> QED BY <1>1, <2>2, <2>4, <2>5, <2>6, <2>7, <2>8, <2>9, <2>10, <2>11, <2>12, PlayerKeepsShaders
<1>4. CASE ~Exists(ShaderTemporary(key))
  <2>1. /\ FilesUnchanged /\ UNCHANGED pipeline
        /\ prepare' = [prepare EXCEPT ![p].step = "idle", ![p].result = "failed"]
      BY <1>0, <1>4 DEF CommitShader, PrepareEnds
  <2>2. \A q \in Process \ {p} : prepare'[q] = prepare[q]
      BY <2>1 DEF ShaderInv
  <2>3. FilesOK' /\ data' \in [Inode -> Seq(ShaderChunk)] /\ UNCHANGED open /\ KeyFilesAreRight'
      BY <1>1, <2>1, <2>2, ShaderFilesStay
  <2> QED BY <1>1, <2>1, <2>3, CallKeepsShaders
<1> QED BY <1>3, <1>4

LEMMA ActivateIsSafe ==
    ASSUME KeysAgree, ShaderInv, NEW p \in Process, Activate(p)
    PROVE  ShaderInv'
<1> DEFINE t == [candidate |-> NoRecord, active |-> pipeline[p].candidate]
<1>1. /\ t \in PipelineType /\ t.candidate = {}
      /\ \A c \in t.candidate \cup t.active : IsProgram(c.program, c.key, c.key)
    BY DEF ShaderInv, PipelineType, NoRecord, ProgramsMatchTheirKeys
<1>2. /\ prepare' = [prepare EXCEPT ![p] = prepare[p]] /\ prepare[p] \in PrepareType
      /\ pipeline' = [pipeline EXCEPT ![p] = t] /\ prepare[p].step = "idle"
      /\ overlapped' = overlapped /\ FilesUnchanged /\ UNCHANGED prepare
    BY DEF ShaderInv, Activate, Preparing, SameKeys
<1> HIDE DEF t
<1>3. prepare[p].step # "write" /\ ~Preparing(p, "write")
    BY <1>2 DEF Preparing
<1>4. FilesOK' /\ data' \in [Inode -> Seq(ShaderChunk)] /\ UNCHANGED open /\ KeyFilesAreRight'
    BY <1>2, <1>3, ShaderFilesStay
<1> QED BY <1>1, <1>2, <1>3, <1>4, PlayerKeepsShaders

LEMMA PlayerCrashesIsSafe ==
    ASSUME KeysAgree, ShaderInv, NEW p \in Process, PlayerCrashes(p)
    PROVE  ShaderInv'
<1> DEFINE t == [candidate |-> NoRecord, active |-> NoRecord]
<1>1. t \in PipelineType /\ t.candidate = {} /\ t.active = {}
    BY DEF PipelineType, NoRecord
<1>2. /\ NotPreparing \in PrepareType /\ NotPreparing.step = "idle"
      /\ NotPreparing.result # "ok"
    BY DEF PrepareType, NotPreparing
<1>3. /\ prepare' = [prepare EXCEPT ![p] = NotPreparing] /\ overlapped' = overlapped
      /\ pipeline' = [pipeline EXCEPT ![p] = t] /\ CloseFile(p)
    BY DEF PlayerCrashes, SameKeys
<1> HIDE DEF t
<1>4. /\ FilesOK' /\ UNCHANGED inodeAt
      /\ open' = [open EXCEPT ![p] = 0] /\ offset' = [offset EXCEPT ![p] = 0]
      /\ \A f \in Path : Bytes(f)' = Bytes(f)
    BY <1>3, CloseFileGives DEF ShaderInv
<1>5. data' \in [Inode -> Seq(ShaderChunk)]
    BY <1>3, ChunksStay DEF CloseFile, ShaderInv
<1>6. /\ \A q \in Process \ {p} : /\ open'[q] = open[q] /\ offset'[q] = offset[q]
                                  /\ prepare'[q] = prepare[q]
      /\ open'[p] = 0
    BY <1>3, <1>4 DEF ShaderInv, FilesOK
<1>7. NotPreparing.step # "write"
    BY <1>2
<1>8. \A k \in Programs : \A f \in KeyFiles(k) : Exists(f)' =>
           \E from \in KeyFiles(k) : /\ Exists(from) /\ inodeAt'[f] = inodeAt[from]
                                     /\ Bytes(f)' = Bytes(from)
    BY <1>4, KeyFilesArePaths DEF Exists
<1>9. KeyFilesAreRight'
    BY <1>3, <1>6, <1>8, KeyFilesFollow
<1> QED BY <1>1, <1>2, <1>3, <1>4, <1>5, <1>6, <1>7, <1>9, PlayerKeepsShaders

LEMMA ShaderInvInit ==
    ASSUME KeysAgree, NoFiles, ShaderInit
    PROVE  ShaderInv
<1>1. FilesOK
    BY NoFilesAreOK
<1>2. <<>> \in Seq(ShaderChunk)
    OBVIOUS
<1>3. data \in [Inode -> Seq(ShaderChunk)]
    BY <1>2 DEF NoFiles
<1>4. NotPreparing \in PrepareType /\ NotPreparing.step = "idle" /\ NotPreparing.result = "none"
    BY DEF NotPreparing, PrepareType
<1>5. [candidate |-> NoRecord, active |-> NoRecord] \in PipelineType
    BY DEF PipelineType, NoRecord
<1>6. ProgramsMatchTheirKeys
    BY DEF ShaderInit, ProgramsMatchTheirKeys, NoRecord
<1>7. KeyFilesAreRight
    BY KeyFilesArePaths DEF KeyFilesAreRight, NoFiles, Exists
<1> QED BY <1>1, <1>3, <1>4, <1>5, <1>6, <1>7
        DEF ShaderInit, ShaderInv, Preparing, CandidateIsWhatWasAskedFor

LEMMA ShaderInvStep ==
    ASSUME KeysAgree, ShaderInv, [ShaderNext]_shaderVars
    PROVE  ShaderInv'
<1>1. ASSUME NEW p \in Process, NEW a \in Prepares, BeginPrepare(p, a) PROVE ShaderInv'
    BY <1>1, BeginPrepareIsSafe
<1>2. ASSUME NEW p \in Process, LoadShader(p) PROVE ShaderInv'
    BY <1>2, LoadShaderIsSafe
<1>3. ASSUME NEW p \in Process, MissShader(p) \/ CompileOnWorker(p) PROVE ShaderInv'
    BY <1>3, MissShaderIsSafe
<1>4. ASSUME NEW p \in Process, StoreShader(p) PROVE ShaderInv'
    BY <1>4, StoreShaderIsSafe
<1>5. ASSUME NEW p \in Process, WriteShader(p) PROVE ShaderInv'
    BY <1>5, WriteShaderIsSafe
<1>6. ASSUME NEW p \in Process, RemoveShader(p) \/ PrepareStepFails(p) PROVE ShaderInv'
    BY <1>6, RemoveShaderIsSafe
<1>7. ASSUME NEW p \in Process, CommitShader(p) PROVE ShaderInv'
    BY <1>7, CommitShaderIsSafe
<1>8. ASSUME NEW p \in Process, Activate(p) PROVE ShaderInv'
    BY <1>8, ActivateIsSafe
<1>9. ASSUME NEW p \in Process, PlayerCrashes(p) PROVE ShaderInv'
    BY <1>9, PlayerCrashesIsSafe
<1>10. CASE UNCHANGED shaderVars
  <2>1. UNCHANGED <<pipeline, prepare, overlapped, inodeAt, data, open, offset>>
      BY <1>10 DEF shaderVars, fileVars
  <2>2. FilesOK' /\ data' \in [Inode -> Seq(ShaderChunk)]
      BY <2>1 DEF ShaderInv, FilesOK, Exists
  <2>3. ProgramsMatchTheirKeys'
      BY <2>1 DEF ShaderInv, ProgramsMatchTheirKeys, IsProgram
  <2>4. \A p \in Process : Asked(p)' = Asked(p) /\ RecordKey(Asked(p))' = RecordKey(Asked(p))
      BY <2>1 DEF Asked, RecordKey, CacheKey, EntryOr
  <2>5. CandidateIsWhatWasAskedFor'
      BY <2>1, <2>4
      DEF ShaderInv, CandidateIsWhatWasAskedFor, Consistent, CacheKey, Program, IsProgram
  <2>6. KeyFilesAreRight'
    <3> SUFFICES ASSUME NEW key \in Programs, key \notin overlapped',
                        NEW path \in KeyFiles(key), Exists(path)'
                 PROVE  PathIsRight(key, path)'
        BY DEF KeyFilesAreRight
    <3>1. Bytes(path)' = Bytes(path) /\ Exists(path)
        BY <2>1 DEF Bytes, Exists
    <3>2. PathIsRight(key, path)
        BY <2>1, <3>1 DEF ShaderInv, KeyFilesAreRight
    <3> QED BY <2>1, <2>4, <3>1, <3>2 DEF PathIsRight, IsLinked, Preparing, WrittenSoFar
  <2> QED BY <2>1, <2>2, <2>3, <2>5, <2>6 DEF ShaderInv, Preparing
<1> QED BY <1>1, <1>2, <1>3, <1>4, <1>5, <1>6, <1>7, <1>8, <1>9, <1>10 DEF ShaderNext

(* PreparedProgramsAreRight, for any players, requests, failures and       *)
(* crashes: when no request contradicts its key, a record that is drawn    *)
(* with is the whole program of its key and the one that was asked for; if *)
(* two players wrote the temporary file of the key at once, it may be torn *)
(* instead, and still it is of no other key.                               *)
THEOREM ProgramsAreRight ==
    ASSUME KeysAgree
    PROVE  ShaderSpec => []PreparedProgramsAreRight
<1>1. ShaderInv => PreparedProgramsAreRight
    BY DEF ShaderInv, PreparedProgramsAreRight
<1> QED BY <1>1, ShaderInvInit, ShaderInvStep, PTL DEF ShaderSpec

-----------------------------------------------------------------------------
(* The tools of a project directory.  What a run relies on: a package it   *)
(* unpacks was placed once, and the package it replaces lies beside it     *)
(* until the run puts it back or removes it.                               *)
HasOutputAside(run, beside) == \E aside \in beside : aside.run = run /\ aside.of = "output"

RunAt(place, run, files, left, existed) ==
    [at |-> place, run |-> run, files |-> files, left |-> left, existed |-> existed]

RunOK(r, runs, placed, beside) ==
    /\ r = RunAt(r.at, r.run, r.files, r.left, r.existed)
    /\ r.run \in 0..runs
    /\ r.at \in {"prepare", "write", "place tree"} => r.files \in placed
    /\ r.at \in {"discard", "restore"} => r.existed
    /\ r.at \in {"place", "discard", "restore"} /\ r.existed => HasOutputAside(r.run, beside)

RunsAreApart ==
    \A p, q \in Tool : p # q /\ ~At(p, "idle") /\ ~At(q, "idle") => tool[p].run # tool[q].run

Trees == packed \cup {<<>>, ForeignTree}

AsidesAreWhole ==
    \A aside \in asides : /\ aside.of = "output" => aside.files \in packed
                          /\ aside.of = "tree" => aside.files \in Trees

(* Of the packages that lie beside the output, one is there that no run is *)
(* about to remove.                                                        *)
OneIsKept ==
    packed # {} => \/ output # {}
                   \/ \E aside \in asides :
                         /\ aside.of = "output"
                         /\ \A p \in Tool : At(p, "discard") => tool[p].run # aside.run

ToolsInv ==
    /\ tool = [p \in Tool |-> tool[p]] /\ toolRuns \in Nat
    /\ \A p \in Tool : RunOK(tool[p], toolRuns, packed, asides)
    /\ RunsAreApart /\ AsidesAreWhole /\ OneIsKept
    /\ output \subseteq packed /\ tree \subseteq Trees

(* A run goes on, ends, or begins with a new number; it removes no backup  *)
(* but its own.                                                            *)
GoesOn(p, r) ==
    /\ tool' = [tool EXCEPT ![p] = r]
    /\ RunOK(r, toolRuns', packed', asides')
    /\ \/ toolRuns' = toolRuns /\ (r.at = "idle" \/ (r.run = tool[p].run /\ ~At(p, "idle")))
       \/ toolRuns' = toolRuns + 1 /\ r.run = toolRuns + 1
    /\ packed \subseteq packed'
    /\ \A aside \in asides : aside \in asides' \/ (~At(p, "idle") /\ aside.run = tool[p].run)

LEMMA RunsGoOn ==
    ASSUME ToolsInv, NEW p \in Tool, NEW r, GoesOn(p, r)
    PROVE  /\ tool' = [q \in Tool |-> tool'[q]] /\ toolRuns' \in Nat
           /\ \A q \in Tool : RunOK(tool'[q], toolRuns', packed', asides')
           /\ RunsAreApart'
           /\ tool'[p] = r /\ \A q \in Tool : q # p => tool'[q] = tool[q]
<1>1. /\ tool' = [q \in Tool |-> tool'[q]] /\ tool'[p] = r
      /\ \A q \in Tool : q # p => tool'[q] = tool[q]
      /\ toolRuns' \in Nat /\ toolRuns <= toolRuns' /\ toolRuns \in Nat
  BY DEF ToolsInv, GoesOn
<1>2. ASSUME NEW q \in Tool, q # p PROVE RunOK(tool[q], toolRuns', packed', asides')
  <2>1. RunOK(tool[q], toolRuns, packed, asides)
    BY DEF ToolsInv
  <2>2. ~At(p, "idle") /\ ~At(q, "idle") => tool[q].run # tool[p].run
    BY <1>2 DEF ToolsInv, RunsAreApart
  <2>3. tool[q].run \in 0..toolRuns'
    <3>1. tool[q].run \in 0..toolRuns
      BY <2>1, Zenon DEF RunOK
    <3> QED
      BY <3>1, <1>1
  <2>4. tool[q].at # "idle" /\ HasOutputAside(tool[q].run, asides) => HasOutputAside(tool[q].run, asides')
    BY <2>2 DEF HasOutputAside, GoesOn, At
  <2> QED
    BY <2>1, <2>3, <2>4 DEF RunOK, GoesOn
<1>3. RunsAreApart'
  <2>1. \A q \in Tool : tool[q].run \in 0..toolRuns
    BY DEF ToolsInv, RunOK
  <2>2. ASSUME NEW q \in Tool, q # p, r.at # "idle", ~At(q, "idle") PROVE r.run # tool[q].run
    BY <1>1, <2>1, <2>2 DEF GoesOn, ToolsInv, RunsAreApart
  <2>3. ASSUME NEW q \in Tool, NEW s \in Tool, q # s, tool'[q].at # "idle", tool'[s].at # "idle"
        PROVE  tool'[q].run # tool'[s].run
    <3>1. CASE q # p /\ s # p
      BY <3>1, <2>3, <1>1 DEF ToolsInv, RunsAreApart, At
    <3>2. CASE q = p
      BY <3>2, <2>2, <2>3, <1>1 DEF At
    <3>3. CASE s = p
      BY <3>3, <2>2, <2>3, <1>1 DEF At
    <3> QED
      BY <3>1, <3>2, <3>3
  <2> QED
    BY <2>3 DEF RunsAreApart, At
<1> QED
  BY <1>1, <1>2, <1>3 DEF GoesOn

(* A step that touches no package and no tree.                              *)
LEMMA QuietToolStep ==
    ASSUME ToolsInv, NEW p \in Tool, NEW r, GoesOn(p, r), r.at # "discard",
           UNCHANGED <<output, tree, asides, packed>>
    PROVE  ToolsInv'
<1>1. OneIsKept'
  <2>1. \A q \in Tool : At(q, "discard")' => At(q, "discard") /\ tool'[q] = tool[q]
    BY RunsGoOn DEF At
  <2> QED
    BY <2>1 DEF ToolsInv, OneIsKept
<1>2. AsidesAreWhole' /\ (output \subseteq packed)' /\ (tree \subseteq Trees)'
  BY DEF ToolsInv, AsidesAreWhole, Trees
<1> QED
  BY <1>1, <1>2, RunsGoOn DEF ToolsInv

(* What becomes of a run when one of its fields changes, or two.            *)
LEMMA RunForm ==
    ASSUME NEW r, NEW runs, NEW placed, NEW beside, RunOK(r, runs, placed, beside)
    PROVE  \E at, run, files, left, existed :
              /\ r = [at |-> at, run |-> run, files |-> files, left |-> left, existed |-> existed]
              /\ r.at = at /\ r.run = run /\ r.files = files /\ r.left = left /\ r.existed = existed
BY Zenon DEF RunOK, RunAt

LEMMA PlaceChanges ==
    ASSUME NEW r, NEW runs, NEW placed, NEW beside, RunOK(r, runs, placed, beside), NEW x
    PROVE  [r EXCEPT !.at = x] = RunAt(x, r.run, r.files, r.left, r.existed)
<1>1. PICK at, run, files, left, existed :
          /\ r = [at |-> at, run |-> run, files |-> files, left |-> left, existed |-> existed]
          /\ r.at = at /\ r.run = run /\ r.files = files /\ r.left = left /\ r.existed = existed
  BY RunForm
<1> QED
  BY <1>1 DEF RunAt

LEMMA FilesChange ==
    ASSUME NEW r, NEW runs, NEW placed, NEW beside, RunOK(r, runs, placed, beside), NEW x
    PROVE  [r EXCEPT !.files = x] = RunAt(r.at, r.run, x, r.left, r.existed)
<1>1. PICK at, run, files, left, existed :
          /\ r = [at |-> at, run |-> run, files |-> files, left |-> left, existed |-> existed]
          /\ r.at = at /\ r.run = run /\ r.files = files /\ r.left = left /\ r.existed = existed
  BY RunForm
<1> QED
  BY <1>1 DEF RunAt

LEMMA LeftChanges ==
    ASSUME NEW r, NEW runs, NEW placed, NEW beside, RunOK(r, runs, placed, beside), NEW x
    PROVE  [r EXCEPT !.left = x] = RunAt(r.at, r.run, r.files, x, r.existed)
<1>1. PICK at, run, files, left, existed :
          /\ r = [at |-> at, run |-> run, files |-> files, left |-> left, existed |-> existed]
          /\ r.at = at /\ r.run = run /\ r.files = files /\ r.left = left /\ r.existed = existed
  BY RunForm
<1> QED
  BY <1>1 DEF RunAt

LEMMA PlaceAndExistedChange ==
    ASSUME NEW r, NEW runs, NEW placed, NEW beside, RunOK(r, runs, placed, beside), NEW x, NEW y,
           NEW new, new = [r EXCEPT !.existed = x, !.at = y]
    PROVE  new = RunAt(y, r.run, r.files, r.left, x)
<1>1. PICK at, run, files, left, existed :
          /\ r = [at |-> at, run |-> run, files |-> files, left |-> left, existed |-> existed]
          /\ r.at = at /\ r.run = run /\ r.files = files /\ r.left = left /\ r.existed = existed
  BY RunForm
<1>2. DOMAIN r = {"at", "run", "files", "left", "existed"} /\ DOMAIN new = DOMAIN r
  BY <1>1
<1>3. /\ new.at = y /\ new.run = run /\ new.files = files /\ new.left = left /\ new.existed = x
      /\ new = [k \in DOMAIN new |-> new[k]]
  BY <1>1, <1>2
<1>4. PICK u : u = [at |-> y, run |-> run, files |-> files, left |-> left, existed |-> x]
  OBVIOUS
<1>5. u = [k \in DOMAIN u |-> u[k]] /\ DOMAIN u = {"at", "run", "files", "left", "existed"}
  BY <1>4
<1>6. u.at = y /\ u.run = run /\ u.files = files /\ u.left = left /\ u.existed = x
  BY <1>4
<1>7. \A k \in {"at", "run", "files", "left", "existed"} : new[k] = u[k]
  BY <1>3, <1>6
<1>8. new = u
  BY <1>2, <1>3, <1>5, <1>7
<1> QED
  BY <1>1, <1>4, <1>8 DEF RunAt

(* How a run ends, moves on, changes what it has in hand, or begins.        *)
LEMMA RunEnds ==
    ASSUME ToolsInv, NEW p \in Tool, Ends(p), toolRuns' = toolRuns, packed \subseteq packed',
           \A aside \in asides : aside \in asides' \/ (~At(p, "idle") /\ aside.run = tool[p].run)
    PROVE  GoesOn(p, NoRun) /\ NoRun.at = "idle"
<1>1. /\ NoRun = RunAt("idle", 0, <<>>, {}, FALSE)
      /\ NoRun.at = "idle" /\ NoRun.run = 0 /\ NoRun.files = <<>> /\ NoRun.left = {}
      /\ NoRun.existed = FALSE
  BY DEF NoRun, RunAt
<1>2. 0 \in 0..toolRuns
  BY DEF ToolsInv
<1>3. RunOK(NoRun, toolRuns', packed', asides')
  BY <1>1, <1>2 DEF RunOK
<1> QED
  BY <1>1, <1>3 DEF GoesOn, Ends

LEMMA RunMovesOn ==
    ASSUME ToolsInv, NEW p \in Tool, NEW place, ~At(p, "idle"), GoTo(p, place),
           toolRuns' = toolRuns, packed \subseteq packed',
           \A aside \in asides : aside \in asides' \/ aside.run = tool[p].run,
           place \in {"prepare", "write", "place tree"} => tool[p].files \in packed',
           place \in {"discard", "restore"} => tool[p].existed,
           place \in {"place", "discard", "restore"} /\ tool[p].existed =>
               HasOutputAside(tool[p].run, asides')
    PROVE  \E r : GoesOn(p, r) /\ r.at = place
<1>1. PICK old : old = tool[p]
  OBVIOUS
<1>2. RunOK(old, toolRuns, packed, asides)
  BY <1>1 DEF ToolsInv
<1>3. PICK r : r = RunAt(place, old.run, old.files, old.left, old.existed)
  OBVIOUS
<1>4. tool' = [tool EXCEPT ![p] = r]
  <2>1. [old EXCEPT !.at = place] = r
    BY <1>2, <1>3, PlaceChanges
  <2>2. tool' = [tool EXCEPT ![p] = [old EXCEPT !.at = place]]
    BY <1>1 DEF GoTo
  <2> QED
    BY <2>1, <2>2
<1>5. /\ r.at = place /\ r.run = old.run /\ r.files = old.files /\ r.left = old.left
      /\ r.existed = old.existed
  BY <1>3 DEF RunAt
<1>6. r = RunAt(r.at, r.run, r.files, r.left, r.existed)
  BY <1>3, <1>5
<1>7. old.run \in 0..toolRuns
  BY <1>2, Zenon DEF RunOK
<1>8. RunOK(r, toolRuns', packed', asides')
  BY <1>1, <1>5, <1>6, <1>7 DEF RunOK
<1> QED
  BY <1>1, <1>4, <1>5, <1>8 DEF GoesOn

LEMMA RunChanges ==
    ASSUME ToolsInv, NEW p \in Tool, NEW place, NEW files, NEW left, NEW existed, NEW old,
           old = tool[p], ~At(p, "idle"),
           tool' = [tool EXCEPT ![p] =
                       RunAt(place, old.run, files, left, existed)],
           place \in {"read", "write", "set aside"} \/ (place = "place" /\ ~existed),
           place = "write" => files \in packed,
           UNCHANGED <<toolRuns, packed, asides>>
    PROVE  \E r : GoesOn(p, r) /\ r.at = place
<1>1. RunOK(old, toolRuns, packed, asides)
  BY DEF ToolsInv
<1>2. PICK r : r = RunAt(place, old.run, files, left, existed)
  OBVIOUS
<1>3. r.at = place /\ r.run = old.run /\ r.files = files /\ r.left = left /\ r.existed = existed
  BY <1>2 DEF RunAt
<1>4. r = RunAt(r.at, r.run, r.files, r.left, r.existed)
  BY <1>2, <1>3
<1>5. old.run \in 0..toolRuns
  BY <1>1, Zenon DEF RunOK
<1>6. RunOK(r, toolRuns', packed', asides')
  BY <1>3, <1>4, <1>5 DEF RunOK
<1> QED
  BY <1>2, <1>3, <1>6 DEF GoesOn

LEMMA BeginStep ==
    ASSUME ToolsInv, NEW p \in Tool, NEW place \in {"read", "prepare", "save"}, NEW files,
           place = "prepare" => files \in packed, Begin(p, place, files)
    PROVE  ToolsInv'
<1>1. PICK r : r = RunAt(place, toolRuns + 1, files, DOMAIN files, FALSE)
  OBVIOUS
<1>2. tool' = [tool EXCEPT ![p] = r]
  <2>1. PICK new : new = [NoRun EXCEPT !.at = place, !.run = toolRuns + 1, !.files = files,
                                       !.left = DOMAIN files]
    OBVIOUS
  <2>2. tool' = [tool EXCEPT ![p] = new]
    BY <2>1 DEF Begin
  <2>3. NoRun.existed = FALSE /\ DOMAIN NoRun = {"at", "run", "files", "left", "existed"}
    BY DEF NoRun
  <2>4. /\ new = [k \in DOMAIN new |-> new[k]] /\ DOMAIN new = DOMAIN NoRun
        /\ new.at = place /\ new.run = toolRuns + 1 /\ new.files = files /\ new.left = DOMAIN files
        /\ new.existed = FALSE
    BY <2>1, <2>3
  <2>5. r = [k \in DOMAIN r |-> r[k]] /\ DOMAIN r = {"at", "run", "files", "left", "existed"}
    BY <1>1 DEF RunAt
  <2>6. /\ r.at = place /\ r.run = toolRuns + 1 /\ r.files = files /\ r.left = DOMAIN files
        /\ r.existed = FALSE
    BY <1>1 DEF RunAt
  <2>7. new = r
    <3>1. \A k \in {"at", "run", "files", "left", "existed"} : new[k] = r[k]
      BY <2>4, <2>6
    <3> QED
      BY <2>3, <2>4, <2>5, <3>1
  <2> QED
    BY <2>2, <2>7
<1>3. /\ r.at = place /\ r.run = toolRuns + 1 /\ r.files = files /\ r.left = DOMAIN files
      /\ r.existed = FALSE
  BY <1>1 DEF RunAt
<1>4. r = RunAt(r.at, r.run, r.files, r.left, r.existed)
  BY <1>1, <1>3
<1>5. toolRuns \in Nat /\ toolRuns' = toolRuns + 1 /\ r.run \in 0..toolRuns'
  BY <1>3 DEF Begin, ToolsInv
<1>6. UNCHANGED <<output, tree, asides, packed>>
  BY DEF Begin
<1>7. RunOK(r, toolRuns', packed', asides')
  BY <1>3, <1>4, <1>5, <1>6 DEF RunOK
<1>8. GoesOn(p, r) /\ r.at # "discard"
  BY <1>2, <1>3, <1>5, <1>6, <1>7 DEF GoesOn
<1> QED
  BY <1>6, <1>8, QuietToolStep

(* Each step keeps the invariant.  First the ones that move no package and *)
(* no tree.                                                                *)
LEMMA EndsQuietly ==
    ASSUME ToolsInv, NEW p \in Tool, Ends(p), UNCHANGED <<output, tree, asides, packed, toolRuns>>
    PROVE  ToolsInv'
BY RunEnds, QuietToolStep

LEMMA MovesOnQuietly ==
    ASSUME ToolsInv, NEW p \in Tool, NEW place, ~At(p, "idle"), GoTo(p, place),
           UNCHANGED <<output, tree, asides, packed, toolRuns>>,
           \/ place \in {"inspect", "replace"}
           \/ place \in {"restore"} /\ At(p, "place") /\ tool[p].existed
    PROVE  ToolsInv'
<1>1. At(p, "place") /\ tool[p].existed => HasOutputAside(tool[p].run, asides)
  BY DEF ToolsInv, RunOK, At
<1>2. PICK r : GoesOn(p, r) /\ r.at = place
  BY <1>1, RunMovesOn
<1> QED
  BY <1>2, QuietToolStep

LEMMA ChangesQuietly ==
    ASSUME ToolsInv, NEW p \in Tool, NEW place, NEW files, NEW left, NEW existed, NEW old,
           old = tool[p], ~At(p, "idle"),
           tool' = [tool EXCEPT ![p] =
                       RunAt(place, old.run, files, left, existed)],
           place \in {"read", "write", "set aside"} \/ (place = "place" /\ ~existed),
           place = "write" => files \in packed,
           UNCHANGED <<output, tree, toolRuns, packed, asides>>
    PROVE  ToolsInv'
<1>1. PICK r : GoesOn(p, r) /\ r.at = place
  BY RunChanges
<1> QED
  BY <1>1, QuietToolStep

LEMMA ReadSourceStep == ASSUME ToolsInv, NEW p \in Tool, ReadSource(p) PROVE ToolsInv'
<1>1. UNCHANGED <<output, tree, asides, packed, toolRuns>> /\ At(p, "read") /\ ~At(p, "idle")
  BY DEF ReadSource, At
<1>2. PICK old : old = tool[p]
  OBVIOUS
<1>3. ASSUME NEW files, tool' = [tool EXCEPT ![p].files = files] PROVE ToolsInv'
  <2>1. RunOK(old, toolRuns, packed, asides) /\ old.at = "read"
    BY <1>1, <1>2 DEF ToolsInv, At
  <2>2. [old EXCEPT !.files = files] =
            RunAt("read", old.run, files, old.left, old.existed)
    BY <2>1, FilesChange
  <2>3. tool' = [tool EXCEPT ![p] = [old EXCEPT !.files = files]]
    BY <1>2, <1>3
  <2>4. PICK place, left, existed : place = "read" /\ left = old.left /\ existed = old.existed
    OBVIOUS
  <2>5. tool' = [tool EXCEPT ![p] = RunAt(place, old.run, files, left, existed)]
    BY <2>2, <2>3, <2>4
  <2>6. place \in {"read", "write", "set aside"} /\ place # "write"
    BY <2>4
  <2> QED
    BY <1>1, <1>2, <2>5, <2>6, ChangesQuietly
<1>4. Ends(p) \/ \E files : tool' = [tool EXCEPT ![p].files = files]
  BY DEF ReadSource
<1> QED
  BY <1>1, <1>3, <1>4, EndsQuietly

LEMMA InspectOutputStep == ASSUME ToolsInv, NEW p \in Tool, InspectOutput(p) PROVE ToolsInv'
<1>1. UNCHANGED <<output, tree, asides, packed, toolRuns>> /\ ~At(p, "idle")
  BY DEF InspectOutput, At
<1>2. PICK old : old = tool[p]
  OBVIOUS
<1>3. PICK place, existed :
          /\ existed = (output # {})
          /\ place = IF output # {} THEN "set aside" ELSE "place"
          /\ tool' = [tool EXCEPT ![p] = [old EXCEPT !.existed = existed, !.at = place]]
  BY <1>2 DEF InspectOutput
<1>4. tool' = [tool EXCEPT ![p] = RunAt(place, old.run, old.files, old.left, existed)]
  <2>1. RunOK(old, toolRuns, packed, asides)
    BY <1>2 DEF ToolsInv
  <2>2. PICK new : new = [old EXCEPT !.existed = existed, !.at = place]
    OBVIOUS
  <2>3. new = RunAt(place, old.run, old.files, old.left, existed)
    BY <2>1, <2>2, PlaceAndExistedChange
  <2> QED
    BY <1>3, <2>2, <2>3
<1>5. place \in {"read", "write", "set aside"} \/ (place = "place" /\ ~existed)
  BY <1>3
<1>6. place # "write"
  BY <1>3
<1>7. PICK files, left : files = old.files /\ left = old.left
  OBVIOUS
<1>8. tool' = [tool EXCEPT ![p] = RunAt(place, old.run, files, left, existed)]
  BY <1>4, <1>7
<1> QED
  BY <1>1, <1>2, <1>5, <1>6, <1>8, ChangesQuietly

LEMMA PrepareTargetStep == ASSUME ToolsInv, NEW p \in Tool, PrepareTarget(p) PROVE ToolsInv'
<1>1. UNCHANGED <<output, tree, asides, packed, toolRuns>> /\ At(p, "prepare") /\ ~At(p, "idle")
  BY DEF PrepareTarget, At
<1>2. PICK old : old = tool[p]
  OBVIOUS
<1>3. ASSUME NEW existed, tool' = [tool EXCEPT ![p] = [old EXCEPT !.existed = existed, !.at = "write"]]
      PROVE  ToolsInv'
  <2>1. RunOK(old, toolRuns, packed, asides) /\ old.files \in packed
    BY <1>1, <1>2 DEF ToolsInv, RunOK, At
  <2>2. PICK new : new = [old EXCEPT !.existed = existed, !.at = "write"]
    OBVIOUS
  <2>3. new = RunAt("write", old.run, old.files, old.left, existed)
    BY <2>1, <2>2, PlaceAndExistedChange
  <2>4. tool' = [tool EXCEPT ![p] = RunAt("write", old.run, old.files, old.left, existed)]
    BY <1>3, <2>2, <2>3
  <2> QED
    BY <1>1, <1>2, <2>1, <2>4, ChangesQuietly
<1>4. Ends(p) \/ \E existed : tool' = [tool EXCEPT ![p] = [old EXCEPT !.existed = existed, !.at = "write"]]
  BY <1>2 DEF PrepareTarget
<1> QED
  BY <1>1, <1>3, <1>4, EndsQuietly

LEMMA WriteEntryStep == ASSUME ToolsInv, NEW p \in Tool, WriteEntry(p) PROVE ToolsInv'
<1>1. UNCHANGED <<output, tree, asides, packed, toolRuns>> /\ At(p, "write") /\ ~At(p, "idle")
  BY DEF WriteEntry, At
<1>2. PICK old : old = tool[p]
  OBVIOUS
<1>3. PICK left : tool' = [tool EXCEPT ![p] = [old EXCEPT !.left = left]]
  BY <1>2 DEF WriteEntry
<1>4. RunOK(old, toolRuns, packed, asides) /\ old.files \in packed /\ old.at = "write"
  BY <1>1, <1>2 DEF ToolsInv, RunOK, At
<1>5. tool' = [tool EXCEPT ![p] =
                  RunAt("write", old.run, old.files, left, old.existed)]
  BY <1>3, <1>4, LeftChanges
<1> QED
  BY <1>1, <1>2, <1>4, <1>5, ChangesQuietly

(* The steps that move a package.                                           *)
LEMMA SetOutputAsideStep == ASSUME ToolsInv, NEW p \in Tool, SetOutputAside(p) PROVE ToolsInv'
<1>1. /\ At(p, "set aside") /\ ~At(p, "idle") /\ UNCHANGED <<tree, packed, toolRuns>>
      /\ output' = {} /\ asides \subseteq asides'
  BY DEF SetOutputAside, SetAside, At
<1>2. CASE output = {}
  <2>1. asides' = asides
    BY <1>2 DEF SetOutputAside, SetAside
  <2>2. Ends(p)
    BY <1>2 DEF SetOutputAside
  <2> QED
    BY <1>1, <1>2, <2>1, <2>2, EndsQuietly
<1>3. CASE output # {}
  <2>1. GoTo(p, "place")
    BY <1>3 DEF SetOutputAside
  <2>2. PICK files \in output : TRUE
    BY <1>3
  <2>3. PICK new : new = [run |-> tool[p].run, of |-> "output", files |-> files]
    OBVIOUS
  <2>4. new \in asides' /\ new.run = tool[p].run /\ new.of = "output"
    BY <2>2, <2>3 DEF SetOutputAside, SetAside
  <2>5. HasOutputAside(tool[p].run, asides')
    BY <2>4 DEF HasOutputAside
  <2>6. PICK r : GoesOn(p, r) /\ r.at = "place"
    BY <1>1, <2>1, <2>5, RunMovesOn
  <2>7. AsidesAreWhole'
    <3>1. ASSUME NEW aside \in asides', aside \notin asides
          PROVE  aside.of = "output" /\ aside.files \in packed
      <4>1. PICK f \in output : aside = [run |-> tool[p].run, of |-> "output", files |-> f]
        BY <3>1 DEF SetOutputAside, SetAside
      <4> QED
        BY <4>1 DEF ToolsInv
    <3> QED
      BY <1>1, <3>1 DEF ToolsInv, AsidesAreWhole, Trees
  <2>8. OneIsKept'
    <3>1. ASSUME NEW q \in Tool, At(q, "discard")' PROVE tool'[q].run # new.run
      <4>1. q # p /\ tool'[q] = tool[q] /\ ~At(q, "idle")
        BY <2>6, <3>1, RunsGoOn DEF At
      <4> QED
        BY <1>1, <2>4, <4>1 DEF ToolsInv, RunsAreApart
    <3> QED
      BY <2>4, <3>1 DEF OneIsKept
  <2> QED
    BY <1>1, <2>6, <2>7, <2>8, RunsGoOn DEF ToolsInv, Trees
<1> QED
  BY <1>2, <1>3

LEMMA PlaceOutputStep == ASSUME ToolsInv, NEW p \in Tool, PlaceOutput(p) PROVE ToolsInv'
<1>1. /\ At(p, "place") /\ ~At(p, "idle") /\ UNCHANGED <<tree, asides, toolRuns>>
      /\ output' = {tool[p].files} /\ packed' = packed \cup {tool[p].files}
  BY DEF PlaceOutput, At
<1>2. tool[p].existed => HasOutputAside(tool[p].run, asides)
  BY <1>1 DEF ToolsInv, RunOK, At
<1>3. \E r : GoesOn(p, r)
  <2>1. CASE tool[p].existed
    <3>1. GoTo(p, "discard")
      BY <2>1 DEF PlaceOutput
    <3> QED
      BY <1>1, <1>2, <2>1, <3>1, RunMovesOn
  <2>2. CASE ~tool[p].existed
    <3>1. Ends(p)
      BY <2>2 DEF PlaceOutput
    <3> QED
      BY <1>1, <3>1, RunEnds
  <2> QED
    BY <2>1, <2>2
<1>4. AsidesAreWhole' /\ (output \subseteq packed)' /\ (tree \subseteq Trees)'
  BY <1>1 DEF ToolsInv, AsidesAreWhole, Trees
<1>5. OneIsKept'
  BY <1>1 DEF OneIsKept
<1> QED
  BY <1>3, <1>4, <1>5, RunsGoOn DEF ToolsInv

LEMMA RestoreOutputStep == ASSUME ToolsInv, NEW p \in Tool, RestoreOutput(p) PROVE ToolsInv'
<1>1. /\ At(p, "restore") /\ ~At(p, "idle") /\ UNCHANGED <<tree, packed, toolRuns>> /\ Ends(p)
      /\ output' = FilesAside(p, "output") /\ asides' = asides \ Aside(p, "output")
  BY DEF RestoreOutput, At
<1>2. \A aside \in asides : aside \in asides' \/ aside.run = tool[p].run
  BY <1>1 DEF Aside
<1>3. GoesOn(p, NoRun)
  BY <1>1, <1>2, RunEnds
<1>4. HasOutputAside(tool[p].run, asides)
  BY <1>1 DEF ToolsInv, RunOK, At
<1>5. output' # {}
  BY <1>1, <1>4 DEF HasOutputAside, FilesAside, Aside
<1>6. (output \subseteq packed)'
  BY <1>1 DEF FilesAside, Aside, ToolsInv, AsidesAreWhole
<1>7. AsidesAreWhole' /\ (tree \subseteq Trees)'
  BY <1>1 DEF ToolsInv, AsidesAreWhole, Trees
<1>8. OneIsKept'
  BY <1>5 DEF OneIsKept
<1> QED
  BY <1>3, <1>6, <1>7, <1>8, RunsGoOn DEF ToolsInv

LEMMA DiscardOutputStep == ASSUME ToolsInv, NEW p \in Tool, DiscardOutput(p) PROVE ToolsInv'
<1>1. /\ At(p, "discard") /\ ~At(p, "idle") /\ UNCHANGED <<output, tree, packed, toolRuns>> /\ Ends(p)
      /\ asides' = asides \ Aside(p, "output")
  BY DEF DiscardOutput, At
<1>2. \A aside \in asides : aside \in asides' \/ aside.run = tool[p].run
  BY <1>1 DEF Aside
<1>3. GoesOn(p, NoRun) /\ NoRun.at = "idle"
  BY <1>1, <1>2, RunEnds
<1>4. AsidesAreWhole' /\ (output \subseteq packed)' /\ (tree \subseteq Trees)'
  BY <1>1 DEF ToolsInv, AsidesAreWhole, Trees
<1>5. OneIsKept'
  <2>1. \A q \in Tool : At(q, "discard")' => At(q, "discard") /\ tool'[q] = tool[q]
    BY <1>3, RunsGoOn DEF At
  <2>2. CASE packed = {} \/ output # {}
    BY <1>1, <2>2 DEF OneIsKept
  <2>3. CASE packed # {} /\ output = {}
    <3>1. PICK aside \in asides : /\ aside.of = "output"
                                  /\ \A q \in Tool : At(q, "discard") => tool[q].run # aside.run
      BY <2>3 DEF ToolsInv, OneIsKept
    <3>2. aside \in asides'
      BY <1>1, <1>2, <3>1
    <3> QED
      BY <2>1, <3>1, <3>2 DEF OneIsKept
  <2> QED
    BY <2>2, <2>3
<1> QED
  BY <1>3, <1>4, <1>5, RunsGoOn DEF ToolsInv

(* The steps that move a tree: no package is moved, nor one that lies      *)
(* beside its place.                                                       *)
LEMMA TreeStep ==
    ASSUME ToolsInv, NEW p \in Tool, NEW r, GoesOn(p, r), r.at # "discard",
           UNCHANGED <<output, packed>>, tree' \subseteq Trees,
           \A aside \in asides' : aside \in asides \/ (aside.of = "tree" /\ aside.files \in Trees),
           \A aside \in asides : aside.of = "output" => aside \in asides'
    PROVE  ToolsInv'
<1>1. AsidesAreWhole' /\ (output \subseteq packed)' /\ (tree \subseteq Trees)'
  BY DEF ToolsInv, AsidesAreWhole, Trees
<1>2. OneIsKept'
  <2>1. \A q \in Tool : At(q, "discard")' => At(q, "discard") /\ tool'[q] = tool[q]
    BY RunsGoOn DEF At
  <2> QED
    BY <2>1 DEF ToolsInv, OneIsKept
<1> QED
  BY <1>1, <1>2, RunsGoOn DEF ToolsInv

LEMMA SetTreeAsideStep == ASSUME ToolsInv, NEW p \in Tool, SetTreeAside(p) PROVE ToolsInv'
<1>1. /\ At(p, "write") /\ ~At(p, "idle") /\ UNCHANGED <<output, packed, toolRuns>>
      /\ tree' = {} /\ asides \subseteq asides'
  BY DEF SetTreeAside, SetAside, At
<1>2. tool[p].files \in packed
  BY <1>1 DEF ToolsInv, RunOK, At
<1>3. \E r : GoesOn(p, r) /\ r.at # "discard"
  <2>1. CASE tree = {}
    <3>1. Ends(p)
      BY <2>1 DEF SetTreeAside
    <3> QED
      BY <1>1, <3>1, RunEnds
  <2>2. CASE tree # {}
    <3>1. GoTo(p, "place tree")
      BY <2>2 DEF SetTreeAside
    <3>2. \E r : GoesOn(p, r) /\ r.at = "place tree"
      BY <1>1, <1>2, <3>1, RunMovesOn
    <3> QED
      BY <3>2
  <2> QED
    BY <2>1, <2>2
<1>4. ASSUME NEW aside \in asides', aside \notin asides PROVE aside.of = "tree" /\ aside.files \in Trees
  <2>1. PICK f \in tree : aside = [run |-> tool[p].run, of |-> "tree", files |-> f]
    BY <1>4 DEF SetTreeAside, SetAside
  <2> QED
    BY <2>1 DEF ToolsInv
<1> QED
  BY <1>1, <1>3, <1>4, TreeStep

LEMMA PlaceTreeStep ==
    ASSUME ToolsInv, NEW p \in Tool, PlaceTree(p) \/ PlaceTreeFails(p)
    PROVE  ToolsInv'
<1>1. /\ At(p, "place tree") \/ At(p, "write")
      /\ Ends(p) /\ UNCHANGED <<output, packed, toolRuns>>
  BY DEF PlaceTree, PlaceTreeFails, At
<1>2. ~At(p, "idle") /\ tool[p].files \in packed
  BY <1>1 DEF ToolsInv, RunOK, At
<1>3. asides' = asides \/ asides' = asides \ Aside(p, "tree")
  BY DEF PlaceTree, PlaceTreeFails
<1>4. /\ \A aside \in asides : aside \in asides' \/ (aside.run = tool[p].run /\ aside.of = "tree")
      /\ asides' \subseteq asides
  BY <1>3 DEF Aside
<1>5. GoesOn(p, NoRun) /\ NoRun.at = "idle"
  BY <1>1, <1>2, <1>4, RunEnds
<1>6. tree' \in {tree, {tool[p].files}, FilesAside(p, "tree")}
  BY DEF PlaceTree, PlaceTreeFails
<1>7. FilesAside(p, "tree") \subseteq Trees
  BY DEF FilesAside, Aside, ToolsInv, AsidesAreWhole
<1>8. tree' \subseteq Trees
  BY <1>2, <1>6, <1>7 DEF ToolsInv, Trees
<1> QED
  BY <1>1, <1>4, <1>5, <1>8, TreeStep

LEMMA EditorWriteStep == ASSUME ToolsInv, EditorWrite PROVE ToolsInv'
<1>1. UNCHANGED <<output, asides, packed, tool, toolRuns>> /\ tree' \subseteq tree \cup {<<>>, ForeignTree}
  BY DEF EditorWrite
<1> QED
  BY <1>1 DEF ToolsInv, RunsAreApart, AsidesAreWhole, OneIsKept, Trees, At

(* A tool that dies, fails or saves changes no package and no tree.         *)
LEMMA OtherToolSteps ==
    ASSUME ToolsInv, NEW p \in Tool,
           \/ BeginPack(p) \/ WritePackage(p) \/ PlaceOutputFails(p)
           \/ BeginUnpack(p) \/ WriteEntryFails(p)
           \/ BeginSaveAtomic(p) \/ PrepareSave(p) \/ ReplaceConfig(p) \/ ToolDies(p)
    PROVE  ToolsInv'
<1>1. CASE BeginPack(p)
  BY <1>1, BeginStep DEF BeginPack
<1>2. CASE BeginUnpack(p)
  <2>1. PICK files \in output : Begin(p, "prepare", files)
    BY <1>2 DEF BeginUnpack
  <2>2. files \in packed
    BY DEF ToolsInv
  <2> QED
    BY <2>1, <2>2, BeginStep
<1>3. CASE BeginSaveAtomic(p)
  BY <1>3, BeginStep DEF BeginSaveAtomic
<1>4. CASE WritePackage(p)
  <2>1. UNCHANGED <<output, tree, asides, packed, toolRuns>> /\ ~At(p, "idle")
    BY <1>4 DEF WritePackage, At
  <2>2. GoTo(p, "inspect") \/ Ends(p)
    BY <1>4 DEF WritePackage
  <2> QED
    BY <2>1, <2>2, EndsQuietly, MovesOnQuietly
<1>5. CASE PlaceOutputFails(p)
  <2>1. UNCHANGED <<output, tree, asides, packed, toolRuns>> /\ At(p, "place") /\ ~At(p, "idle")
    BY <1>5 DEF PlaceOutputFails, At
  <2>2. Ends(p) \/ (tool[p].existed /\ GoTo(p, "restore"))
    BY <1>5 DEF PlaceOutputFails
  <2> QED
    BY <2>1, <2>2, EndsQuietly, MovesOnQuietly
<1>6. CASE WriteEntryFails(p) \/ ToolDies(p) \/ ReplaceConfig(p)
  BY <1>6, EndsQuietly DEF WriteEntryFails, ToolDies, ReplaceConfig
<1>7. CASE PrepareSave(p)
  <2>1. UNCHANGED <<output, tree, asides, packed, toolRuns>> /\ ~At(p, "idle")
    BY <1>7 DEF PrepareSave, At
  <2>2. GoTo(p, "replace") \/ Ends(p)
    BY <1>7 DEF PrepareSave
  <2> QED
    BY <2>1, <2>2, EndsQuietly, MovesOnQuietly
<1> QED
  BY <1>1, <1>2, <1>3, <1>4, <1>5, <1>6, <1>7

(* However many packers, unpackers and savers overtake each other, fail    *)
(* and die, and whatever an editor does: once a package was placed there   *)
(* is one, at its place or beside it, every output is a whole package, and *)
(* a directory that was unpacked to holds a whole one or nothing of it.    *)
THEOREM PackagesStayWhole == ToolsSpec => []ToolsKeepWholes
<1>1. ToolsInit => ToolsInv
  <2> SUFFICES ASSUME ToolsInit PROVE ToolsInv
    OBVIOUS
  <2>1. /\ NoRun.at = "idle" /\ NoRun.run = 0 /\ NoRun = RunAt("idle", 0, <<>>, {}, FALSE)
        /\ NoRun = RunAt(NoRun.at, NoRun.run, NoRun.files, NoRun.left, NoRun.existed)
    BY DEF NoRun, RunAt
  <2>2. RunOK(NoRun, toolRuns, packed, asides)
    <3>1. toolRuns = 0 /\ 0 \in 0..0
      BY DEF ToolsInit
    <3> QED
      BY <2>1, <3>1 DEF RunOK
  <2>3. \A p \in Tool : tool[p] = NoRun /\ At(p, "idle")
    BY <2>1 DEF ToolsInit, At
  <2>4. RunsAreApart /\ AsidesAreWhole /\ OneIsKept
    BY <2>3 DEF ToolsInit, RunsAreApart, AsidesAreWhole, OneIsKept
  <2> QED
    BY <2>2, <2>3, <2>4 DEF ToolsInit, ToolsInv, Trees
<1>2. ToolsInv /\ [ToolsNext]_toolVars => ToolsInv'
  <2> SUFFICES ASSUME ToolsInv, [ToolsNext]_toolVars PROVE ToolsInv'
    OBVIOUS
  <2>1. CASE UNCHANGED toolVars
    BY <2>1 DEF toolVars, ToolsInv, RunsAreApart, AsidesAreWhole, OneIsKept, Trees, At
  <2> QED
    BY <2>1, EditorWriteStep, ReadSourceStep, InspectOutputStep, SetOutputAsideStep,
       PlaceOutputStep, RestoreOutputStep, DiscardOutputStep, PrepareTargetStep, WriteEntryStep,
       SetTreeAsideStep, PlaceTreeStep, OtherToolSteps
    DEF ToolsNext
<1>3. ToolsInv => ToolsKeepWholes
  BY DEF ToolsInv, OneIsKept, ToolsKeepWholes, Trees
<1> QED
  BY <1>1, <1>2, <1>3, PTL DEF ToolsSpec
=============================================================================
