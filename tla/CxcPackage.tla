------------------------------ MODULE CxcPackage ------------------------------
(***************************************************************************)
(* The CXC package: the Stored ZIP32 file that holds it, the manifest, and *)
(* what packCxc and unpackCxc do with a directory.                         *)
(*                                                                         *)
(* The file, of writeCanonicalZip32 and validateZip32Envelope, is a        *)
(* sequence of cells; a header or an end record is one cell and a byte of  *)
(* an entry another, so that offsets and sizes count cells.  The checksum  *)
(* of bytes is the bytes.  "plain" is false when a header asks for a       *)
(* feature that CXC excludes: flags, compression, extra fields, comments,  *)
(* ZIP64 or a file that is a link.                                         *)
(***************************************************************************)
EXTENDS ProjectFiles

CONSTANTS
    MaxPathDepth, \* names in a path
    MaxEntries,   \* entries of an archive
    PathsInOrder  \* all paths, in the order of their bytes

Local(path, bytes, plain) ==
    [kind |-> "local", path |-> path, size |-> Len(bytes), crc |-> bytes, plain |-> plain]
Central(path, bytes, plain, at) ==
    [kind |-> "central", path |-> path, size |-> Len(bytes), crc |-> bytes,
     plain |-> plain, at |-> at]
End(count, size, at) ==
    [kind |-> "end", count |-> count, size |-> size, at |-> at]
Byte(byte) == [kind |-> "byte", byte |-> byte]
Cells(bytes) == [k \in DOMAIN bytes |-> Byte(bytes[k])]

IsArchivePath(path) == IsPortablePath(path) /\ Len(path) <= MaxPathDepth

(* insertUniqueArchivePath, for all entries of an archive or a manifest.   *)
PathsAreApart(paths) ==
    \A i, j \in DOMAIN paths : i # j => ~Overlap(Folded(paths[i]), Folded(paths[j]))

-------------------------------------------------------------------------------
(* writeCanonicalZip32 of a sequence of entries.                           *)
Placed(entry) == <<Local(entry.path, entry.bytes, TRUE)>> \o Cells(entry.bytes)

OffsetOf(entries, i) ==
    FoldLeft(LAMBDA sum, entry : sum + 1 + Len(entry.bytes), 0, SubSeq(entries, 1, i - 1))

Archive(entries) ==
    FlattenSeq([i \in DOMAIN entries |-> Placed(entries[i])])
       \o [i \in DOMAIN entries |->
             Central(entries[i].path, entries[i].bytes, TRUE, OffsetOf(entries, i))]
       \o <<End(Len(entries), Len(entries), OffsetOf(entries, Len(entries) + 1))>>

-------------------------------------------------------------------------------
Is(file, k, kind) == k \in DOMAIN file /\ file[k].kind = kind

(* Offsets are from 0; the cell at an offset is the next one.              *)
CentralOf(file) == SubSeq(file, Last(file).at + 1, Len(file) - 1)

(* The end record is the last cell, and the directory lies just before it. *)
EndIsValid(file) ==
    /\ file # <<>> /\ Is(file, Len(file), "end")
    /\ Last(file).count \in 1..MaxEntries
    /\ Last(file).at + Last(file).size = Len(file) - 1

CentralIsValid(file) ==
    LET headers == CentralOf(file)
    IN  /\ Len(headers) = Last(file).count
        /\ \A i \in DOMAIN headers :
              /\ Is(headers, i, "central")
              /\ headers[i].plain
              /\ IsArchivePath(headers[i].path)
        /\ PathsAreApart([i \in DOMAIN headers |-> headers[i].path])

DataOf(file, header) ==
    [k \in 1..header.size |-> file[header.at + 1 + k]]

LocalIsValid(file, header) ==
    /\ Is(file, header.at + 1, "local")
    /\ file[header.at + 1] = Local(header.path, header.crc, TRUE)
    /\ header.at + 1 + header.size <= Last(file).at
    /\ DataOf(file, header) = Cells(header.crc)

(* Sorted by their first cell, each range begins where the one before ends,*)
(* and the last ends at the directory.                                     *)
RangesTile(headers, end) ==
    LET sorted == SortSeq(headers, LAMBDA one, two : one.at < two.at)
        stop(i) == sorted[i].at + 1 + sorted[i].size
    IN  /\ \A i \in DOMAIN sorted : sorted[i].at = IF i = 1 THEN 0 ELSE stop(i - 1)
        /\ stop(Len(sorted)) = end

EnvelopeIsValid(file) ==
    /\ EndIsValid(file)
    /\ CentralIsValid(file)
    /\ \A i \in DOMAIN CentralOf(file) : LocalIsValid(file, CentralOf(file)[i])
    /\ RangesTile(CentralOf(file), Last(file).at)

(* The entries in the order of the directory.                              *)
EntriesOf(file) ==
    [i \in DOMAIN CentralOf(file) |->
       [path |-> CentralOf(file)[i].path, bytes |-> CentralOf(file)[i].crc]]

-------------------------------------------------------------------------------
(* An accepted file is some entries with different paths, placed after     *)
(* each other in some order, then their headers in some order, then the    *)
(* end: every byte belongs to one entry and nothing is hidden in it.       *)
IsArchive(file) ==
    \E n \in 1..MaxEntries :
       /\ n < Len(file)
       /\ LET headers == SubSeq(file, Len(file) - n, Len(file) - 1)
          IN  /\ \A i \in 1..n :
                    /\ Is(headers, i, "central")
                    /\ headers[i].plain /\ IsArchivePath(headers[i].path)
                    /\ headers[i].size = Len(headers[i].crc)
              /\ \A i, j \in 1..n :
                    i # j => ~Overlap(Folded(headers[i].path), Folded(headers[j].path))
              /\ \E order \in SetToSeqs(1..n) :
                    LET placed == [i \in 1..n |-> [path |-> headers[order[i]].path,
                                                   bytes |-> headers[order[i]].crc]]
                    IN  /\ file = FlattenSeq([i \in 1..n |-> Placed(placed[i])])
                                     \o headers
                                     \o <<End(n, n, OffsetOf(placed, n + 1))>>
                        /\ \A i \in 1..n : headers[order[i]].at = OffsetOf(placed, i)

-------------------------------------------------------------------------------
(***************************************************************************)
(* CxcWriter, CxcManifestLoader and buildPackage.  The first entry of the  *)
(* archive, the manifest, lists the others with their digests; these are   *)
(* the project's documents and exactly the files that the documents name.  *)
(* The content of a file is a document, and its digest the document.       *)
(***************************************************************************)
Rank(path) == CHOOSE k \in DOMAIN PathsInOrder : PathsInOrder[k] = path
InPathOrder(paths) == SelectSeq(PathsInOrder, LAMBDA path : path \in paths)

ManifestPath == <<"manifest">>
ProjectPath == <<"project">>

(* "playback" are the paths of compiled charts in the extension            *)
(* cuexis.chart-entry.v1; "required" the ids of required extensions.       *)
Manifest(files, playback) ==
    LET paths == InPathOrder(DOMAIN files)
    IN  [kind |-> "manifest", version |-> 1, required |-> <<>>, playback |-> playback,
         entries |-> [i \in DOMAIN paths |-> [path |-> paths[i], sha |-> files[paths[i]]]]]

ManifestIsValid(manifest) ==
    LET paths == [i \in DOMAIN manifest.entries |-> manifest.entries[i].path]
    IN  /\ manifest.kind = "manifest"
        /\ manifest.version = 1
        /\ Distinct(manifest.required) /\ 0 \notin ToSet(manifest.required)
        /\ Len(paths) \in 1..(MaxEntries - 1)
        /\ \A i \in DOMAIN paths : IsArchivePath(paths[i]) /\ paths[i] # ManifestPath
        /\ PathsAreApart(<<ManifestPath>> \o paths)
        /\ \A i \in 1..(Len(paths) - 1) : Rank(paths[i]) < Rank(paths[i + 1])
        /\ ProjectPath \in ToSet(paths)

(* A package is an archive of entries whose bytes are one document.        *)
PackageEntry(path, content) == [path |-> path, bytes |-> <<content>>]
Package(files, playback) ==
    LET paths == InPathOrder(DOMAIN files)
    IN  Archive(<<PackageEntry(ManifestPath, Manifest(files, playback))>>
                  \o [i \in DOMAIN paths |-> PackageEntry(paths[i], files[paths[i]])])

ContentOf(bytes) == IF Len(bytes) = 1 THEN Head(bytes) ELSE [kind |-> "other"]

FilesOf(package) ==
    LET entries == EntriesOf(package)
        at(path) == CHOOSE i \in DOMAIN entries : entries[i].path = path
    IN  [path \in {entries[i].path : i \in DOMAIN entries} |->
            ContentOf(entries[at(path)].bytes)]

(* A bug: an entry that the manifest does not list is let through.         *)
ListedEntriesMatch(manifest, files) ==
    \A i \in DOMAIN manifest.entries :
       /\ manifest.entries[i].path \in DOMAIN files
       /\ files[manifest.entries[i].path] = manifest.entries[i].sha

EntriesMatch(manifest, files) ==
    LET listed == {manifest.entries[i].path : i \in DOMAIN manifest.entries}
    IN  /\ listed \cup {ManifestPath} = DOMAIN files
        /\ \A i \in DOMAIN manifest.entries :
              files[manifest.entries[i].path] = manifest.entries[i].sha

-------------------------------------------------------------------------------
(* validateDependencyGraph: in the order of ids, with the depth below each *)
(* asset that was left; the depth of any other is 0.                       *)
PackageVisit(records) ==
    LET VisitState == [depth : [Ids(records) -> Nat], child : Nat, cyclic : BOOLEAN, deep : BOOLEAN]
        raised(v, depth) == [v EXCEPT !.child = IF depth > @ THEN depth ELSE @]
        visit[stack \in Seq(Ids(records)), state \in VisitState] ==
           LET asset == Last(stack)
               enter(v, id) ==
                  IF id \notin Ids(records) THEN v
                  ELSE IF v.depth[id] # 0 THEN raised(v, v.depth[id])
                  ELSE IF id \in ToSet(stack) THEN [v EXCEPT !.cyclic = TRUE]
                  ELSE LET below == visit[Append(stack, id), [v EXCEPT !.child = 0]]
                       IN  raised([below EXCEPT !.child = v.child], below.depth[id])
               all == FoldLeft(enter, [state EXCEPT !.child = 0],
                               InIdOrder(ById(records, asset).dependencies))
               depth == all.child + 1
           IN  [all EXCEPT !.depth[asset] = depth, !.deep = @ \/ depth > MaxDependencyDepth]
    IN  visit

PackageVisits(records) ==
    LET begin(v, id) ==
           IF v.depth[id] # 0 THEN v ELSE PackageVisit(records)[<<id>>, v]
    IN  FoldLeft(begin, [depth |-> [id \in Ids(records) |-> 0], child |-> 0,
                         cyclic |-> FALSE, deep |-> FALSE],
                 InIdOrder(Ids(records)))

(* A bug: which types may have which dependencies is not asked.            *)
DependenciesOfAnyType(records) ==
    /\ \A asset \in ToSet(records) : asset.dependencies \subseteq Ids(records)
    /\ ~PackageVisits(records).cyclic
    /\ ~PackageVisits(records).deep

DependenciesAreValid(records) ==
    /\ LeavesAreKept(ToSet(records))
    /\ \A asset \in ToSet(records) : asset.dependencies \subseteq Ids(records)
    /\ ~PackageVisits(records).cyclic
    /\ ~PackageVisits(records).deep

-------------------------------------------------------------------------------
(* A chart names assets by use, [id, type]; one of version 4 also imports  *)
(* animation templates, which name assets themselves.                      *)
UsesAreValid(uses, assets) ==
    \A use \in uses : \E asset \in assets : asset.id = use.id /\ asset.type = use.type

ImportIsValid(import, files, sources, assets) ==
    /\ import.source \in DOMAIN files \ sources
    /\ files[import.source].kind = "template"
    /\ files[import.source].id = import.id
    /\ UsesAreValid(files[import.source].uses, assets)

(* ProjectConfig, then the index and the sources of each root, then the    *)
(* entry chart and its imports; "reached" are the files that were named.   *)
ConfigOf(files) == files[ProjectPath]
IndexPaths(files) ==
    [i \in DOMAIN ConfigOf(files).roots |-> IndexPath(ConfigOf(files).roots[i].path)]
Records(files, i) == files[IndexPaths(files)[i]].assets
AllRecords(files) == FlattenSeq([i \in DOMAIN ConfigOf(files).roots |-> Records(files, i)])
SourcesOfRoot(files, i) ==
    {ConfigOf(files).roots[i].path \o asset.source : asset \in ToSet(Records(files, i))}
Sources(files) == UNION {SourcesOfRoot(files, i) : i \in DOMAIN ConfigOf(files).roots}

ChartPath(files) ==
    LET i == CHOOSE k \in DOMAIN ConfigOf(files).roots :
                ConfigOf(files).roots[k].id = ConfigOf(files).entry.root
    IN  ConfigOf(files).roots[i].path \o ConfigOf(files).entry.path
ChartOf(files) == files[ChartPath(files)]

Reached(files, playback) ==
    {ProjectPath, ChartPath(files)} \cup ToSet(IndexPaths(files)) \cup Sources(files)
       \cup {ChartOf(files).imports[i].source : i \in DOMAIN ChartOf(files).imports}
       \cup playback

IndexesAreValid(files) ==
    /\ \A i \in DOMAIN ConfigOf(files).roots :
          /\ IndexPaths(files)[i] \in DOMAIN files
          /\ IndexIsValid(files[IndexPaths(files)[i]])
          /\ SourcesOfRoot(files, i) \subseteq DOMAIN files
          /\ \A asset \in ToSet(Records(files, i)) :
                Folded(asset.source) # Folded(<<IndexName>>)
          /\ Cardinality(SourcesOfRoot(files, i)) = Len(Records(files, i))
    /\ Len(AllRecords(files)) <= MaxAssets
    /\ Distinct([k \in DOMAIN AllRecords(files) |-> AllRecords(files)[k].id])
    /\ DependenciesAreValid(AllRecords(files))

ChartIsValid(files) ==
    LET assets == ToSet(AllRecords(files))
        imports == ChartOf(files).imports
    IN  /\ ChartPath(files) \in DOMAIN files \ Sources(files)
        /\ ChartOf(files).kind = "chart"
        /\ UsesAreValid(ChartOf(files).uses, assets)
        /\ Distinct([i \in DOMAIN imports |-> imports[i].source])
        /\ \A i \in DOMAIN imports : ImportIsValid(imports[i], files, Sources(files), assets)

(* buildPackage.                                                           *)
PackageIsValid(package) ==
    /\ EnvelopeIsValid(package)
    /\ ManifestPath \in DOMAIN FilesOf(package)
    /\ LET files == FilesOf(package)
           manifest == files[ManifestPath]
       IN  /\ ManifestIsValid(manifest)
           /\ EntriesMatch(manifest, files)
           /\ ConfigIsValid(ConfigOf(files))
           /\ LET roots == ConfigOf(files).roots
              IN  /\ \A i \in DOMAIN roots : IsArchivePath(roots[i].path)
                  /\ PathsAreApart([i \in DOMAIN roots |-> roots[i].path])
           /\ IndexesAreValid(files)
           /\ ChartIsValid(files)
           /\ DOMAIN files \ {ManifestPath} \subseteq Reached(files, manifest.playback)

(* CxcWriter::write: what it built is loaded before it is returned.        *)
WriterAccepts(files) ==
    /\ Cardinality(DOMAIN files) \in 1..(MaxEntries - 1)
    /\ PathsAreApart(<<ManifestPath>> \o InPathOrder(DOMAIN files))
    /\ ProjectPath \in DOMAIN files
    /\ PackageIsValid(Package(files, {}))

-------------------------------------------------------------------------------
(* snapshotSourceProject: the next file to read, given those already read. *)
(* The packer reads through links, and takes each document as it finds it. *)
Unread(paths, read) == SelectSeq(paths, LAMBDA path : path \notin DOMAIN read)

NextToRead(read) ==
    LET config == ConfigOf(read)
        sources(i) == [k \in DOMAIN Records(read, i) |->
                         config.roots[i].path \o Records(read, i)[k].source]
        wanted(i) == <<IndexPaths(read)[i]>>
                       \o (IF IndexPaths(read)[i] \in DOMAIN read THEN sources(i) ELSE <<>>)
        ofRoots == Unread(FlattenSeq([i \in DOMAIN config.roots |-> wanted(i)]), read)
    IN  IF ProjectPath \notin DOMAIN read THEN <<ProjectPath>>
        ELSE IF ofRoots # <<>> THEN <<Head(ofRoots)>>
        ELSE IF ChartPath(read) \notin DOMAIN read THEN <<ChartPath(read)>>
        ELSE LET imports == Unread([i \in DOMAIN ChartOf(read).imports |->
                                      ChartOf(read).imports[i].source], read)
             IN  IF imports = <<>> THEN <<>> ELSE <<Head(imports)>>

(* A document that is not what its place asks for ends the snapshot.       *)
IsReadable(read, path, content) ==
    IF path = ProjectPath THEN ConfigIsValid(content)
    ELSE IF path \in ToSet(IndexPaths(read)) THEN IndexIsValid(content)
    ELSE path = ChartPath(read) => content.kind = "chart"

(* unpackCxc writes the entries of the manifest, without the manifest.     *)
Unpacked(package) ==
    [path \in DOMAIN FilesOf(package) \ {ManifestPath} |-> FilesOf(package)[path]]
-------------------------------------------------------------------------------
(* What a package should be, without an order of checks: the manifest is   *)
(* the one of the files; every file but a compiled chart is claimed by one *)
(* document, for one purpose, and is fit for it.                           *)
Claim(path, kind, by) == [path |-> path, kind |-> kind, by |-> by]

Claims(files) ==
    LET config == ConfigOf(files)
        roots == DOMAIN config.roots
        imports == ChartOf(files).imports
    IN  {Claim(ProjectPath, "project", <<0, 0>>), Claim(ChartPath(files), "chart", <<0, 0>>)}
        \cup {Claim(IndexPaths(files)[i], "index", <<i, 0>>) : i \in roots}
        \cup UNION {{Claim(config.roots[i].path \o Records(files, i)[k].source, "data", <<i, k>>) :
                        k \in DOMAIN Records(files, i)} : i \in roots}
        \cup {Claim(imports[k].source, "template", <<k, 0>>) : k \in DOMAIN imports}

DocumentsAreThere(files) ==
    /\ ProjectPath \in DOMAIN files /\ ConfigIsValid(ConfigOf(files))
    /\ \A i \in DOMAIN IndexPaths(files) :
          IndexPaths(files)[i] \in DOMAIN files /\ IndexIsValid(files[IndexPaths(files)[i]])
    /\ ChartPath(files) \in DOMAIN files /\ ChartOf(files).kind = "chart"

IsSound(package) ==
    /\ EnvelopeIsValid(package)
    /\ ManifestPath \in DOMAIN FilesOf(package)
    /\ LET manifest == FilesOf(package)[ManifestPath]
           files == Unpacked(package)
       IN  /\ manifest.kind = "manifest"
           /\ manifest = [Manifest(files, manifest.playback) EXCEPT !.required = manifest.required]
           /\ Distinct(manifest.required) /\ 0 \notin ToSet(manifest.required)
           /\ DocumentsAreThere(files)
           /\ DOMAIN files \subseteq {claim.path : claim \in Claims(files)} \cup manifest.playback
           /\ \A claim \in Claims(files) :
                 /\ claim.path \in DOMAIN files
                 /\ claim.kind # "data" => files[claim.path].kind = claim.kind
                 /\ \A other \in Claims(files) : claim.path = other.path => claim = other
           /\ GraphIsSound(AllRecords(files))
           /\ Distinct([k \in DOMAIN AllRecords(files) |-> AllRecords(files)[k].id])
           /\ Len(AllRecords(files)) <= MaxAssets
           /\ PathsAreApart([i \in DOMAIN ConfigOf(files).roots |-> ConfigOf(files).roots[i].path])
           /\ \A document \in {ChartOf(files)} \cup
                 {files[ChartOf(files).imports[k].source] : k \in DOMAIN ChartOf(files).imports} :
                 \A use \in document.uses :
                    \E asset \in ToSet(AllRecords(files)) : <<asset.id, asset.type>> = <<use.id, use.type>>
           /\ \A k \in DOMAIN ChartOf(files).imports :
                 files[ChartOf(files).imports[k].source].id = ChartOf(files).imports[k].id
===============================================================================
