----------------------------- MODULE MediaImporter -----------------------------
(***************************************************************************)
(* cuexis_media_importer: a source is converted, or its artifact is taken  *)
(* from the cache; the artifact is published under the hash of its bytes   *)
(* and its provenance under the id of the asset; the result is cached.     *)
(*                                                                         *)
(* Importers share the cache and the output directory.  The files that     *)
(* publish.cpp writes first have the process id in their name; the ones of *)
(* the cache end in ".partial" for every process.  An importer may be      *)
(* killed between two steps, its calls may fail, and somebody may damage a *)
(* file of the cache.  A hash names one content.  The process id of a dead *)
(* importer does not come back, so the file it leaves under its id is      *)
(* dropped with the import.                                                *)
(***************************************************************************)
EXTENDS Files

CONSTANTS
    Source,     \* encoded media files
    Artifact,   \* what they convert to
    Convert,    \* the artifact of each source
    ImportRequests,   \* the command lines that are used
    MaxImports, \* BOUND on the imports
    MaxFaults   \* BOUND on importers killed, calls that fail, files damaged

ASSUME ImporterAssumption ==
    /\ Convert \in [Source -> Artifact]
    /\ ImportRequests \subseteq [source : Source, id : STRING,
                           rebuild : BOOLEAN, worker : BOOLEAN]
    /\ {MaxImports, MaxFaults} \subseteq Nat

VARIABLES
    import,     \* what each importer is doing
    imports, faults

importVars == <<import, imports, faults, fileVars>>

(* Contents: an artifact, a cache record and a provenance sidecar.  The    *)
(* key of a record is the source: profile, decoder family and build        *)
(* options are those of the tool.                                          *)
Media(a) == <<"artifact", a>>
Record(s, a) == <<"record", s, a>>
Provenance(s, a) == <<"provenance", s, a>>
Junk == <<"junk">>

(* An id of "" is one that was not given.                                  *)
AssetIds == {r.id : r \in ImportRequests} \ {""}

RecordFile(s) == <<"record", s>>
CachedFile(a) == <<"cached", a>>
OutputFile(a) == <<"output", a>>
SidecarFile(id) == <<"sidecar", id>>
Own(p) == <<"own", p>>
Partial(path) == <<"partial", path>>

CachePaths == {RecordFile(s) : s \in Source} \cup {CachedFile(a) : a \in Artifact}
OutputPaths == {OutputFile(a) : a \in Artifact}
ImporterPaths ==
    CachePaths \cup {Partial(path) : path \in CachePaths} \cup OutputPaths
    \cup {SidecarFile(id) : id \in AssetIds} \cup {Own(p) : p \in Process}

ASSUME ImporterPathsAssumption == ImporterPaths \subseteq Path

(* contentIdentity: the artifact that bytes are, or none that has a name.  *)
Named(bytes) == {a \in Artifact : bytes = WholeOf(Media(a))}

(* decodeMediaCacheRecord and the comparison with the request.             *)
RecordedFor(s, bytes) == {a \in Artifact : bytes = WholeOf(Record(s, a))}

NoImport == [step |-> "idle", source |-> "none", id |-> "", worker |-> FALSE, goal |-> "none", artifact |-> {}, bytes |-> <<>>,
             cached |-> FALSE, result |-> "none"]

ImporterInit ==
    /\ import = [p \in Process |-> NoImport]
    /\ imports = 0 /\ faults = 0

-------------------------------------------------------------------------------
Importing(p, step) == import[p].step = step
ImportGoes(p, step) == import' = [import EXCEPT ![p].step = step]
ImportFails(p, why) ==
    import' = [import EXCEPT ![p] = [NoImport EXCEPT !.result = why]]
SameTally == UNCHANGED <<imports, faults>>
SourceOf(p) == import[p].source

(* The file that is published or stored now, and what goes into it.        *)
ArtifactOf(p) == CHOOSE a \in import[p].artifact : TRUE
Destination(p) ==
    CASE import[p].goal = "output" -> OutputFile(ArtifactOf(p))
      [] import[p].goal = "sidecar" -> SidecarFile(import[p].id)
      [] import[p].goal = "cached" -> CachedFile(ArtifactOf(p))
      [] import[p].goal = "record" -> RecordFile(SourceOf(p))
Payload(p) ==
    CASE import[p].goal = "output" -> import[p].bytes
      [] import[p].goal = "sidecar" -> WholeOf(Provenance(SourceOf(p), ArtifactOf(p)))
      [] import[p].goal = "cached" -> import[p].bytes
      [] import[p].goal = "record" -> WholeOf(Record(SourceOf(p), ArtifactOf(p)))

(* Where the import goes on once a file is in place: the sidecar only with *)
(* an asset id, the cache only when the artifact did not come from it.     *)
NextGoal(p) ==
    IF import[p].goal = "output" /\ import[p].id # "" THEN "sidecar"
    ELSE IF import[p].goal \in {"output", "sidecar"} /\ ~import[p].cached THEN "cached"
    ELSE IF import[p].goal = "cached" THEN "record"
    ELSE "none"
Proceeds(p) ==
    import' = [import EXCEPT ![p] =
        IF NextGoal(p) = "none"
        THEN [NoImport EXCEPT !.source = SourceOf(p), !.result = "ok"]
        ELSE [@ EXCEPT !.goal = NextGoal(p),
                       !.step = IF NextGoal(p) = "sidecar" THEN "publish" ELSE "store"]]

BeginImport(p, r) ==
    /\ Importing(p, "idle")
    /\ imports < MaxImports
    /\ imports' = imports + 1
    /\ import' = [import EXCEPT ![p] = [NoImport EXCEPT !.source = r.source, !.id = r.id,
                    !.worker = r.worker,
                    !.step = IF r.rebuild THEN "discard" ELSE "look"]]
    /\ UNCHANGED faults /\ FilesUnchanged

(* --rebuild removes the record of this request and no artifact.           *)
DiscardRecord(p) ==
    /\ Importing(p, "discard")
    /\ RemoveFile(p, RecordFile(SourceOf(p)))
    /\ ImportGoes(p, "look")
    /\ SameTally

(* The record is looked for, then read; the artifact it names is read and  *)
(* hashed.  Only a missing record leads to a conversion.                   *)
LookForRecord(p) ==
    /\ Importing(p, "look")
    /\ IF Exists(RecordFile(SourceOf(p)))
       THEN ImportGoes(p, "readRecord") ELSE ImportGoes(p, "convert")
    /\ SameTally /\ FilesUnchanged

ReadRecord(p) ==
    /\ Importing(p, "readRecord")
    /\ LET found == RecordedFor(SourceOf(p), Bytes(RecordFile(SourceOf(p))))
       IN  IF found = {} THEN ImportFails(p, "corrupt")
           ELSE import' = [import EXCEPT ![p].step = "readCached", ![p].artifact = found]
    /\ SameTally /\ FilesUnchanged

(* A bug: load trusts the file under the name the record gives.            *)
ReadCachedUnhashed(p) ==
    /\ Importing(p, "readCached")
    /\ LET bytes == Bytes(CachedFile(ArtifactOf(p)))
       IN  IF Len(bytes) # 2 THEN ImportFails(p, "corrupt")
           ELSE import' = [import EXCEPT ![p].step = "publish", ![p].goal = "output",
                                         ![p].bytes = bytes, ![p].cached = TRUE]
    /\ SameTally /\ FilesUnchanged

ReadCached(p) ==
    /\ Importing(p, "readCached")
    /\ LET bytes == Bytes(CachedFile(ArtifactOf(p)))
       IN  IF Named(bytes) # import[p].artifact THEN ImportFails(p, "corrupt")
           ELSE import' = [import EXCEPT ![p].step = "publish", ![p].goal = "output",
                                         ![p].bytes = bytes, ![p].cached = TRUE]
    /\ SameTally /\ FilesUnchanged

(* In process the artifact is in memory and publishAll writes it.          *)
ConvertInProcess(p) ==
    /\ Importing(p, "convert") /\ ~import[p].worker
    /\ import' = [import EXCEPT ![p].step = "publish", ![p].goal = "output",
                    ![p].artifact = {Convert[SourceOf(p)]},
                    ![p].bytes = WholeOf(Media(Convert[SourceOf(p)]))]
    /\ SameTally /\ FilesUnchanged

(* The worker leaves its artifact in a file of this import, and the parent *)
(* hashes that file.                                                       *)
ConvertInWorker(p) ==
    /\ Importing(p, "convert") /\ import[p].worker
    /\ Deposit(p, Own(p), WholeOf(Media(Convert[SourceOf(p)])))
    /\ import' = [import EXCEPT ![p].step = "promote", ![p].goal = "output",
                                ![p].artifact = {Convert[SourceOf(p)]}]
    /\ SameTally

(* promoteTemporary: a target that exists must hash to its name.           *)
PromoteKnown(p) ==
    /\ Importing(p, "promote") /\ Exists(Destination(p))
    /\ RemoveFile(p, Own(p))
    /\ IF Named(Bytes(Destination(p))) = import[p].artifact
       THEN ImportGoes(p, "readBack") ELSE ImportFails(p, "conflict")
    /\ SameTally

PromoteNew(p) ==
    /\ Importing(p, "promote") /\ ~Exists(Destination(p))
    /\ ImportGoes(p, "promoteRename")
    /\ SameTally /\ FilesUnchanged

PromoteRename(p) ==
    /\ Importing(p, "promoteRename")
    /\ RenameFile(p, Own(p), Destination(p))
    /\ ImportGoes(p, "readBack")
    /\ SameTally

(* verifyProvenanceArtifact hashes the bytes before anything records them; *)
(* without an asset id the artifact is published already.                  *)
ReadBack(p) ==
    /\ Importing(p, "readBack")
    /\ LET bytes == Bytes(Destination(p))
           next == IF import[p].id = "" THEN <<"store", "cached">>
                   ELSE <<"publish", "output">>
       IN  IF import[p].id # "" /\ Named(bytes) # import[p].artifact
           THEN ImportFails(p, "identity")
           ELSE import' = [import EXCEPT ![p].bytes = bytes,
                              ![p].step = next[1], ![p].goal = next[2]]
    /\ SameTally /\ FilesUnchanged

-------------------------------------------------------------------------------
(* publishImmutable: the same bytes are already there, others are refused. *)
PublishKnown(p) ==
    /\ Importing(p, "publish") /\ Exists(Destination(p))
    /\ IF Bytes(Destination(p)) = Payload(p) THEN Proceeds(p) ELSE ImportFails(p, "conflict")
    /\ SameTally /\ FilesUnchanged

(* A bug: the temporary file is renamed before it is flushed.              *)
PublishUnflushed(p) ==
    /\ Importing(p, "publish") /\ ~Exists(Destination(p))
    /\ Deposit(p, Own(p), SubSeq(Payload(p), 1, 1))
    /\ ImportGoes(p, "publishRename")
    /\ SameTally

PublishNew(p) ==
    /\ Importing(p, "publish") /\ ~Exists(Destination(p))
    /\ Deposit(p, Own(p), Payload(p))
    /\ ImportGoes(p, "publishRename")
    /\ SameTally

PublishRename(p) ==
    /\ Importing(p, "publishRename")
    /\ RenameFile(p, Own(p), Destination(p))
    /\ Proceeds(p)
    /\ SameTally

(* MediaCacheStore::store: an artifact that exists is verified, a record   *)
(* that exists must be the same, and what is missing is written.           *)
StoreKnown(p) ==
    /\ Importing(p, "store") /\ Exists(Destination(p))
    /\ IF Bytes(Destination(p)) = Payload(p) THEN Proceeds(p) ELSE ImportFails(p, "conflict")
    /\ SameTally /\ FilesUnchanged

(* writeWholeFile: the sibling is truncated, written and flushed, the file *)
(* is removed and the sibling renamed to it.                               *)
StoreNew(p) ==
    /\ Importing(p, "store") /\ ~Exists(Destination(p))
    /\ OpenTruncated(p, Partial(Destination(p)))
    /\ ImportGoes(p, "storeWrite")
    /\ SameTally

StoreChunk(p) ==
    /\ Importing(p, "storeWrite") /\ ~AllWritten(p)
    /\ WriteChunk(p, Payload(p)[1])
    /\ UNCHANGED import /\ SameTally

StoreRemove(p) ==
    /\ Importing(p, "storeWrite") /\ AllWritten(p)
    /\ RemoveFile(p, Destination(p))
    /\ ImportGoes(p, "storeRename")
    /\ SameTally

StoreRename(p) ==
    /\ Importing(p, "storeRename")
    /\ IF Exists(Partial(Destination(p)))
       THEN RenameFile(p, Partial(Destination(p)), Destination(p)) /\ Proceeds(p)
       ELSE FilesUnchanged /\ ImportFails(p, "io")
    /\ SameTally

(* The conversion, the worker or a call on the file system fails; what the *)
(* failing step had opened is closed and its own file removed.             *)
ImportStepFails(p) ==
    /\ import[p].step \in {"discard", "readRecord", "convert", "promoteRename", "readBack",
                           "publish", "publishRename", "store", "storeWrite", "storeRename"}
    /\ faults < MaxFaults
    /\ faults' = faults + 1
    /\ ImportFails(p, "io")
    /\ CASE import[p].step \in {"publishRename", "promoteRename"} -> RemoveFile(p, Own(p))
         [] import[p].step \in {"storeWrite", "storeRename"} -> RemoveFile(p, Partial(Destination(p)))
         [] OTHER -> FilesUnchanged
    /\ UNCHANGED imports

ImporterDies(p) ==
    /\ ~Importing(p, "idle")
    /\ faults < MaxFaults
    /\ faults' = faults + 1
    /\ import' = [import EXCEPT ![p] = NoImport]
    /\ RemoveFile(p, Own(p))
    /\ UNCHANGED imports

DamageCache(path) ==
    /\ faults < MaxFaults
    /\ faults' = faults + 1
    /\ Exists(path)
    /\ data' = [data EXCEPT ![inodeAt[path]] = WholeOf(Junk)]
    /\ UNCHANGED <<import, imports, inodeAt, open, offset>>

ImporterNext ==
    \/ \E p \in Process :
        \/ \E r \in ImportRequests : BeginImport(p, r)
        \/ DiscardRecord(p) \/ LookForRecord(p) \/ ReadRecord(p) \/ ReadCached(p)
        \/ ConvertInProcess(p) \/ ConvertInWorker(p)
        \/ PromoteKnown(p) \/ PromoteNew(p) \/ PromoteRename(p) \/ ReadBack(p)
        \/ PublishKnown(p) \/ PublishNew(p) \/ PublishRename(p)
        \/ StoreKnown(p) \/ StoreNew(p) \/ StoreChunk(p)
        \/ StoreRemove(p) \/ StoreRename(p)
        \/ ImportStepFails(p) \/ ImporterDies(p)
    \/ \E path \in CachePaths : DamageCache(path)

ImporterSpec == NoFiles /\ ImporterInit /\ [][ImporterNext]_importVars

-------------------------------------------------------------------------------
OutputsAreExact ==
    /\ \A a \in Artifact : Exists(OutputFile(a)) => Holds(OutputFile(a), Media(a))
    /\ \A p \in Process : import[p].result = "ok" =>
           Holds(OutputFile(Convert[SourceOf(p)]), Media(Convert[SourceOf(p)]))

SidecarsAreWhole ==
    \A id \in AssetIds : Exists(SidecarFile(id)) =>
        \E s \in Source : Holds(SidecarFile(id), Provenance(s, Convert[s]))

(* Published media are named by the hash of their bytes: whatever is in    *)
(* the cache, torn by two importers that share a ".partial" file or by     *)
(* damage, an output file holds the artifact it is named by, and an import *)
(* that succeeds has published what converting its source gives.  A        *)
(* sidecar is all of one provenance record, also when two imports of one   *)
(* asset publish at the same time.                                         *)
PublishedMediaAreExact == OutputsAreExact /\ SidecarsAreWhole
===============================================================================
