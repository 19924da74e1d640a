------------------------------ MODULE ShaderCache ------------------------------
(***************************************************************************)
(* ShaderCacheStore and ShaderPipelineCache: compiled shaders are kept in  *)
(* files named by a hash of what they were compiled from.  Several players *)
(* may prepare the same shader; each writes the sibling ".tmp" of the file *)
(* and renames it.  The stream is closed after its state was checked, so   *)
(* what it still buffers may be lost without an error.                     *)
(*                                                                         *)
(* A compilation gives the program of a source, an entry point and the     *)
(* selected keywords, or fails.  Targets and tool versions are those of    *)
(* the build; a cache of another build has other keys.                     *)
(***************************************************************************)
EXTENDS Files

CONSTANTS
    Prepares,    \* the calls of prepareCandidate that are made
    MaxPrepares, \* BOUND on them
    MaxPlayerCrashes \* BOUND on the players that are killed

ASSUME ShaderAssumption ==
    /\ {MaxPrepares, MaxPlayerCrashes} \subseteq Nat
    /\ Prepares \subseteq [key : [source : STRING, entry : STRING, keywords : SUBSET STRING],
                           entry : STRING, keywords : SUBSET STRING, compile : BOOLEAN]

VARIABLES
    pipeline,    \* the candidate and the active record of each player
    prepare,     \* the call of prepareCandidate it is in
    overlapped,  \* the keys whose temporary file two players wrote at once
    prepares, crashed

shaderVars == <<pipeline, prepare, overlapped, prepares, crashed, fileVars>>

(* encodeCacheKey: an entry point that was not given is "main".            *)
EntryOr(entry, default) == IF entry = "" THEN default ELSE entry
CacheKey(key) == [key EXCEPT !.entry = EntryOr(@, "main")]

(* A bug: the keywords are not hashed.                                     *)
CacheKeyWithoutKeywords(key) ==
    [key EXCEPT !.entry = EntryOr(@, "main"), !.keywords = {}]

(* The record prepareCandidate stores after a compilation: what the key    *)
(* leaves out is taken from the request.                                   *)
RecordKey(r) ==
    CacheKey([source |-> r.key.source,
              entry |-> EntryOr(r.key.entry, r.entry),
              keywords |-> IF r.key.keywords = {} THEN r.keywords ELSE r.key.keywords])

(* The program a request asks for.                                         *)
Program(r) == [source |-> r.key.source, entry |-> EntryOr(r.entry, "main"),
               keywords |-> r.keywords]

(* A record of a source that is all zeros has nothing else in its key.     *)
HasMetadata(r) == \/ {r.key.entry, r.entry} \ {"", "main"} # {}
                  \/ r.key.keywords \cup r.keywords # {}
ValidRequest(r) == r.key.source = "zero" => ~HasMetadata(r)

(* No request contradicts its key: what the key names, the request asks    *)
(* for.  prepareCandidate does not check it.                               *)
KeysAgree == \A r \in Prepares : RecordKey(r) = Program(r)

ShaderFile(key) == <<"shader", key>>
ShaderTemporary(key) == <<"shader.tmp", key>>
ShaderKeys == {CacheKey(r.key) : r \in Prepares} \cup {RecordKey(r) : r \in Prepares}
ShaderPaths == {ShaderFile(k) : k \in ShaderKeys} \cup {ShaderTemporary(k) : k \in ShaderKeys}

ASSUME ShaderPathsAssumption == ShaderPaths \subseteq Path

(* The file of a record has three parts: the envelope and the fields of    *)
(* the key; the artifact; its end and the key.                             *)
ShaderParts == 3
Entry(key, program, part) == <<"shader", key, program, part>>
ShaderRecord(key, program) == [part \in 1..ShaderParts |-> Entry(key, program, part)]
Programs == {Program(r) : r \in Prepares}

(* An artifact of which a part is missing, or is that of another.          *)
TornProgram == [source |-> "torn", entry |-> "torn", keywords |-> {"torn"}]
ArtifactIn(key, bytes) ==
    IF \E q \in Programs : bytes = ShaderRecord(key, q)
      THEN CHOOSE q \in Programs : bytes = ShaderRecord(key, q)
      ELSE TornProgram

StartsWithKey(bytes, key) == bytes # <<>> /\ \E q \in Programs : bytes[1] = Entry(key, q, 1)
EndsWithKey(bytes, key) ==
    Len(bytes) = ShaderParts /\ \E q \in Programs : bytes[ShaderParts] = Entry(key, q, ShaderParts)

(* A bug: decodeCache does not compare the size with the envelope.         *)
DecodedUnmeasured(bytes) ==
    {[key |-> key, program |-> ArtifactIn(key, bytes)] :
        key \in {k \in ShaderKeys : StartsWithKey(bytes, k)}}

(* decodeCache: the magic, the total size, the fields and the key are      *)
(* checked; over the bytes of the artifact there is no digest.  (Where a   *)
(* torn artifact cannot be parsed, it misses: MissShader.)                 *)
Decoded(bytes) ==
    {[key |-> key, program |-> ArtifactIn(key, bytes)] :
        key \in {k \in ShaderKeys : StartsWithKey(bytes, k) /\ EndsWithKey(bytes, k)}}

NoRecord == {}
NotPreparing == [step |-> "idle", request |-> {}, result |-> "none"]

ShaderInit ==
    /\ pipeline = [p \in Process |-> [candidate |-> NoRecord, active |-> NoRecord]]
    /\ prepare = [p \in Process |-> NotPreparing]
    /\ overlapped = {} /\ prepares = 0 /\ crashed = 0

-------------------------------------------------------------------------------
Preparing(p, step) == prepare[p].step = step
Asked(p) == CHOOSE r \in prepare[p].request : TRUE
PrepareGoes(p, step) == prepare' = [prepare EXCEPT ![p].step = step]
PrepareEnds(p, result) ==
    prepare' = [prepare EXCEPT ![p].step = "idle", ![p].result = result]
SamePipelines == UNCHANGED <<pipeline, prepares, crashed>>
SameKeys == UNCHANGED overlapped

BeginPrepare(p, r) ==
    /\ Preparing(p, "idle")
    /\ prepares < MaxPrepares
    /\ prepares' = prepares + 1
    /\ prepare' = [prepare EXCEPT ![p] = [request |-> {r},
          step |-> IF ValidRequest(r) THEN "load" ELSE "idle",
          result |-> IF ValidRequest(r) THEN "none" ELSE "refused"]]
    /\ UNCHANGED <<pipeline, crashed>> /\ SameKeys /\ FilesUnchanged

FoundShader(p) ==
    LET key == CacheKey(Asked(p).key)
    IN  {r \in Decoded(Bytes(ShaderFile(key))) : r.key = key}

LoadShader(p) ==
    /\ Preparing(p, "load")
    /\ FoundShader(p) # {}
    /\ pipeline' = [pipeline EXCEPT ![p].candidate = FoundShader(p)]
    /\ PrepareEnds(p, "ok")
    /\ UNCHANGED <<prepares, crashed>> /\ SameKeys /\ FilesUnchanged

(* A file that is absent, not reusable or not readable is compiled again,  *)
(* if the player may compile.                                              *)
MissShader(p) ==
    /\ Preparing(p, "load")
    /\ IF Asked(p).compile THEN PrepareGoes(p, "compile") ELSE PrepareEnds(p, "failed")
    /\ UNCHANGED pipeline
    /\ UNCHANGED <<prepares, crashed>> /\ SameKeys /\ FilesUnchanged

CompileOnWorker(p) ==
    /\ Preparing(p, "compile")
    /\ PrepareGoes(p, "open")
    /\ SamePipelines /\ SameKeys /\ FilesUnchanged

IsBeingWritten(path) == Exists(path) /\ \E q \in Process : open[q] = inodeAt[path]

StoreShader(p) ==
    /\ Preparing(p, "open")
    /\ LET key == RecordKey(Asked(p))
       IN  /\ OpenTruncated(p, ShaderTemporary(key))
           /\ overlapped' = overlapped \cup {k \in {key} : IsBeingWritten(ShaderTemporary(k))}
    /\ PrepareGoes(p, "write")
    /\ SamePipelines

WriteShader(p) ==
    /\ Preparing(p, "write") /\ offset[p] < ShaderParts
    /\ WriteChunk(p, Entry(RecordKey(Asked(p)), Program(Asked(p)), offset[p] + 1))
    /\ UNCHANGED prepare /\ SamePipelines /\ SameKeys

(* The stream is closed, with or without the parts that it still buffers,  *)
(* and the old file is removed.                                            *)
RemoveShader(p) ==
    /\ Preparing(p, "write")
    /\ RemoveFile(p, ShaderFile(RecordKey(Asked(p))))
    /\ PrepareGoes(p, "rename")
    /\ SamePipelines /\ SameKeys

CommitShader(p) ==
    /\ Preparing(p, "rename")
    /\ LET key == RecordKey(Asked(p))
       IN  IF Exists(ShaderTemporary(key))
           THEN /\ RenameFile(p, ShaderTemporary(key), ShaderFile(key))
                /\ pipeline' = [pipeline EXCEPT ![p].candidate =
                                  {[key |-> key, program |-> Program(Asked(p))]}]
                /\ PrepareEnds(p, "ok")
           ELSE /\ FilesUnchanged
                /\ UNCHANGED pipeline
                /\ PrepareEnds(p, "failed")
    /\ UNCHANGED <<prepares, crashed>> /\ SameKeys

(* A failure keeps the active record; a rename that fails takes the        *)
(* temporary file away.                                                    *)
PrepareStepFails(p) ==
    /\ prepare[p].step \in {"compile", "open", "write", "rename"}
    /\ PrepareEnds(p, "failed")
    /\ IF Preparing(p, "rename") THEN RemoveFile(p, ShaderTemporary(RecordKey(Asked(p))))
       ELSE CloseFile(p)
    /\ SamePipelines /\ SameKeys

(* activate: a swap on the owner thread.                                   *)
Activate(p) ==
    /\ Preparing(p, "idle")
    /\ pipeline[p].candidate # NoRecord
    /\ pipeline' = [pipeline EXCEPT ![p] =
                      [candidate |-> NoRecord, active |-> pipeline[p].candidate]]
    /\ UNCHANGED <<prepare, prepares, crashed>> /\ SameKeys /\ FilesUnchanged

PlayerCrashes(p) ==
    /\ ~Preparing(p, "idle")
    /\ crashed < MaxPlayerCrashes
    /\ crashed' = crashed + 1
    /\ prepare' = [prepare EXCEPT ![p] = NotPreparing]
    /\ pipeline' = [pipeline EXCEPT ![p] = [candidate |-> NoRecord, active |-> NoRecord]]
    /\ CloseFile(p)
    /\ UNCHANGED prepares /\ SameKeys

ShaderNext ==
    \E p \in Process :
        \/ \E r \in Prepares : BeginPrepare(p, r)
        \/ LoadShader(p) \/ MissShader(p) \/ CompileOnWorker(p)
        \/ StoreShader(p) \/ WriteShader(p) \/ RemoveShader(p) \/ CommitShader(p)
        \/ PrepareStepFails(p) \/ Activate(p) \/ PlayerCrashes(p)

ShaderSpec == NoFiles /\ ShaderInit /\ [][ShaderNext]_shaderVars

-------------------------------------------------------------------------------
(* A program is the wanted one, or it is torn and two players wrote the    *)
(* temporary file of its key at once.                                      *)
IsProgram(program, wanted, key) ==
    program = wanted \/ (program = TornProgram /\ key \in overlapped)

ProgramsMatchTheirKeys ==
    \A p \in Process : \A r \in pipeline[p].candidate \cup pipeline[p].active :
        IsProgram(r.program, r.key, r.key)

Consistent(r) == CacheKey(r.key) = Program(r)
CandidateIsWhatWasAskedFor ==
    \A p \in Process : prepare[p].result = "ok" /\ Consistent(Asked(p)) =>
        \A r \in pipeline[p].candidate : IsProgram(r.program, Program(Asked(p)), r.key)

(* prepareCandidate and activate: a player never draws with a program of   *)
(* other keywords or of another entry point than the key of its record     *)
(* says, and a request whose key names its entry point and keywords, as    *)
(* the ones of OpenGlPresentation do, gets the program it asks for,        *)
(* whoever writes the same files.  Lost ends of streams, kills, failing    *)
(* calls and renames of a file another player has begun never give a torn  *)
(* program.  One thing does, and nothing more is promised then: a player   *)
(* truncates the temporary file of a key while another one is writing it.  *)
PreparedProgramsAreRight == ProgramsMatchTheirKeys /\ CandidateIsWhatWasAskedFor
===============================================================================
