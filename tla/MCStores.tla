------------------------------- MODULE MCStores -------------------------------
(***************************************************************************)
(* Two processes that share files: players and their preferences,          *)
(* importers and their cache, players and their compiled shaders, and the  *)
(* writers of packages and of generations, who share a lock and two        *)
(* directories.  A behavior is of one of them; "family" says which.        *)
(***************************************************************************)
EXTENDS Preferences, MediaImporter, ShaderCache, PackagePublish, GenerationPublish

VARIABLE family

vars ==
    <<preferencesVars, importVars, shaderVars, packageVars, generationVars, family>>

CONSTANTS p1, p2

(* Two sources give one artifact.  The worker imports one of them without  *)
(* an asset id; the other is imported in process; one is rebuilt.          *)
MCConvert == "png" :> "texture" @@ "jpg" :> "texture"
MCRequests ==
    {[source |-> "png", id |-> "", rebuild |-> FALSE, worker |-> TRUE],
     [source |-> "jpg", id |-> "logo", rebuild |-> FALSE, worker |-> FALSE],
     [source |-> "png", id |-> "logo", rebuild |-> TRUE, worker |-> TRUE]}

(* The variants of one shader; the fourth key leaves its keywords out, and *)
(* the fifth has no source identity.                                       *)
Ask(source, entry, keywords, compile) ==
    [key |-> [source |-> source, entry |-> entry, keywords |-> keywords],
     entry |-> entry, keywords |-> keywords, compile |-> compile]
MCPrepares ==
    {Ask("glsl", "", {}, TRUE), Ask("glsl", "main", {}, FALSE),
     Ask("glsl", "main", {"FOG"}, TRUE),
     [Ask("glsl", "main", {"FOG"}, TRUE) EXCEPT !.key.keywords = {}],
     Ask("zero", "", {"FOG"}, TRUE)}

(* What a key names, its request asks for: KeysAgree.                      *)
ASSUME RequestsAssumption ==
    \A r \in Prepares : /\ r.key.entry \in {"", r.entry}
                        /\ r.key.keywords \in {{}, r.keywords}

MCPath == PreferencesPaths \cup ImporterPaths \cup ShaderPaths

(* The two package targets are in different directories.                   *)
CONSTANTS a, b
MCParentOf == (a :> 1) @@ (b :> 2)

Init ==
    /\ \/ family = "preferences" /\ PreferencesFiles
       \/ family \in {"media", "shaders", "packages", "generations"} /\ NoFiles
    /\ PreferencesInit /\ ImporterInit /\ ShaderInit
    /\ LockInit /\ PackageInit /\ GenerationInit

(* What each family leaves alone.                                          *)
NotPreferences == UNCHANGED <<save, saves, deaths>>
NotMedia == UNCHANGED <<import, imports, faults>>
NotShaders == UNCHANGED <<pipeline, prepare, overlapped, prepares, crashed>>
NotPackages == UNCHANGED <<visible, durable, job, batches, crashes>>
NotGenerations ==
    UNCHANGED <<published, synced, staging, adopted, recorded, task, calls, kills,
                powerLosses, damaged, quiet>>

Next ==
    /\ \/ /\ family = "preferences" /\ PreferencesNext
          /\ NotMedia /\ NotShaders /\ NotPackages /\ NotGenerations /\ UNCHANGED holder
       \/ /\ family = "media" /\ ImporterNext
          /\ NotPreferences /\ NotShaders /\ NotPackages /\ NotGenerations
          /\ UNCHANGED holder
       \/ /\ family = "shaders" /\ ShaderNext
          /\ NotPreferences /\ NotMedia /\ NotPackages /\ NotGenerations
          /\ UNCHANGED holder
       \/ /\ family = "packages" /\ PackageNext
          /\ NotPreferences /\ NotMedia /\ NotShaders /\ NotGenerations /\ FilesUnchanged
       \/ /\ family = "generations" /\ GenerationNext
          /\ NotPreferences /\ NotMedia /\ NotShaders /\ NotPackages /\ FilesUnchanged
    /\ UNCHANGED family

(* Every process has finished.  Nothing else may stop.                     *)
Finished ==
    /\ \A p \in Process : Saving(p, "idle") /\ Importing(p, "idle") /\ Preparing(p, "idle")
    /\ \A w \in Writers : At(w, "idle") /\ Doing(w, "idle")
    /\ \/ saves = MaxSaves \/ imports = MaxImports \/ prepares = MaxPrepares
       \/ batches = MaxBatches \/ calls = MaxCalls
    /\ UNCHANGED vars

Spec == Init /\ [][Next \/ Finished]_vars

(* What a publication of either kind reports as done survives a power      *)
(* loss.                                                                   *)
SuccessIsDurable == PackagesAreDurable /\ GenerationsAreDurable

Symmetry == Permutations(Process) \cup Permutations(Identity)
===============================================================================
