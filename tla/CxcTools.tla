------------------------------- MODULE CxcTools -------------------------------
(***************************************************************************)
(* Processes around one project directory: cuexis_cxc_pack reads it file   *)
(* by file while an editor writes to it and ProjectLoader::saveAtomic      *)
(* replaces its configuration; cuexis_cxc_unpack takes the package apart   *)
(* into a directory that somebody else may use.  A staging file, a staging *)
(* directory and a backup have a name of their own for every run.          *)
(*                                                                         *)
(* A package is its files.  What may be missing is a set of at most one:   *)
(* {} is no file, {<<>>} is an empty directory.                            *)
(***************************************************************************)
EXTENDS CxcPackage

CONSTANTS
    Tool,          \* processes
    SavedConfigs,  \* configurations that are saved
    EditorWrites,  \* [path, content] of the files that an editor writes
    ForeignTree,   \* what somebody puts into the directory that is unpacked to
    MaxToolRuns, MaxToolFaults, MaxEditorWrites \* BOUNDS

VARIABLES
    project,  \* the files of the project directory
    output,   \* the package that is written to
    tree,     \* the directory that is unpacked to
    asides,   \* [run, of, files]: backups
    packed,   \* what was ever placed as a package
    tool,     \* what each process is doing
    toolRuns, toolFaults, editorWrites

toolVars ==
    <<project, output, tree, asides, packed, tool, toolRuns, toolFaults, editorWrites>>

NoRun == [at |-> "idle", run |-> 0, files |-> <<>>, left |-> {}, existed |-> FALSE]

ToolsInit ==
    /\ output = {} /\ tree = {} /\ asides = {} /\ packed = {}
    /\ tool = [p \in Tool |-> NoRun]
    /\ toolRuns = 0 /\ toolFaults = 0 /\ editorWrites = 0

At(p, place) == tool[p].at = place
GoTo(p, place) == tool' = [tool EXCEPT ![p].at = place]
Ends(p) == tool' = [tool EXCEPT ![p] = NoRun]

Aside(p, of) == {aside \in asides : aside.run = tool[p].run /\ aside.of = of}
FilesAside(p, of) == {aside.files : aside \in Aside(p, of)}
SetAside(p, of, what) == asides' = asides \cup {[run |-> tool[p].run, of |-> of, files |-> f] : f \in what}

Begin(p, place, files) ==
    /\ At(p, "idle") /\ toolRuns < MaxToolRuns
    /\ toolRuns' = toolRuns + 1
    /\ tool' = [tool EXCEPT ![p] = [NoRun EXCEPT !.at = place, !.run = toolRuns + 1,
                                                 !.files = files, !.left = DOMAIN files]]
    /\ UNCHANGED <<project, output, tree, asides, packed, toolFaults, editorWrites>>

-------------------------------------------------------------------------------
BeginPack(p) == Begin(p, "read", <<>>)

(* snapshotSourceProject reads the next file that the ones before name.    *)
ReadSource(p) ==
    /\ At(p, "read")
    /\ NextToRead(tool[p].files) # <<>>
    /\ LET path == NextToRead(tool[p].files)[1]
       IN  IF path \in DOMAIN project /\ IsReadable(tool[p].files, path, project[path])
             THEN tool' = [tool EXCEPT ![p].files = (path :> project[path]) @@ @]
             ELSE Ends(p)
    /\ UNCHANGED <<project, output, tree, asides, packed, toolRuns, toolFaults, editorWrites>>

WritePackage(p) ==
    /\ At(p, "read")
    /\ NextToRead(tool[p].files) = <<>>
    /\ IF WriterAccepts(tool[p].files) THEN GoTo(p, "inspect") ELSE Ends(p)
    /\ UNCHANGED <<project, output, tree, asides, packed, toolRuns, toolFaults, editorWrites>>

InspectOutput(p) ==
    /\ At(p, "inspect")
    /\ tool' = [tool EXCEPT ![p].existed = output # {},
                            ![p].at = IF output # {} THEN "set aside" ELSE "place"]
    /\ UNCHANGED <<project, output, tree, asides, packed, toolRuns, toolFaults, editorWrites>>

(* A bug: the old package is removed before the new one takes its place.   *)
RemoveOldOutput(p) ==
    /\ At(p, "set aside")
    /\ output' = {}
    /\ IF output = {} THEN Ends(p) ELSE GoTo(p, "place")
    /\ UNCHANGED <<project, tree, asides, packed, toolRuns, toolFaults, editorWrites>>

(* The rename fails when another packer moved the package first.           *)
SetOutputAside(p) ==
    /\ At(p, "set aside")
    /\ SetAside(p, "output", output)
    /\ output' = {}
    /\ IF output = {} THEN Ends(p) ELSE GoTo(p, "place")
    /\ UNCHANGED <<project, tree, packed, toolRuns, toolFaults, editorWrites>>

PlaceOutput(p) ==
    /\ At(p, "place")
    /\ output' = {tool[p].files}
    /\ packed' = packed \cup {tool[p].files}
    /\ IF tool[p].existed THEN GoTo(p, "discard") ELSE Ends(p)
    /\ UNCHANGED <<project, tree, asides, toolRuns, toolFaults, editorWrites>>

PlaceOutputFails(p) ==
    /\ At(p, "place") /\ toolFaults < MaxToolFaults
    /\ toolFaults' = toolFaults + 1
    /\ IF tool[p].existed THEN GoTo(p, "restore") ELSE Ends(p)
    /\ UNCHANGED <<project, output, tree, asides, packed, toolRuns, editorWrites>>

RestoreOutput(p) ==
    /\ At(p, "restore")
    /\ output' = FilesAside(p, "output")
    /\ asides' = asides \ Aside(p, "output")
    /\ Ends(p)
    /\ UNCHANGED <<project, tree, packed, toolRuns, toolFaults, editorWrites>>

DiscardOutput(p) ==
    /\ At(p, "discard")
    /\ asides' = asides \ Aside(p, "output")
    /\ Ends(p)
    /\ UNCHANGED <<project, output, tree, packed, toolRuns, toolFaults, editorWrites>>

-------------------------------------------------------------------------------
(* unpackCxc validates the package, then the target: a directory that is   *)
(* empty or not there.                                                     *)
BeginUnpack(p) == \E files \in output : Begin(p, "prepare", files)

PrepareTarget(p) ==
    /\ At(p, "prepare")
    /\ IF tree \in {{}, {<<>>}}
         THEN tool' = [tool EXCEPT ![p].existed = tree # {}, ![p].at = "write"]
         ELSE Ends(p)
    /\ UNCHANGED <<project, output, tree, asides, packed, toolRuns, toolFaults, editorWrites>>

WriteEntry(p) ==
    /\ At(p, "write")
    /\ tool[p].left # {}
    /\ tool' = [tool EXCEPT ![p].left = @ \ {Head(InPathOrder(@))}]
    /\ UNCHANGED <<project, output, tree, asides, packed, toolRuns, toolFaults, editorWrites>>

(* The staging tree is removed.                                            *)
WriteEntryFails(p) ==
    /\ At(p, "write") /\ tool[p].left # {} /\ toolFaults < MaxToolFaults
    /\ toolFaults' = toolFaults + 1
    /\ Ends(p)
    /\ UNCHANGED <<project, output, tree, asides, packed, toolRuns, editorWrites>>

(* Whatever is there by now is moved: the target is not inspected again.   *)
SetTreeAside(p) ==
    /\ At(p, "write") /\ tool[p].left = {} /\ tool[p].existed
    /\ SetAside(p, "tree", tree)
    /\ tree' = {}
    /\ IF tree = {} THEN Ends(p) ELSE GoTo(p, "place tree")
    /\ UNCHANGED <<project, output, packed, toolRuns, toolFaults, editorWrites>>

(* A directory is renamed over one that is empty or not there.             *)
PlaceTree(p) ==
    /\ \/ At(p, "place tree")
       \/ At(p, "write") /\ tool[p].left = {} /\ ~tool[p].existed
    /\ IF tree \in {{}, {<<>>}}
         THEN /\ tree' = {tool[p].files}
              /\ asides' = asides \ Aside(p, "tree")
         ELSE UNCHANGED <<tree, asides>>
    /\ Ends(p)
    /\ UNCHANGED <<project, output, packed, toolRuns, toolFaults, editorWrites>>

(* The rename itself fails; the backup goes back if nothing is in its way. *)
PlaceTreeFails(p) ==
    /\ At(p, "place tree") /\ toolFaults < MaxToolFaults
    /\ toolFaults' = toolFaults + 1
    /\ IF tree \in {{}, {<<>>}}
         THEN /\ tree' = FilesAside(p, "tree")
              /\ asides' = asides \ Aside(p, "tree")
         ELSE UNCHANGED <<tree, asides>>
    /\ Ends(p)
    /\ UNCHANGED <<project, output, packed, toolRuns, editorWrites>>

-------------------------------------------------------------------------------
(* saveAtomic: the text is written to a temporary and read back, the       *)
(* project is prepared with it, and the temporary replaces the file.       *)
BeginSaveAtomic(p) ==
    \E config \in SavedConfigs : ConfigIsValid(config) /\ Begin(p, "save", ProjectPath :> config)

PrepareSave(p) ==
    /\ At(p, "save")
    /\ IF ProjectIsPrepared([files |-> project, links |-> <<>>], ConfigOf(tool[p].files))
         THEN GoTo(p, "replace") ELSE Ends(p)
    /\ UNCHANGED <<project, output, tree, asides, packed, toolRuns, toolFaults, editorWrites>>

ReplaceConfig(p) ==
    /\ At(p, "replace")
    /\ project' = [project EXCEPT ![ProjectPath] = ConfigOf(tool[p].files)]
    /\ Ends(p)
    /\ UNCHANGED <<output, tree, asides, packed, toolRuns, toolFaults, editorWrites>>

-------------------------------------------------------------------------------
ToolDies(p) ==
    /\ ~At(p, "idle") /\ toolFaults < MaxToolFaults
    /\ toolFaults' = toolFaults + 1
    /\ Ends(p)
    /\ UNCHANGED <<project, output, tree, asides, packed, toolRuns, editorWrites>>

EditorWrite ==
    /\ editorWrites < MaxEditorWrites
    /\ editorWrites' = editorWrites + 1
    /\ \/ \E write \in EditorWrites :
             /\ project' = (write.path :> write.content) @@ project
             /\ UNCHANGED tree
       \/ /\ tree' \in {{<<>>}, {ForeignTree}} \ {tree}
          /\ UNCHANGED project
    /\ UNCHANGED <<output, asides, packed, tool, toolRuns, toolFaults>>

ToolsNext ==
    \/ EditorWrite
    \/ \E p \in Tool :
          \/ BeginPack(p) \/ ReadSource(p) \/ WritePackage(p) \/ InspectOutput(p)
          \/ SetOutputAside(p) \/ PlaceOutput(p) \/ PlaceOutputFails(p)
          \/ RestoreOutput(p) \/ DiscardOutput(p)
          \/ BeginUnpack(p) \/ PrepareTarget(p) \/ WriteEntry(p) \/ WriteEntryFails(p)
          \/ SetTreeAside(p) \/ PlaceTree(p) \/ PlaceTreeFails(p)
          \/ BeginSaveAtomic(p) \/ PrepareSave(p) \/ ReplaceConfig(p)
          \/ ToolDies(p)

ToolsSpec == ToolsInit /\ [][ToolsNext]_toolVars

-------------------------------------------------------------------------------
(* Once a package was written there is one, at its place or beside it,     *)
(* whoever dies between the two renames and however packers overtake each  *)
(* other; and a directory that was unpacked to has all of a package, or    *)
(* nothing, or what somebody else put there.                               *)
ToolsKeepWholes ==
    /\ packed # {} => output # {} \/ \E aside \in asides : aside.of = "output"
    /\ output \subseteq packed
    /\ tree \subseteq packed \cup {<<>>, ForeignTree}
===============================================================================
