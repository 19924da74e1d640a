------------------------------ MODULE Preferences ------------------------------
(***************************************************************************)
(* saveUserPreferences and loadUserPreferences: several players keep one   *)
(* preferences file.  A save takes a lock file by exclusive creation,      *)
(* writes a temporary file, reads it back and renames it over the file.    *)
(* Every call on the file system may fail, and a player may be killed      *)
(* between two of its steps: the lock file then stays.                     *)
(***************************************************************************)
EXTENDS Files

CONSTANTS
    Settings,   \* the preferences that are saved
    MaxSaves,   \* BOUND on the calls of saveUserPreferences
    MaxDeaths   \* BOUND on the players that are killed

ASSUME PreferencesAssumption == MaxSaves \in Nat /\ MaxDeaths \in Nat

VARIABLES
    save,       \* what each player is doing
    saves, deaths

preferencesVars == <<save, saves, deaths, fileVars>>

PreferencesFile == <<"preferences", "file">>
PreferencesLock == <<"preferences", "lock">>
PreferencesTemporary == <<"preferences", "tmp">>
PreferencesPaths == {PreferencesFile, PreferencesLock, PreferencesTemporary}

ASSUME PreferencesPathsAssumption == PreferencesPaths \subseteq Path

(* The files a player may find: its own kind, one of a later version, one  *)
(* that no parser or schema accepts.                                       *)
Document(s) == <<"settings", s>>
Future == <<"version 2">>
Malformed == <<"malformed">>

UnsupportedVersion(bytes) == bytes = WholeOf(Future)
ReadPreferences(bytes) == {s \in Settings : bytes = WholeOf(Document(s))}

(* loadUserPreferences: what cannot be read gives the defaults, and what   *)
(* is of another version is kept as it is.                                 *)
LoadPreferences ==
    LET bytes == Bytes(PreferencesFile)
        found == ReadPreferences(bytes)
    IN  [settings |-> found,
         usedDefaults |-> found = {},
         preserve |-> UnsupportedVersion(bytes)]

NotSaving == [step |-> "idle", wanted |-> "none", result |-> "none"]

PreferencesFiles ==
    \/ NoFiles
    \/ \E content \in {Document(s) : s \in Settings} \cup {Future, Malformed} :
          OneFile(PreferencesFile, content)

PreferencesInit ==
    /\ save = [p \in Process |-> NotSaving]
    /\ saves = 0 /\ deaths = 0

-------------------------------------------------------------------------------
Saving(p, step) == save[p].step = step
SaveGoes(p, step) == save' = [save EXCEPT ![p].step = step]
SaveEnds(p, step, result) ==
    save' = [save EXCEPT ![p].step = step, ![p].result = result]
SameCounts == UNCHANGED <<saves, deaths>>

BeginSave(p, s) ==
    /\ Saving(p, "idle")
    /\ saves < MaxSaves
    /\ saves' = saves + 1
    /\ save' = [save EXCEPT ![p] = [step |-> "check", wanted |-> s, result |-> "none"]]
    /\ UNCHANGED deaths /\ FilesUnchanged

(* A file of a later version is not overwritten; the schema may be missing *)
(* or refuse the settings.  None of this is under the lock.                *)
CheckSave(p) ==
    /\ Saving(p, "check")
    /\ \/ ~UnsupportedVersion(Bytes(PreferencesFile)) /\ SaveGoes(p, "lock")
       \/ SaveEnds(p, "idle", "refused")
    /\ SameCounts /\ FilesUnchanged

(* A bug: the lock file is opened without "x".                             *)
LockSharedPreferences(p) ==
    /\ Saving(p, "lock")
    /\ IF Exists(PreferencesLock) THEN FilesUnchanged
       ELSE Deposit(p, PreferencesLock, <<>>)
    /\ SaveGoes(p, "open")
    /\ SameCounts

LockPreferences(p) ==
    /\ Saving(p, "lock")
    /\ ~Exists(PreferencesLock)
    /\ Deposit(p, PreferencesLock, <<>>)
    /\ SaveGoes(p, "open")
    /\ SameCounts

PreferencesAreBusy(p) ==
    /\ Saving(p, "lock")
    /\ Exists(PreferencesLock)
    /\ SaveEnds(p, "idle", "busy")
    /\ SameCounts /\ FilesUnchanged

OpenTemporary(p) ==
    /\ Saving(p, "open")
    /\ OpenTruncated(p, PreferencesTemporary)
    /\ SaveGoes(p, "write")
    /\ SameCounts

WriteTemporaryChunk(p) ==
    /\ Saving(p, "write") /\ ~AllWritten(p)
    /\ WriteChunk(p, Document(save[p].wanted))
    /\ UNCHANGED save /\ SameCounts

CloseTemporary(p) ==
    /\ Saving(p, "write") /\ AllWritten(p)
    /\ CloseFile(p)
    /\ SaveGoes(p, "verify")
    /\ SameCounts

(* What was written is read back, parsed and checked against the schema.   *)
VerifyTemporary(p) ==
    /\ Saving(p, "verify")
    /\ IF ReadPreferences(Bytes(PreferencesTemporary)) # {}
       THEN SaveGoes(p, "replace") ELSE SaveGoes(p, "discard")
    /\ SameCounts /\ FilesUnchanged

ReplacePreferences(p) ==
    /\ Saving(p, "replace")
    /\ Exists(PreferencesTemporary)
    /\ RenameFile(p, PreferencesTemporary, PreferencesFile)
    /\ SaveEnds(p, "unlock", "saved")
    /\ SameCounts

(* The temporary file cannot be opened, written, read or renamed.          *)
SaveStepFails(p) ==
    /\ save[p].step \in {"open", "write", "verify", "replace"}
    /\ SaveGoes(p, "discard")
    /\ CloseFile(p)
    /\ SameCounts

DiscardTemporary(p) ==
    /\ Saving(p, "discard")
    /\ RemoveFile(p, PreferencesTemporary)
    /\ SaveEnds(p, "unlock", "failed")
    /\ SameCounts

(* The destructor of ExclusiveFileLock removes the file.                   *)
UnlockPreferences(p) ==
    /\ Saving(p, "unlock")
    /\ RemoveFile(p, PreferencesLock)
    /\ SaveGoes(p, "idle")
    /\ SameCounts

(* The player dies: its file is closed and everything else stays.          *)
PlayerDies(p) ==
    /\ ~Saving(p, "idle")
    /\ deaths < MaxDeaths
    /\ deaths' = deaths + 1
    /\ save' = [save EXCEPT ![p] = NotSaving]
    /\ CloseFile(p)
    /\ UNCHANGED saves

PreferencesNext ==
    \E p \in Process :
        \/ \E s \in Settings : BeginSave(p, s)
        \/ CheckSave(p) \/ LockPreferences(p) \/ PreferencesAreBusy(p)
        \/ OpenTemporary(p) \/ WriteTemporaryChunk(p) \/ CloseTemporary(p)
        \/ VerifyTemporary(p) \/ ReplacePreferences(p)
        \/ SaveStepFails(p) \/ DiscardTemporary(p) \/ UnlockPreferences(p)
        \/ PlayerDies(p)

PreferencesSpec ==
    PreferencesFiles /\ PreferencesInit /\ [][PreferencesNext]_preferencesVars

-------------------------------------------------------------------------------
(* saveUserPreferences: the file changes only when a save succeeds, and    *)
(* then to all of what that save was asked for.  A reader never sees a     *)
(* part of a file or a mixture of two, a save that fails or is killed      *)
(* leaves the last file, whoever saves at the same time; and a file of a   *)
(* later version that was there when the players started stays.  Nothing   *)
(* is said of one that is put there while they save: the version is        *)
(* checked before the lock is taken, and no step here writes such a file.  *)
PreferencesAreReplacedWhole ==
    [][Bytes(PreferencesFile)' # Bytes(PreferencesFile) =>
         /\ ~LoadPreferences.preserve
         /\ \E p \in Process : /\ Saving(p, "replace")
                               /\ save'[p].result = "saved"
                               /\ Holds(PreferencesFile, Document(save[p].wanted))']_preferencesVars
===============================================================================
