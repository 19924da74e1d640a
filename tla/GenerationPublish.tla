--------------------------- MODULE GenerationPublish ---------------------------
(***************************************************************************)
(* publishGeneration, adoptGeneration and recoverPublicationStaging.  A    *)
(* generation is a directory named by the hash of its content: the closure *)
(* and provenance files and a marker that lists them.  It is written and   *)
(* verified in a staging directory, and one rename publishes all of it.    *)
(* The adoption record names the generation in use.                        *)
(*                                                                         *)
(* Calls on the file system may fail, removals fail quietly, a writer may  *)
(* be killed between two of its steps, and a power loss stops everything   *)
(* and may lose what was not synced.  Someone else may damage a published  *)
(* file.                                                                   *)
(***************************************************************************)
EXTENDS PublicationLock

CONSTANTS
    Identity,   \* the hashes of the generations that are published
    RootLock,   \* the lock file of the root
    MaxCalls,   \* BOUND on the calls of the three functions
    MaxKills, MaxPowerLosses, MaxDamage \* BOUNDS on what may go wrong

ASSUME GenerationAssumption ==
    /\ RootLock \in Locks
    /\ None \notin Identity
    /\ {MaxCalls, MaxKills, MaxPowerLosses, MaxDamage} \subseteq Nat

VARIABLES
    published, \* the directory of each identity under generations/
    synced,    \* identities whose published directory is durable
    staging,   \* the directory of each identity under staging/
    adopted,   \* the adoption record that is read
    recorded,  \* and the one that is durable
    task,      \* what each writer is doing
    calls, kills, powerLosses,
    damaged,   \* identities that someone else has tampered with
    quiet      \* some removal has failed quietly

generationVars ==
    <<published, synced, staging, adopted, recorded, task, calls, kills,
      powerLosses, damaged, quiet, holder>>

(* The files of a directory that are complete and that are not, and        *)
(* whether their entries were synced.  They are written in this order.     *)
Part == <<"closure", "provenance", "marker">>
Tree == [whole : SUBSET ToSet(Part), torn : SUBSET ToSet(Part), entries : BOOLEAN]
NoTree == [whole |-> {}, torn |-> {}, entries |-> FALSE]

(* readMarker and verifyGenerationTree hash every file the marker lists.   *)
Verifies(tree) == tree.whole = ToSet(Part)

Free == [step |-> "idle", call |-> "none", identity |-> None, part |-> 1,
         switched |-> FALSE, result |-> "none"]

GenerationTypeOK ==
    /\ published \in [Identity -> Tree]
    /\ staging \in [Identity -> Tree]
    /\ synced \subseteq Identity
    /\ {adopted, recorded} \subseteq Identity \cup {None}
    /\ damaged \subseteq Identity
    /\ quiet \in BOOLEAN
    /\ \A w \in Writers :
          /\ task[w].step \in {"idle", "check", "lock", "look", "clean", "write",
                "verify", "flush", "switch", "syncRoot", "abandon",
                "record", "replace", "syncRecord", "recover", "return"}
          /\ task[w].part \in 1..Len(Part)
          /\ task[w].result \in {"none", "ok", "busy", "failed"}

GenerationInit ==
    /\ published = [i \in Identity |-> NoTree]
    /\ staging = [i \in Identity |-> NoTree]
    /\ synced = {}
    /\ adopted = None /\ recorded = None
    /\ task = [w \in Writers |-> Free]
    /\ calls = 0 /\ kills = 0 /\ powerLosses = 0
    /\ damaged = {} /\ quiet = FALSE

-------------------------------------------------------------------------------
Doing(w, step) == task[w].step = step
Of(w) == task[w].identity
Turns(w, t) == task' = [task EXCEPT ![w] = t]
Stages(w, tree) == staging' = [staging EXCEPT ![Of(w)] = tree]
Goes(w, step) == Turns(w, [task[w] EXCEPT !.step = step])
GoesWith(w, step, result) == Turns(w, [task[w] EXCEPT !.step = step, !.result = result])
Ends(w, result) == GoesWith(w, "return", result)
Abandons(w) == GoesWith(w, "abandon", "failed")
SameRecord == UNCHANGED <<adopted, recorded>>
SameFiles == SameRecord /\ UNCHANGED <<published, synced, staging>>
SameWorld == UNCHANGED <<calls, kills, powerLosses, damaged>>

(* adoptGeneration reads the generation before it takes the lock.          *)
Begin(w, call, i) ==
    /\ Doing(w, "idle")
    /\ calls < MaxCalls
    /\ calls' = calls + 1
    /\ Turns(w, [Free EXCEPT !.call = call, !.identity = i,
                             !.step = IF call = "adopt" THEN "check" ELSE "lock"])
    /\ SameFiles
    /\ UNCHANGED <<kills, powerLosses, damaged, quiet, holder>>

CheckBeforeAdoption(w) ==
    /\ Doing(w, "check")
    /\ \/ Verifies(published[Of(w)]) /\ Goes(w, "lock")
       \/ Ends(w, "failed")
    /\ SameFiles /\ SameWorld /\ UNCHANGED <<holder, quiet>>

LockRoot(w) ==
    /\ Doing(w, "lock")
    /\ Acquire(w, RootLock)
    /\ Goes(w, CASE task[w].call = "publish" -> "look"
                 [] task[w].call = "adopt" -> "record"
                 [] task[w].call = "recover" -> "recover")
    /\ SameFiles /\ SameWorld /\ UNCHANGED quiet

RootIsLocked(w) ==
    /\ Doing(w, "lock")
    /\ Busy(w, RootLock)
    /\ Ends(w, "busy")
    /\ SameFiles /\ SameWorld /\ UNCHANGED quiet

RootCannotBeLocked(w) ==
    /\ Doing(w, "lock")
    /\ Ends(w, "failed")
    /\ SameFiles /\ SameWorld /\ UNCHANGED <<holder, quiet>>

(* An identity that exists is verified and kept, or refused, but never     *)
(* written again.                                                          *)
Look(w) ==
    /\ Doing(w, "look")
    /\ \/ published[Of(w)] = NoTree /\ Goes(w, "clean")
       \/ published[Of(w)] # NoTree /\ Verifies(published[Of(w)]) /\ Ends(w, "ok")
       \/ published[Of(w)] # NoTree /\ Ends(w, "failed")
    /\ SameFiles /\ SameWorld /\ UNCHANGED <<holder, quiet>>

(* Files an earlier writer left behind are removed, or else are in the way *)
(* of the exclusive writes.                                                *)
Clean(w) ==
    /\ Doing(w, "clean")
    /\ \/ Stages(w, NoTree) /\ UNCHANGED quiet
       \/ UNCHANGED staging /\ quiet' = TRUE
    /\ Goes(w, "write") \/ Ends(w, "failed")
    /\ UNCHANGED <<published, synced, holder>> /\ SameRecord /\ SameWorld

OnPart(w) == Part[task[w].part]
InTheWay(w) == OnPart(w) \in staging[Of(w)].whole \cup staging[Of(w)].torn
Wrote(tree, part) == [tree EXCEPT !.whole = tree.whole \cup {part}]
Tore(tree, part) == [tree EXCEPT !.torn = tree.torn \cup {part}]

WritePart(w) ==
    /\ Doing(w, "write")
    /\ ~InTheWay(w)
    /\ Stages(w, Wrote(staging[Of(w)], OnPart(w)))
    /\ IF task[w].part = Len(Part)
         THEN Goes(w, "verify")
         ELSE Turns(w, [task[w] EXCEPT !.part = @ + 1])
    /\ UNCHANGED <<published, synced, holder, quiet>> /\ SameRecord /\ SameWorld

WriteFails(w) ==
    /\ Doing(w, "write")
    /\ \/ UNCHANGED staging
       \/ /\ ~InTheWay(w)
          /\ Stages(w, Tore(staging[Of(w)], OnPart(w)))
    /\ Abandons(w)
    /\ UNCHANGED <<published, synced, holder, quiet>> /\ SameRecord /\ SameWorld

VerifyStaged(w) ==
    /\ Doing(w, "verify")
    /\ \/ Verifies(staging[Of(w)]) /\ Goes(w, "flush")
       \/ Abandons(w)
    /\ SameFiles /\ SameWorld /\ UNCHANGED <<holder, quiet>>

FlushStaged(w) ==
    /\ Doing(w, "flush")
    /\ \/ Stages(w, [staging[Of(w)] EXCEPT !.entries = TRUE]) /\ Goes(w, "switch")
       \/ UNCHANGED staging /\ Abandons(w)
    /\ UNCHANGED <<published, synced, holder, quiet>> /\ SameRecord /\ SameWorld

(* The rename of a directory fails on one that is not empty.  A failed     *)
(* rename still accepts an identical generation it finds in place.         *)
Switch(w) ==
    /\ Doing(w, "switch")
    /\ published[Of(w)] = NoTree
    /\ published' = [published EXCEPT ![Of(w)] = staging[Of(w)]]
    /\ Stages(w, NoTree)
    /\ Turns(w, [task[w] EXCEPT !.step = "syncRoot", !.switched = TRUE])
    /\ UNCHANGED <<synced, holder, quiet>> /\ SameRecord /\ SameWorld

SwitchFails(w) ==
    /\ Doing(w, "switch")
    /\ GoesWith(w, "abandon", IF Verifies(published[Of(w)]) THEN "ok" ELSE "failed")
    /\ SameFiles /\ SameWorld /\ UNCHANGED <<holder, quiet>>

Abandon(w) ==
    /\ Doing(w, "abandon")
    /\ \/ Stages(w, NoTree) /\ UNCHANGED quiet
       \/ UNCHANGED staging /\ quiet' = TRUE
    /\ Goes(w, "return")
    /\ UNCHANGED <<published, synced, holder>> /\ SameRecord /\ SameWorld

SyncPublished(w) ==
    /\ Doing(w, "syncRoot")
    /\ \/ synced' = {i \in Identity : published[i] # NoTree} /\ Ends(w, "ok")
       \/ UNCHANGED synced /\ Ends(w, "failed")
    /\ UNCHANGED <<published, staging, holder, quiet>> /\ SameRecord /\ SameWorld

-------------------------------------------------------------------------------
(* The adoption record is written beside, renamed over the old one, and    *)
(* its directory synced.                                                   *)
WriteRecord(w) ==
    /\ Doing(w, "record")
    /\ Goes(w, "replace") \/ Ends(w, "failed")
    /\ SameFiles /\ SameWorld /\ UNCHANGED <<holder, quiet>>

ReplaceRecord(w) ==
    /\ Doing(w, "replace")
    /\ \/ adopted' = Of(w) /\ Goes(w, "syncRecord")
       \/ UNCHANGED adopted /\ Ends(w, "failed")
    /\ UNCHANGED <<published, synced, staging, recorded, holder, quiet>> /\ SameWorld

SyncRecord(w) ==
    /\ Doing(w, "syncRecord")
    /\ \/ recorded' = adopted /\ Ends(w, "ok")
       \/ UNCHANGED recorded /\ Ends(w, "failed")
    /\ UNCHANGED <<published, synced, staging, adopted, holder, quiet>> /\ SameWorld

(* recoverPublicationStaging empties staging/, directory by directory, and *)
(* goes on when a removal fails.  Its caller holds the lock.               *)
Recover(w) ==
    /\ Doing(w, "recover")
    /\ \E removed \in SUBSET Identity :
          /\ staging' = [i \in Identity |-> IF i \in removed THEN NoTree ELSE staging[i]]
          /\ quiet' = (quiet \/ removed # Identity)
    /\ Ends(w, "ok")
    /\ UNCHANGED <<published, synced, holder>> /\ SameRecord /\ SameWorld

ReturnFromCall(w) ==
    /\ Doing(w, "return")
    /\ ReleaseAll(w)
    /\ Turns(w, Free)
    /\ SameFiles /\ SameWorld /\ UNCHANGED quiet

-------------------------------------------------------------------------------
(* A writer killed while it writes leaves a torn file, and one killed      *)
(* while it removes leaves some of the files.                              *)
KillWriter(w) ==
    /\ ~Doing(w, "idle")
    /\ kills < MaxKills
    /\ kills' = kills + 1
    /\ \/ UNCHANGED staging
       \/ /\ Doing(w, "write") /\ ~InTheWay(w)
          /\ Stages(w, Tore(staging[Of(w)], OnPart(w)))
       \/ /\ task[w].step \in {"clean", "abandon"}
          /\ \E left \in SUBSET staging[Of(w)].whole :
                Stages(w, [staging[Of(w)] EXCEPT !.whole = left, !.torn = {}])
    /\ ReleaseAll(w)
    /\ Turns(w, Free)
    /\ UNCHANGED <<published, synced, calls, powerLosses, damaged, quiet>> /\ SameRecord

(* A rename that was not synced may be undone, and entries that were not   *)
(* synced may be missing.  (The same ones everywhere, for brevity: under   *)
(* the lock one directory at most is half written.)                        *)
AfterLoss(tree, kept) == IF tree.entries THEN tree ELSE [tree EXCEPT !.whole = @ \cap kept]

LosePower ==
    /\ powerLosses < MaxPowerLosses
    /\ powerLosses' = powerLosses + 1
    /\ \E undone \in SUBSET ({i \in Identity : published[i] # NoTree} \ synced),
          kept \in SUBSET ToSet(Part) :
          /\ published' = [i \in Identity |->
                IF i \in undone THEN NoTree ELSE AfterLoss(published[i], kept)]
          /\ staging' = [i \in Identity |->
                AfterLoss(IF i \in undone THEN published[i] ELSE staging[i], kept)]
    /\ synced' = {i \in Identity : published'[i] # NoTree}
    /\ adopted' \in {adopted, recorded}
    /\ recorded' = adopted'
    /\ KernelReleasesAll
    /\ task' = [w \in Writers |-> Free]
    /\ UNCHANGED <<calls, kills, damaged, quiet>>

(* Someone overwrites a file of a published generation.                    *)
Tampered(tree, part) ==
    [tree EXCEPT !.whole = tree.whole \ {part}, !.torn = tree.torn \cup {part}]

Damage(i) ==
    /\ Cardinality(damaged) < MaxDamage
    /\ published[i] # NoTree
    /\ \E part \in published[i].whole :
          published' = [published EXCEPT ![i] = Tampered(published[i], part)]
    /\ damaged' = damaged \cup {i}
    /\ UNCHANGED <<synced, staging, task, calls, kills, powerLosses, quiet, holder>>
    /\ SameRecord

GenerationNext ==
    \/ \E w \in Writers, i \in Identity, call \in {"publish", "adopt"} : Begin(w, call, i)
    \/ \E w \in Writers : Begin(w, "recover", None)
    \/ \E w \in Writers :
          \/ LockRoot(w) \/ RootIsLocked(w) \/ RootCannotBeLocked(w)
          \/ Look(w) \/ Clean(w) \/ WritePart(w) \/ WriteFails(w)
          \/ VerifyStaged(w) \/ FlushStaged(w) \/ Switch(w) \/ SwitchFails(w)
          \/ Abandon(w) \/ SyncPublished(w)
          \/ CheckBeforeAdoption(w) \/ WriteRecord(w) \/ ReplaceRecord(w) \/ SyncRecord(w)
          \/ Recover(w) \/ ReturnFromCall(w) \/ KillWriter(w)
    \/ \E i \in Identity : Damage(i)
    \/ LosePower

GenerationSpec == GenerationInit /\ LockInit /\ [][GenerationNext]_generationVars
-------------------------------------------------------------------------------
Reports(w, result) == Doing(w, "return") /\ task[w].result = result

(* Whatever was killed or lost, a generation that is visible under its     *)
(* identity is complete, unless someone has tampered with it; and the      *)
(* adoption record names a published one, though adoption looks at it      *)
(* before it has the lock.  (A power loss may undo a publication that      *)
(* returned an error, or that was found in place, under its record.)       *)
PublishedWhole ==
    /\ \A i \in Identity : published[i] # NoTree => i \in damaged \/ Verifies(published[i])
    /\ adopted # None => powerLosses > 0 \/ published[adopted] # NoTree

(* A power loss does not undo a publication or an adoption that did the    *)
(* rename and returned success.                                            *)
GenerationsAreDurable ==
    \A w \in Writers : Reports(w, "ok") =>
       /\ task[w].switched => Of(w) \in synced
       /\ task[w].call = "adopt" => recorded = Of(w)

===============================================================================
