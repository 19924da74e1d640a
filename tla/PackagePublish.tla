---------------------------- MODULE PackagePublish ----------------------------
(***************************************************************************)
(* publishPackage and publishPackagePair: a CXC package is written to a    *)
(* sibling of its target, loaded again, and renamed over the target.  A    *)
(* pair does this for its v4 target and then for its candidate target, and *)
(* puts the old v4 package back when the candidate fails.                  *)
(*                                                                         *)
(* A step is one call on the file system, which may fail.  A writer may be *)
(* killed between two steps, and a power loss takes all of them.  visible  *)
(* is what a reader opens, durable what a power loss certainly leaves: a   *)
(* rename that was not synced, or whose sync failed, may be kept or lost.  *)
(***************************************************************************)
EXTENDS PublicationLock

CONSTANTS
    Target,     \* package paths
    ParentOf,   \* the lock file of each target's directory
    MaxBatches, \* BOUND on the publications that are started
    MaxCrashes  \* BOUND on kills and power losses

ASSUME PackageAssumption ==
    /\ ParentOf \in [Target -> Locks]
    /\ MaxBatches \in Nat
    /\ MaxCrashes \in Nat

VARIABLES
    visible, durable, \* the package of each target
    job,              \* what each writer is doing
    batches,          \* publications started
    crashes

packageVars == <<visible, durable, job, batches, crashes, holder>>

(* A publication gives its number to the packages it builds.  A file that  *)
(* was never flushed may be found torn after a power loss.                 *)
Absent == [batch |-> 0, flushed |-> TRUE]
Torn == [batch |-> -1, flushed |-> TRUE]
File == [batch : 1..MaxBatches, flushed : BOOLEAN] \cup {Absent, Torn}

(* "previous" is what the code captured of the v4 target; "before" is what *)
(* all targets held when the locks were taken, for the properties alone.   *)
Idle == [step |-> "idle", targets |-> <<>>, at |-> 1, batch |-> 0,
         want |-> {}, temporary |-> Absent, previous |-> Absent,
         before |-> [t \in Target |-> Absent], faults |-> {}, result |-> "none"]

PackageTypeOK ==
    /\ LockTypeOK
    /\ visible \in [Target -> File]
    /\ durable \in [Target -> File]
    /\ batches \in 0..MaxBatches
    /\ crashes \in 0..MaxCrashes
    /\ \A w \in Writers :
          /\ job[w].step \in {"idle", "lock", "capture", "write", "replace",
                "sync", "rollback", "restore", "resync", "return"}
          /\ job[w].temporary \in File
          /\ job[w].result \in {"none", "ok", "busy", "failed"}

PackageInit ==
    /\ visible = [t \in Target |-> Absent]
    /\ durable = [t \in Target |-> Absent]
    /\ job = [w \in Writers |-> Idle]
    /\ batches = 0
    /\ crashes = 0

-------------------------------------------------------------------------------
At(w, step) == job[w].step = step
IsPair(j) == Len(j.targets) = 2
V4(w) == job[w].targets[1]
Writing(w) == job[w].targets[job[w].at]
Becomes(w, j) == job' = [job EXCEPT ![w] = j]
Returned(j, result) == [j EXCEPT !.step = "return", !.result = result]
Staged(j, step, file) == [j EXCEPT !.step = step, !.temporary = file]

(* What follows the outcome of commitPackage: the next target, the way     *)
(* back, or the return.                                                    *)
Committed(j) ==
    IF j.at = Len(j.targets)
      THEN [j EXCEPT !.step = "return", !.result = "ok"]
      ELSE [j EXCEPT !.step = "write", !.at = @ + 1]

CommitFailed(j, fault) ==
    [j EXCEPT !.step = IF j.at = 2 THEN "rollback" ELSE "return",
              !.temporary = Absent, !.faults = @ \cup {fault}, !.result = "failed"]

RollbackFailed(j) ==
    [j EXCEPT !.step = "return", !.temporary = Absent, !.faults = @ \cup {"rollback"}]

(* writeFileExclusive, rename(2), and fsync of a directory.                *)
Written(batch) == [batch |-> batch, flushed |-> TRUE]
Rename(file, t) == visible' = [visible EXCEPT ![t] = file]

(* A bug: the directory is not flushed after the rename.                   *)
DirectoryNotSynced(dir) == durable

DirectorySynced(dir) ==
    [t \in Target |-> IF ParentOf[t] = dir THEN visible[t] ELSE durable[t]]

(* A bug: only the directory of v4 is locked.                              *)
WantedForV4(targets) == {ParentOf[targets[1]]}

Wanted(targets) == {ParentOf[t] : t \in ToSet(targets)}

(* The packages are built and validated in memory first: a batch that is   *)
(* rejected there touches nothing.                                         *)
Publish(w, targets) ==
    /\ At(w, "idle")
    /\ batches < MaxBatches
    /\ batches' = batches + 1
    /\ Becomes(w, [Idle EXCEPT !.step = "lock", !.targets = targets,
                               !.batch = batches + 1, !.want = Wanted(targets)])
    /\ UNCHANGED <<visible, durable, crashes, holder>>

TakeLock(w) ==
    /\ At(w, "lock")
    /\ Acquire(w, FirstOf(job[w].want))
    /\ LET left == job[w].want \ {FirstOf(job[w].want)} IN
       Becomes(w, [job[w] EXCEPT !.want = left, !.before = visible,
                      !.step = CASE left # {} -> "lock"
                                 [] left = {} /\ IsPair(job[w]) -> "capture"
                                 [] OTHER -> "write"])
    /\ UNCHANGED <<visible, durable, batches, crashes>>

LockIsHeld(w) ==
    /\ At(w, "lock")
    /\ Busy(w, FirstOf(job[w].want))
    /\ Becomes(w, Returned(job[w], "busy"))
    /\ UNCHANGED <<visible, durable, batches, crashes>>

LockCannotBeOpened(w) ==
    /\ At(w, "lock")
    /\ Becomes(w, Returned(job[w], "failed"))
    /\ UNCHANGED <<visible, durable, batches, crashes, holder>>

Capture(w) ==
    /\ At(w, "capture")
    /\ \/ Becomes(w, [job[w] EXCEPT !.step = "write", !.previous = visible[V4(w)]])
       \/ /\ visible[V4(w)] # Absent
          /\ Becomes(w, Returned(job[w], "failed"))
    /\ UNCHANGED <<visible, durable, batches, crashes, holder>>

-------------------------------------------------------------------------------
(* commitPackage: the checks of the target, the exclusive write and the    *)
(* load of what was written may each fail and leave the target alone.      *)
WriteTemporary(w) ==
    /\ At(w, "write")
    /\ \/ Becomes(w, Staged(job[w], "replace", Written(job[w].batch)))
       \/ Becomes(w, CommitFailed(job[w], "write"))
    /\ UNCHANGED <<visible, durable, batches, crashes, holder>>

(* A bug: the old package is moved aside before the rename.                *)
ReplaceAside(w) ==
    /\ At(w, "replace")
    /\ IF visible[Writing(w)] # Absent
         THEN Rename(Absent, Writing(w)) /\ UNCHANGED job
         ELSE /\ Rename(job[w].temporary, Writing(w))
              /\ Becomes(w, Staged(job[w], "sync", Absent))
    /\ UNCHANGED <<durable, batches, crashes, holder>>

Replace(w) ==
    /\ At(w, "replace")
    /\ \/ /\ Rename(job[w].temporary, Writing(w))
          /\ Becomes(w, Staged(job[w], "sync", Absent))
       \/ /\ Becomes(w, CommitFailed(job[w], "rename"))
          /\ UNCHANGED visible
    /\ UNCHANGED <<durable, batches, crashes, holder>>

Sync(w) ==
    /\ At(w, "sync")
    /\ \/ /\ durable' = DirectorySynced(ParentOf[Writing(w)])
          /\ Becomes(w, Committed(job[w]))
       \/ /\ Becomes(w, CommitFailed(job[w], "sync"))
          /\ UNCHANGED durable
    /\ UNCHANGED <<visible, batches, crashes, holder>>

(* rollbackPackage.  A v4 package that was not there before is removed,    *)
(* and nobody asks whether the removal worked.                             *)
RollbackRemoves(w) ==
    /\ At(w, "rollback")
    /\ job[w].previous = Absent
    /\ \/ /\ Rename(Absent, V4(w))
          /\ Becomes(w, [job[w] EXCEPT !.step = "return"])
       \/ /\ Becomes(w, [job[w] EXCEPT !.step = "return", !.faults = @ \cup {"remove"}])
          /\ UNCHANGED visible
    /\ UNCHANGED <<durable, batches, crashes, holder>>

RollbackWrites(w) ==
    /\ At(w, "rollback")
    /\ job[w].previous # Absent
    /\ \/ Becomes(w, Staged(job[w], "restore", Written(job[w].previous.batch)))
       \/ Becomes(w, RollbackFailed(job[w]))
    /\ UNCHANGED <<visible, durable, batches, crashes, holder>>

Restore(w) ==
    /\ At(w, "restore")
    /\ \/ /\ Rename(job[w].temporary, V4(w))
          /\ Becomes(w, Staged(job[w], "resync", Absent))
       \/ /\ Becomes(w, RollbackFailed(job[w]))
          /\ UNCHANGED visible
    /\ UNCHANGED <<durable, batches, crashes, holder>>

Resync(w) ==
    /\ At(w, "resync")
    /\ \/ /\ durable' = DirectorySynced(ParentOf[V4(w)])
          /\ Becomes(w, [job[w] EXCEPT !.step = "return"])
       \/ /\ Becomes(w, RollbackFailed(job[w]))
          /\ UNCHANGED durable
    /\ UNCHANGED <<visible, batches, crashes, holder>>

Return(w) ==
    /\ At(w, "return")
    /\ ReleaseAll(w)
    /\ Becomes(w, Idle)
    /\ UNCHANGED <<visible, durable, batches, crashes>>

-------------------------------------------------------------------------------
Kill(w) ==
    /\ ~At(w, "idle")
    /\ crashes < MaxCrashes
    /\ crashes' = crashes + 1
    /\ ReleaseAll(w)
    /\ Becomes(w, Idle)
    /\ UNCHANGED <<visible, durable, batches>>

AfterPowerLoss(file) == IF file.flushed THEN file ELSE Torn

PowerLoss ==
    /\ crashes < MaxCrashes
    /\ crashes' = crashes + 1
    /\ \E kept \in SUBSET Target :
          visible' = [t \in Target |->
                        AfterPowerLoss(IF t \in kept THEN visible[t] ELSE durable[t])]
    /\ durable' = visible'
    /\ KernelReleasesAll
    /\ job' = [w \in Writers |-> Idle]
    /\ UNCHANGED batches

Requests ==
    {<<t>> : t \in Target} \cup {pair \in Target \X Target : pair[1] # pair[2]}

PackageNext ==
    \/ \E w \in Writers, targets \in Requests : Publish(w, targets)
    \/ \E w \in Writers :
          \/ TakeLock(w) \/ LockIsHeld(w) \/ LockCannotBeOpened(w) \/ Capture(w)
          \/ WriteTemporary(w) \/ Replace(w) \/ Sync(w)
          \/ RollbackRemoves(w) \/ RollbackWrites(w) \/ Restore(w) \/ Resync(w)
          \/ Return(w) \/ Kill(w)
    \/ PowerLoss

PackageSpec == PackageInit /\ LockInit /\ [][PackageNext]_packageVars
-------------------------------------------------------------------------------
Returns(w, result) == At(w, "return") /\ job[w].result = result

(* commitPackage's contract: the target is the previous package or the new *)
(* one, and never absent in between.  Only a rollback takes a package      *)
(* away, and only one that its own pair brought where none had been.       *)
TakesAwayItsOwn(w, t) ==
    At(w, "rollback") /\ visible[t].batch = job[w].batch /\ job[w].before[t] = Absent
LastPackageStays ==
    [][\A t \in Target : (visible[t] # Absent /\ visible'[t] = Absent) =>
          \/ durable[t] = Absent /\ crashes' > crashes
          \/ \E w \in Writers : TakesAwayItsOwn(w, t)]_packageVars

(* A publication that returns success has made its package visible and     *)
(* durable at every target it names, at the same time; and a reader never  *)
(* opens a torn package, for it was flushed before it was renamed.         *)
PackagesAreDurable ==
    /\ \A w \in Writers : Returns(w, "ok") =>
          \A t \in ToSet(job[w].targets) :
             visible[t].batch = job[w].batch /\ durable[t] = visible[t]
    /\ \A t \in Target : visible[t] # Torn

(* A pair that fails after it took its locks, though no sync, removal or   *)
(* rollback failed, leaves both targets as they were.                      *)
FailureKeepsPair ==
    \A w \in Writers :
       (/\ Returns(w, "failed") /\ IsPair(job[w]) /\ job[w].want = {}
        /\ job[w].faults \cap {"sync", "remove", "rollback"} = {}) =>
          \A t \in ToSet(job[w].targets) : visible[t] = job[w].before[t]

(* asset_publish.hpp: "If the second replacement fails, the first target   *)
(* is rolled back, so a failure never leaves a half-updated pair."         *)
NeverHalfUpdated ==
    \A w \in Writers :
       (/\ Returns(w, "failed") /\ IsPair(job[w]) /\ job[w].want = {}
        /\ job[w].faults \cap {"remove", "rollback"} = {}) =>
          \A t, u \in ToSet(job[w].targets) :
             visible[t] = job[w].before[t] => visible[u] = job[w].before[u]
===============================================================================
