-------------------------- MODULE PublicationProof --------------------------
(***************************************************************************)
(* Proofs about PackagePublish and GenerationPublish for any writers, lock *)
(* files, targets and identities, and any number of publications, crashes  *)
(* and faults; and, at the end, about the suite that runs both over one    *)
(* lock.                                                                   *)
(***************************************************************************)
EXTENDS MCStores, TLAPS

-----------------------------------------------------------------------------
(* Packages.  Every file that is published was flushed before.             *)
Flushed == [batch : 0..MaxBatches, flushed : {TRUE}]
Fault == {"write", "rename", "sync", "remove", "rollback"}

JobType ==
    [step : {"idle", "lock", "capture", "write", "replace", "sync", "rollback",
             "restore", "resync", "return"},
     targets : Requests \cup {<<>>}, at : 1..2, batch : 0..MaxBatches,
     want : SUBSET Locks, temporary : Flushed, previous : Flushed,
     before : [Target -> Flushed], faults : SUBSET Fault,
     result : {"none", "ok", "busy", "failed"}]

LEMMA RequestShape ==
    \A r \in Requests :
       \/ Len(r) = 1 /\ r[1] \in Target /\ ToSet(r) = {r[1]}
       \/ /\ Len(r) = 2 /\ r[1] \in Target /\ r[2] \in Target /\ r[1] # r[2]
          /\ ToSet(r) = {r[1], r[2]}
<1> TAKE r \in Requests
<1>1. CASE \E t \in Target : r = <<t>>
    BY <1>1 DEF ToSet
<1>2. CASE \E t, u \in Target : t # u /\ r = <<t, u>>
    BY <1>2 DEF ToSet
<1> QED BY <1>1, <1>2 DEF Requests

TargetsOf(j) == ToSet(j.targets)

(* Where a job is, and what it remembers of the target it may put back.    *)
JobOK(j) ==
    /\ j \in JobType
    /\ j.step = "idle" <=> j.targets = <<>>
    /\ j.step # "idle" => /\ j.targets \in Requests /\ j.at <= Len(j.targets)
                          /\ j.batch > 0 /\ j.want \subseteq Wanted(j.targets)
    /\ j.step \notin {"lock", "return"} => j.want = {}
    /\ j.step = "lock" => j.want # {} /\ j.at = 1
    /\ j.step = "capture" => IsPair(j) /\ j.at = 1
    /\ j.step \in {"rollback", "restore", "resync"} =>
          IsPair(j) /\ j.at = 2 /\ j.result = "failed"
    /\ j.step = "replace" => j.temporary = Written(j.batch)
    /\ j.step = "restore" => j.temporary = j.previous /\ j.previous # Absent
    /\ IsPair(j) /\ j.step \in {"write", "replace", "sync", "rollback", "restore", "resync"} =>
          j.previous = j.before[j.targets[1]]
    /\ j.result = "ok" => j.step = "return" /\ j.want = {}

(* What a job's targets hold, of what is visible and what is durable.      *)
Untouched(j, v) == \A t \in TargetsOf(j) : v[t] = j.before[t]
Brought(j, t, v, d) == v[t].batch = j.batch /\ d[t] = v[t]

SceneOK(j, v, d) ==
    /\ j.step = "capture" \/ (j.step \in {"write", "replace"} /\ j.at = 1) => Untouched(j, v)
    /\ j.step = "sync" => v[j.targets[j.at]].batch = j.batch
    /\ j.step = "sync" /\ j.at = 1 /\ IsPair(j) => v[j.targets[2]] = j.before[j.targets[2]]
    /\ j.step \in {"write", "replace"} /\ j.at = 2 =>
          v[j.targets[2]] = j.before[j.targets[2]]
    /\ j.step \in {"write", "replace", "sync"} /\ j.at = 2 => Brought(j, j.targets[1], v, d)
    /\ j.step = "rollback" => v[j.targets[1]].batch = j.batch
    /\ j.step \in {"rollback", "restore"} /\ "sync" \notin j.faults =>
          v[j.targets[2]] = j.before[j.targets[2]]
    /\ j.step = "resync" /\ "sync" \notin j.faults => Untouched(j, v)
    /\ (/\ j.step = "return" /\ j.result = "failed" /\ IsPair(j) /\ j.want = {}
        /\ j.faults \cap {"sync", "remove", "rollback"} = {}) => Untouched(j, v)
    /\ j.step = "return" /\ j.result = "ok" => \A t \in TargetsOf(j) : Brought(j, t, v, d)

(* The locks that a job no longer wants are its own.                       *)
Holding(w, j, h) == j.step # "idle" => \A l \in Wanted(j.targets) \ j.want : h[l] = w

PackageInv ==
    /\ holder \in [Locks -> Writers \cup {None}]
    /\ visible \in [Target -> Flushed] /\ durable \in [Target -> Flushed]
    /\ batches \in 0..MaxBatches /\ crashes \in 0..MaxCrashes
    /\ job \in [Writers -> JobType]
    /\ \A w \in Writers :
          JobOK(job[w]) /\ SceneOK(job[w], visible, durable) /\ Holding(w, job[w], holder)

LEMMA FilesAreFlushed ==
    /\ Absent \in Flushed
    /\ \A f \in Flushed : f # Absent => f.batch \in 1..MaxBatches
    /\ \A f \in Flushed : Written(f.batch) = f /\ f # Torn /\ AfterPowerLoss(f) = f
    /\ \A n \in 1..MaxBatches : Written(n) \in Flushed /\ Written(n).batch = n /\ Written(n) # Absent
<1>1. \A f \in Flushed : f.batch \in 0..MaxBatches /\ f.flushed = TRUE
                         /\ f = [batch |-> f.batch, flushed |-> TRUE]
  <2> TAKE f \in Flushed
  <2> DEFINE g == [batch |-> f.batch, flushed |-> TRUE]
  <2>1. g \in Flushed /\ g.batch = f.batch /\ g.flushed = f.flushed
      BY DEF Flushed
  <2> HIDE DEF g
  <2>2. f = g
      BY <2>1 DEF Flushed
  <2> QED BY <2>2 DEF Flushed, g
<1>2. Absent \in Flushed
    BY PackageAssumption DEF Flushed, Absent
<1>3. \A f \in Flushed : f # Absent => f.batch \in 1..MaxBatches
    BY <1>1, PackageAssumption DEF Absent
<1>4. \A f \in Flushed : Written(f.batch) = f /\ f # Torn /\ AfterPowerLoss(f) = f
    BY <1>1, PackageAssumption DEF Torn, Written, AfterPowerLoss
<1>5. \A n \in 1..MaxBatches : Written(n) \in Flushed /\ Written(n).batch = n /\ Written(n) # Absent
    BY PackageAssumption DEF Flushed, Written, Absent
<1> QED BY <1>2, <1>3, <1>4, <1>5

LEMMA IdleIsOK ==
    /\ Idle \in JobType /\ JobOK(Idle)
    /\ \A v, d : SceneOK(Idle, v, d)
    /\ \A w, h : Holding(w, Idle, h)
<1>1. Idle \in JobType
    BY FilesAreFlushed, PackageAssumption DEF Idle, JobType
<1>2. <<>> \notin Requests
    BY RequestShape
<1> QED BY <1>1, <1>2 DEF Idle, JobOK, SceneOK, Holding, IsPair, Wanted, ToSet

(* A job whose targets keep what they hold, or become durable, stays so.   *)
LEMMA SceneIsKept ==
    ASSUME NEW j, JobOK(j), NEW v, NEW d, NEW v2, NEW d2, SceneOK(j, v, d),
           j.want = {} /\ j.step # "idle" =>
               \A t \in TargetsOf(j) : v2[t] = v[t] /\ (d2[t] = d[t] \/ d2[t] = v2[t])
    PROVE  SceneOK(j, v2, d2)
<1>1. CASE j.want # {} \/ j.step = "idle"
  <2>1. j.step \in {"idle", "lock", "return"} /\ (j.step = "return" => j.want # {} /\ j.result # "ok")
      BY <1>1 DEF JobOK
  <2> QED BY <2>1 DEF SceneOK
<1>2. CASE j.want = {} /\ j.step # "idle"
  <2>1. /\ j.targets \in Requests /\ j.at \in 1..2 /\ j.at <= Len(j.targets)
      BY <1>2 DEF JobOK, JobType
  <2>2. j.targets[1] \in TargetsOf(j) /\ j.targets[j.at] \in TargetsOf(j)
        /\ (IsPair(j) \/ j.at = 2 => j.targets[2] \in TargetsOf(j))
      BY <2>1, RequestShape DEF TargetsOf, IsPair
  <2>3. j.step \in {"rollback", "restore"} => IsPair(j)
      BY DEF JobOK
  <2>4. Untouched(j, v) => Untouched(j, v2)
      BY <1>2 DEF Untouched
  <2>5. \A t \in TargetsOf(j) : Brought(j, t, v, d) => Brought(j, t, v2, d2)
      BY <1>2 DEF Brought
  <2>6. \A t \in TargetsOf(j) : v2[t] = v[t]
      BY <1>2
  <2> QED BY <2>2, <2>3, <2>4, <2>5, <2>6, SMTT(30) DEF SceneOK
<1> QED BY <1>1, <1>2

(* What a step of one writer leaves to prove.                              *)
LEMMA WriterStep ==
    ASSUME PackageInv, NEW w \in Writers, NEW k, JobOK(k),
           job' = [job EXCEPT ![w] = k],
           SceneOK(k, visible', durable'), Holding(w, k, holder'),
           visible' \in [Target -> Flushed], durable' \in [Target -> Flushed],
           batches' \in 0..MaxBatches, crashes' \in 0..MaxCrashes,
           \A t \in Target : visible'[t] = visible[t] \/ holder[ParentOf[t]] = w,
           \A t \in Target : durable'[t] = durable[t] \/ durable'[t] = visible'[t],
           holder' \in [Locks -> Writers \cup {None}],
           \A l \in Locks : holder'[l] = holder[l] \/ holder[l] \in {None, w}
    PROVE  PackageInv'
<1>1. job' \in [Writers -> JobType]
    BY DEF PackageInv, JobOK
<1>2. ASSUME NEW u \in Writers
      PROVE  JobOK(job'[u]) /\ SceneOK(job'[u], visible', durable') /\ Holding(u, job'[u], holder')
  <2>1. CASE u = w
      BY <2>1 DEF PackageInv
  <2>2. CASE u # w
    <3> DEFINE j == job[u]
    <3>1. job'[u] = j /\ JobOK(j) /\ SceneOK(j, visible, durable) /\ Holding(u, j, holder)
        BY <2>2 DEF PackageInv
    <3>2. j.step # "idle" => \A t \in TargetsOf(j) : t \in Target /\ ParentOf[t] \in Locks
                                               /\ ParentOf[t] \in Wanted(j.targets)
        BY <3>1, RequestShape, PackageAssumption DEF JobOK, TargetsOf, Wanted
    <3>3. j.step # "idle" => \A l \in Wanted(j.targets) : l \in Locks
        BY <3>2 DEF Wanted, TargetsOf
    <3>4. u # None
        BY LockAssumption
    <3> HIDE DEF j
    <3>5. Holding(u, j, holder')
        BY <2>2, <3>1, <3>3, <3>4 DEF Holding
    <3>6. j.want = {} /\ j.step # "idle" =>
              \A t \in TargetsOf(j) : visible'[t] = visible[t]
                                /\ (durable'[t] = durable[t] \/ durable'[t] = visible'[t])
        BY <2>2, <3>1, <3>2 DEF Holding
    <3>7. SceneOK(j, visible', durable')
        BY <3>1, <3>6, SceneIsKept
    <3> QED BY <3>1, <3>5, <3>7
  <2> QED BY <2>1, <2>2
<1> QED BY <1>1, <1>2 DEF PackageInv

(* The fields of a job that has become another.                            *)
SameBut(k, j, step, want, temporary, previous, before, failing, result) ==
    /\ k \in JobType /\ k.targets = j.targets /\ k.at = j.at /\ k.batch = j.batch
    /\ k.step = step /\ k.want = want /\ k.temporary = temporary /\ k.previous = previous
    /\ k.before = before /\ k.faults = failing /\ k.result = result

LEMMA JobFields ==
    ASSUME NEW j \in JobType
    PROVE  /\ \A r \in {"busy", "failed"} :
                  SameBut(Returned(j, r), j, "return", j.want, j.temporary, j.previous,
                          j.before, j.faults, r)
           /\ \A s \in {"replace", "sync", "restore", "resync"}, f \in Flushed :
                  SameBut(Staged(j, s, f), j, s, j.want, f, j.previous, j.before,
                          j.faults, j.result)
           /\ \A f \in Fault :
                  SameBut(CommitFailed(j, f), j, IF j.at = 2 THEN "rollback" ELSE "return",
                          j.want, Absent, j.previous, j.before, j.faults \cup {f}, "failed")
           /\ SameBut(RollbackFailed(j), j, "return", j.want, Absent, j.previous,
                      j.before, j.faults \cup {"rollback"}, j.result)
           /\ SameBut([j EXCEPT !.step = "return"], j, "return", j.want, j.temporary,
                      j.previous, j.before, j.faults, j.result)
           /\ SameBut([j EXCEPT !.step = "return", !.faults = j.faults \cup {"remove"}], j,
                      "return", j.want, j.temporary, j.previous, j.before,
                      j.faults \cup {"remove"}, j.result)
<1>1. Absent \in Flushed
    BY FilesAreFlushed
<1>2. \A r \in {"busy", "failed"} :
          SameBut(Returned(j, r), j, "return", j.want, j.temporary, j.previous,
                  j.before, j.faults, r)
    BY DEF JobType, SameBut, Returned
<1>3. \A s \in {"replace", "sync", "restore", "resync"}, f \in Flushed :
          SameBut(Staged(j, s, f), j, s, j.want, f, j.previous, j.before, j.faults, j.result)
    BY ZenonT(60) DEF JobType, SameBut, Staged
<1>4. \A f \in Fault :
          SameBut(CommitFailed(j, f), j, IF j.at = 2 THEN "rollback" ELSE "return",
                  j.want, Absent, j.previous, j.before, j.faults \cup {f}, "failed")
  <2> TAKE f \in Fault
  <2> DEFINE g == j.faults \cup {f}
             s == IF j.at = 2 THEN "rollback" ELSE "return"
  <2>1. g \in SUBSET Fault /\ s \in {"rollback", "return"}
      BY DEF JobType
  <2>2. CommitFailed(j, f) = [j EXCEPT !.step = s, !.temporary = Absent, !.faults = g,
                                       !.result = "failed"]
      BY DEF CommitFailed
  <2> HIDE DEF g, s
  <2> QED BY <1>1, <2>1, <2>2, ZenonT(60) DEF JobType, SameBut, g, s
<1>5. SameBut(RollbackFailed(j), j, "return", j.want, Absent, j.previous,
              j.before, j.faults \cup {"rollback"}, j.result)
  <2> DEFINE g == j.faults \cup {"rollback"}
  <2>1. g \in SUBSET Fault
      BY DEF JobType, Fault
  <2>2. RollbackFailed(j) = [j EXCEPT !.step = "return", !.temporary = Absent, !.faults = g]
      BY DEF RollbackFailed
  <2> HIDE DEF g
  <2> QED BY <1>1, <2>1, <2>2 DEF JobType, SameBut, g
<1>6. SameBut([j EXCEPT !.step = "return"], j, "return", j.want, j.temporary,
              j.previous, j.before, j.faults, j.result)
    BY DEF JobType, SameBut
<1>7. SameBut([j EXCEPT !.step = "return", !.faults = j.faults \cup {"remove"}], j,
              "return", j.want, j.temporary, j.previous, j.before,
              j.faults \cup {"remove"}, j.result)
  <2> DEFINE g == j.faults \cup {"remove"}
  <2>1. g \in SUBSET Fault
      BY DEF JobType, Fault
  <2> HIDE DEF g
  <2> QED BY <2>1 DEF JobType, SameBut, g
<1> QED BY <1>2, <1>3, <1>4, <1>5, <1>6, <1>7

Advanced(j) == [j EXCEPT !.step = "write", !.at = 2]

LEMMA NextTarget ==
    ASSUME NEW j \in JobType
    PROVE  LET k == Advanced(j)
           IN  /\ k \in JobType /\ k.step = "write" /\ k.at = 2 /\ k.targets = j.targets
               /\ k.batch = j.batch /\ k.want = j.want /\ k.previous = j.previous
               /\ k.before = j.before /\ k.faults = j.faults /\ k.result = j.result
<1> DEFINE i == [j EXCEPT !.step = "write"]
           k == [i EXCEPT !.at = 2]
<1>1. /\ i \in JobType /\ i.step = "write" /\ i.targets = j.targets
      /\ i.batch = j.batch /\ i.want = j.want /\ i.previous = j.previous
      /\ i.before = j.before /\ i.faults = j.faults /\ i.result = j.result
    BY DEF JobType
<1>2. 2 \in 1..2
    OBVIOUS
<1> HIDE DEF i
<1>3. /\ k \in JobType /\ k.step = i.step /\ k.at = 2 /\ k.targets = i.targets
      /\ k.batch = i.batch /\ k.want = i.want /\ k.previous = i.previous
      /\ k.before = i.before /\ k.faults = i.faults /\ k.result = i.result
    BY <1>1, <1>2 DEF JobType
<1>4. Advanced(j) = k
    BY DEF Advanced, i
<1> HIDE DEF k
<1> QED BY <1>1, <1>3, <1>4

(* What is known of a writer that has a job.                               *)
LEMMA WriterFacts ==
    ASSUME PackageInv, NEW w \in Writers, ~At(w, "idle")
    PROVE  LET j == job[w]
           IN  /\ j \in JobType /\ JobOK(j) /\ SceneOK(j, visible, durable)
               /\ Holding(w, j, holder)
               /\ j.targets \in Requests /\ j.targets[1] \in TargetsOf(j)
               /\ j.targets[j.at] \in TargetsOf(j) /\ (IsPair(j) => j.targets[2] \in TargetsOf(j))
               /\ IsPair(j) => \A t \in TargetsOf(j) : t \in {j.targets[1], j.targets[2]}
               /\ IsPair(j) => j.targets[1] # j.targets[2]
               /\ ~IsPair(j) => j.at = 1 /\ \A t \in TargetsOf(j) : t = j.targets[1]
               /\ \A t \in TargetsOf(j) : t \in Target /\ ParentOf[t] \in Wanted(j.targets)
               /\ \A t \in TargetsOf(j) : j.want = {} => holder[ParentOf[t]] = w
               /\ Wanted(j.targets) \subseteq Locks
               /\ \A t \in Target : j.before[t] \in Flushed
<1> DEFINE j == job[w]
<1>1. j \in JobType /\ JobOK(j) /\ SceneOK(j, visible, durable) /\ Holding(w, j, holder)
      /\ j.step # "idle"
    BY DEF PackageInv, At
<1> HIDE DEF j
<1>2. j.targets \in Requests /\ j.at \in 1..2 /\ j.at <= Len(j.targets)
    BY <1>1 DEF JobOK, JobType
<1>3. /\ j.targets[1] \in TargetsOf(j)
      /\ j.targets[j.at] \in TargetsOf(j) /\ (IsPair(j) => j.targets[2] \in TargetsOf(j))
      /\ IsPair(j) => \A t \in TargetsOf(j) : t \in {j.targets[1], j.targets[2]}
      /\ IsPair(j) => j.targets[1] # j.targets[2]
      /\ ~IsPair(j) => j.at = 1 /\ \A t \in TargetsOf(j) : t = j.targets[1]
      /\ \A t \in TargetsOf(j) : t \in Target
    BY <1>2, RequestShape DEF TargetsOf, IsPair
<1>4. \A t \in TargetsOf(j) : ParentOf[t] \in Wanted(j.targets)
    BY DEF TargetsOf, Wanted
<1>5. \A t \in TargetsOf(j) : j.want = {} => holder[ParentOf[t]] = w
    BY <1>1, <1>4 DEF Holding
<1>6. Wanted(j.targets) \subseteq Locks
    BY <1>3, PackageAssumption DEF TargetsOf, Wanted
<1>7. \A t \in Target : j.before[t] \in Flushed
    BY <1>1 DEF JobType
<1> QED BY <1>1, <1>2, <1>3, <1>4, <1>5, <1>6, <1>7 DEF j

-----------------------------------------------------------------------------
(* A step that changes neither a file nor a lock.                          *)
LEMMA QuietStep ==
    ASSUME PackageInv, NEW w \in Writers, NEW k, JobOK(k), Becomes(w, k),
           UNCHANGED <<visible, durable, crashes, holder>>, batches' \in 0..MaxBatches,
           SceneOK(k, visible, durable), Holding(w, k, holder)
    PROVE  PackageInv'
<1>1. /\ visible' = visible /\ durable' = durable /\ holder' = holder /\ crashes' = crashes
      /\ job' = [job EXCEPT ![w] = k]
    BY DEF Becomes
<1>2. /\ visible \in [Target -> Flushed] /\ durable \in [Target -> Flushed]
      /\ crashes \in 0..MaxCrashes /\ holder \in [Locks -> Writers \cup {None}]
    BY DEF PackageInv
<1> QED BY <1>1, <1>2, WriterStep

LEMMA PublishStep ==
    ASSUME PackageInv, NEW w \in Writers, NEW targets \in Requests, Publish(w, targets)
    PROVE  PackageInv'
<1> DEFINE k == [Idle EXCEPT !.step = "lock", !.targets = targets,
                             !.batch = batches + 1, !.want = Wanted(targets)]
<1>1. /\ Becomes(w, k) /\ batches < MaxBatches /\ batches' = batches + 1
      /\ UNCHANGED <<visible, durable, crashes, holder>> /\ batches \in 0..MaxBatches
    BY DEF Publish, PackageInv
<1>2. Wanted(targets) \in SUBSET Locks /\ Wanted(targets) # {} /\ Len(targets) \in 1..2
    BY RequestShape, PackageAssumption DEF Wanted
<1>3. batches + 1 \in 0..MaxBatches /\ batches + 1 > 0
    BY <1>1, PackageAssumption
<1>4. /\ k \in JobType /\ k.step = "lock" /\ k.targets = targets /\ k.batch = batches + 1
      /\ k.want = Wanted(targets) /\ k.at = 1 /\ k.result = "none"
    BY <1>2, <1>3, IdleIsOK DEF JobType, Idle
<1> HIDE DEF k
<1>5. JobOK(k)
  <2>1. k.targets # <<>>
      BY <1>2, <1>4
  <2> QED BY <1>2, <1>3, <1>4, <2>1 DEF JobOK
<1>6. SceneOK(k, visible, durable) /\ Holding(w, k, holder)
    BY <1>4 DEF SceneOK, Holding
<1> QED BY <1>1, <1>3, <1>5, <1>6, QuietStep

LEMMA TakeLockStep ==
    ASSUME PackageInv, NEW w \in Writers, TakeLock(w)
    PROVE  PackageInv'
<1> DEFINE j == job[w]
           l == FirstOf(j.want)
           left == j.want \ {l}
           step == CASE left # {} -> "lock"
                     [] left = {} /\ IsPair(j) -> "capture"
                     [] OTHER -> "write"
           k == [j EXCEPT !.want = left, !.before = visible, !.step = step]
<1>1. /\ Becomes(w, k) /\ Acquire(w, l) /\ j.step = "lock"
      /\ UNCHANGED <<visible, durable, batches, crashes>>
    BY DEF TakeLock, At
<1>2. /\ j \in JobType /\ JobOK(j) /\ Holding(w, j, holder) /\ Wanted(j.targets) \subseteq Locks
      /\ j.targets \in Requests
    BY <1>1, WriterFacts DEF At
<1>3. /\ visible \in [Target -> Flushed] /\ durable \in [Target -> Flushed]
      /\ crashes \in 0..MaxCrashes /\ batches \in 0..MaxBatches
      /\ holder \in [Locks -> Writers \cup {None}]
    BY DEF PackageInv
<1> HIDE DEF j
<1>4. /\ left = {} => step \in {"capture", "write"} /\ (step = "capture" <=> IsPair(j))
      /\ left # {} => step = "lock"
    OBVIOUS
<1>5. left \in SUBSET Locks /\ step \in {"lock", "capture", "write"}
    BY <1>2, <1>4 DEF JobType
<1> HIDE DEF step, l
<1>6. /\ k \in JobType /\ k.step = step /\ k.targets = j.targets /\ k.at = j.at
      /\ k.batch = j.batch /\ k.want = left /\ k.before = visible /\ k.previous = j.previous
      /\ k.result = j.result /\ k.temporary = j.temporary /\ k.faults = j.faults
    BY <1>2, <1>3, <1>5 DEF JobType
<1> HIDE DEF k, left
<1>7. /\ left \subseteq j.want /\ j.want \subseteq left \cup {l}
    BY DEF left
<1>8. /\ j.at = 1 /\ j.batch > 0 /\ j.targets # <<>> /\ j.result # "ok"
      /\ j.want \subseteq Wanted(j.targets) /\ Len(j.targets) \in 1..2
    BY <1>1, <1>2, RequestShape DEF JobOK
<1>9. JobOK(k)
    BY <1>2, <1>4, <1>5, <1>6, <1>7, <1>8 DEF JobOK, IsPair
<1>10. SceneOK(k, visible, durable)
  <2>1. Untouched(k, visible)
      BY <1>6 DEF Untouched
  <2> QED BY <1>4, <1>5, <1>6, <1>8, <2>1 DEF SceneOK
<1>11. /\ holder[l] = None /\ holder' = [holder EXCEPT ![l] = w]
    BY <1>1 DEF Acquire
<1>12. Holding(w, k, holder')
  <2> SUFFICES ASSUME NEW m \in Wanted(j.targets) \ left PROVE holder'[m] = w
      BY <1>6 DEF Holding
  <2>1. m \in Locks /\ (m # l => holder[m] = w)
      BY <1>1, <1>2, <1>7 DEF Holding
  <2> QED BY <1>3, <1>11, <2>1
<1>13. /\ holder' \in [Locks -> Writers \cup {None}]
       /\ \A m \in Locks : holder'[m] = holder[m] \/ holder[m] \in {None, w}
    BY <1>3, <1>11
<1> QED BY <1>1, <1>3, <1>9, <1>10, <1>12, <1>13, WriterStep DEF Becomes

LEMMA ReturnedStep ==
    ASSUME PackageInv, NEW w \in Writers, ~At(w, "idle"), NEW r \in {"busy", "failed"},
           Becomes(w, Returned(job[w], r)), UNCHANGED <<visible, durable, batches, crashes, holder>>,
           r = "failed" /\ job[w].want = {} => Untouched(job[w], visible)
    PROVE  PackageInv'
<1> DEFINE j == job[w]
           k == Returned(j, r)
<1>1. /\ j \in JobType /\ JobOK(j) /\ Holding(w, j, holder) /\ j.step # "idle"
    BY WriterFacts DEF At
<1>2. SameBut(k, j, "return", j.want, j.temporary, j.previous, j.before, j.faults, r)
    BY <1>1, JobFields
<1>3. Becomes(w, k) /\ (r = "failed" /\ j.want = {} => Untouched(j, visible))
      /\ UNCHANGED <<visible, durable, crashes, holder>> /\ batches' \in 0..MaxBatches
    BY DEF PackageInv
<1> HIDE DEF j, k
<1>4. JobOK(k)
    BY <1>1, <1>2 DEF JobOK, SameBut, IsPair
<1>5. SceneOK(k, visible, durable)
    BY <1>2, <1>3 DEF SceneOK, SameBut, Untouched, TargetsOf
<1>6. Holding(w, k, holder)
    BY <1>1, <1>2 DEF Holding, SameBut
<1> QED BY <1>3, <1>4, <1>5, <1>6, QuietStep

LEMMA CaptureStep ==
    ASSUME PackageInv, NEW w \in Writers, Capture(w)
    PROVE  PackageInv'
<1> DEFINE j == job[w]
           k == [j EXCEPT !.step = "write", !.previous = visible[V4(w)]]
<1>1. /\ j \in JobType /\ JobOK(j) /\ Holding(w, j, holder) /\ j.step = "capture"
      /\ SceneOK(j, visible, durable) /\ j.targets[1] \in TargetsOf(j) /\ j.targets[1] \in Target
    BY WriterFacts DEF At, Capture
<1>2. Untouched(j, visible)
    BY <1>1 DEF SceneOK
<1>3. CASE Becomes(w, k) /\ UNCHANGED <<visible, durable, batches, crashes, holder>>
  <2>1. visible[V4(w)] = j.before[j.targets[1]] /\ visible[V4(w)] \in Flushed
      BY <1>1, <1>2 DEF Untouched, V4, PackageInv
  <2>2. SameBut(k, j, "write", j.want, j.temporary, visible[V4(w)], j.before, j.faults, j.result)
      BY <1>1, <2>1 DEF JobType, SameBut
  <2> HIDE DEF k, j
  <2>3. JobOK(k)
      BY <1>1, <2>1, <2>2 DEF JobOK, SameBut, IsPair
  <2>4. SceneOK(k, visible, durable)
      BY <1>1, <1>2, <2>2 DEF SceneOK, SameBut, Untouched, TargetsOf, JobOK
  <2>5. Holding(w, k, holder)
      BY <1>1, <2>2 DEF Holding, SameBut
  <2>6. batches' \in 0..MaxBatches /\ Becomes(w, k) /\ UNCHANGED <<visible, durable, crashes, holder>>
      BY <1>3 DEF PackageInv
  <2> QED BY <2>3, <2>4, <2>5, <2>6, QuietStep
<1>4. CASE Becomes(w, Returned(j, "failed")) /\ UNCHANGED <<visible, durable, batches, crashes, holder>>
    BY <1>1, <1>2, <1>4, ReturnedStep DEF At
<1> QED BY <1>3, <1>4 DEF Capture

LEMMA CommitFailedStep ==
    ASSUME PackageInv, NEW w \in Writers, NEW f \in {"write", "rename", "sync"},
           job[w].step \in {"write", "replace", "sync"}, job[w].step = "sync" => f = "sync",
           Becomes(w, CommitFailed(job[w], f)),
           UNCHANGED <<visible, durable, batches, crashes, holder>>
    PROVE  PackageInv'
<1> DEFINE j == job[w]
           k == CommitFailed(j, f)
           step == IF j.at = 2 THEN "rollback" ELSE "return"
           failing == j.faults \cup {f}
<1>1. /\ j \in JobType /\ JobOK(j) /\ Holding(w, j, holder)
      /\ SceneOK(j, visible, durable) /\ j.targets[1] \in TargetsOf(j)
      /\ IsPair(j) => \A t \in TargetsOf(j) : t \in {j.targets[1], j.targets[2]}
      /\ ~IsPair(j) => j.at = 1
    BY WriterFacts DEF At
<1>2. SameBut(k, j, step, j.want, Absent, j.previous, j.before, failing, "failed")
    BY <1>1, JobFields DEF Fault
<1>3. /\ Becomes(w, k) /\ UNCHANGED <<visible, durable, crashes, holder>>
      /\ batches' \in 0..MaxBatches
      /\ j.step \in {"write", "replace", "sync"} /\ (j.step = "sync" => f = "sync")
    BY DEF PackageInv
<1>4. /\ step = IF j.at = 2 THEN "rollback" ELSE "return"
      /\ f \in failing /\ j.at \in 1..2
    BY <1>1 DEF JobType
<1> HIDE DEF j, k, step, failing
<1>5. JobOK(k)
    BY <1>1, <1>2, <1>3, <1>4 DEF JobOK, SameBut, IsPair
<1>6. SceneOK(k, visible, durable)
    BY <1>1, <1>2, <1>3, <1>4 DEF SceneOK, SameBut, Untouched, TargetsOf, Brought, IsPair
<1>7. Holding(w, k, holder)
    BY <1>1, <1>2, <1>3 DEF Holding, SameBut
<1> QED BY <1>3, <1>5, <1>6, <1>7, QuietStep

LEMMA WriteTemporaryStep ==
    ASSUME PackageInv, NEW w \in Writers, WriteTemporary(w)
    PROVE  PackageInv'
<1> DEFINE j == job[w]
           k == Staged(j, "replace", Written(j.batch))
<1>1. /\ j \in JobType /\ JobOK(j) /\ Holding(w, j, holder) /\ j.step = "write"
      /\ SceneOK(j, visible, durable)
    BY WriterFacts DEF At, WriteTemporary
<1>2. CASE Becomes(w, k) /\ UNCHANGED <<visible, durable, batches, crashes, holder>>
  <2>1. Written(j.batch) \in Flushed
    <3>1. j.batch \in 1..MaxBatches
        BY <1>1, PackageAssumption DEF JobOK, JobType
    <3> QED BY <3>1, FilesAreFlushed
  <2>2. SameBut(k, j, "replace", j.want, Written(j.batch), j.previous, j.before, j.faults, j.result)
      BY <1>1, <2>1, JobFields
  <2> HIDE DEF k, j
  <2>3. JobOK(k)
      BY <1>1, <2>2 DEF JobOK, SameBut, IsPair
  <2>4. SceneOK(k, visible, durable)
      BY <1>1, <2>2 DEF SceneOK, SameBut, Untouched, TargetsOf, Brought
  <2>5. Holding(w, k, holder)
      BY <1>1, <2>2 DEF Holding, SameBut
  <2>6. batches' \in 0..MaxBatches /\ Becomes(w, k) /\ UNCHANGED <<visible, durable, crashes, holder>>
      BY <1>2 DEF PackageInv
  <2> QED BY <2>3, <2>4, <2>5, <2>6, QuietStep
<1>3. CASE Becomes(w, CommitFailed(j, "write")) /\ UNCHANGED <<visible, durable, batches, crashes, holder>>
    BY <1>1, <1>3, CommitFailedStep
<1> QED BY <1>2, <1>3 DEF WriteTemporary

(* A rename of one of a writer's own targets, under its locks.             *)
LEMMA RenameStep ==
    ASSUME PackageInv, NEW w \in Writers, ~At(w, "idle"), job[w].want = {}, NEW k, JobOK(k),
           NEW t \in TargetsOf(job[w]), NEW file \in Flushed, Rename(file, t), Becomes(w, k),
           UNCHANGED <<durable, batches, crashes, holder>>,
           SceneOK(k, visible', durable), Holding(w, k, holder)
    PROVE  PackageInv'
<1>1. /\ visible \in [Target -> Flushed] /\ durable \in [Target -> Flushed]
      /\ crashes \in 0..MaxCrashes /\ batches \in 0..MaxBatches
      /\ holder \in [Locks -> Writers \cup {None}]
    BY DEF PackageInv
<1>2. t \in Target /\ holder[ParentOf[t]] = w
    BY WriterFacts
<1>3. /\ visible' \in [Target -> Flushed]
      /\ \A u \in Target : visible'[u] = visible[u] \/ holder[ParentOf[u]] = w
    BY <1>1, <1>2 DEF Rename
<1>4. job' = [job EXCEPT ![w] = k] /\ holder' = holder /\ durable' = durable
      /\ batches' = batches /\ crashes' = crashes
    BY DEF Becomes
<1> QED BY <1>1, <1>3, <1>4, WriterStep

LEMMA ReplaceStep ==
    ASSUME PackageInv, NEW w \in Writers, Replace(w)
    PROVE  PackageInv'
<1> DEFINE j == job[w]
           k == Staged(j, "sync", Absent)
           t == j.targets[j.at]
<1>1. /\ j \in JobType /\ JobOK(j) /\ Holding(w, j, holder) /\ j.step = "replace"
      /\ SceneOK(j, visible, durable) /\ t \in TargetsOf(j) /\ j.targets[1] \in TargetsOf(j)
      /\ IsPair(j) => j.targets[2] \in TargetsOf(j) /\ j.targets[1] # j.targets[2]
      /\ \A u \in TargetsOf(j) : u \in Target
      /\ j.at = 2 => IsPair(j)
    BY WriterFacts DEF At, Replace
<1>2. CASE Rename(j.temporary, t) /\ Becomes(w, k) /\ UNCHANGED <<durable, batches, crashes, holder>>
  <2>1. j.temporary = Written(j.batch) /\ j.batch \in 1..MaxBatches /\ j.want = {}
      BY <1>1, PackageAssumption DEF JobOK, JobType
  <2>2. j.temporary \in Flushed /\ j.temporary.batch = j.batch /\ Absent \in Flushed
      BY <2>1, FilesAreFlushed
  <2>3. SameBut(k, j, "sync", j.want, Absent, j.previous, j.before, j.faults, j.result)
      BY <1>1, <2>2, JobFields
  <2>4. visible' = [visible EXCEPT ![t] = j.temporary] /\ visible \in [Target -> Flushed]
      BY <1>2 DEF Rename, PackageInv
  <2> HIDE DEF k, j
  <2>5. JobOK(k)
      BY <1>1, <2>3 DEF JobOK, SameBut, IsPair
  <2>6. \A u \in Target : visible'[u] = IF u = t THEN j.temporary ELSE visible[u]
      BY <2>4
  <2>7. SceneOK(k, visible', durable)
      BY <1>1, <2>1, <2>2, <2>3, <2>6 DEF SceneOK, SameBut, Untouched, TargetsOf, Brought, IsPair
  <2>8. Holding(w, k, holder)
      BY <1>1, <2>3 DEF Holding, SameBut
  <2> QED BY <1>1, <1>2, <2>1, <2>2, <2>5, <2>7, <2>8, RenameStep DEF At, j
<1>3. CASE Becomes(w, CommitFailed(j, "rename")) /\ UNCHANGED <<visible, durable, batches, crashes, holder>>
    BY <1>1, <1>3, CommitFailedStep
<1> QED BY <1>2, <1>3 DEF Replace, Writing

(* A directory is flushed under the writer's locks.                        *)
LEMMA SyncedStep ==
    ASSUME PackageInv, NEW w \in Writers, NEW k, JobOK(k), NEW dir,
           durable' = DirectorySynced(dir), Becomes(w, k),
           UNCHANGED <<visible, batches, crashes, holder>>,
           SceneOK(k, visible, durable'), Holding(w, k, holder)
    PROVE  PackageInv'
<1>1. /\ visible \in [Target -> Flushed] /\ durable \in [Target -> Flushed]
      /\ crashes \in 0..MaxCrashes /\ batches \in 0..MaxBatches
      /\ holder \in [Locks -> Writers \cup {None}]
    BY DEF PackageInv
<1>2. /\ durable' \in [Target -> Flushed]
      /\ \A u \in Target : durable'[u] = durable[u] \/ durable'[u] = visible'[u]
    BY <1>1 DEF DirectorySynced
<1>3. job' = [job EXCEPT ![w] = k] /\ holder' = holder /\ visible' = visible
      /\ batches' = batches /\ crashes' = crashes
    BY DEF Becomes
<1> QED BY <1>1, <1>2, <1>3, WriterStep

LEMMA SyncStep ==
    ASSUME PackageInv, NEW w \in Writers, Sync(w)
    PROVE  PackageInv'
<1> DEFINE j == job[w]
           k == Committed(j)
           t == j.targets[j.at]
<1>1. /\ j \in JobType /\ JobOK(j) /\ Holding(w, j, holder) /\ j.step = "sync" /\ j.want = {}
      /\ SceneOK(j, visible, durable) /\ t \in TargetsOf(j) /\ j.targets[1] \in TargetsOf(j)
      /\ IsPair(j) => j.targets[2] \in TargetsOf(j)
      /\ IsPair(j) => \A u \in TargetsOf(j) : u \in {j.targets[1], j.targets[2]}
      /\ ~IsPair(j) => j.at = 1 /\ \A u \in TargetsOf(j) : u = j.targets[1]
      /\ \A u \in TargetsOf(j) : u \in Target
      /\ Len(j.targets) \in 1..2 /\ j.at \in 1..2 /\ j.at <= Len(j.targets)
  <2>1. At(w, "sync") /\ ~At(w, "idle")
      BY DEF At, Sync
  <2>2. /\ j \in JobType /\ JobOK(j) /\ Holding(w, j, holder)
        /\ SceneOK(j, visible, durable) /\ t \in TargetsOf(j) /\ j.targets[1] \in TargetsOf(j)
        /\ IsPair(j) => j.targets[2] \in TargetsOf(j)
        /\ IsPair(j) => \A u \in TargetsOf(j) : u \in {j.targets[1], j.targets[2]}
        /\ ~IsPair(j) => j.at = 1 /\ \A u \in TargetsOf(j) : u = j.targets[1]
        /\ \A u \in TargetsOf(j) : u \in Target
        /\ j.targets \in Requests
      BY <2>1, WriterFacts
  <2>3. j.step = "sync"
      BY <2>1 DEF At
  <2> HIDE DEF j
  <2>4. j.at \in 1..2 /\ j.at <= Len(j.targets) /\ j.want = {}
      BY <2>2, <2>3 DEF JobOK, JobType
  <2> QED BY <2>2, <2>3, <2>4, RequestShape
<1>2. CASE durable' = DirectorySynced(ParentOf[t]) /\ Becomes(w, k)
           /\ UNCHANGED <<visible, batches, crashes, holder>>
  <2>1. \A u \in Target : durable'[u] = IF ParentOf[u] = ParentOf[t] THEN visible[u] ELSE durable[u]
      BY <1>2 DEF DirectorySynced
  <2>2. CASE j.at = Len(j.targets)
    <3>1. SameBut(k, j, "return", j.want, j.temporary, j.previous, j.before, j.faults, "ok")
        BY <1>1, <2>2 DEF JobType, SameBut, Committed
    <3> HIDE DEF k, j
    <3>2. JobOK(k)
        BY <1>1, <3>1 DEF JobOK, SameBut, IsPair
    <3>3. \A u \in TargetsOf(j) : visible[u].batch = j.batch /\ durable'[u] = visible[u]
      <4>1. visible[t].batch = j.batch /\ durable'[t] = visible[t]
          BY <1>1, <2>1 DEF SceneOK
      <4>2. CASE IsPair(j)
        <5>1. j.at = 2
            BY <2>2, <4>2 DEF IsPair
        <5>2. visible[j.targets[1]].batch = j.batch /\ durable'[j.targets[1]] = visible[j.targets[1]]
            BY <1>1, <2>1, <5>1 DEF SceneOK, Brought
        <5> QED BY <1>1, <4>1, <4>2, <5>1, <5>2
      <4>3. CASE ~IsPair(j)
          BY <1>1, <4>1, <4>3
      <4> QED BY <4>2, <4>3
    <3>4. SceneOK(k, visible, durable')
        BY <3>1, <3>3 DEF SceneOK, SameBut, TargetsOf, Brought
    <3>5. Holding(w, k, holder)
        BY <1>1, <3>1 DEF Holding, SameBut
    <3> QED BY <1>2, <3>2, <3>4, <3>5, SyncedStep
  <2>3. CASE j.at # Len(j.targets)
    <3>1. j.at = 1 /\ IsPair(j)
      <4> DEFINE n == Len(j.targets)
      <4>1. n \in 1..2 /\ j.at \in 1..2 /\ j.at <= n /\ j.at # n
          BY <1>1, <2>3
      <4> HIDE DEF n, j
      <4>2. j.at = 1 /\ n = 2
          BY <4>1
      <4> QED BY <4>2 DEF n, IsPair
    <3>2. k = Advanced(j)
        BY <2>3, <3>1 DEF Committed, Advanced
    <3>3. /\ k \in JobType /\ k.step = "write" /\ k.at = 2 /\ k.targets = j.targets
          /\ k.batch = j.batch /\ k.want = j.want /\ k.previous = j.previous
          /\ k.before = j.before /\ k.faults = j.faults /\ k.result = j.result
        BY <1>1, <3>2, NextTarget
    <3> HIDE DEF k, j
    <3>4. JobOK(k)
        BY <1>1, <3>1, <3>3 DEF JobOK, IsPair
    <3>5. SceneOK(k, visible, durable')
        BY <1>1, <2>1, <3>1, <3>3 DEF SceneOK, Brought
    <3>6. Holding(w, k, holder)
        BY <1>1, <3>3 DEF Holding
    <3> QED BY <1>2, <3>4, <3>5, <3>6, SyncedStep
  <2> QED BY <2>2, <2>3
<1>3. CASE Becomes(w, CommitFailed(j, "sync")) /\ UNCHANGED <<visible, durable, batches, crashes, holder>>
    BY <1>1, <1>3, CommitFailedStep
<1> QED BY <1>2, <1>3 DEF Sync, Writing

-----------------------------------------------------------------------------
(* The way back ends without its file, and says so.                        *)
LEMMA RollbackFailedStep ==
    ASSUME PackageInv, NEW w \in Writers, job[w].step \in {"rollback", "restore", "resync"},
           Becomes(w, RollbackFailed(job[w])),
           UNCHANGED <<visible, durable, batches, crashes, holder>>
    PROVE  PackageInv'
<1> DEFINE j == job[w]
           k == RollbackFailed(j)
           failing == j.faults \cup {"rollback"}
<1>1. /\ j \in JobType /\ JobOK(j) /\ Holding(w, j, holder)
      /\ SceneOK(j, visible, durable)
    BY WriterFacts DEF At
<1>2. SameBut(k, j, "return", j.want, Absent, j.previous, j.before, failing, j.result)
    BY <1>1, JobFields
<1>3. /\ Becomes(w, k) /\ UNCHANGED <<visible, durable, crashes, holder>>
      /\ batches' \in 0..MaxBatches /\ "rollback" \in failing
      /\ j.step \in {"rollback", "restore", "resync"}
    BY DEF PackageInv
<1> HIDE DEF j, k, failing
<1>4. JobOK(k)
    BY <1>1, <1>2, <1>3 DEF JobOK, SameBut, IsPair
<1>5. SceneOK(k, visible, durable)
    BY <1>1, <1>2, <1>3 DEF SceneOK, SameBut, JobOK
<1>6. Holding(w, k, holder)
    BY <1>1, <1>2, <1>3 DEF Holding, SameBut
<1> QED BY <1>3, <1>4, <1>5, <1>6, QuietStep

LEMMA RollbackRemovesStep ==
    ASSUME PackageInv, NEW w \in Writers, RollbackRemoves(w)
    PROVE  PackageInv'
<1> DEFINE j == job[w]
           k == [j EXCEPT !.step = "return"]
           n == [j EXCEPT !.step = "return", !.faults = j.faults \cup {"remove"}]
           failing == j.faults \cup {"remove"}
           t == j.targets[1]
<1>1. /\ j \in JobType /\ JobOK(j) /\ Holding(w, j, holder) /\ j.step = "rollback"
      /\ SceneOK(j, visible, durable) /\ t \in TargetsOf(j) /\ j.targets[2] \in TargetsOf(j) /\ IsPair(j)
      /\ j.targets[1] # j.targets[2] /\ j.want = {} /\ j.result = "failed"
      /\ \A u \in TargetsOf(j) : u \in {j.targets[1], j.targets[2]}
      /\ \A u \in TargetsOf(j) : u \in Target
      /\ j.previous = Absent /\ j.previous = j.before[t]
    BY WriterFacts DEF At, RollbackRemoves, JobOK
<1>2. /\ SameBut(k, j, "return", j.want, j.temporary, j.previous, j.before, j.faults, j.result)
      /\ SameBut(n, j, "return", j.want, j.temporary, j.previous, j.before, failing, j.result)
    BY <1>1, JobFields
<1>3. CASE Rename(Absent, t) /\ Becomes(w, k) /\ UNCHANGED <<durable, batches, crashes, holder>>
  <2>1. visible' = [visible EXCEPT ![t] = Absent] /\ visible \in [Target -> Flushed]
        /\ Absent \in Flushed
      BY <1>3, FilesAreFlushed DEF Rename, PackageInv
  <2> HIDE DEF k, j, n
  <2>2. JobOK(k)
      BY <1>1, <1>2 DEF JobOK, SameBut, IsPair
  <2>3. \A u \in Target : visible'[u] = IF u = t THEN Absent ELSE visible[u]
      BY <2>1
  <2>4. SceneOK(k, visible', durable)
    <3>1. "sync" \notin j.faults => Untouched(j, visible')
        BY <1>1, <2>3 DEF SceneOK, Untouched
    <3> QED BY <1>1, <1>2, <3>1 DEF SceneOK, SameBut, Untouched, TargetsOf
  <2>5. Holding(w, k, holder)
      BY <1>1, <1>2 DEF Holding, SameBut
  <2> QED BY <1>1, <1>3, <2>1, <2>2, <2>4, <2>5, RenameStep DEF At, j
<1>4. CASE Becomes(w, n) /\ UNCHANGED <<visible, durable, batches, crashes, holder>>
  <2>1. batches' \in 0..MaxBatches /\ UNCHANGED <<visible, durable, crashes, holder>>
        /\ "remove" \in failing
      BY <1>4 DEF PackageInv
  <2> HIDE DEF k, j, n, failing
  <2>2. JobOK(n)
      BY <1>1, <1>2 DEF JobOK, SameBut, IsPair
  <2>3. SceneOK(n, visible, durable)
      BY <1>1, <1>2, <2>1 DEF SceneOK, SameBut
  <2>4. Holding(w, n, holder)
      BY <1>1, <1>2 DEF Holding, SameBut
  <2> QED BY <1>4, <2>1, <2>2, <2>3, <2>4, QuietStep
<1> QED BY <1>3, <1>4 DEF RollbackRemoves, V4

LEMMA RollbackWritesStep ==
    ASSUME PackageInv, NEW w \in Writers, RollbackWrites(w)
    PROVE  PackageInv'
<1> DEFINE j == job[w]
           k == Staged(j, "restore", Written(j.previous.batch))
<1>1. /\ j \in JobType /\ JobOK(j) /\ Holding(w, j, holder) /\ j.step = "rollback"
      /\ SceneOK(j, visible, durable) /\ j.previous # Absent
    BY WriterFacts DEF At, RollbackWrites
<1>2. CASE Becomes(w, k) /\ UNCHANGED <<visible, durable, batches, crashes, holder>>
  <2>1. Written(j.previous.batch) = j.previous /\ j.previous \in Flushed
      BY <1>1, FilesAreFlushed DEF JobType
  <2>2. SameBut(k, j, "restore", j.want, j.previous, j.previous, j.before, j.faults, j.result)
      BY <1>1, <2>1, JobFields
  <2>3. batches' \in 0..MaxBatches /\ Becomes(w, k) /\ UNCHANGED <<visible, durable, crashes, holder>>
      BY <1>2 DEF PackageInv
  <2> HIDE DEF k, j
  <2>4. JobOK(k)
      BY <1>1, <2>2 DEF JobOK, SameBut, IsPair
  <2>5. SceneOK(k, visible, durable)
      BY <1>1, <2>2 DEF SceneOK, SameBut
  <2>6. Holding(w, k, holder)
      BY <1>1, <2>2 DEF Holding, SameBut
  <2> QED BY <2>3, <2>4, <2>5, <2>6, QuietStep
<1>3. CASE Becomes(w, RollbackFailed(j)) /\ UNCHANGED <<visible, durable, batches, crashes, holder>>
    BY <1>1, <1>3, RollbackFailedStep
<1> QED BY <1>2, <1>3 DEF RollbackWrites

LEMMA RestoreStep ==
    ASSUME PackageInv, NEW w \in Writers, Restore(w)
    PROVE  PackageInv'
<1> DEFINE j == job[w]
           k == Staged(j, "resync", Absent)
           t == j.targets[1]
<1>1. /\ j \in JobType /\ JobOK(j) /\ Holding(w, j, holder) /\ j.step = "restore"
      /\ SceneOK(j, visible, durable) /\ t \in TargetsOf(j) /\ j.targets[2] \in TargetsOf(j) /\ IsPair(j)
      /\ j.targets[1] # j.targets[2] /\ j.want = {}
      /\ \A u \in TargetsOf(j) : u \in {j.targets[1], j.targets[2]}
      /\ \A u \in TargetsOf(j) : u \in Target
      /\ j.temporary = j.previous /\ j.previous = j.before[t]
    BY WriterFacts DEF At, Restore, JobOK
<1>2. CASE Rename(j.temporary, t) /\ Becomes(w, k) /\ UNCHANGED <<durable, batches, crashes, holder>>
  <2>1. j.temporary \in Flushed /\ Absent \in Flushed
      BY <1>1, FilesAreFlushed DEF JobType
  <2>2. SameBut(k, j, "resync", j.want, Absent, j.previous, j.before, j.faults, j.result)
      BY <1>1, <2>1, JobFields
  <2>3. visible' = [visible EXCEPT ![t] = j.temporary] /\ visible \in [Target -> Flushed]
      BY <1>2 DEF Rename, PackageInv
  <2> HIDE DEF k, j
  <2>4. JobOK(k)
      BY <1>1, <2>2 DEF JobOK, SameBut, IsPair
  <2>5. \A u \in Target : visible'[u] = IF u = t THEN j.temporary ELSE visible[u]
      BY <2>3
  <2>6. SceneOK(k, visible', durable)
    <3>1. "sync" \notin j.faults => Untouched(j, visible')
        BY <1>1, <2>5 DEF SceneOK, Untouched
    <3> QED BY <1>1, <2>2, <3>1 DEF SceneOK, SameBut, Untouched, TargetsOf
  <2>7. Holding(w, k, holder)
      BY <1>1, <2>2 DEF Holding, SameBut
  <2> QED BY <1>1, <1>2, <2>1, <2>4, <2>6, <2>7, RenameStep DEF At, j
<1>3. CASE Becomes(w, RollbackFailed(j)) /\ UNCHANGED <<visible, durable, batches, crashes, holder>>
    BY <1>1, <1>3, RollbackFailedStep
<1> QED BY <1>2, <1>3 DEF Restore, V4

LEMMA ResyncStep ==
    ASSUME PackageInv, NEW w \in Writers, Resync(w)
    PROVE  PackageInv'
<1> DEFINE j == job[w]
           k == [j EXCEPT !.step = "return"]
<1>1. /\ j \in JobType /\ JobOK(j) /\ Holding(w, j, holder) /\ j.step = "resync"
      /\ SceneOK(j, visible, durable) /\ j.result = "failed"
    BY WriterFacts DEF At, Resync, JobOK
<1>2. CASE durable' = DirectorySynced(ParentOf[V4(w)]) /\ Becomes(w, k)
           /\ UNCHANGED <<visible, batches, crashes, holder>>
  <2>1. SameBut(k, j, "return", j.want, j.temporary, j.previous, j.before, j.faults, j.result)
      BY <1>1, JobFields
  <2> HIDE DEF k, j
  <2>2. JobOK(k)
      BY <1>1, <2>1 DEF JobOK, SameBut, IsPair
  <2>3. SceneOK(k, visible, durable')
      BY <1>1, <2>1 DEF SceneOK, SameBut, Untouched, TargetsOf
  <2>4. Holding(w, k, holder)
      BY <1>1, <2>1 DEF Holding, SameBut
  <2> QED BY <1>2, <2>2, <2>3, <2>4, SyncedStep
<1>3. CASE Becomes(w, RollbackFailed(j)) /\ UNCHANGED <<visible, durable, batches, crashes, holder>>
    BY <1>1, <1>3, RollbackFailedStep
<1> QED BY <1>2, <1>3 DEF Resync

(* A job ends, by a return or a kill, and its locks are given up.          *)
LEMMA EndStep ==
    ASSUME PackageInv, NEW w \in Writers, Return(w) \/ Kill(w)
    PROVE  PackageInv'
<1>1. /\ Becomes(w, Idle) /\ ReleaseAll(w) /\ UNCHANGED <<visible, durable, batches>>
      /\ crashes' \in 0..MaxCrashes
    BY PackageAssumption DEF Return, Kill, PackageInv
<1>2. /\ visible \in [Target -> Flushed] /\ durable \in [Target -> Flushed]
      /\ batches \in 0..MaxBatches /\ holder \in [Locks -> Writers \cup {None}]
    BY DEF PackageInv
<1>3. /\ holder' \in [Locks -> Writers \cup {None}]
      /\ \A l \in Locks : holder'[l] = holder[l] \/ holder[l] \in {None, w}
    BY <1>1, <1>2 DEF ReleaseAll
<1> QED BY <1>1, <1>2, <1>3, IdleIsOK, WriterStep DEF Becomes

LEMMA PowerLossStep ==
    ASSUME PackageInv, PowerLoss
    PROVE  /\ PackageInv'
           /\ \A t \in Target : visible'[t] \in {visible[t], durable[t]}
           /\ crashes' > crashes
<1>1. /\ visible \in [Target -> Flushed] /\ durable \in [Target -> Flushed]
      /\ batches \in 0..MaxBatches /\ crashes \in 0..MaxCrashes
    BY DEF PackageInv
<1>2. crashes' \in 0..MaxCrashes /\ crashes' > crashes
    BY <1>1, PackageAssumption DEF PowerLoss
<1>3. /\ visible' \in [Target -> Flushed]
      /\ \A t \in Target : visible'[t] \in {visible[t], durable[t]}
  <2>1. PICK kept \in SUBSET Target :
            visible' = [t \in Target |->
                          AfterPowerLoss(IF t \in kept THEN visible[t] ELSE durable[t])]
      BY DEF PowerLoss
  <2>2. \A t \in Target : AfterPowerLoss(visible[t]) = visible[t] /\ AfterPowerLoss(durable[t]) = durable[t]
      BY <1>1, FilesAreFlushed
  <2>3. \A t \in Target : visible'[t] = IF t \in kept THEN visible[t] ELSE durable[t]
      BY <2>1, <2>2
  <2> QED BY <1>1, <2>1, <2>3
<1>4. /\ durable' = visible' /\ job' = [w \in Writers |-> Idle] /\ batches' = batches
      /\ holder' \in [Locks -> Writers \cup {None}]
    BY DEF PowerLoss, KernelReleasesAll
<1> QED BY <1>1, <1>2, <1>3, <1>4, IdleIsOK DEF PackageInv

(* A publication of packages begins within the invariant, and each of its  *)
(* steps keeps it.                                                         *)
LEMMA PackageStart == PackageInit /\ LockInit => PackageInv
BY IdleIsOK, FilesAreFlushed, PackageAssumption DEF PackageInit, LockInit, PackageInv

LEMMA PackageStep == ASSUME PackageInv, [PackageNext]_packageVars PROVE PackageInv'
<1>1. CASE UNCHANGED packageVars
    BY <1>1 DEF packageVars, PackageInv
<1>2. ASSUME NEW w \in Writers, LockIsHeld(w) \/ LockCannotBeOpened(w) PROVE PackageInv'
  <2>1. /\ ~At(w, "idle") /\ UNCHANGED <<visible, durable, batches, crashes, holder>>
        /\ Becomes(w, Returned(job[w], "busy")) \/ Becomes(w, Returned(job[w], "failed"))
      BY <1>2 DEF LockIsHeld, LockCannotBeOpened, Busy, At
  <2>2. job[w].want # {}
      BY <1>2, <2>1, WriterFacts DEF LockIsHeld, LockCannotBeOpened, At, JobOK
  <2> QED BY <2>1, <2>2, ReturnedStep
<1> QED BY <1>1, <1>2, PublishStep, TakeLockStep, CaptureStep, WriteTemporaryStep, ReplaceStep,
        SyncStep, RollbackRemovesStep, RollbackWritesStep, RestoreStep, ResyncStep, EndStep,
        PowerLossStep DEF PackageNext

LEMMA PackageInvariant == PackageSpec => []PackageInv
BY PackageStart, PackageStep, PTL DEF PackageSpec

(* Whatever faults, kills and power losses there are, the fields of every  *)
(* publication keep their types; in particular no file is found torn.      *)
THEOREM PackageTypeCorrect == PackageSpec => []PackageTypeOK
<1>1. PackageInv => PackageTypeOK
  <2> SUFFICES ASSUME PackageInv PROVE PackageTypeOK
      OBVIOUS
  <2>1. Flushed \subseteq File
    <3> SUFFICES ASSUME NEW f \in Flushed PROVE f \in File
        OBVIOUS
    <3>1. CASE f = Absent
        BY <3>1 DEF File
    <3>2. CASE f # Absent
        BY <3>2, FilesAreFlushed DEF File, Flushed
    <3> QED BY <3>1, <3>2
  <2>2. \A w \in Writers : job[w] \in JobType
      BY DEF PackageInv
  <2> QED BY <2>1, <2>2 DEF PackageInv, PackageTypeOK, LockTypeOK, JobType
<1> QED BY <1>1, PackageInvariant, PTL

(* publishPackagePair: a pair that fails once it has its locks, though no  *)
(* sync, removal or rollback failed, leaves both its targets as they were, *)
(* whoever else publishes into the same directories meanwhile.             *)
THEOREM FailedPairsLeaveNoTrace == PackageSpec => []FailureKeepsPair
<1>1. PackageInv => FailureKeepsPair
    BY DEF PackageInv, SceneOK, FailureKeepsPair, Returns, At, Untouched, TargetsOf
<1> QED BY <1>1, PackageInvariant, PTL

LEMMA PackagesLast == PackageInv => PackagesAreDurable
BY FilesAreFlushed DEF PackageInv, SceneOK, PackagesAreDurable, Returns, At, Brought, TargetsOf

(* A publication that returns success has its package visible and durable  *)
(* at every target at once, and no reader opens a torn package.            *)
THEOREM PublishedPackagesLast == PackageSpec => []PackagesAreDurable
BY PackagesLast, PackageInvariant, PTL

(* commitPackage replaces a package and never takes one away: only the     *)
(* rollback of a pair does, and only what that pair brought where nothing  *)
(* had been, or a power loss that undoes a rename.                         *)
THEOREM PackagesStay == PackageSpec => LastPackageStays
<1> DEFINE Stays == \A t \in Target : (visible[t] # Absent /\ visible'[t] = Absent) =>
                       \/ durable[t] = Absent /\ crashes' > crashes
                       \/ \E w \in Writers : TakesAwayItsOwn(w, t)
<1>1. ASSUME PackageInv, PackageNext PROVE Stays
  <2>1. CASE visible' = visible
      BY <2>1
  <2>2. ASSUME NEW w \in Writers, Replace(w) PROVE Stays
    <3>1. /\ job[w].temporary = Written(job[w].batch) /\ job[w].batch \in 1..MaxBatches
          /\ Writing(w) \in Target
      <4>1. ~At(w, "idle") /\ job[w].step = "replace"
          BY <2>2 DEF At, Replace
      <4>2. /\ job[w] \in JobType /\ JobOK(job[w]) /\ Writing(w) \in TargetsOf(job[w])
            /\ \A t \in TargetsOf(job[w]) : t \in Target
          BY <1>1, <4>1, WriterFacts DEF Writing
      <4> QED BY <4>1, <4>2, PackageAssumption DEF JobOK, JobType
    <3>2. job[w].temporary # Absent
        BY <3>1, FilesAreFlushed
    <3>3. CASE Rename(job[w].temporary, Writing(w))
        BY <1>1, <3>1, <3>2, <3>3 DEF Rename, PackageInv
    <3> QED BY <2>1, <2>2, <3>3 DEF Replace
  <2>3. ASSUME NEW w \in Writers, RollbackRemoves(w) PROVE Stays
    <3>1. /\ job[w].step = "rollback" /\ JobOK(job[w]) /\ SceneOK(job[w], visible, durable)
          /\ job[w].previous = Absent /\ V4(w) \in Target
      <4>1. ~At(w, "idle") /\ job[w].step = "rollback" /\ job[w].previous = Absent
          BY <2>3 DEF At, RollbackRemoves
      <4>2. /\ JobOK(job[w]) /\ SceneOK(job[w], visible, durable) /\ V4(w) \in TargetsOf(job[w])
            /\ \A t \in TargetsOf(job[w]) : t \in Target
          BY <1>1, <4>1, WriterFacts DEF V4
      <4> QED BY <4>1, <4>2
    <3>2. TakesAwayItsOwn(w, V4(w))
        BY <3>1 DEF TakesAwayItsOwn, At, V4, JobOK, SceneOK
    <3>3. CASE Rename(Absent, V4(w))
        BY <1>1, <3>1, <3>2, <3>3 DEF Rename, PackageInv
    <3> QED BY <2>1, <2>3, <3>3 DEF RollbackRemoves
  <2>4. ASSUME NEW w \in Writers, Restore(w) PROVE Stays
    <3>1. /\ job[w].temporary # Absent /\ V4(w) \in Target
      <4>1. ~At(w, "idle") /\ job[w].step = "restore"
          BY <2>4 DEF At, Restore
      <4>2. /\ JobOK(job[w]) /\ V4(w) \in TargetsOf(job[w]) /\ \A t \in TargetsOf(job[w]) : t \in Target
          BY <1>1, <4>1, WriterFacts DEF V4
      <4> QED BY <4>1, <4>2 DEF JobOK
    <3>2. CASE Rename(job[w].temporary, V4(w))
        BY <1>1, <3>1, <3>2 DEF Rename, PackageInv
    <3> QED BY <2>1, <2>4, <3>2 DEF Restore
  <2>5. CASE PowerLoss
    <3>1. /\ \A t \in Target : visible'[t] \in {visible[t], durable[t]}
          /\ crashes' > crashes
        BY <1>1, <2>5, PowerLossStep
    <3> QED BY <3>1
  <2>6. ASSUME NEW w \in Writers,
               \/ \E targets \in Requests : Publish(w, targets)
               \/ TakeLock(w) \/ LockIsHeld(w) \/ LockCannotBeOpened(w) \/ Capture(w)
               \/ WriteTemporary(w) \/ Sync(w) \/ RollbackWrites(w) \/ Resync(w)
               \/ Return(w) \/ Kill(w)
        PROVE  visible' = visible
      BY <2>6 DEF Publish, TakeLock, LockIsHeld, LockCannotBeOpened, Capture, WriteTemporary,
                  Sync, RollbackWrites, Resync, Return, Kill
  <2> HIDE DEF Stays
  <2> QED BY <1>1, <2>1, <2>2, <2>3, <2>4, <2>5, <2>6 DEF PackageNext
<1>2. PackageInv /\ [PackageNext]_packageVars => [Stays]_packageVars
    BY <1>1
<1> QED BY <1>2, PackageInvariant, PTL DEF PackageSpec, LastPackageStays

-----------------------------------------------------------------------------
(* Generations.  What a writer's call of the three functions is at.        *)
TaskStep ==
    {"idle", "check", "lock", "look", "clean", "write", "verify", "flush", "switch",
     "syncRoot", "abandon", "record", "replace", "syncRecord", "recover", "return"}

TaskType ==
    [step : TaskStep, call : {"none", "publish", "adopt", "recover"},
     identity : Identity \cup {None}, part : 1..3, switched : BOOLEAN,
     result : {"none", "ok", "busy", "failed"}]

PublishSteps ==
    {"look", "clean", "write", "verify", "flush", "switch", "syncRoot", "abandon"}
AdoptSteps == {"record", "replace", "syncRecord"}

TaskOK(t) ==
    /\ t \in TaskType
    /\ t.step \in PublishSteps => t.call = "publish"
    /\ t.step \in AdoptSteps \cup {"check"} => t.call = "adopt"
    /\ t.step = "recover" => t.call = "recover"
    /\ t.call \in {"publish", "adopt"} => t.identity \in Identity
    /\ t.step = "lock" => t.call # "none"
    /\ t.step \in {"check", "lock"} => t.result = "none"
    /\ t.switched => t.call = "publish" /\ t.step \in {"syncRoot", "return"}

(* The calls that have the lock of the root.                               *)
Locked(t) ==
    \/ t.step \in PublishSteps \cup AdoptSteps \cup {"recover"}
    \/ t.step = "return" /\ t.result = "ok"

HoldsRoot(w, t, h) == Locked(t) => h[RootLock] = w

(* What a call relies on: of the generations p that are published, those   *)
(* that are synced, the staged ones s, and the adoption records.           *)
CallOK(t, p, lasting, s, chosen, r) ==
    /\ t.step \in {"flush", "switch"} => Verifies(s[t.identity])
    /\ t.step = "switch" => s[t.identity].entries
    /\ t.step = "syncRoot" => p[t.identity] # NoTree
    /\ t.call = "adopt" /\ t.step \in {"lock", "record", "replace"} => p[t.identity] # NoTree
    /\ t.step = "syncRecord" => chosen = t.identity
    /\ t.step = "return" /\ t.result = "ok" /\ t.call = "adopt" => r = t.identity
    /\ t.step = "return" /\ t.result = "ok" /\ t.switched => t.identity \in lasting

FilesOK ==
    /\ published \in [Identity -> Tree] /\ staging \in [Identity -> Tree]
    /\ synced \subseteq {i \in Identity : published[i] # NoTree}
    /\ adopted \in Identity \cup {None} /\ recorded \in Identity \cup {None}
    /\ damaged \subseteq Identity /\ quiet \in BOOLEAN /\ powerLosses \in Nat
    /\ \A i \in Identity : published[i] # NoTree =>
          published[i].entries /\ (i \in damaged \/ Verifies(published[i]))
    /\ adopted # None => powerLosses > 0 \/ published[adopted] # NoTree

GenerationInv ==
    /\ FilesOK
    /\ holder \in [Locks -> Writers \cup {None}]
    /\ task \in [Writers -> TaskType]
    /\ \A w \in Writers :
          /\ TaskOK(task[w]) /\ HoldsRoot(w, task[w], holder)
          /\ CallOK(task[w], published, synced, staging, adopted, recorded)

LEMMA Parts ==
    /\ ToSet(Part) = {"closure", "provenance", "marker"} /\ Len(Part) = 3
    /\ \A n \in 1..3 : Part[n] \in ToSet(Part)
    BY DEF Part, ToSet

LEMMA Trees ==
    /\ NoTree \in Tree /\ ~Verifies(NoTree)
    /\ \A t \in Tree :
          LET k == [t EXCEPT !.entries = TRUE]
          IN  k \in Tree /\ k.whole = t.whole /\ k.torn = t.torn /\ k.entries = TRUE
    BY Parts DEF NoTree, Verifies, Tree

LEMMA TreesGrow ==
    ASSUME NEW t \in Tree, NEW part \in ToSet(Part)
    PROVE  Wrote(t, part) \in Tree /\ Tore(t, part) \in Tree
<1> DEFINE whole == t.whole \cup {part}
           torn == t.torn \cup {part}
<1>1. whole \in SUBSET ToSet(Part) /\ torn \in SUBSET ToSet(Part)
    BY DEF Tree
<1>2. Wrote(t, part) = [t EXCEPT !.whole = whole] /\ Tore(t, part) = [t EXCEPT !.torn = torn]
    BY DEF Wrote, Tore
<1> HIDE DEF whole, torn
<1> QED BY <1>1, <1>2 DEF Tree

(* A call that goes on as another, and what is the same of it.             *)
Onward(t, step) == [t EXCEPT !.step = step]
Settled(t, step, result) == [t EXCEPT !.step = step, !.result = result]
Counted(t, n) == [t EXCEPT !.part = n]
Switched(t) == [t EXCEPT !.step = "syncRoot", !.switched = TRUE]

Like(k, t, step, result) ==
    /\ k \in TaskType /\ k.step = step /\ k.result = result
    /\ k.call = t.call /\ k.identity = t.identity

LEMMA FreeTask ==
    /\ Free \in TaskType /\ TaskOK(Free) /\ ~Locked(Free) /\ Free.result = "none"
    /\ Free.switched = FALSE
    /\ \A p, d, s, chosen, r : CallOK(Free, p, d, s, chosen, r)
<1>1. Free \in TaskType /\ TaskOK(Free) /\ ~Locked(Free) /\ Free.result = "none"
      /\ Free.switched = FALSE
    BY DEF Free, TaskType, TaskOK, TaskStep, Locked, PublishSteps, AdoptSteps
<1>2. \A p, d, s, chosen, r : CallOK(Free, p, d, s, chosen, r)
    BY DEF Free, CallOK
<1> QED BY <1>1, <1>2

LEMMA Tasks ==
    ASSUME NEW t \in TaskType
    PROVE  /\ \A step \in TaskStep : Like(Onward(t, step), t, step, t.result)
                                      /\ Onward(t, step).switched = t.switched
           /\ \A step \in TaskStep, result \in {"ok", "busy", "failed"} :
                 Like(Settled(t, step, result), t, step, result)
                 /\ Settled(t, step, result).switched = t.switched
           /\ \A n \in 1..3 : Like(Counted(t, n), t, t.step, t.result)
                               /\ Counted(t, n).switched = t.switched
           /\ Like(Switched(t), t, "syncRoot", t.result) /\ Switched(t).switched = TRUE
<1>1. \A step \in TaskStep : Like(Onward(t, step), t, step, t.result)
                             /\ Onward(t, step).switched = t.switched
    BY DEF TaskType, Like, Onward
<1>2. \A step \in TaskStep, result \in {"ok", "busy", "failed"} :
          Like(Settled(t, step, result), t, step, result)
          /\ Settled(t, step, result).switched = t.switched
  <2> TAKE step \in TaskStep, result \in {"ok", "busy", "failed"}
  <2> DEFINE i == Onward(t, step)
             k == [i EXCEPT !.result = result]
  <2>1. Settled(t, step, result) = k
      BY DEF Settled, Onward
  <2> HIDE DEF i
  <2>2. /\ k \in TaskType /\ k.step = i.step /\ k.call = i.call
        /\ k.identity = i.identity /\ k.switched = i.switched /\ k.result = result
      BY <1>1 DEF i, Like, TaskType
  <2> HIDE DEF k
  <2>3. i.step = step /\ i.call = t.call /\ i.identity = t.identity /\ i.switched = t.switched
      BY <1>1 DEF i, Like
  <2> QED BY <2>1, <2>2, <2>3 DEF Like
<1>3. \A n \in 1..3 : Like(Counted(t, n), t, t.step, t.result)
                      /\ Counted(t, n).switched = t.switched
    BY DEF TaskType, Like, Counted
<1>4. Like(Switched(t), t, "syncRoot", t.result) /\ Switched(t).switched = TRUE
    BY DEF TaskType, TaskStep, Like, Switched
<1> QED BY <1>1, <1>2, <1>3, <1>4

(* What a step of one writer's call leaves to prove.  Published            *)
(* generations stay, and the rest changes under the lock.                  *)
LEMMA CallStep ==
    ASSUME GenerationInv, NEW w \in Writers, NEW k, TaskOK(k), Turns(w, k),
           FilesOK', HoldsRoot(w, k, holder'),
           CallOK(k, published', synced', staging', adopted', recorded'),
           holder' \in [Locks -> Writers \cup {None}],
           \A l \in Locks : holder'[l] = holder[l] \/ holder[l] \in {None, w},
           \A i \in Identity : published[i] # NoTree => published'[i] # NoTree,
           synced \subseteq synced',
           \/ staging' = staging /\ adopted' = adopted /\ recorded' = recorded
           \/ holder[RootLock] = w
    PROVE  GenerationInv'
<1>1. task' \in [Writers -> TaskType]
    BY DEF GenerationInv, TaskOK, Turns
<1>2. ASSUME NEW u \in Writers
      PROVE  /\ TaskOK(task'[u]) /\ HoldsRoot(u, task'[u], holder')
             /\ CallOK(task'[u], published', synced', staging', adopted', recorded')
  <2>1. CASE u = w
      BY <2>1 DEF GenerationInv, Turns
  <2>2. CASE u # w
    <3> DEFINE t == task[u]
    <3>1. /\ task'[u] = t /\ TaskOK(t) /\ HoldsRoot(u, t, holder)
          /\ CallOK(t, published, synced, staging, adopted, recorded)
        BY <2>2 DEF GenerationInv, Turns
    <3> HIDE DEF t
    <3>2. u # None /\ RootLock \in Locks
        BY LockAssumption, GenerationAssumption
    <3>3. HoldsRoot(u, t, holder')
        BY <2>2, <3>1, <3>2 DEF HoldsRoot
    <3>4. Locked(t) => staging' = staging /\ adopted' = adopted /\ recorded' = recorded
        BY <2>2, <3>1 DEF HoldsRoot
    <3>5. t.call = "adopt" => t.identity \in Identity
        BY <3>1 DEF TaskOK
    <3>6. t.step = "syncRoot" => t.identity \in Identity
        BY <3>1 DEF TaskOK, PublishSteps
    <3>7. CallOK(t, published', synced', staging', adopted', recorded')
        BY <3>1, <3>4, <3>5, <3>6 DEF CallOK, Locked, PublishSteps, AdoptSteps
    <3> QED BY <3>1, <3>3, <3>7
  <2> QED BY <2>1, <2>2
<1> QED BY <1>1, <1>2 DEF GenerationInv

LEMMA CallFacts ==
    ASSUME GenerationInv, NEW w \in Writers
    PROVE  /\ task[w] \in TaskType /\ TaskOK(task[w]) /\ HoldsRoot(w, task[w], holder)
           /\ CallOK(task[w], published, synced, staging, adopted, recorded)
           /\ FilesOK /\ RootLock \in Locks /\ holder \in [Locks -> Writers \cup {None}]
           /\ w # None
    BY LockAssumption, GenerationAssumption DEF GenerationInv

(* A step that changes no file, and one that writes in staging.            *)
LEMMA QuietCall ==
    ASSUME GenerationInv, NEW w \in Writers, NEW k, TaskOK(k), Turns(w, k),
           SameFiles, UNCHANGED <<powerLosses, damaged>>, quiet' = quiet,
           HoldsRoot(w, k, holder'),
           CallOK(k, published, synced, staging, adopted, recorded),
           holder' \in [Locks -> Writers \cup {None}],
           \A l \in Locks : holder'[l] = holder[l] \/ holder[l] \in {None, w}
    PROVE  GenerationInv'
<1>1. /\ published' = published /\ synced' = synced /\ staging' = staging
      /\ adopted' = adopted /\ recorded' = recorded
    BY DEF SameFiles, SameRecord
<1>2. FilesOK'
    BY <1>1, CallFacts DEF FilesOK
<1> QED BY <1>1, <1>2, CallStep

LEMMA StagingCall ==
    ASSUME GenerationInv, NEW w \in Writers, NEW k, TaskOK(k), Turns(w, k),
           UNCHANGED <<published, synced, holder>>, SameRecord,
           UNCHANGED <<powerLosses, damaged>>, quiet' \in BOOLEAN,
           staging' \in [Identity -> Tree], Locked(task[w]),
           CallOK(k, published, synced, staging', adopted, recorded)
    PROVE  GenerationInv'
<1>1. /\ published' = published /\ synced' = synced /\ holder' = holder
      /\ adopted' = adopted /\ recorded' = recorded
    BY DEF SameRecord
<1>2. FilesOK'
    BY <1>1, CallFacts DEF FilesOK
<1>3. holder[RootLock] = w
    BY CallFacts DEF HoldsRoot
<1>4. HoldsRoot(w, k, holder')
    BY <1>1, <1>3 DEF HoldsRoot
<1>5. holder' \in [Locks -> Writers \cup {None}]
    BY <1>1, CallFacts
<1> QED BY <1>1, <1>2, <1>3, <1>4, <1>5, CallStep

LEMMA BeginStep ==
    ASSUME GenerationInv, NEW w \in Writers, NEW call \in {"publish", "adopt", "recover"},
           NEW i \in Identity \cup {None}, call # "recover" => i \in Identity, Begin(w, call, i)
    PROVE  GenerationInv'
<1> DEFINE step == IF call = "adopt" THEN "check" ELSE "lock"
           f == [Free EXCEPT !.call = call]
           g == [f EXCEPT !.identity = i]
           k == [g EXCEPT !.step = step]
<1> HIDE DEF step
<1>a. Turns(w, k)
    BY DEF Begin, step
<1>b. f \in TaskType /\ f.call = call /\ f.switched = FALSE /\ f.result = "none"
    BY FreeTask DEF TaskType
<1> HIDE DEF f
<1>c. /\ g \in TaskType /\ g.call = call /\ g.switched = FALSE /\ g.result = "none"
      /\ g.identity = i
    BY <1>b DEF TaskType
<1> HIDE DEF g
<1>d. /\ k \in TaskType /\ k.call = call /\ k.switched = FALSE /\ k.result = "none"
      /\ k.identity = i /\ k.step = step /\ step \in {"check", "lock"}
      /\ step = "check" => call = "adopt"
      /\ step = "lock" => call # "adopt"
    BY <1>c DEF TaskType, TaskStep, step
<1>2. Turns(w, k) /\ SameFiles /\ UNCHANGED <<powerLosses, damaged, quiet, holder>>
    BY <1>a DEF Begin
<1> HIDE DEF k
<1>3. TaskOK(k) /\ ~Locked(k)
    BY <1>d DEF TaskOK, Locked, PublishSteps, AdoptSteps
<1>4. CallOK(k, published, synced, staging, adopted, recorded)
    BY <1>d DEF CallOK
<1>5. HoldsRoot(w, k, holder')
    BY <1>3 DEF HoldsRoot
<1>6. holder' \in [Locks -> Writers \cup {None}]
    BY <1>2, CallFacts
<1> QED BY <1>2, <1>3, <1>4, <1>5, <1>6, QuietCall

(* The steps before the lock is held, and those that end a call.           *)
LEMMA BadEnd ==
    ASSUME GenerationInv, NEW w \in Writers, NEW r \in {"busy", "failed"},
           ~Doing(w, "idle"), Ends(w, r), SameFiles, SameWorld, UNCHANGED <<holder, quiet>>
    PROVE  GenerationInv'
<1> DEFINE t == task[w]
           k == Settled(t, "return", r)
<1>1. Turns(w, k)
    BY DEF Ends, GoesWith, Settled
<1>2. t \in TaskType /\ TaskOK(t)
    BY CallFacts
<1>3. Like(k, t, "return", r) /\ k.switched = t.switched
    BY <1>2, Tasks, ZenonT(60) DEF TaskStep
<1> HIDE DEF k, t
<1>4. TaskOK(k) /\ ~Locked(k) /\ CallOK(k, published, synced, staging, adopted, recorded)
    BY <1>2, <1>3 DEF Like, TaskOK, Locked, CallOK, PublishSteps, AdoptSteps
<1>5. HoldsRoot(w, k, holder') /\ holder' \in [Locks -> Writers \cup {None}]
    BY <1>4, CallFacts DEF HoldsRoot
<1> QED BY <1>1, <1>4, <1>5, QuietCall DEF SameWorld

LEMMA CheckStep ==
    ASSUME GenerationInv, NEW w \in Writers, CheckBeforeAdoption(w)
    PROVE  GenerationInv'
<1> DEFINE t == task[w]
           k == Onward(t, "lock")
<1>1. CASE Ends(w, "failed")
    BY <1>1, BadEnd DEF CheckBeforeAdoption, Doing
<1>2. CASE Verifies(published[Of(w)]) /\ Goes(w, "lock")
  <2>1. Turns(w, k)
      BY <1>2 DEF Goes, Onward
  <2>2. t \in TaskType /\ TaskOK(t) /\ t.step = "check" /\ published[t.identity] # NoTree
      BY <1>2, CallFacts, Trees DEF CheckBeforeAdoption, Doing, Of
  <2>3. Like(k, t, "lock", t.result) /\ k.switched = t.switched
      BY <2>2, Tasks DEF TaskStep
  <2> HIDE DEF k, t
  <2>4. TaskOK(k) /\ ~Locked(k) /\ CallOK(k, published, synced, staging, adopted, recorded)
      BY <2>2, <2>3 DEF Like, TaskOK, Locked, CallOK, PublishSteps, AdoptSteps
  <2>5. HoldsRoot(w, k, holder') /\ holder' \in [Locks -> Writers \cup {None}]
      BY <2>4, CallFacts DEF HoldsRoot, CheckBeforeAdoption
  <2> QED BY <2>1, <2>4, <2>5, QuietCall DEF SameWorld, CheckBeforeAdoption
<1> QED BY <1>1, <1>2 DEF CheckBeforeAdoption

LEMMA LockStep ==
    ASSUME GenerationInv, NEW w \in Writers, LockRoot(w)
    PROVE  GenerationInv'
<1> DEFINE t == task[w]
           step == CASE t.call = "publish" -> "look"
                     [] t.call = "adopt" -> "record"
                     [] t.call = "recover" -> "recover"
           k == Onward(t, step)
<1>1. Turns(w, k)
    BY DEF LockRoot, Goes, Onward
<1>2. t \in TaskType /\ TaskOK(t) /\ t.step = "lock"
      /\ CallOK(t, published, synced, staging, adopted, recorded)
    BY CallFacts DEF LockRoot, Doing
<1> HIDE DEF t
<1>3. t.call \in {"publish", "adopt", "recover"}
    BY <1>2 DEF TaskOK, TaskType
<1>4. /\ step \in {"look", "record", "recover"} /\ step \in TaskStep
      /\ step = "look" => t.call = "publish"
      /\ step = "record" => t.call = "adopt"
      /\ step = "recover" => t.call = "recover"
    BY <1>3 DEF TaskStep
<1> HIDE DEF step
<1>5. Like(k, t, step, t.result) /\ k.switched = t.switched
    BY <1>2, <1>4, Tasks
<1> HIDE DEF k
<1>6. TaskOK(k)
    BY <1>2, <1>4, <1>5 DEF Like, TaskOK, PublishSteps, AdoptSteps
<1>7. CallOK(k, published, synced, staging, adopted, recorded)
    BY <1>2, <1>4, <1>5 DEF Like, CallOK
<1>8. /\ HoldsRoot(w, k, holder') /\ holder' \in [Locks -> Writers \cup {None}]
      /\ \A l \in Locks : holder'[l] = holder[l] \/ holder[l] \in {None, w}
    BY CallFacts DEF HoldsRoot, LockRoot, Acquire
<1> QED BY <1>1, <1>6, <1>7, <1>8, QuietCall DEF LockRoot, SameWorld

LEMMA LookStep ==
    ASSUME GenerationInv, NEW w \in Writers, Look(w)
    PROVE  GenerationInv'
<1> DEFINE t == task[w]
           go == Onward(t, "clean")
           end == Settled(t, "return", "ok")
<1>1. t \in TaskType /\ TaskOK(t) /\ t.step = "look" /\ HoldsRoot(w, t, holder)
    BY CallFacts DEF Look, Doing
<1>2. SameFiles /\ UNCHANGED <<powerLosses, damaged, holder, quiet>>
    BY DEF Look, SameWorld
<1>3. CASE Ends(w, "failed")
    BY <1>3, BadEnd DEF Look, Doing
<1>4. CASE Goes(w, "clean")
  <2>1. Turns(w, go)
      BY <1>4 DEF Goes, Onward
  <2>2. Like(go, t, "clean", t.result) /\ go.switched = t.switched
      BY <1>1, Tasks DEF TaskStep
  <2> HIDE DEF go, t
  <2>3. TaskOK(go) /\ CallOK(go, published, synced, staging, adopted, recorded)
      BY <1>1, <2>2 DEF Like, TaskOK, CallOK, PublishSteps, AdoptSteps
  <2>4. HoldsRoot(w, go, holder') /\ holder' \in [Locks -> Writers \cup {None}]
      BY <1>1, <1>2, CallFacts DEF Like, HoldsRoot, Locked, PublishSteps
  <2> QED BY <1>2, <2>1, <2>3, <2>4, QuietCall
<1>5. CASE Ends(w, "ok")
  <2>1. Turns(w, end)
      BY <1>5 DEF Ends, GoesWith, Settled
  <2>2. Like(end, t, "return", "ok") /\ end.switched = t.switched
      BY <1>1, Tasks DEF TaskStep
  <2> HIDE DEF end, t
  <2>3. TaskOK(end) /\ CallOK(end, published, synced, staging, adopted, recorded)
      BY <1>1, <2>2 DEF Like, TaskOK, CallOK, PublishSteps, AdoptSteps
  <2>4. HoldsRoot(w, end, holder') /\ holder' \in [Locks -> Writers \cup {None}]
      BY <1>1, <1>2, CallFacts DEF Like, HoldsRoot, Locked, PublishSteps
  <2> QED BY <1>2, <2>1, <2>3, <2>4, QuietCall
<1> QED BY <1>3, <1>4, <1>5 DEF Look

LEMMA CleanStep ==
    ASSUME GenerationInv, NEW w \in Writers, Clean(w)
    PROVE  GenerationInv'
<1> DEFINE t == task[w]
           go == Onward(t, "write")
           end == Settled(t, "return", "failed")
<1>1. t \in TaskType /\ TaskOK(t) /\ t.step = "clean" /\ HoldsRoot(w, t, holder)
    BY CallFacts DEF Clean, Doing
<1>2. /\ UNCHANGED <<published, synced, holder>> /\ SameRecord
      /\ UNCHANGED <<powerLosses, damaged>> /\ Locked(t)
    BY <1>1 DEF Clean, SameWorld, Locked, PublishSteps
<1>3. staging' \in [Identity -> Tree] /\ quiet' \in BOOLEAN
  <2>1. staging \in [Identity -> Tree] /\ quiet \in BOOLEAN /\ NoTree \in Tree
      BY CallFacts, Trees DEF FilesOK
  <2>2. /\ staging' \in {staging, [staging EXCEPT ![Of(w)] = NoTree]}
        /\ quiet' = quiet \/ quiet' = TRUE
      BY DEF Clean, Stages
  <2> QED BY <2>1, <2>2
<1>4. CASE Goes(w, "write")
  <2>1. Turns(w, go)
      BY <1>4 DEF Goes, Onward
  <2>2. Like(go, t, "write", t.result) /\ go.switched = t.switched
      BY <1>1, Tasks DEF TaskStep
  <2> HIDE DEF go
  <2>3. TaskOK(go) /\ CallOK(go, published, synced, staging', adopted, recorded)
      BY <1>1, <2>2 DEF Like, TaskOK, CallOK, PublishSteps, AdoptSteps
  <2> QED BY <1>2, <1>3, <2>1, <2>3, StagingCall
<1>5. CASE Ends(w, "failed")
  <2>1. Turns(w, end)
      BY <1>5 DEF Ends, GoesWith, Settled
  <2>2. Like(end, t, "return", "failed") /\ end.switched = t.switched
      BY <1>1, Tasks DEF TaskStep
  <2> HIDE DEF end
  <2>3. TaskOK(end) /\ CallOK(end, published, synced, staging', adopted, recorded)
      BY <1>1, <2>2 DEF Like, TaskOK, CallOK, PublishSteps, AdoptSteps
  <2> QED BY <1>2, <1>3, <2>1, <2>3, StagingCall
<1> QED BY <1>4, <1>5 DEF Clean

LEMMA AbandonedStep ==
    ASSUME GenerationInv, NEW w \in Writers, Abandons(w),
           task[w].step \in {"write", "verify", "flush"},
           UNCHANGED <<published, synced, holder, quiet>>, SameRecord, SameWorld,
           staging' \in [Identity -> Tree]
    PROVE  GenerationInv'
<1> DEFINE t == task[w]
           k == Settled(t, "abandon", "failed")
<1>1. t \in TaskType /\ TaskOK(t)
    BY CallFacts
<1>2. Turns(w, k)
    BY DEF Abandons, GoesWith, Settled
<1>3. Like(k, t, "abandon", "failed") /\ k.switched = t.switched
    BY <1>1, Tasks DEF TaskStep
<1> HIDE DEF k
<1>4. TaskOK(k) /\ CallOK(k, published, synced, staging', adopted, recorded)
    BY <1>1, <1>3 DEF Like, TaskOK, CallOK, PublishSteps, AdoptSteps
<1>5. Locked(t) /\ quiet' \in BOOLEAN
    BY CallFacts DEF Locked, PublishSteps, FilesOK
<1> QED BY <1>2, <1>4, <1>5, StagingCall DEF SameWorld

LEMMA WritePartStep ==
    ASSUME GenerationInv, NEW w \in Writers, WritePart(w)
    PROVE  GenerationInv'
<1> DEFINE t == task[w]
           go == Onward(t, "verify")
           on == Counted(t, t.part + 1)
<1>1. t \in TaskType /\ TaskOK(t) /\ t.step = "write" /\ t.part \in 1..3
    BY CallFacts DEF WritePart, Doing, TaskType
<1>2. /\ UNCHANGED <<published, synced, holder>> /\ SameRecord
      /\ UNCHANGED <<powerLosses, damaged>> /\ Locked(t) /\ quiet' \in BOOLEAN
    BY <1>1, CallFacts DEF WritePart, SameWorld, Locked, PublishSteps, FilesOK
<1>3. staging' \in [Identity -> Tree]
  <2>1. Of(w) \in Identity /\ staging \in [Identity -> Tree]
      BY <1>1, CallFacts DEF TaskOK, PublishSteps, Of, FilesOK
  <2>2. staging[Of(w)] \in Tree /\ OnPart(w) \in ToSet(Part)
      BY <1>1, <2>1, Parts DEF OnPart
  <2>3. Wrote(staging[Of(w)], OnPart(w)) \in Tree
      BY <2>2, TreesGrow
  <2> QED BY <2>1, <2>3 DEF WritePart, Stages
<1>4. CASE Goes(w, "verify")
  <2>1. Turns(w, go)
      BY <1>4 DEF Goes, Onward
  <2>2. Like(go, t, "verify", t.result) /\ go.switched = t.switched
      BY <1>1, Tasks DEF TaskStep
  <2> HIDE DEF go
  <2>3. TaskOK(go) /\ CallOK(go, published, synced, staging', adopted, recorded)
      BY <1>1, <2>2 DEF Like, TaskOK, CallOK, PublishSteps, AdoptSteps
  <2> QED BY <1>2, <1>3, <2>1, <2>3, StagingCall
<1>5. CASE t.part # Len(Part) /\ Turns(w, on)
  <2>1. t.part + 1 \in 1..3
      BY <1>1, <1>5, Parts
  <2>2. Like(on, t, "write", t.result) /\ on.switched = t.switched
      BY <1>1, <2>1, Tasks
  <2> HIDE DEF on
  <2>3. TaskOK(on) /\ CallOK(on, published, synced, staging', adopted, recorded)
      BY <1>1, <2>2 DEF Like, TaskOK, CallOK, PublishSteps, AdoptSteps
  <2> QED BY <1>2, <1>3, <1>5, <2>3, StagingCall
<1> QED BY <1>4, <1>5 DEF WritePart, Counted

(* A file that is torn where none was in the way.                          *)
LEMMA TornStaging ==
    ASSUME GenerationInv, NEW w \in Writers, Doing(w, "write"),
           Stages(w, Tore(staging[Of(w)], OnPart(w)))
    PROVE  staging' \in [Identity -> Tree]
<1>1. task[w] \in TaskType /\ TaskOK(task[w])
    BY CallFacts
<1>2. Of(w) \in Identity /\ staging \in [Identity -> Tree] /\ task[w].part \in 1..3
    BY <1>1, CallFacts DEF TaskOK, TaskType, PublishSteps, Of, FilesOK, Doing
<1>3. staging[Of(w)] \in Tree /\ OnPart(w) \in ToSet(Part)
    BY <1>2, Parts DEF OnPart
<1>4. Tore(staging[Of(w)], OnPart(w)) \in Tree
    BY <1>3, TreesGrow
<1> QED BY <1>2, <1>4 DEF Stages

LEMMA WriteFailsStep ==
    ASSUME GenerationInv, NEW w \in Writers, WriteFails(w)
    PROVE  GenerationInv'
<1>1. staging' \in [Identity -> Tree]
    BY CallFacts, TornStaging DEF WriteFails, FilesOK
<1> QED BY <1>1, AbandonedStep DEF WriteFails, Doing

LEMMA VerifyStep ==
    ASSUME GenerationInv, NEW w \in Writers, VerifyStaged(w)
    PROVE  GenerationInv'
<1> DEFINE t == task[w]
           go == Onward(t, "flush")
<1>1. t \in TaskType /\ TaskOK(t) /\ t.step = "verify" /\ FilesOK
    BY CallFacts DEF VerifyStaged, Doing
<1>2. /\ UNCHANGED <<published, synced, holder>> /\ SameRecord /\ staging' = staging
      /\ UNCHANGED <<powerLosses, damaged>> /\ Locked(t) /\ quiet' \in BOOLEAN
    BY <1>1 DEF VerifyStaged, SameWorld, SameFiles, Locked, PublishSteps, FilesOK
<1>3. staging' \in [Identity -> Tree]
    BY <1>1, <1>2 DEF FilesOK
<1>4. CASE Abandons(w)
    BY <1>1, <1>3, <1>4, AbandonedStep DEF VerifyStaged, SameFiles
<1>5. CASE Verifies(staging[Of(w)]) /\ Goes(w, "flush")
  <2>1. Turns(w, go)
      BY <1>5 DEF Goes, Onward
  <2>2. Like(go, t, "flush", t.result) /\ go.switched = t.switched
      BY <1>1, Tasks DEF TaskStep
  <2>3. Verifies(staging[t.identity])
      BY <1>5 DEF Of
  <2> HIDE DEF go, t
  <2>4. TaskOK(go) /\ CallOK(go, published, synced, staging, adopted, recorded)
      BY <1>1, <2>2, <2>3 DEF Like, TaskOK, CallOK, PublishSteps, AdoptSteps
  <2> QED BY <1>2, <1>3, <2>1, <2>4, StagingCall DEF t
<1> QED BY <1>4, <1>5 DEF VerifyStaged

LEMMA FlushStep ==
    ASSUME GenerationInv, NEW w \in Writers, FlushStaged(w)
    PROVE  GenerationInv'
<1> DEFINE t == task[w]
           go == Onward(t, "switch")
           tree == [staging[t.identity] EXCEPT !.entries = TRUE]
<1>1. /\ t \in TaskType /\ TaskOK(t) /\ t.step = "flush" /\ t.identity \in Identity
      /\ staging \in [Identity -> Tree] /\ Verifies(staging[t.identity])
    BY CallFacts DEF FlushStaged, Doing, FilesOK, TaskOK, CallOK, PublishSteps
<1>2. /\ UNCHANGED <<published, synced, holder>> /\ SameRecord
      /\ UNCHANGED <<powerLosses, damaged>> /\ Locked(t) /\ quiet' \in BOOLEAN
    BY <1>1, CallFacts DEF FlushStaged, SameWorld, Locked, PublishSteps, FilesOK
<1>3. CASE staging' = staging /\ Abandons(w)
    BY <1>1, <1>3, AbandonedStep DEF FlushStaged
<1>4. CASE staging' = [staging EXCEPT ![t.identity] = tree] /\ Goes(w, "switch")
  <2>1. Turns(w, go)
      BY <1>4 DEF Goes, Onward
  <2>2. Like(go, t, "switch", t.result) /\ go.switched = t.switched
      BY <1>1, Tasks DEF TaskStep
  <2>3. tree \in Tree /\ tree.entries = TRUE /\ tree.whole = staging[t.identity].whole
      BY <1>1, Trees
  <2> HIDE DEF tree
  <2>4. /\ staging' \in [Identity -> Tree] /\ staging'[t.identity].entries
        /\ Verifies(staging'[t.identity])
      BY <1>1, <1>4, <2>3 DEF Verifies
  <2> HIDE DEF go, t
  <2>5. TaskOK(go) /\ CallOK(go, published, synced, staging', adopted, recorded)
      BY <1>1, <2>2, <2>4 DEF Like, TaskOK, CallOK, PublishSteps, AdoptSteps
  <2> QED BY <1>2, <2>1, <2>4, <2>5, StagingCall DEF t
<1> QED BY <1>3, <1>4 DEF FlushStaged, Of, Stages

LEMMA SwitchStep ==
    ASSUME GenerationInv, NEW w \in Writers, Switch(w)
    PROVE  GenerationInv'
<1> DEFINE t == task[w]
           k == Switched(t)
           id == t.identity
<1>1. /\ t \in TaskType /\ TaskOK(t) /\ t.step = "switch" /\ t.call = "publish"
      /\ id \in Identity /\ HoldsRoot(w, t, holder)
      /\ Verifies(staging[id]) /\ staging[id].entries
    BY CallFacts DEF Switch, Doing, TaskOK, CallOK, PublishSteps
<1>2. /\ published' = [published EXCEPT ![id] = staging[id]]
      /\ staging' = [staging EXCEPT ![id] = NoTree]
      /\ synced' = synced /\ holder' = holder /\ quiet' = quiet /\ adopted' = adopted
      /\ recorded' = recorded /\ powerLosses' = powerLosses /\ damaged' = damaged
      /\ Turns(w, k)
    BY DEF Switch, Stages, Of, SameRecord, SameWorld, Switched
<1>3. Like(k, t, "syncRoot", t.result) /\ k.switched = TRUE
    BY <1>1, Tasks
<1>4. /\ published \in [Identity -> Tree] /\ staging \in [Identity -> Tree]
      /\ NoTree \in Tree /\ staging[id] # NoTree
    BY <1>1, CallFacts, Trees DEF FilesOK
<1> HIDE DEF t, id, k
<1>5. \A i \in Identity : published'[i] = IF i = id THEN staging[id] ELSE published[i]
    BY <1>1, <1>2, <1>4
<1>6. FilesOK'
  <2>1. published' \in [Identity -> Tree] /\ staging' \in [Identity -> Tree]
      BY <1>1, <1>2, <1>4
  <2>2. \A i \in Identity : published[i] # NoTree => published'[i] # NoTree
      BY <1>4, <1>5
  <2>3. FilesOK
      BY CallFacts
  <2>4. \A i \in Identity : published'[i] # NoTree =>
            published'[i].entries /\ (i \in damaged \/ Verifies(published'[i]))
      BY <1>1, <1>5, <2>3 DEF FilesOK
  <2> QED BY <1>2, <2>1, <2>2, <2>3, <2>4 DEF FilesOK
<1>7. TaskOK(k)
    BY <1>1, <1>3 DEF Like, TaskOK, PublishSteps, AdoptSteps
<1>8. CallOK(k, published', synced', staging', adopted', recorded')
  <2>1. published'[k.identity] # NoTree
      BY <1>1, <1>3, <1>4, <1>5 DEF Like, id
  <2> QED BY <1>1, <1>3, <2>1 DEF Like, CallOK
<1>9. holder[RootLock] = w
    BY <1>1 DEF HoldsRoot, Locked, PublishSteps
<1>10. HoldsRoot(w, k, holder') /\ holder' \in [Locks -> Writers \cup {None}]
    BY <1>2, <1>9, CallFacts DEF HoldsRoot
<1>11. \A i \in Identity : published[i] # NoTree => published'[i] # NoTree
    BY <1>4, <1>5
<1> QED BY <1>2, <1>6, <1>7, <1>8, <1>9, <1>10, <1>11, CallStep

LEMMA SwitchFailsStep ==
    ASSUME GenerationInv, NEW w \in Writers, SwitchFails(w)
    PROVE  GenerationInv'
<1> DEFINE t == task[w]
           r == IF Verifies(published[Of(w)]) THEN "ok" ELSE "failed"
           k == Settled(t, "abandon", r)
<1>1. t \in TaskType /\ TaskOK(t) /\ t.step = "switch" /\ HoldsRoot(w, t, holder)
    BY CallFacts DEF SwitchFails, Doing
<1>2. Turns(w, k)
    BY DEF SwitchFails, GoesWith, Settled
<1>3. Like(k, t, "abandon", r) /\ k.switched = t.switched
  <2>1. r \in {"ok", "busy", "failed"} /\ "abandon" \in TaskStep
      BY DEF TaskStep
  <2> HIDE DEF r
  <2> QED BY <1>1, <2>1, Tasks
<1> HIDE DEF k, t, r
<1>4. TaskOK(k) /\ CallOK(k, published, synced, staging, adopted, recorded)
    BY <1>1, <1>3 DEF Like, TaskOK, CallOK, PublishSteps, AdoptSteps
<1>5. HoldsRoot(w, k, holder') /\ holder' \in [Locks -> Writers \cup {None}]
    BY <1>1, <1>3, CallFacts DEF HoldsRoot, Locked, PublishSteps, SwitchFails
<1> QED BY <1>2, <1>4, <1>5, QuietCall DEF SwitchFails, SameWorld

LEMMA AbandonStep ==
    ASSUME GenerationInv, NEW w \in Writers, Abandon(w)
    PROVE  GenerationInv'
<1> DEFINE t == task[w]
           go == Onward(t, "return")
<1>1. t \in TaskType /\ TaskOK(t) /\ t.step = "abandon" /\ HoldsRoot(w, t, holder)
    BY CallFacts DEF Abandon, Doing
<1>2. /\ UNCHANGED <<published, synced, holder>> /\ SameRecord
      /\ UNCHANGED <<powerLosses, damaged>> /\ Locked(t)
    BY <1>1 DEF Abandon, SameWorld, Locked, PublishSteps
<1>3. staging' \in [Identity -> Tree] /\ quiet' \in BOOLEAN
  <2>1. staging \in [Identity -> Tree] /\ quiet \in BOOLEAN /\ NoTree \in Tree
      BY CallFacts, Trees DEF FilesOK
  <2>2. /\ staging' \in {staging, [staging EXCEPT ![Of(w)] = NoTree]}
        /\ quiet' = quiet \/ quiet' = TRUE
      BY DEF Abandon, Stages
  <2> QED BY <2>1, <2>2
<1>4. Turns(w, go)
    BY DEF Abandon, Goes, Onward
<1>5. Like(go, t, "return", t.result) /\ go.switched = t.switched
    BY <1>1, Tasks DEF TaskStep
<1> HIDE DEF go
<1>6. TaskOK(go) /\ CallOK(go, published, synced, staging', adopted, recorded)
    BY <1>1, <1>5 DEF Like, TaskOK, CallOK, PublishSteps, AdoptSteps
<1> QED BY <1>2, <1>3, <1>4, <1>6, StagingCall

LEMMA SyncPublishedStep ==
    ASSUME GenerationInv, NEW w \in Writers, SyncPublished(w)
    PROVE  GenerationInv'
<1> DEFINE t == task[w]
           all == {i \in Identity : published[i] # NoTree}
           end == Settled(t, "return", "ok")
<1>1. /\ t \in TaskType /\ TaskOK(t) /\ t.step = "syncRoot" /\ HoldsRoot(w, t, holder)
      /\ t.identity \in Identity /\ published[t.identity] # NoTree
    BY CallFacts DEF SyncPublished, Doing, TaskOK, CallOK, PublishSteps
<1>2. /\ published' = published /\ staging' = staging /\ holder' = holder /\ quiet' = quiet
      /\ adopted' = adopted /\ recorded' = recorded /\ powerLosses' = powerLosses
      /\ damaged' = damaged
    BY DEF SyncPublished, SameRecord, SameWorld
<1>3. CASE synced' = synced /\ Ends(w, "failed")
  <2>1. ~Doing(w, "idle") /\ SameFiles /\ SameWorld /\ UNCHANGED <<holder, quiet>>
      BY <1>2, <1>3 DEF SyncPublished, SameFiles, Doing, SameRecord
  <2> QED BY <1>3, <2>1, BadEnd
<1>4. CASE synced' = all /\ Ends(w, "ok")
  <2>1. Turns(w, end)
      BY <1>4 DEF Ends, GoesWith, Settled
  <2>2. Like(end, t, "return", "ok") /\ end.switched = t.switched
      BY <1>1, Tasks DEF TaskStep
  <2> HIDE DEF end, t
  <2>3. FilesOK' /\ synced \subseteq synced'
      BY <1>2, <1>4, CallFacts DEF FilesOK
  <2>4. TaskOK(end) /\ CallOK(end, published', synced', staging', adopted', recorded')
      BY <1>1, <1>4, <2>2 DEF Like, TaskOK, CallOK, PublishSteps, AdoptSteps
  <2>5. /\ HoldsRoot(w, end, holder') /\ holder' \in [Locks -> Writers \cup {None}]
      BY <1>1, <1>2, <2>2, CallFacts DEF HoldsRoot, Locked, PublishSteps
  <2> QED BY <1>2, <2>1, <2>3, <2>4, <2>5, CallStep
<1> QED BY <1>3, <1>4 DEF SyncPublished

LEMMA WriteRecordStep ==
    ASSUME GenerationInv, NEW w \in Writers, WriteRecord(w)
    PROVE  GenerationInv'
<1> DEFINE t == task[w]
           go == Onward(t, "replace")
<1>1. /\ t \in TaskType /\ TaskOK(t) /\ t.step = "record" /\ HoldsRoot(w, t, holder)
      /\ CallOK(t, published, synced, staging, adopted, recorded)
    BY CallFacts DEF WriteRecord, Doing
<1>2. SameFiles /\ UNCHANGED <<powerLosses, damaged, holder, quiet>>
    BY DEF WriteRecord, SameWorld
<1>3. CASE Ends(w, "failed")
    BY <1>3, BadEnd DEF WriteRecord, Doing
<1>4. CASE Goes(w, "replace")
  <2>1. Turns(w, go)
      BY <1>4 DEF Goes, Onward
  <2>2. Like(go, t, "replace", t.result) /\ go.switched = t.switched
      BY <1>1, Tasks DEF TaskStep
  <2> HIDE DEF go, t
  <2>3. TaskOK(go) /\ CallOK(go, published, synced, staging, adopted, recorded)
      BY <1>1, <2>2 DEF Like, TaskOK, CallOK, PublishSteps, AdoptSteps
  <2>4. HoldsRoot(w, go, holder') /\ holder' \in [Locks -> Writers \cup {None}]
      BY <1>1, <1>2, <2>2, CallFacts DEF Like, HoldsRoot, Locked, AdoptSteps
  <2> QED BY <1>2, <2>1, <2>3, <2>4, QuietCall
<1> QED BY <1>3, <1>4 DEF WriteRecord

LEMMA ReplaceRecordStep ==
    ASSUME GenerationInv, NEW w \in Writers, ReplaceRecord(w)
    PROVE  GenerationInv'
<1> DEFINE t == task[w]
           go == Onward(t, "syncRecord")
<1>1. /\ t \in TaskType /\ TaskOK(t) /\ t.step = "replace" /\ HoldsRoot(w, t, holder)
      /\ t.call = "adopt" /\ t.identity \in Identity /\ published[t.identity] # NoTree
    BY CallFacts DEF ReplaceRecord, Doing, TaskOK, CallOK, AdoptSteps
<1>2. /\ published' = published /\ staging' = staging /\ holder' = holder /\ quiet' = quiet
      /\ synced' = synced /\ recorded' = recorded /\ powerLosses' = powerLosses
      /\ damaged' = damaged
    BY DEF ReplaceRecord, SameWorld
<1>3. CASE adopted' = adopted /\ Ends(w, "failed")
  <2>1. ~Doing(w, "idle") /\ SameFiles /\ SameWorld /\ UNCHANGED <<holder, quiet>>
      BY <1>2, <1>3 DEF ReplaceRecord, SameFiles, Doing, SameRecord
  <2> QED BY <1>3, <2>1, BadEnd
<1>4. CASE adopted' = t.identity /\ Goes(w, "syncRecord")
  <2>1. Turns(w, go)
      BY <1>4 DEF Goes, Onward
  <2>2. Like(go, t, "syncRecord", t.result) /\ go.switched = t.switched
      BY <1>1, Tasks DEF TaskStep
  <2> HIDE DEF go, t
  <2>3. FilesOK'
      BY <1>1, <1>2, <1>4, CallFacts DEF FilesOK
  <2>4. TaskOK(go) /\ CallOK(go, published', synced', staging', adopted', recorded')
      BY <1>1, <1>4, <2>2 DEF Like, TaskOK, CallOK, PublishSteps, AdoptSteps
  <2>5. /\ HoldsRoot(w, go, holder') /\ holder' \in [Locks -> Writers \cup {None}]
        /\ holder[RootLock] = w
      BY <1>1, <1>2, <2>2, CallFacts DEF HoldsRoot, Locked, AdoptSteps
  <2> QED BY <1>2, <2>1, <2>3, <2>4, <2>5, CallStep
<1> QED BY <1>3, <1>4 DEF ReplaceRecord, Of

LEMMA SyncRecordStep ==
    ASSUME GenerationInv, NEW w \in Writers, SyncRecord(w)
    PROVE  GenerationInv'
<1> DEFINE t == task[w]
           end == Settled(t, "return", "ok")
<1>1. /\ t \in TaskType /\ TaskOK(t) /\ t.step = "syncRecord" /\ HoldsRoot(w, t, holder)
      /\ t.call = "adopt" /\ adopted = t.identity
    BY CallFacts DEF SyncRecord, Doing, TaskOK, CallOK, AdoptSteps
<1>2. /\ published' = published /\ staging' = staging /\ holder' = holder /\ quiet' = quiet
      /\ synced' = synced /\ adopted' = adopted /\ powerLosses' = powerLosses
      /\ damaged' = damaged
    BY DEF SyncRecord, SameWorld
<1>3. CASE recorded' = recorded /\ Ends(w, "failed")
  <2>1. ~Doing(w, "idle") /\ SameFiles /\ SameWorld /\ UNCHANGED <<holder, quiet>>
      BY <1>2, <1>3 DEF SyncRecord, SameFiles, Doing, SameRecord
  <2> QED BY <1>3, <2>1, BadEnd
<1>4. CASE recorded' = adopted /\ Ends(w, "ok")
  <2>1. Turns(w, end)
      BY <1>4 DEF Ends, GoesWith, Settled
  <2>2. Like(end, t, "return", "ok") /\ end.switched = t.switched
      BY <1>1, Tasks DEF TaskStep
  <2> HIDE DEF end, t
  <2>3. FilesOK'
      BY <1>2, <1>4, CallFacts DEF FilesOK
  <2>4. TaskOK(end) /\ CallOK(end, published', synced', staging', adopted', recorded')
      BY <1>1, <1>4, <2>2 DEF Like, TaskOK, CallOK, PublishSteps, AdoptSteps
  <2>5. /\ HoldsRoot(w, end, holder') /\ holder' \in [Locks -> Writers \cup {None}]
        /\ holder[RootLock] = w
      BY <1>1, <1>2, <2>2, CallFacts DEF HoldsRoot, Locked, AdoptSteps
  <2> QED BY <1>2, <2>1, <2>3, <2>4, <2>5, CallStep
<1> QED BY <1>3, <1>4 DEF SyncRecord

LEMMA RecoverStep ==
    ASSUME GenerationInv, NEW w \in Writers, Recover(w)
    PROVE  GenerationInv'
<1> DEFINE t == task[w]
           end == Settled(t, "return", "ok")
<1>1. t \in TaskType /\ TaskOK(t) /\ t.step = "recover" /\ Locked(t)
    BY CallFacts DEF Recover, Doing, Locked
<1>2. /\ UNCHANGED <<published, synced, holder>> /\ SameRecord
      /\ UNCHANGED <<powerLosses, damaged>> /\ Turns(w, end)
    BY DEF Recover, SameWorld, Ends, GoesWith, Settled
<1>3. staging' \in [Identity -> Tree] /\ quiet' \in BOOLEAN
  <2>1. staging \in [Identity -> Tree] /\ NoTree \in Tree /\ quiet \in BOOLEAN
      BY CallFacts, Trees DEF FilesOK
  <2> QED BY <2>1 DEF Recover
<1>4. Like(end, t, "return", "ok") /\ end.switched = t.switched
    BY <1>1, Tasks DEF TaskStep
<1> HIDE DEF end
<1>6. TaskOK(end) /\ CallOK(end, published, synced, staging', adopted, recorded)
    BY <1>1, <1>4 DEF Like, TaskOK, CallOK, PublishSteps, AdoptSteps
<1> QED BY <1>1, <1>2, <1>3, <1>6, StagingCall

(* A call that ends, or whose writer is killed, gives up its lock.         *)
LEMMA LeaveCall ==
    ASSUME GenerationInv, NEW w \in Writers, Turns(w, Free), ReleaseAll(w),
           UNCHANGED <<published, synced, powerLosses, damaged, quiet>>, SameRecord,
           staging' \in [Identity -> Tree], staging' = staging \/ Locked(task[w])
    PROVE  GenerationInv'
<1>1. /\ published' = published /\ synced' = synced /\ quiet' = quiet
      /\ adopted' = adopted /\ recorded' = recorded /\ powerLosses' = powerLosses
      /\ damaged' = damaged
    BY DEF SameRecord
<1>2. FilesOK'
    BY <1>1, CallFacts DEF FilesOK
<1>3. HoldsRoot(w, Free, holder') /\ TaskOK(Free)
      /\ CallOK(Free, published', synced', staging', adopted', recorded')
    BY FreeTask DEF HoldsRoot
<1>4. /\ holder' \in [Locks -> Writers \cup {None}]
      /\ \A l \in Locks : holder'[l] = holder[l] \/ holder[l] = w
    BY CallFacts DEF ReleaseAll
<1>5. staging' = staging \/ holder[RootLock] = w
    BY CallFacts DEF HoldsRoot
<1> QED BY <1>1, <1>2, <1>3, <1>4, <1>5, CallStep

LEMMA ReturnStep ==
    ASSUME GenerationInv, NEW w \in Writers, ReturnFromCall(w)
    PROVE  GenerationInv'
<1>1. staging' = staging /\ staging \in [Identity -> Tree]
    BY CallFacts DEF ReturnFromCall, SameFiles, FilesOK
<1> QED BY <1>1, LeaveCall DEF ReturnFromCall, SameFiles, SameWorld

LEMMA KillStep ==
    ASSUME GenerationInv, NEW w \in Writers, KillWriter(w)
    PROVE  GenerationInv'
<1>1. task[w] \in TaskType /\ TaskOK(task[w]) /\ staging \in [Identity -> Tree]
    BY CallFacts DEF FilesOK
<1>2. CASE staging' = staging
    BY <1>1, <1>2, LeaveCall DEF KillWriter
<1>3. CASE Doing(w, "write") /\ Stages(w, Tore(staging[Of(w)], OnPart(w)))
  <2>1. staging' \in [Identity -> Tree] /\ Locked(task[w])
      BY <1>3, TornStaging DEF Locked, Doing, PublishSteps
  <2> QED BY <2>1, LeaveCall DEF KillWriter
<1>4. ASSUME task[w].step \in {"clean", "abandon"},
             NEW left \in SUBSET staging[Of(w)].whole,
             Stages(w, [staging[Of(w)] EXCEPT !.whole = left, !.torn = {}])
      PROVE  GenerationInv'
  <2> DEFINE tree == staging[Of(w)]
             half == [tree EXCEPT !.whole = left]
             k == [half EXCEPT !.torn = {}]
  <2>1. Of(w) \in Identity /\ Locked(task[w])
      BY <1>1, <1>4 DEF TaskOK, Locked, PublishSteps, Of
  <2>2. tree \in Tree /\ left \in SUBSET ToSet(Part)
      BY <1>1, <2>1 DEF Tree
  <2>3. [tree EXCEPT !.whole = left, !.torn = {}] = k
      OBVIOUS
  <2> HIDE DEF tree
  <2>4. half \in Tree
      BY <2>2 DEF Tree
  <2> HIDE DEF half
  <2>5. k \in Tree
      BY <2>4 DEF Tree
  <2> HIDE DEF k
  <2>6. staging' = [staging EXCEPT ![Of(w)] = k]
      BY <1>4, <2>3 DEF Stages, tree
  <2>7. staging' \in [Identity -> Tree]
      BY <1>1, <2>5, <2>6
  <2> QED BY <2>1, <2>7, LeaveCall DEF KillWriter
<1> QED BY <1>2, <1>3, <1>4 DEF KillWriter

(* A power loss ends every call.  Every published directory has its        *)
(* entries synced, so it is kept as it is or undone.                       *)
LEMMA LosePowerStep ==
    ASSUME GenerationInv, LosePower
    PROVE  GenerationInv'
<1> PICK undone \in SUBSET ({i \in Identity : published[i] # NoTree} \ synced),
         kept \in SUBSET ToSet(Part) :
            /\ published' = [i \in Identity |->
                  IF i \in undone THEN NoTree ELSE AfterLoss(published[i], kept)]
            /\ staging' = [i \in Identity |->
                  AfterLoss(IF i \in undone THEN published[i] ELSE staging[i], kept)]
    BY DEF LosePower
<1>1. FilesOK
    BY DEF GenerationInv
<1>2. \A t \in Tree : AfterLoss(t, kept) \in Tree /\ (t.entries => AfterLoss(t, kept) = t)
  <2> TAKE t \in Tree
  <2> DEFINE left == t.whole \cap kept
  <2>1. left \in SUBSET ToSet(Part)
      BY DEF Tree
  <2>2. AfterLoss(t, kept) = IF t.entries THEN t ELSE [t EXCEPT !.whole = left]
      BY DEF AfterLoss
  <2> HIDE DEF left
  <2>3. [t EXCEPT !.whole = left] \in Tree
      BY <2>1 DEF Tree
  <2> QED BY <2>2, <2>3
<1>3. AfterLoss(NoTree, kept) = NoTree
  <2>1. {} \cap kept = {} /\ NoTree.whole = {} /\ ~NoTree.entries
      BY DEF NoTree
  <2>2. AfterLoss(NoTree, kept) = [NoTree EXCEPT !.whole = {}]
      BY <2>1 DEF AfterLoss
  <2> QED BY <2>2 DEF NoTree
<1>4. \A i \in Identity : published'[i] \in {NoTree, published[i]}
    BY <1>1, <1>2, <1>3 DEF FilesOK
<1>5. published' \in [Identity -> Tree] /\ staging' \in [Identity -> Tree]
    BY <1>1, <1>2, Trees DEF FilesOK
<1>6. /\ synced' = {i \in Identity : published'[i] # NoTree}
      /\ damaged' = damaged /\ quiet' = quiet /\ powerLosses' = powerLosses + 1
      /\ adopted' \in {adopted, recorded} /\ recorded' = adopted'
      /\ holder' = [l \in Locks |-> None] /\ task' = [w \in Writers |-> Free]
    BY DEF LosePower, KernelReleasesAll
<1>7. powerLosses' \in Nat /\ powerLosses' > 0
    BY <1>1, <1>6 DEF FilesOK
<1>8. FilesOK'
    BY <1>1, <1>4, <1>5, <1>6, <1>7 DEF FilesOK
<1>9. \A w \in Writers :
          /\ TaskOK(task'[w]) /\ HoldsRoot(w, task'[w], holder')
          /\ CallOK(task'[w], published', synced', staging', adopted', recorded')
    BY <1>6, FreeTask DEF HoldsRoot
<1>10. holder' \in [Locks -> Writers \cup {None}] /\ task' \in [Writers -> TaskType]
    BY <1>6, FreeTask
<1> QED BY <1>8, <1>9, <1>10 DEF GenerationInv

LEMMA DamageStep ==
    ASSUME GenerationInv, NEW i \in Identity, Damage(i)
    PROVE  GenerationInv'
<1> PICK part \in published[i].whole :
        published' = [published EXCEPT ![i] = Tampered(published[i], part)]
    BY DEF Damage
<1> DEFINE tree == published[i]
           whole == tree.whole \ {part}
           torn == tree.torn \cup {part}
           half == [tree EXCEPT !.whole = whole]
           k == [half EXCEPT !.torn = torn]
<1>1. /\ synced' = synced /\ staging' = staging /\ task' = task /\ quiet' = quiet
      /\ powerLosses' = powerLosses /\ holder' = holder /\ adopted' = adopted
      /\ recorded' = recorded /\ damaged' = damaged \cup {i} /\ tree # NoTree
    BY DEF Damage, SameRecord
<1>2. FilesOK /\ tree \in Tree /\ tree.entries
    BY <1>1 DEF GenerationInv, FilesOK
<1>3. whole \in SUBSET ToSet(Part) /\ torn \in SUBSET ToSet(Part) /\ part \in torn
    BY <1>2 DEF Tree
<1>4. published' = [published EXCEPT ![i] = k]
    BY DEF Tampered
<1> HIDE DEF whole, torn, tree
<1>5. half \in Tree /\ half.entries = tree.entries
    BY <1>2, <1>3 DEF Tree
<1> HIDE DEF half
<1>6. k \in Tree /\ k.entries = half.entries /\ k.torn = torn
    BY <1>3, <1>5 DEF Tree
<1> HIDE DEF k
<1>7. k # NoTree
    BY <1>3, <1>6 DEF NoTree
<1>8. \A j \in Identity : published'[j] = IF j = i THEN k ELSE published[j]
    BY <1>2, <1>4 DEF FilesOK
<1>9. \A j \in Identity : published'[j] # NoTree <=> published[j] # NoTree
    BY <1>1, <1>7, <1>8 DEF tree
<1>10. FilesOK'
  <2>1. published' \in [Identity -> Tree]
      BY <1>2, <1>4, <1>6 DEF FilesOK
  <2>2. \A j \in Identity : published'[j] # NoTree =>
            published'[j].entries /\ (j \in damaged' \/ Verifies(published'[j]))
      BY <1>1, <1>2, <1>5, <1>6, <1>8 DEF FilesOK
  <2> QED BY <1>1, <1>2, <1>9, <2>1, <2>2 DEF FilesOK
<1>11. ASSUME NEW w \in Writers
       PROVE  /\ TaskOK(task'[w]) /\ HoldsRoot(w, task'[w], holder')
              /\ CallOK(task'[w], published', synced', staging', adopted', recorded')
  <2> DEFINE t == task[w]
  <2>1. /\ TaskOK(t) /\ HoldsRoot(w, t, holder)
        /\ CallOK(t, published, synced, staging, adopted, recorded) /\ task'[w] = t
      BY <1>1 DEF GenerationInv
  <2> HIDE DEF t
  <2>2. t.call = "adopt" \/ t.step = "syncRoot" => t.identity \in Identity
      BY <2>1 DEF TaskOK, PublishSteps
  <2>3. CallOK(t, published', synced', staging', adopted', recorded')
      BY <1>1, <1>9, <2>1, <2>2 DEF CallOK
  <2> QED BY <1>1, <2>1, <2>3 DEF HoldsRoot
<1> QED BY <1>1, <1>10, <1>11 DEF GenerationInv

(* The same of the publication of generations.                              *)
LEMMA GenerationStart == ASSUME GenerationInit, LockInit PROVE GenerationInv
<1>1. FilesOK
    BY Trees DEF GenerationInit, FilesOK
<1>2. \A w \in Writers : task[w] = Free
    BY DEF GenerationInit
<1>3. task \in [Writers -> TaskType] /\ holder \in [Locks -> Writers \cup {None}]
    BY FreeTask DEF GenerationInit, LockInit
<1> QED BY <1>1, <1>2, <1>3, FreeTask DEF GenerationInv, HoldsRoot

LEMMA GenerationStep == ASSUME GenerationInv, [GenerationNext]_generationVars PROVE GenerationInv'
<1>1. CASE UNCHANGED generationVars
  <2>1. /\ published' = published /\ synced' = synced /\ staging' = staging /\ task' = task
        /\ quiet' = quiet /\ powerLosses' = powerLosses /\ holder' = holder
        /\ adopted' = adopted /\ recorded' = recorded /\ damaged' = damaged
      BY <1>1 DEF generationVars
  <2>2. FilesOK'
      BY <2>1 DEF GenerationInv, FilesOK
  <2> QED BY <2>1, <2>2 DEF GenerationInv
<1>2. ASSUME NEW w \in Writers, NEW i \in Identity, NEW call \in {"publish", "adopt"},
             Begin(w, call, i)
      PROVE  GenerationInv'
    BY <1>2, BeginStep
<1>3. ASSUME NEW w \in Writers, Begin(w, "recover", None) PROVE GenerationInv'
    BY <1>3, BeginStep
<1>4. ASSUME NEW w \in Writers, RootIsLocked(w) \/ RootCannotBeLocked(w)
      PROVE  GenerationInv'
    BY <1>4, BadEnd DEF RootIsLocked, RootCannotBeLocked, Busy, Doing
<1> QED BY <1>1, <1>2, <1>3, <1>4, LockStep, LookStep, CleanStep, WritePartStep,
           WriteFailsStep, VerifyStep, FlushStep, SwitchStep, SwitchFailsStep, AbandonStep,
           SyncPublishedStep, CheckStep, WriteRecordStep, ReplaceRecordStep,
           SyncRecordStep, RecoverStep, ReturnStep, KillStep, DamageStep, LosePowerStep
        DEF GenerationNext

LEMMA GenerationInvariant == GenerationSpec => []GenerationInv
BY GenerationStart, GenerationStep, PTL DEF GenerationSpec

(* publishGeneration, adoptGeneration and recoverPublicationStaging keep   *)
(* every variable in its type.                                             *)
THEOREM GenerationTypeCorrect == GenerationSpec => []GenerationTypeOK
<1>1. GenerationInv => GenerationTypeOK
    BY Parts DEF GenerationInv, FilesOK, GenerationTypeOK, TaskType, TaskStep
<1> QED BY <1>1, GenerationInvariant, PTL

(* Whatever is killed or lost between two of its steps, publishGeneration  *)
(* leaves under an identity nothing or a whole generation, and the record  *)
(* that adoptGeneration writes names one that is there.                    *)
THEOREM GenerationsAreWhole == GenerationSpec => []PublishedWhole
<1>1. GenerationInv => PublishedWhole
    BY DEF GenerationInv, FilesOK, PublishedWhole
<1> QED BY <1>1, GenerationInvariant, PTL

LEMMA GenerationsAreKept == GenerationInv => GenerationsAreDurable
BY DEF GenerationInv, CallOK, GenerationsAreDurable, Reports, Doing, Of

(* What publishGeneration and adoptGeneration report as done, a power loss *)
(* does not undo.                                                          *)
THEOREM GenerationsLast == GenerationSpec => []GenerationsAreDurable
BY GenerationsAreKept, GenerationInvariant, PTL

-----------------------------------------------------------------------------
(* The suite of stores runs both publications over one lock.  Either is    *)
(* idle while a behavior is of the other, so the lock is its own.          *)
SuiteInv ==
    /\ PackageInv /\ GenerationInv
    /\ family = "packages" \/ \A w \in Writers : job[w] = Idle
    /\ family = "generations" \/ \A w \in Writers : task[w] = Free

(* An idle publication keeps its invariant whatever the lock does.          *)
LEMMA IdlePackages ==
    ASSUME PackageInv, NotPackages, \A w \in Writers : job[w] = Idle,
           holder' \in [Locks -> Writers \cup {None}]
    PROVE  PackageInv'
<1>1. \A w \in Writers : job'[w] = Idle
    BY DEF NotPackages
<1>2. \A w \in Writers :
          JobOK(job'[w]) /\ SceneOK(job'[w], visible', durable') /\ Holding(w, job'[w], holder')
    BY <1>1, IdleIsOK
<1> QED BY <1>2 DEF NotPackages, PackageInv

LEMMA IdleGenerations ==
    ASSUME GenerationInv, NotGenerations, \A w \in Writers : task[w] = Free,
           holder' \in [Locks -> Writers \cup {None}]
    PROVE  GenerationInv'
<1>1. /\ published' = published /\ synced' = synced /\ staging' = staging /\ task' = task
      /\ quiet' = quiet /\ powerLosses' = powerLosses
      /\ adopted' = adopted /\ recorded' = recorded /\ damaged' = damaged
    BY DEF NotGenerations
<1>2. FilesOK'
    BY <1>1 DEF GenerationInv, FilesOK
<1>3. \A w \in Writers : HoldsRoot(w, task[w], holder')
    BY FreeTask DEF HoldsRoot, Locked, Free
<1> QED BY <1>1, <1>2, <1>3 DEF GenerationInv

(* What either publication reports as done is there and stays, in a suite  *)
(* that runs them among the other stores.                                  *)
THEOREM SuccessesLast == Spec => []SuccessIsDurable
<1>1. Init => SuiteInv
  <2> SUFFICES ASSUME Init PROVE SuiteInv
      OBVIOUS
  <2>1. PackageInv /\ GenerationInv
      BY PackageStart, GenerationStart DEF Init
  <2> QED BY <2>1 DEF Init, SuiteInv, PackageInit, GenerationInit
<1>2. SuiteInv /\ [Next \/ Finished]_vars => SuiteInv'
  <2> SUFFICES ASSUME SuiteInv, [Next \/ Finished]_vars PROVE SuiteInv'
      OBVIOUS
  <2>1. PackageInv /\ GenerationInv
      BY DEF SuiteInv
  <2>2. CASE UNCHANGED vars
    <3>1. UNCHANGED packageVars /\ UNCHANGED generationVars /\ UNCHANGED family
        BY <2>2 DEF vars
    <3>2. PackageInv' /\ GenerationInv'
        BY <2>1, <3>1, PackageStep, GenerationStep
    <3> QED BY <3>1, <3>2 DEF SuiteInv, packageVars, generationVars
  <2>3. ASSUME NotPackages, NotGenerations, UNCHANGED <<holder, family>> PROVE SuiteInv'
    <3>1. UNCHANGED packageVars /\ UNCHANGED generationVars
        BY <2>3 DEF NotPackages, NotGenerations, packageVars, generationVars
    <3>2. PackageInv' /\ GenerationInv'
        BY <2>1, <3>1, PackageStep, GenerationStep
    <3> QED BY <2>3, <3>1, <3>2 DEF SuiteInv, packageVars, generationVars
  <2>4. ASSUME family = "packages", PackageNext, NotGenerations, family' = family PROVE SuiteInv'
    <3>1. PackageInv'
        BY <2>1, <2>4, PackageStep
    <3>2. \A w \in Writers : task[w] = Free
        BY <2>4 DEF SuiteInv
    <3>3. GenerationInv'
        BY <2>1, <2>4, <3>1, <3>2, IdleGenerations DEF PackageInv
    <3> QED BY <2>4, <3>1, <3>2, <3>3 DEF SuiteInv, NotGenerations
  <2>5. ASSUME family = "generations", GenerationNext, NotPackages, family' = family PROVE SuiteInv'
    <3>1. GenerationInv'
        BY <2>1, <2>5, GenerationStep
    <3>2. \A w \in Writers : job[w] = Idle
        BY <2>5 DEF SuiteInv
    <3>3. PackageInv'
        BY <2>1, <2>5, <3>1, <3>2, IdlePackages DEF GenerationInv
    <3> QED BY <2>5, <3>1, <3>2, <3>3 DEF SuiteInv, NotPackages
  <2> QED BY <2>2, <2>3, <2>4, <2>5 DEF Next, Finished
<1>3. SuiteInv => SuccessIsDurable
    BY PackagesLast, GenerationsAreKept DEF SuiteInv, SuccessIsDurable
<1> QED BY <1>1, <1>2, <1>3, PTL DEF Spec
=============================================================================
