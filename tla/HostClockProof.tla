--------------------------- MODULE HostClockProof ---------------------------
(***************************************************************************)
(* Proofs about HostClock for any number of clocks, threads, submits and   *)
(* attempts.                                                               *)
(***************************************************************************)
EXTENDS HostClock, TLAPS

(* The counter is twice the number of submits, plus one inside a submit.   *)
CounterCounts ==
    \A c \in Clock : sequence[c] = 2 * (Len(published[c]) - 1)
                                   + (IF submitting[c].next = "idle" THEN 0 ELSE 1)

(* Outside submit the atomics hold the last published sample; inside, the  *)
(* fields that were stored already are those of the sample submitted.      *)
CellOK(c) ==
    /\ Len(published[c]) >= 1
    /\ submitting[c].next = "idle" => cell[c] = published[c][Len(published[c])]
    /\ submitting[c].next \in {"state", "discontinuityId", "sequence"}
           => cell[c].positionMs = submitting[c].sample.positionMs
    /\ submitting[c].next \in {"discontinuityId", "sequence"}
           => cell[c].state = submitting[c].sample.state
    /\ submitting[c].next = "sequence"
           => cell[c].discontinuityId = submitting[c].sample.discontinuityId
CellFollowsSubmit == \A c \in Clock : CellOK(c)

(* A reader began at an even count, and as long as the counter stays there *)
(* what it has read is what the atomics hold.                              *)
ReadOK(r) ==
    LET rd == snapshot[r]
    IN  /\ rd.next # "idle" => rd.clock \in Clock /\ cache[r].owner = rd.clock
        /\ rd.next \in Step \cup {"sequence"} =>
               /\ rd.before % 2 = 0
               /\ rd.before <= sequence[rd.clock]
               /\ rd.before = sequence[rd.clock] =>
                      /\ rd.next \in {"state", "discontinuityId", "sequence"}
                             => rd.sample.positionMs = cell[rd.clock].positionMs
                      /\ rd.next \in {"discontinuityId", "sequence"}
                             => rd.sample.state = cell[rd.clock].state
                      /\ rd.next = "sequence"
                             => rd.sample.discontinuityId = cell[rd.clock].discontinuityId
ReadFollowsCell == \A r \in Reader : ReadOK(r)

(* The history begins with what a new clock holds.                         *)
FirstIsNoSample == \A c \in Clock : published[c][1] = NoSample

(* TypeOK without the bound on attempts, which safety does not need.       *)
SnapshotRecord == [next: Step \cup {"idle", "before", "sequence"}, clock: Clock \cup {None},
                   attempt: Nat, before: Nat, sample: Sample, undisturbed: BOOLEAN]
CacheRecord == [owner: Clock \cup {None}, sample: Sample, version: Nat]
SubmitRecord == [next: Step \cup {"idle", "sequence"}, sample: Sample]

Typed ==
    /\ sequence \in [Clock -> Nat]
    /\ cell \in [Clock -> Sample]
    /\ submitting \in [Clock -> SubmitRecord]
    /\ published \in [Clock -> Seq(Sample)]
    /\ snapshot \in [Reader -> SnapshotRecord]
    /\ cache \in [Reader -> CacheRecord]

IInv ==
    /\ Typed
    /\ CounterCounts
    /\ CellFollowsSubmit
    /\ ReadFollowsCell
    /\ SnapshotsAreComplete
    /\ FirstIsNoSample

-----------------------------------------------------------------------------
LEMMA NoSampleTyped == NoSample \in Sample
BY ClockAssumption DEF NoSample, Sample, PlaybackState

LEMMA InitIInv == Init => IInv
<1> SUFFICES ASSUME Init PROVE IInv
    OBVIOUS
<1> USE NoSampleTyped, ClockAssumption DEF Init
<1>1. Typed
  <2>1. NotReading \in SnapshotRecord
      BY DEF NotReading, SnapshotRecord
  <2>2. NoCache \in CacheRecord
      BY DEF NoCache, CacheRecord
  <2>3. Idle \in SubmitRecord
      BY DEF Idle, SubmitRecord
  <2> QED BY <2>1, <2>2, <2>3 DEF Typed
<1>2. CounterCounts /\ CellFollowsSubmit
    BY DEF CounterCounts, CellFollowsSubmit, CellOK, Idle
<1>3. ReadFollowsCell /\ SnapshotsAreComplete /\ FirstIsNoSample
    BY DEF ReadFollowsCell, ReadOK, SnapshotsAreComplete, FirstIsNoSample, NotReading, NoCache, Step
<1> QED BY <1>1, <1>2, <1>3 DEF IInv

(* The counter is odd inside submit; outside, its half is the place of the *)
(* newest sample in the history, counted from zero.                        *)
LEMMA CounterParity ==
    ASSUME IInv, NEW c \in Clock
    PROVE  /\ submitting[c].next # "idle" => sequence[c] % 2 = 1
           /\ submitting[c].next = "idle" => (sequence[c] \div 2) + 1 = Len(published[c])
<1>1. published[c] \in Seq(Sample) /\ Len(published[c]) >= 1
    BY DEF IInv, Typed, CellFollowsSubmit, CellOK
<1>2. Len(published[c]) \in Nat
    BY <1>1
<1>3. PICK n \in Nat : Len(published[c]) = n + 1
  <2>1. Len(published[c]) - 1 \in Nat /\ Len(published[c]) = (Len(published[c]) - 1) + 1
      BY <1>1, <1>2
  <2> QED BY <2>1
<1>4. sequence[c] = 2 * n + (IF submitting[c].next = "idle" THEN 0 ELSE 1)
  <2>1. sequence[c] = 2 * (Len(published[c]) - 1)
                      + (IF submitting[c].next = "idle" THEN 0 ELSE 1)
      BY DEF IInv, CounterCounts
  <2> QED BY <1>3, <2>1
<1>5. CASE submitting[c].next = "idle"
  <2>1. sequence[c] = 2 * n
      BY <1>4, <1>5
  <2> QED BY <1>3, <1>5, <2>1
<1>6. CASE submitting[c].next # "idle"
  <2>1. sequence[c] = 2 * n + 1
      BY <1>4, <1>6
  <2> QED BY <1>6, <2>1
<1> QED BY <1>5, <1>6

-----------------------------------------------------------------------------
(* The steps of an owner.                                                  *)
LEMMA BeginSubmitKeepsIInv ==
    ASSUME IInv, NEW c \in Clock, BeginSubmit(c)
    PROVE  IInv'
<1> USE ClockAssumption DEF IInv
<1>0. PICK s \in Offered(c) :
          submitting' = [submitting EXCEPT ![c] = [next |-> "positionMs", sample |-> s]]
    BY DEF BeginSubmit
<1>1. s \in Sample
    BY DEF Offered, Sample, PlaybackState, Typed
<1>2. /\ sequence' = [sequence EXCEPT ![c] = @ + 1]
      /\ UNCHANGED <<cell, published, cache>>
      /\ submitting[c].next = "idle"
    BY DEF BeginSubmit, Idle
<1>3. \A r \in Reader : /\ snapshot'[r].next = snapshot[r].next
                        /\ snapshot'[r].clock = snapshot[r].clock
                        /\ snapshot'[r].before = snapshot[r].before
                        /\ snapshot'[r].sample = snapshot[r].sample
    BY DEF BeginSubmit, Typed
<1>4. Typed'
  <2>1. snapshot' \in [Reader -> SnapshotRecord]
    <3>1. \A r \in Reader : [snapshot[r] EXCEPT !.undisturbed = FALSE] \in SnapshotRecord
        BY DEF Typed, SnapshotRecord
    <3> QED BY <3>1 DEF BeginSubmit, Typed
  <2>2. [next |-> "positionMs", sample |-> s] \in SubmitRecord
      BY <1>1 DEF SubmitRecord, Step
  <2>3. submitting' \in [Clock -> SubmitRecord]
      BY <1>0, <2>2 DEF Typed
  <2>4. sequence' \in [Clock -> Nat]
      BY <1>2 DEF Typed
  <2> QED BY <1>2, <2>1, <2>3, <2>4 DEF Typed
<1>5. CounterCounts'
  <2> SUFFICES ASSUME NEW d \in Clock
               PROVE  sequence'[d] = 2 * (Len(published[d]) - 1)
                                     + (IF submitting'[d].next = "idle" THEN 0 ELSE 1)
      BY <1>2 DEF CounterCounts
  <2>1. sequence[d] \in Nat /\ Len(published[d]) \in Nat
      BY DEF Typed
  <2>2. CASE d = c
      BY <1>0, <1>2, <2>1, <2>2 DEF CounterCounts, Typed
  <2>3. CASE d # c
      BY <1>0, <1>2, <2>1, <2>3 DEF CounterCounts, Typed
  <2> QED BY <2>2, <2>3
<1>6. CellFollowsSubmit'
    BY <1>0, <1>2 DEF CellFollowsSubmit, CellOK, Typed
<1>7. ReadFollowsCell'
  <2> SUFFICES ASSUME NEW r \in Reader
               PROVE  ReadOK(r)'
      BY DEF ReadFollowsCell
  <2>1. snapshot[r].next \in Step \cup {"sequence"} =>
            snapshot[r].before % 2 = 0 /\ snapshot[r].before <= sequence[snapshot[r].clock]
      BY DEF ReadFollowsCell, ReadOK
  <2> QED BY <1>2, <1>3, SMTT(30) DEF ReadFollowsCell, ReadOK, Typed, SnapshotRecord
<1>8. SnapshotsAreComplete' /\ FirstIsNoSample'
    BY <1>2 DEF SnapshotsAreComplete, FirstIsNoSample
<1> QED BY <1>4, <1>5, <1>6, <1>7, <1>8

LEMMA StoreKeepsIInv ==
    ASSUME IInv, NEW c \in Clock, Store(c)
    PROVE  IInv'
<1> USE ClockAssumption DEF IInv
<1> DEFINE field == submitting[c].next
<1>0. /\ field \in Step
      /\ cell' = [cell EXCEPT ![c][field] = submitting[c].sample[field]]
      /\ submitting' = [submitting EXCEPT ![c].next = After(field)]
      /\ UNCHANGED <<sequence, published, snapshot, cache>>
    BY DEF Store
<1>1. submitting[c] \in SubmitRecord /\ cell[c] \in Sample /\ submitting[c].sample \in Sample
    BY DEF Typed, SubmitRecord
<1>2. After(field) \in Step \cup {"sequence"}
    BY <1>0 DEF After, Step
<1>3. \A f \in Step : [cell[c] EXCEPT ![f] = submitting[c].sample[f]] \in Sample
    BY <1>1 DEF Step, Sample
<1>4. Typed'
  <2>1. [cell[c] EXCEPT ![field] = submitting[c].sample[field]] \in Sample
      BY <1>0, <1>3
  <2>2. cell' = [cell EXCEPT ![c] = [cell[c] EXCEPT ![field] = submitting[c].sample[field]]]
      BY <1>0 DEF Typed
  <2>5. cell' \in [Clock -> Sample]
      BY <2>1, <2>2 DEF Typed
  <2>6. [submitting[c] EXCEPT !.next = After(field)] \in SubmitRecord
      BY <1>1, <1>2 DEF SubmitRecord
  <2>7. submitting' = [submitting EXCEPT ![c] = [submitting[c] EXCEPT !.next = After(field)]]
      BY <1>0 DEF Typed
  <2>3. submitting' \in [Clock -> SubmitRecord]
    <3> HIDE DEF field
    <3> QED BY <2>6, <2>7 DEF Typed
  <2> QED BY <1>0, <2>5, <2>3 DEF Typed
<1>5. CounterCounts'
    BY <1>0, <1>2 DEF CounterCounts, Typed, SubmitRecord, Step
<1>6. CellFollowsSubmit'
  <2> SUFFICES ASSUME NEW d \in Clock
               PROVE  CellOK(d)'
      BY DEF CellFollowsSubmit
  <2>1. CASE d # c
      BY <1>0, <2>1 DEF CellFollowsSubmit, CellOK, Typed
  <2>2. CASE d = c /\ field = "positionMs"
      BY <1>0, <1>1, <2>2 DEF CellFollowsSubmit, CellOK, Typed, After, SubmitRecord, Sample
  <2>3. CASE d = c /\ field = "state"
      BY <1>0, <1>1, <2>3 DEF CellFollowsSubmit, CellOK, Typed, After, SubmitRecord, Sample
  <2>4. CASE d = c /\ field = "discontinuityId"
      BY <1>0, <1>1, <2>4 DEF CellFollowsSubmit, CellOK, Typed, After, SubmitRecord, Sample
  <2> QED BY <1>0, <2>1, <2>2, <2>3, <2>4 DEF Step
<1>7. ReadFollowsCell'
  <2> SUFFICES ASSUME NEW r \in Reader
               PROVE  ReadOK(r)'
      BY DEF ReadFollowsCell
  <2>2. sequence[c] % 2 = 1
      BY <1>0, CounterParity DEF Step
  <2>3. CASE snapshot[r].clock = c /\ snapshot[r].next \in Step \cup {"sequence"}
    <3>1. snapshot[r].before # sequence[c]
        BY <2>2, <2>3 DEF ReadFollowsCell, ReadOK
    <3> QED BY <1>0, <2>3, <3>1 DEF ReadFollowsCell, ReadOK
  <2>4. CASE snapshot[r].clock # c
    <3>1. snapshot[r].clock \in Clock => cell'[snapshot[r].clock] = cell[snapshot[r].clock]
        BY <1>0, <2>4 DEF Typed
    <3>2. snapshot[r].next \in Step \cup {"sequence"} => snapshot[r].clock \in Clock
        BY DEF ReadFollowsCell, ReadOK, Step
    <3> QED BY <1>0, <3>1, <3>2 DEF ReadFollowsCell, ReadOK
  <2>5. CASE snapshot[r].next \notin Step \cup {"sequence"}
      BY <1>0, <2>5 DEF ReadFollowsCell, ReadOK
  <2> QED BY <2>3, <2>4, <2>5
<1>8. SnapshotsAreComplete' /\ FirstIsNoSample'
    BY <1>0 DEF SnapshotsAreComplete, FirstIsNoSample
<1> QED BY <1>4, <1>5, <1>6, <1>7, <1>8

LEMMA EndSubmitKeepsIInv ==
    ASSUME IInv, NEW c \in Clock, EndSubmit(c)
    PROVE  IInv'
<1> USE ClockAssumption DEF IInv
<1> DEFINE s == submitting[c].sample
<1>0. /\ submitting[c].next = "sequence"
      /\ sequence' = [sequence EXCEPT ![c] = @ + 1]
      /\ published' = [published EXCEPT ![c] = Append(@, s)]
      /\ submitting' = [submitting EXCEPT ![c] = Idle]
      /\ UNCHANGED <<cell, snapshot, cache>>
    BY DEF EndSubmit
<1>1. s \in Sample /\ Idle \in SubmitRecord
    BY NoSampleTyped DEF Typed, SubmitRecord, Idle
<1>2. /\ published[c] \in Seq(Sample)
      /\ published'[c] = Append(published[c], s)
      /\ \A d \in Clock \ {c} : published'[d] = published[d]
    BY <1>0 DEF Typed
<1>3. /\ published'[c] \in Seq(Sample)
      /\ Len(published'[c]) = Len(published[c]) + 1
      /\ published'[c][Len(published'[c])] = s
      /\ \A i \in DOMAIN published[c] :
             i \in DOMAIN published'[c] /\ published'[c][i] = published[c][i]
    BY <1>1, <1>2
<1>4. Typed'
  <2>1. published' \in [Clock -> Seq(Sample)]
      BY <1>0, <1>2, <1>3 DEF Typed
  <2>2. sequence' \in [Clock -> Nat]
      BY <1>0 DEF Typed
  <2>3. submitting' \in [Clock -> SubmitRecord]
      BY <1>0, <1>1 DEF Typed
  <2> QED BY <1>0, <2>1, <2>2, <2>3 DEF Typed
<1>5. CounterCounts'
  <2> SUFFICES ASSUME NEW d \in Clock
               PROVE  sequence'[d] = 2 * (Len(published'[d]) - 1)
                                     + (IF submitting'[d].next = "idle" THEN 0 ELSE 1)
      BY DEF CounterCounts
  <2>1. CASE d = c
    <3>1. sequence[c] = 2 * (Len(published[c]) - 1) + 1
        BY <1>0 DEF CounterCounts
    <3>2. sequence'[c] = sequence[c] + 1 /\ submitting'[c].next = "idle"
        BY <1>0 DEF Typed, Idle
    <3>3. Len(published[c]) \in Nat
        BY <1>2
    <3>4. Len(published'[c]) = Len(published[c]) + 1
        BY <1>3
    <3>5. \A n \in Nat : (2 * (n - 1) + 1) + 1 = 2 * ((n + 1) - 1) + 0
        OBVIOUS
    <3>6. sequence'[c] = 2 * (Len(published'[c]) - 1) + 0
        BY <3>1, <3>2, <3>3, <3>4, <3>5
    <3> QED BY <2>1, <3>2, <3>6
  <2>2. CASE d # c
      BY <1>0, <1>2, <2>2 DEF CounterCounts, Typed
  <2> QED BY <2>1, <2>2
<1>6. CellFollowsSubmit'
  <2> SUFFICES ASSUME NEW d \in Clock
               PROVE  CellOK(d)'
      BY DEF CellFollowsSubmit
  <2>1. CASE d = c
    <3>1. cell[c] = s
      <4>1. /\ cell[c].positionMs = s.positionMs /\ cell[c].state = s.state
            /\ cell[c].discontinuityId = s.discontinuityId
          BY <1>0 DEF CellFollowsSubmit, CellOK
      <4>2. cell[c] \in Sample
          BY DEF Typed
      <4> QED BY <1>1, <4>1, <4>2 DEF Sample
    <3>2. submitting'[c].next = "idle" /\ cell'[c] = cell[c]
        BY <1>0 DEF Typed, Idle
    <3>3. Len(published'[c]) >= 1
        BY <1>2, <1>3
    <3> QED BY <1>3, <2>1, <3>1, <3>2, <3>3 DEF CellOK
  <2>2. CASE d # c
      BY <1>0, <1>2, <2>2 DEF CellFollowsSubmit, CellOK, Typed
  <2> QED BY <2>1, <2>2
<1>7. ReadFollowsCell'
  <2> SUFFICES ASSUME NEW r \in Reader
               PROVE  ReadOK(r)'
      BY DEF ReadFollowsCell
  <2>1. \A d \in Clock : sequence[d] \in Nat /\ sequence'[d] \in {sequence[d], sequence[d] + 1}
      BY <1>0 DEF Typed
  <2>2. sequence[c] % 2 = 1 /\ sequence'[c] = sequence[c] + 1
      BY <1>0, CounterParity DEF Typed
  <2>3. CASE snapshot[r].next \in Step \cup {"sequence"} /\ snapshot[r].clock = c
    <3>1. /\ snapshot[r].before <= sequence[c] /\ snapshot[r].before \in Nat
          /\ snapshot[r].before % 2 = 0
        BY <2>3 DEF ReadFollowsCell, ReadOK, Typed, SnapshotRecord
    <3>2. snapshot[r].before # sequence'[c] /\ snapshot[r].before <= sequence'[c]
        BY <2>1, <2>2, <3>1
    <3> QED BY <1>0, <2>3, <3>2 DEF ReadFollowsCell, ReadOK
  <2>4. CASE snapshot[r].clock # c
    <3>1. snapshot[r].clock \in Clock => sequence'[snapshot[r].clock] = sequence[snapshot[r].clock]
        BY <1>0, <2>4 DEF Typed
    <3>2. snapshot[r].next \in Step \cup {"sequence"} => snapshot[r].clock \in Clock
        BY DEF ReadFollowsCell, ReadOK, Step
    <3> QED BY <1>0, <3>1, <3>2 DEF ReadFollowsCell, ReadOK
  <2>5. CASE snapshot[r].next \notin Step \cup {"sequence"}
      BY <1>0, <2>5 DEF ReadFollowsCell, ReadOK
  <2> QED BY <2>3, <2>4, <2>5
<1>8. SnapshotsAreComplete'
    BY <1>0, <1>2, <1>3 DEF SnapshotsAreComplete, Typed, CacheRecord
<1>9. FirstIsNoSample'
  <2>1. Len(published[c]) >= 1 /\ Len(published[c]) \in Nat
      BY <1>2 DEF CellFollowsSubmit, CellOK
  <2>2. 1 \in DOMAIN published[c]
      BY <1>2, <2>1
  <2>3. published'[c][1] = NoSample
      BY <1>3, <2>2 DEF FirstIsNoSample
  <2> QED BY <1>2, <2>3 DEF FirstIsNoSample
<1> QED BY <1>4, <1>5, <1>6, <1>7, <1>8, <1>9

-----------------------------------------------------------------------------
(* The steps of a reader, which change its own snapshot and cache only.    *)
LEMMA ReaderKeepsIInv ==
    ASSUME IInv, NEW r \in Reader, NEW rd \in SnapshotRecord, NEW ca \in CacheRecord,
           snapshot' = [snapshot EXCEPT ![r] = rd],
           cache' = [cache EXCEPT ![r] = ca],
           UNCHANGED <<sequence, cell, submitting, published>>,
           ReadOK(r)',
           ca.owner # None => /\ ca.version \in DOMAIN published[ca.owner]
                              /\ ca.sample = published[ca.owner][ca.version]
    PROVE  IInv'
<1> USE ClockAssumption DEF IInv
<1>1. Typed'
    BY DEF Typed
<1>2. CounterCounts' /\ CellFollowsSubmit'
    BY DEF CounterCounts, CellFollowsSubmit, CellOK
<1>3. ReadFollowsCell'
  <2> SUFFICES ASSUME NEW q \in Reader, q # r
               PROVE  ReadOK(q)'
      BY DEF ReadFollowsCell
  <2>1. snapshot'[q] = snapshot[q] /\ cache'[q] = cache[q]
      BY DEF Typed
  <2> QED BY <2>1 DEF ReadFollowsCell, ReadOK
<1>4. SnapshotsAreComplete' /\ FirstIsNoSample'
    BY DEF SnapshotsAreComplete, FirstIsNoSample, Typed
<1> QED BY <1>1, <1>2, <1>3, <1>4

LEMMA CallKeepsIInv ==
    ASSUME IInv, NEW r \in Reader, NEW c \in Clock, Call(r, c)
    PROVE  IInv'
<1> USE ClockAssumption DEF IInv
<1> DEFINE rd == [NotReading EXCEPT !.next = "before", !.clock = c,
                                    !.undisturbed = submitting[c] = Idle]
           ca == IF cache[r].owner = c THEN cache[r] ELSE [NoCache EXCEPT !.owner = c]
<1>0. /\ snapshot' = [snapshot EXCEPT ![r] = rd]
      /\ cache' = [cache EXCEPT ![r] = ca]
      /\ UNCHANGED <<sequence, cell, submitting, published>>
    BY DEF Call
<1>1. Len(published[c]) \in Nat /\ Len(published[c]) >= 1 /\ published[c] \in Seq(Sample)
    BY DEF Typed, CellFollowsSubmit, CellOK
<1>2. rd \in SnapshotRecord
    BY <1>1, NoSampleTyped DEF NotReading, SnapshotRecord
<1>3. ca \in CacheRecord /\ ca.owner = c
    BY NoSampleTyped DEF NoCache, CacheRecord, Typed
<1>4. ReadOK(r)'
  <2>1. rd.next = "before" /\ rd.clock = c
      BY DEF NotReading
  <2>2. snapshot'[r] = rd /\ cache'[r] = ca
      BY <1>0 DEF Typed
  <2> HIDE DEF rd, ca
  <2> QED BY <1>3, <2>1, <2>2 DEF ReadOK, Step
<1>5. ca.version \in DOMAIN published[c] /\ ca.sample = published[c][ca.version]
  <2>1. CASE cache[r].owner = c
      BY <2>1 DEF SnapshotsAreComplete
  <2>2. CASE cache[r].owner # c
    <3>1. ca.version = 1 /\ ca.sample = NoSample
        BY <2>2 DEF NoCache
    <3>2. 1 \in DOMAIN published[c]
        BY <1>1
    <3>3. published[c][1] = NoSample
        BY DEF FirstIsNoSample
    <3> QED BY <3>1, <3>2, <3>3
  <2> QED BY <2>1, <2>2
<1> HIDE DEF rd, ca
<1> QED BY <1>0, <1>2, <1>3, <1>4, <1>5, ReaderKeepsIInv

(* An attempt fails.                                                       *)
LEMMA RetryKeepsIInv ==
    ASSUME IInv, NEW r \in Reader, snapshot[r].next # "idle", Retry(r),
           UNCHANGED <<sequence, cell, submitting, published>>
    PROVE  IInv'
<1> USE ClockAssumption DEF IInv
<1> DEFINE rd == [snapshot[r] EXCEPT !.attempt = @ + 1,
                     !.next = IF snapshot[r].attempt + 1 < MaxAttempts
                              THEN "before" ELSE "idle"]
           ca == cache[r]
<1>0. snapshot[r] \in SnapshotRecord /\ cache[r] \in CacheRecord
    BY DEF Typed
<1>1. snapshot' = [snapshot EXCEPT ![r] = rd] /\ snapshot'[r] = rd
    BY DEF Retry, Typed
<1>2. cache' = [cache EXCEPT ![r] = ca] /\ cache'[r] = ca
    BY DEF Retry, Typed
<1>3. rd \in SnapshotRecord
  <2>1. \A n \in Nat, nx \in {"before", "idle"} :
            [snapshot[r] EXCEPT !.attempt = n, !.next = nx] \in SnapshotRecord
      BY <1>0 DEF SnapshotRecord
  <2>2. snapshot[r].attempt + 1 \in Nat
      BY <1>0 DEF SnapshotRecord
  <2> QED BY <2>1, <2>2
<1>4. /\ ca \in CacheRecord /\ ca.owner = cache[r].owner
      /\ ca.version = cache[r].version /\ ca.sample = cache[r].sample
    BY <1>0 DEF CacheRecord
<1>5. rd.next \in {"before", "idle"} /\ rd.clock = snapshot[r].clock
    BY <1>0 DEF SnapshotRecord
<1> HIDE DEF rd, ca
<1>6. ReadOK(r)'
    BY <1>1, <1>2, <1>4, <1>5 DEF ReadOK, ReadFollowsCell, Step
<1>7. ca.owner # None => /\ ca.version \in DOMAIN published[ca.owner]
                         /\ ca.sample = published[ca.owner][ca.version]
    BY <1>4 DEF SnapshotsAreComplete
<1> QED BY <1>1, <1>2, <1>3, <1>4, <1>6, <1>7, ReaderKeepsIInv

LEMMA ReadBeforeKeepsIInv ==
    ASSUME IInv, NEW r \in Reader, ReadBefore(r)
    PROVE  IInv'
<1> USE ClockAssumption DEF IInv
<1> DEFINE before == sequence[snapshot[r].clock]
           rd == [snapshot[r] EXCEPT !.before = before, !.next = "positionMs"]
<1>0. /\ snapshot[r] \in SnapshotRecord /\ cache[r] \in CacheRecord
      /\ snapshot[r].next = "before"
      /\ snapshot[r].clock \in Clock /\ cache[r].owner = snapshot[r].clock
      /\ UNCHANGED <<sequence, cell, submitting, published>>
    BY DEF Typed, ReadBefore, ReadFollowsCell, ReadOK
<1>1. CASE before % 2 = 1
  <2>1. Retry(r)
      BY <1>1 DEF ReadBefore
  <2> QED BY <1>0, <2>1, RetryKeepsIInv
<1>2. CASE before % 2 # 1
  <2>1. before \in Nat
      BY <1>0 DEF Typed
  <2>2. before % 2 = 0
      BY <1>2, <2>1
  <2>3. /\ snapshot' = [snapshot EXCEPT ![r] = rd]
        /\ cache' = [cache EXCEPT ![r] = cache[r]]
      BY <1>2 DEF ReadBefore, Typed
  <2>4. /\ rd \in SnapshotRecord /\ rd.next = "positionMs"
        /\ rd.clock = snapshot[r].clock /\ rd.before = before
      BY <1>0, <2>1 DEF SnapshotRecord, Step
  <2>5. snapshot'[r] = rd /\ cache'[r] = cache[r]
      BY <2>3 DEF Typed
  <2> HIDE DEF rd
  <2>6. ReadOK(r)'
      BY <1>0, <2>1, <2>2, <2>4, <2>5 DEF ReadOK, Step
  <2>7. /\ cache[r].version \in DOMAIN published[cache[r].owner]
        /\ cache[r].sample = published[cache[r].owner][cache[r].version]
      BY <1>0 DEF SnapshotsAreComplete
  <2> QED BY <1>0, <2>3, <2>4, <2>6, <2>7, ReaderKeepsIInv
<1> QED BY <1>1, <1>2

LEMMA ReadKeepsIInv ==
    ASSUME IInv, NEW r \in Reader, Read(r)
    PROVE  IInv'
<1> USE ClockAssumption DEF IInv
<1> DEFINE field == snapshot[r].next
           value == cell[snapshot[r].clock][field]
           sample == [snapshot[r].sample EXCEPT ![field] = value]
           rd == [snapshot[r] EXCEPT !.sample = sample, !.next = After(field)]
<1>0. /\ snapshot[r] \in SnapshotRecord /\ cache[r] \in CacheRecord
      /\ field \in Step
      /\ snapshot[r].clock \in Clock /\ cache[r].owner = snapshot[r].clock
      /\ UNCHANGED <<sequence, cell, submitting, published>>
      /\ cache' = [cache EXCEPT ![r] = cache[r]] /\ cache'[r] = cache[r]
    BY DEF Typed, Read, ReadFollowsCell, ReadOK, Step
<1>1. snapshot[r].sample \in Sample /\ cell[snapshot[r].clock] \in Sample
    BY <1>0 DEF Typed, SnapshotRecord
<1>2. sample \in Sample
    BY <1>0, <1>1 DEF Step, Sample
<1>3. snapshot' = [snapshot EXCEPT ![r] = rd] /\ snapshot'[r] = rd
  <2>1. snapshot' = [snapshot EXCEPT ![r].sample[field] = value, ![r].next = After(field)]
      BY DEF Read
  <2> QED BY <2>1 DEF Typed
<1>4. After(field) \in {"state", "discontinuityId", "sequence"}
    BY <1>0 DEF After, Step
<1>5. rd \in SnapshotRecord
    BY <1>0, <1>2, <1>4 DEF SnapshotRecord, Step
<1>6. /\ rd.next = After(field) /\ rd.clock = snapshot[r].clock
      /\ rd.before = snapshot[r].before /\ rd.sample = sample
    BY <1>0 DEF SnapshotRecord
<1>7. snapshot[r].before = sequence[snapshot[r].clock] =>
          /\ After(field) \in {"state", "discontinuityId", "sequence"}
                 => sample.positionMs = cell[snapshot[r].clock].positionMs
          /\ After(field) \in {"discontinuityId", "sequence"}
                 => sample.state = cell[snapshot[r].clock].state
          /\ After(field) = "sequence"
                 => sample.discontinuityId = cell[snapshot[r].clock].discontinuityId
  <2>1. CASE field = "positionMs"
      BY <1>0, <1>1, <2>1 DEF After, Sample
  <2>2. CASE field = "state"
      BY <1>0, <1>1, <2>2 DEF After, Sample, ReadFollowsCell, ReadOK
  <2>3. CASE field = "discontinuityId"
      BY <1>0, <1>1, <2>3 DEF After, Sample, ReadFollowsCell, ReadOK
  <2> QED BY <1>0, <2>1, <2>2, <2>3 DEF Step
<1>8. snapshot[r].before % 2 = 0 /\ snapshot[r].before <= sequence[snapshot[r].clock]
    BY <1>0 DEF ReadFollowsCell, ReadOK
<1> HIDE DEF rd, sample
<1>9. ReadOK(r)'
    BY <1>0, <1>3, <1>4, <1>6, <1>7, <1>8 DEF ReadOK, Step
<1>10. /\ cache[r].version \in DOMAIN published[cache[r].owner]
       /\ cache[r].sample = published[cache[r].owner][cache[r].version]
    BY <1>0 DEF SnapshotsAreComplete
<1> QED BY <1>0, <1>3, <1>5, <1>9, <1>10, ReaderKeepsIInv

(* The counter has not moved since the snapshot began: no submit touched   *)
(* the atomics in between, and the sample read is the newest published.    *)
LEMMA ReadAfterKeepsIInv ==
    ASSUME IInv, NEW r \in Reader, ReadAfter(r)
    PROVE  IInv'
<1> USE ClockAssumption DEF IInv
<1> DEFINE c == snapshot[r].clock
           n == (snapshot[r].before \div 2) + 1
           rd == [snapshot[r] EXCEPT !.next = "idle"]
           ca == [cache[r] EXCEPT !.sample = snapshot[r].sample, !.version = n]
<1>0. /\ snapshot[r] \in SnapshotRecord /\ cache[r] \in CacheRecord
      /\ snapshot[r].next = "sequence"
      /\ c \in Clock /\ cache[r].owner = c
      /\ UNCHANGED <<sequence, cell, submitting, published>>
    BY DEF Typed, ReadAfter, ReadFollowsCell, ReadOK
<1>1. CASE sequence[c] # snapshot[r].before
  <2>1. Retry(r)
      BY <1>1 DEF ReadAfter
  <2> QED BY <1>0, <2>1, RetryKeepsIInv
<1>2. CASE sequence[c] = snapshot[r].before
  <2>1. /\ snapshot' = [snapshot EXCEPT ![r] = rd] /\ snapshot'[r] = rd
        /\ cache' = [cache EXCEPT ![r] = ca] /\ cache'[r] = ca
      BY <1>2 DEF ReadAfter, Typed
  <2>2. submitting[c].next = "idle"
    <3>1. snapshot[r].before % 2 = 0
        BY <1>0 DEF ReadFollowsCell, ReadOK
    <3>2. submitting[c].next # "idle" => sequence[c] % 2 = 1
        BY <1>0, CounterParity
    <3> QED BY <1>2, <3>1, <3>2
  <2>3. n = Len(published[c]) /\ cell[c] = published[c][n]
    <3>1. n = Len(published[c])
        BY <1>0, <1>2, <2>2, CounterParity
    <3> QED BY <1>0, <2>2, <3>1 DEF CellFollowsSubmit, CellOK
  <2>4. snapshot[r].sample = cell[c]
    <3>1. /\ snapshot[r].sample.positionMs = cell[c].positionMs
          /\ snapshot[r].sample.state = cell[c].state
          /\ snapshot[r].sample.discontinuityId = cell[c].discontinuityId
        BY <1>0, <1>2 DEF ReadFollowsCell, ReadOK
    <3>2. snapshot[r].sample \in Sample /\ cell[c] \in Sample
        BY <1>0 DEF Typed, SnapshotRecord
    <3> QED BY <3>1, <3>2 DEF Sample
  <2>5. published[c] \in Seq(Sample) /\ Len(published[c]) \in Nat /\ Len(published[c]) >= 1
      BY <1>0 DEF Typed, CellFollowsSubmit, CellOK
  <2>6. n \in DOMAIN published[c] /\ n \in Nat
      BY <2>3, <2>5
  <2>7. rd \in SnapshotRecord /\ rd.next = "idle"
      BY <1>0 DEF SnapshotRecord
  <2>8. /\ ca \in CacheRecord /\ ca.owner = c /\ ca.version = n
        /\ ca.sample = snapshot[r].sample
      BY <1>0, <2>6 DEF CacheRecord, SnapshotRecord
  <2> HIDE DEF rd, ca, n
  <2>9. ReadOK(r)'
      BY <2>1, <2>7 DEF ReadOK, Step
  <2> QED BY <1>0, <2>1, <2>3, <2>4, <2>6, <2>7, <2>8, <2>9, ReaderKeepsIInv
<1> QED BY <1>1, <1>2

-----------------------------------------------------------------------------
LEMMA NextKeepsIInv == IInv /\ [Next]_vars => IInv'
<1> SUFFICES ASSUME IInv, [Next]_vars
             PROVE  IInv'
    OBVIOUS
<1>1. ASSUME NEW c \in Clock, BeginSubmit(c) PROVE IInv'
    BY <1>1, BeginSubmitKeepsIInv
<1>2. ASSUME NEW c \in Clock, Store(c) PROVE IInv'
    BY <1>2, StoreKeepsIInv
<1>3. ASSUME NEW c \in Clock, EndSubmit(c) PROVE IInv'
    BY <1>3, EndSubmitKeepsIInv
<1>4. ASSUME NEW r \in Reader, NEW c \in Clock, Call(r, c) PROVE IInv'
    BY <1>4, CallKeepsIInv
<1>5. ASSUME NEW r \in Reader, Snapshot(r) PROVE IInv'
    BY <1>5, ReadBeforeKeepsIInv, ReadKeepsIInv, ReadAfterKeepsIInv DEF Snapshot
<1>6. ASSUME UNCHANGED vars PROVE IInv'
    BY <1>6 DEF vars, IInv, Typed, CounterCounts, CellFollowsSubmit, CellOK, ReadFollowsCell,
                ReadOK, SnapshotsAreComplete, FirstIsNoSample
<1> QED BY <1>1, <1>2, <1>3, <1>4, <1>5, <1>6 DEF Next

LEMMA Inductive == Spec => []IInv
<1> QED BY InitIInv, NextKeepsIInv, PTL DEF Spec

(* snapshot never answers with fields of two different submits, nor with a *)
(* sample of another clock, however submits and attempts interleave        *)
(* (HostClock::submit, HostClock::snapshot).                               *)
THEOREM NoTornSnapshot == Spec => []SnapshotsAreComplete
<1>1. IInv => SnapshotsAreComplete
    BY DEF IInv
<1> QED BY <1>1, Inductive, PTL

(* The sample a thread gets of one clock is never older than the one it    *)
(* had: a failed attempt keeps the cached sample, and one that succeeds    *)
(* finds the newest (HostClock::snapshot).                                 *)
THEOREM SnapshotsNeverGoBack == Spec => NeverGoesBack
<1> DEFINE Forward(r) == cache[r].owner # None /\ cache'[r].owner = cache[r].owner
                             => cache'[r].version >= cache[r].version
<1>1. IInv /\ [Next]_vars => \A r \in Reader : Forward(r)
  <2> SUFFICES ASSUME IInv, [Next]_vars, NEW r \in Reader
               PROVE  Forward(r)
      OBVIOUS
  <2>1. cache[r] \in CacheRecord /\ cache[r].version \in Nat
      BY DEF IInv, Typed, CacheRecord
  <2>2. cache'[r].version = cache[r].version => Forward(r)
      BY <2>1
  <2>3. ASSUME UNCHANGED cache PROVE Forward(r)
      BY <2>2, <2>3
  <2>4. ASSUME NEW q \in Reader, NEW c \in Clock, Call(q, c) PROVE Forward(r)
    <3>1. CASE cache[q].owner = c \/ q # r
        BY <2>2, <2>4, <3>1 DEF Call, IInv, Typed
    <3>2. CASE cache[q].owner # c /\ q = r
      <4>1. cache'[r].owner = c
          BY <2>4, <3>2 DEF Call, IInv, Typed, NoCache
      <4> QED BY <3>2, <4>1
    <3> QED BY <3>1, <3>2
  <2>5. ASSUME NEW q \in Reader, Retry(q) PROVE Forward(r)
      BY <2>1, <2>2, <2>5 DEF Retry, IInv, Typed, CacheRecord
  <2>6. ASSUME NEW q \in Reader, ReadBefore(q) PROVE Forward(r)
      BY <2>3, <2>5, <2>6 DEF ReadBefore
  <2>7. ASSUME NEW q \in Reader, ReadAfter(q) PROVE Forward(r)
    <3> DEFINE c == snapshot[q].clock
               n == (snapshot[q].before \div 2) + 1
    <3>1. CASE sequence[c] # snapshot[q].before
        BY <2>5, <2>7, <3>1 DEF ReadAfter
    <3>2. CASE q # r /\ sequence[c] = snapshot[q].before
        BY <2>2, <2>7, <3>2 DEF ReadAfter, IInv, Typed
    <3>3. CASE q = r /\ sequence[c] = snapshot[q].before
      <4>1. /\ snapshot[r].next = "sequence" /\ c \in Clock /\ cache[r].owner = c
            /\ snapshot[r].before % 2 = 0
          BY <2>7, <3>3 DEF ReadAfter, IInv, ReadFollowsCell, ReadOK
      <4>2. submitting[c].next = "idle"
          BY <3>3, <4>1, CounterParity
      <4>3. n = Len(published[c])
          BY <3>3, <4>1, <4>2, CounterParity
      <4>4. published[c] \in Seq(Sample) /\ Len(published[c]) \in Nat
          BY <4>1 DEF IInv, Typed
      <4>5. cache[r].owner # None => cache[r].version \in DOMAIN published[c]
          BY <4>1 DEF IInv, SnapshotsAreComplete
      <4>6. cache[r].owner # None => cache[r].version <= n
        <5>1. DOMAIN published[c] = 1 .. n
            BY <4>3, <4>4
        <5> HIDE DEF n
        <5> QED BY <4>5, <5>1
      <4>7. cache'[r].version = n
        <5>1. cache' = [cache EXCEPT ![r].sample = snapshot[r].sample,
                                     ![r].version = n]
            BY <2>7, <3>3 DEF ReadAfter
        <5> HIDE DEF n
        <5> QED BY <2>1, <5>1 DEF IInv, Typed, CacheRecord
      <4> HIDE DEF n
      <4>8. n \in Nat
          BY <4>3, <4>4
      <4> QED BY <2>1, <4>6, <4>7, <4>8
    <3> QED BY <3>1, <3>2, <3>3
  <2> QED BY <2>3, <2>4, <2>6, <2>7 DEF Next, vars, Snapshot, BeginSubmit, Store, EndSubmit, Read
<1> QED BY <1>1, Inductive, PTL DEF Spec, NeverGoesBack

-----------------------------------------------------------------------------
(* A snapshot that no submit overlapped: the owner is outside submit, the  *)
(* counter stands where the snapshot found it, and once the snapshot has   *)
(* returned the atomics still hold its answer.                             *)
QuietOK(r) ==
    LET rd == snapshot[r]
    IN  rd.clock # None /\ rd.undisturbed =>
            /\ submitting[rd.clock].next = "idle"
            /\ rd.next = "idle" => cache[r].sample = cell[rd.clock]
            /\ rd.next \in Step \cup {"sequence"} => rd.before = sequence[rd.clock]
QuietReadsStayQuiet == \A r \in Reader : QuietOK(r)

LEMMA NextKeepsQuiet ==
    ASSUME IInv, QuietReadsStayQuiet, [Next]_vars
    PROVE  QuietReadsStayQuiet'
<1> SUFFICES ASSUME NEW r \in Reader, snapshot'[r].clock # None, snapshot'[r].undisturbed
             PROVE  QuietOK(r)'
    BY DEF QuietReadsStayQuiet, QuietOK
<1>0. /\ snapshot[r] \in SnapshotRecord /\ cache[r] \in CacheRecord
      /\ snapshot[r].clock \in Clock \cup {None}
      /\ QuietOK(r)
    BY DEF IInv, Typed, SnapshotRecord, QuietReadsStayQuiet
<1> DEFINE c == snapshot[r].clock
<1>1. ASSUME NEW d \in Clock, BeginSubmit(d) PROVE QuietOK(r)'
  <2>1. snapshot'[r] = IF c = d THEN [snapshot[r] EXCEPT !.undisturbed = FALSE] ELSE snapshot[r]
      BY <1>1 DEF BeginSubmit
  <2>2. c # d /\ snapshot'[r] = snapshot[r]
      BY <1>0, <2>1 DEF SnapshotRecord
  <2>3. submitting'[c] = submitting[c] /\ sequence'[c] = sequence[c] /\ cell' = cell /\ cache' = cache
      BY <1>0, <1>1, <2>2 DEF BeginSubmit, IInv, Typed
  <2> QED BY <1>0, <2>2, <2>3 DEF QuietOK
<1>2. ASSUME NEW d \in Clock, Store(d) \/ EndSubmit(d) PROVE QuietOK(r)'
  <2>1. snapshot' = snapshot /\ cache' = cache /\ submitting[d].next # "idle"
      BY <1>2 DEF Store, EndSubmit, Step
  <2>2. c # d
      BY <1>0, <2>1 DEF QuietOK
  <2>3. submitting'[c] = submitting[c] /\ sequence'[c] = sequence[c] /\ cell'[c] = cell[c]
      BY <1>0, <1>2, <2>1, <2>2 DEF Store, EndSubmit, IInv, Typed
  <2> QED BY <1>0, <2>1, <2>3 DEF QuietOK
<1>3. ASSUME NEW q \in Reader, NEW d \in Clock, Call(q, d) PROVE QuietOK(r)'
  <2>1. CASE q = r
    <3>1. snapshot'[r] = [NotReading EXCEPT !.next = "before", !.clock = d,
                                            !.undisturbed = submitting[d] = Idle]
        BY <1>3, <2>1 DEF Call, IInv, Typed
    <3>2. snapshot'[r].next = "before" /\ snapshot'[r].clock = d
        BY <3>1 DEF NotReading
    <3>3. snapshot'[r].undisturbed <=> submitting[d] = Idle
      <4> DEFINE quiet == submitting[d] = Idle
      <4>1. snapshot'[r] = [NotReading EXCEPT !.next = "before", !.clock = d, !.undisturbed = quiet]
          BY <3>1
      <4> HIDE DEF quiet
      <4>2. snapshot'[r].undisturbed = quiet
          BY <4>1 DEF NotReading
      <4> QED BY <4>2 DEF quiet
    <3> QED BY <1>3, <3>2, <3>3 DEF Call, QuietOK, Idle, Step
  <2>2. CASE q # r
    <3>1. snapshot'[r] = snapshot[r] /\ cache'[r] = cache[r]
        BY <1>3, <2>2 DEF Call, IInv, Typed
    <3> QED BY <1>0, <1>3, <3>1 DEF Call, QuietOK
  <2> QED BY <2>1, <2>2
<1>4. ASSUME NEW q \in Reader, Snapshot(q), q # r PROVE QuietOK(r)'
  <2>1. snapshot'[r] = snapshot[r] /\ cache'[r] = cache[r]
      BY <1>4 DEF Snapshot, ReadBefore, Read, ReadAfter, Retry, IInv, Typed
  <2> QED BY <1>0, <1>4, <2>1 DEF Snapshot, ReadBefore, Read, ReadAfter, Retry, QuietOK
<1>5. ASSUME Snapshot(r) PROVE QuietOK(r)'
  <2>1. /\ snapshot'[r].clock = c /\ snapshot[r].undisturbed
        /\ UNCHANGED <<sequence, cell, submitting>>
    <3>1. UNCHANGED <<sequence, cell, submitting>>
        BY <1>5 DEF Snapshot, ReadBefore, Read, ReadAfter
    <3>2. /\ snapshot'[r].clock = c
          /\ snapshot'[r].undisturbed = snapshot[r].undisturbed
      <4>0. ASSUME Retry(r) PROVE <3>2
        <5>1. PICK next : snapshot' = [snapshot EXCEPT ![r].attempt = @ + 1, ![r].next = next]
            BY <4>0 DEF Retry
        <5> QED BY <1>0, <5>1 DEF IInv, Typed, SnapshotRecord
      <4>1. CASE ReadBefore(r)
        <5>1. CASE sequence[c] % 2 = 1
            BY <4>0, <4>1, <5>1 DEF ReadBefore
        <5>2. CASE sequence[c] % 2 # 1
            BY <1>0, <4>1, <5>2 DEF ReadBefore, IInv, Typed, SnapshotRecord
        <5> QED BY <5>1, <5>2
      <4>2. CASE Read(r)
          BY <1>0, <4>2 DEF Read, IInv, Typed, SnapshotRecord
      <4>3. CASE ReadAfter(r)
        <5>1. CASE sequence[c] = snapshot[r].before
            BY <1>0, <4>3, <5>1, ZenonT(60) DEF ReadAfter, IInv, Typed, SnapshotRecord
        <5>2. CASE sequence[c] # snapshot[r].before
            BY <4>0, <4>3, <5>2 DEF ReadAfter
        <5> QED BY <5>1, <5>2
      <4> QED BY <1>5, <4>1, <4>2, <4>3 DEF Snapshot
    <3> QED BY <3>1, <3>2
  <2>2. c \in Clock /\ c # None /\ submitting[c].next = "idle"
      BY <1>0, <2>1 DEF QuietOK
  <2>3. CASE ReadBefore(r)
    <3>1. sequence[c] % 2 # 1
      <4>1. /\ sequence[c] = 2 * (Len(published[c]) - 1) + 0
            /\ published[c] \in Seq(Sample)
          BY <2>2 DEF IInv, CounterCounts, Typed
      <4>2. Len(published[c]) \in Nat
          BY <4>1
      <4>3. \A n \in Nat : (2 * (n - 1) + 0) % 2 # 1
          OBVIOUS
      <4> QED BY <4>1, <4>2, <4>3
    <3>2. snapshot' = [snapshot EXCEPT ![r].before = sequence[c], ![r].next = "positionMs"]
        BY <2>3, <3>1 DEF ReadBefore
    <3>3. snapshot'[r].before = sequence[c] /\ snapshot'[r].next = "positionMs"
        BY <1>0, <3>2 DEF IInv, Typed, SnapshotRecord
    <3> QED BY <2>1, <2>2, <3>3 DEF QuietOK
  <2>4. CASE Read(r)
    <3>1. /\ snapshot'[r].next = After(snapshot[r].next) /\ snapshot'[r].before = snapshot[r].before
          /\ snapshot[r].next \in Step
        BY <1>0, <2>4 DEF Read, IInv, Typed, SnapshotRecord
    <3> QED BY <1>0, <2>1, <2>2, <3>1 DEF QuietOK, After, Step
  <2>5. CASE ReadAfter(r)
    <3>1. snapshot[r].next = "sequence" /\ sequence[c] = snapshot[r].before
        BY <1>0, <2>1, <2>2, <2>5 DEF ReadAfter, QuietOK
    <3>2. cache'[r].sample = snapshot[r].sample /\ snapshot'[r].next = "idle"
        BY <1>0, <2>5, <3>1 DEF ReadAfter, IInv, Typed, SnapshotRecord, CacheRecord
    <3>3. snapshot[r].sample = cell[c]
      <4>1. /\ snapshot[r].sample.positionMs = cell[c].positionMs
            /\ snapshot[r].sample.state = cell[c].state
            /\ snapshot[r].sample.discontinuityId = cell[c].discontinuityId
          BY <3>1 DEF IInv, ReadFollowsCell, ReadOK
      <4>2. snapshot[r].sample \in Sample /\ cell[c] \in Sample
          BY <1>0, <2>2 DEF IInv, Typed, SnapshotRecord
      <4> QED BY <4>1, <4>2 DEF Sample
    <3> QED BY <2>1, <2>2, <3>2, <3>3 DEF QuietOK, Step
  <2> QED BY <1>5, <2>3, <2>4, <2>5 DEF Snapshot
<1>6. ASSUME UNCHANGED vars PROVE QuietOK(r)'
    BY <1>0, <1>6 DEF vars, QuietOK
<1> QED BY <1>1, <1>2, <1>3, <1>4, <1>5, <1>6 DEF Next

(* A snapshot that no submit overlaps answers with the newest sample: no   *)
(* attempt of it fails, so that the cached answer cannot be an older one   *)
(* (HostClock::snapshot).                                                  *)
THEOREM QuietReadsAreFresh == Spec => []QuietReadIsFresh
<1>1. Init => QuietReadsStayQuiet
    BY DEF Init, QuietReadsStayQuiet, QuietOK, NotReading
<1>2. IInv /\ QuietReadsStayQuiet /\ [Next]_vars => QuietReadsStayQuiet'
    BY NextKeepsQuiet
<1>3. QuietReadsStayQuiet => QuietReadIsFresh
    BY DEF QuietReadsStayQuiet, QuietOK, QuietReadIsFresh
<1> QED BY <1>1, <1>2, <1>3, Inductive, PTL DEF Spec
=============================================================================
