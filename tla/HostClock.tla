------------------------------ MODULE HostClock ------------------------------
(***************************************************************************)
(* cuexis::audio::HostClock: one owner thread per clock submits samples,   *)
(* any thread takes snapshots.  Submit publishes three atomics between two *)
(* increments of a sequence counter; snapshot reads them between two reads *)
(* of the counter, tries a bounded number of times and then answers with   *)
(* the last sample its thread obtained.  That thread-local sample belongs  *)
(* to one clock and is cleared when the thread asks another clock.         *)
(*                                                                         *)
(* Every access of an atomic is a step of its own (they are sequentially   *)
(* consistent).  The samples a clock ever published are kept in the        *)
(* history variable published, and the cached sample carries its place in  *)
(* that history.                                                           *)
(***************************************************************************)
EXTENDS Integers, Sequences

CONSTANTS
    Clock,         \* HostClock objects, each with its owner thread
    Reader,        \* threads that call snapshot
    Position,      \* the source positions a host submits, in milliseconds
    MaxAttempts,   \* maxAttempts in snapshot
    MaxSubmits,    \* BOUND on the samples submitted to each clock
    None

ASSUME ClockAssumption ==
    /\ Position \subseteq Int
    /\ 0 \in Position
    /\ MaxAttempts \in Nat \ {0}
    /\ MaxSubmits \in [Clock -> Nat]
    /\ None \notin Clock

PlaybackState == {"Stopped", "Playing", "Paused", "Ended", "Error"}
Sample == [positionMs: Position, state: PlaybackState, discontinuityId: Nat]

(* SourceClockSample{}, which is also what a new clock holds.              *)
NoSample == [positionMs |-> 0, state |-> "Stopped", discontinuityId |-> 0]

VARIABLES
    sequence,   \* sequence_ of each clock
    cell,       \* positionMs_, state_ and discontinuityId_ of each clock
    submitting, \* the sample the owner is storing and the store it does next
    published,  \* the samples each clock has published, the initial one first
    snapshot,   \* each reader's progress in snapshot()
    cache       \* each reader's thread_local SnapshotCache

vars == <<sequence, cell, submitting, published, snapshot, cache>>

Step == {"positionMs", "state", "discontinuityId"}

Idle == [next |-> "idle", sample |-> NoSample]
NotReading == [next |-> "idle", clock |-> None, attempt |-> 0, before |-> 0,
               sample |-> NoSample, undisturbed |-> TRUE]

NoCache == [owner |-> None, sample |-> NoSample, version |-> 1]

Init ==
    /\ sequence = [c \in Clock |-> 0]
    /\ cell = [c \in Clock |-> NoSample]
    /\ submitting = [c \in Clock |-> Idle]
    /\ published = [c \in Clock |-> <<NoSample>>]
    /\ snapshot = [r \in Reader |-> NotReading]
    /\ cache = [r \in Reader |-> NoCache]

-----------------------------------------------------------------------------
(* validateSourceClockSample; positions are finite and Empty is not a      *)
(* state of a sample.                                                      *)
ValidSample(s) == s.state = "Stopped" => s.positionMs = 0

(* Whether submit accepts s: within a segment no position before the last. *)
Accepts(c, s) ==
    /\ ValidSample(s)
    /\ Len(published[c]) > 1 /\ s.discontinuityId = cell[c].discontinuityId
            => s.positionMs >= cell[c].positionMs

(* The samples a host has: it stays in its segment or begins the next.     *)
Offered(c) ==
    {[positionMs |-> p, state |-> st, discontinuityId |-> cell[c].discontinuityId + d] :
        p \in Position, st \in {"Stopped", "Playing"}, d \in {0, 1}}

(* submit up to its first increment.  Other threads see nothing of a       *)
(* rejected submit.                                                        *)
BeginSubmit(c) ==
    /\ submitting[c] = Idle
    /\ Len(published[c]) <= MaxSubmits[c]
    /\ \E s \in Offered(c) :
          /\ Accepts(c, s)
          /\ submitting' = [submitting EXCEPT ![c] = [next |-> "positionMs", sample |-> s]]
    /\ sequence' = [sequence EXCEPT ![c] = @ + 1]
    /\ snapshot' = [r \in Reader |->
                        IF snapshot[r].clock = c
                        THEN [snapshot[r] EXCEPT !.undisturbed = FALSE]
                        ELSE snapshot[r]]
    /\ UNCHANGED <<cell, published, cache>>

After(step) ==
    CASE step = "positionMs" -> "state"
      [] step = "state" -> "discontinuityId"
      [] OTHER -> "sequence"

(* One store of the sample being submitted.                                *)
Store(c) ==
    /\ submitting[c].next \in Step
    /\ cell' = [cell EXCEPT ![c][submitting[c].next] = submitting[c].sample[submitting[c].next]]
    /\ submitting' = [submitting EXCEPT ![c].next = After(@)]
    /\ UNCHANGED <<sequence, published, snapshot, cache>>

(* submit's second increment: the sample is published.                     *)
EndSubmit(c) ==
    /\ submitting[c].next = "sequence"
    /\ sequence' = [sequence EXCEPT ![c] = @ + 1]
    /\ published' = [published EXCEPT ![c] = Append(@, submitting[c].sample)]
    /\ submitting' = [submitting EXCEPT ![c] = Idle]
    /\ UNCHANGED <<cell, snapshot, cache>>

-----------------------------------------------------------------------------
(* A bug: the cache keeps the sample of the clock asked before.            *)
CallKeepingCache(r, c) ==
    /\ snapshot[r].next = "idle"
    /\ snapshot' = [snapshot EXCEPT ![r] =
                       [NotReading EXCEPT !.next = "before", !.clock = c,
                                          !.undisturbed = submitting[c] = Idle]]
    /\ cache' = [cache EXCEPT ![r].owner = c]
    /\ UNCHANGED <<sequence, cell, submitting, published>>

(* snapshot is called: the cache is cleared if it is another clock's.      *)
Call(r, c) ==
    /\ snapshot[r].next = "idle"
    /\ snapshot' = [snapshot EXCEPT ![r] =
                       [NotReading EXCEPT !.next = "before", !.clock = c,
                                          !.undisturbed = submitting[c] = Idle]]
    /\ cache' = [cache EXCEPT ![r] =
                    IF @.owner = c THEN @
                    ELSE [NoCache EXCEPT !.owner = c]]
    /\ UNCHANGED <<sequence, cell, submitting, published>>

(* A bug: an answer that forgets the cache.                                *)
RetryForgetting(r) ==
    /\ snapshot' = [snapshot EXCEPT
           ![r].attempt = @ + 1,
           ![r].next = IF snapshot[r].attempt + 1 < MaxAttempts THEN "before" ELSE "idle"]
    /\ cache' = [cache EXCEPT ![r] = [NoCache EXCEPT !.owner = snapshot[r].clock]]

(* A bug: an attempt that fails is not counted.                            *)
RetryForever(r) ==
    /\ snapshot' = [snapshot EXCEPT ![r].next = "before"]
    /\ UNCHANGED cache

(* An attempt failed: the next one, or the cached sample after the last.   *)
Retry(r) ==
    /\ snapshot' = [snapshot EXCEPT
           ![r].attempt = @ + 1,
           ![r].next = IF snapshot[r].attempt + 1 < MaxAttempts THEN "before" ELSE "idle"]
    /\ UNCHANGED cache

(* The first read of the counter: an odd value spends the attempt.         *)
ReadBefore(r) ==
    /\ snapshot[r].next = "before"
    /\ LET before == sequence[snapshot[r].clock]
       IN  IF before % 2 = 1
           THEN Retry(r)
           ELSE /\ snapshot' = [snapshot EXCEPT ![r].before = before,
                                                ![r].next = "positionMs"]
                /\ UNCHANGED cache
    /\ UNCHANGED <<sequence, cell, submitting, published>>

(* One load of the sample being read.                                      *)
Read(r) ==
    /\ snapshot[r].next \in Step
    /\ LET field == snapshot[r].next
       IN  snapshot' = [snapshot EXCEPT ![r].sample[field] = cell[snapshot[r].clock][field],
                                        ![r].next = After(field)]
    /\ UNCHANGED <<sequence, cell, submitting, published, cache>>

(* A bug: the sample is returned although the counter moved on.            *)
ReadAfterAnyway(r) ==
    /\ snapshot[r].next = "sequence"
    /\ cache' = [cache EXCEPT ![r].sample = snapshot[r].sample,
                              ![r].version = (snapshot[r].before \div 2) + 1]
    /\ snapshot' = [snapshot EXCEPT ![r].next = "idle"]
    /\ UNCHANGED <<sequence, cell, submitting, published>>

(* A bug: the sample read is not put in the cache the answer comes from.   *)
ReadAfterUncached(r) ==
    /\ snapshot[r].next = "sequence"
    /\ IF sequence[snapshot[r].clock] = snapshot[r].before
       THEN snapshot' = [snapshot EXCEPT ![r].next = "idle"] /\ UNCHANGED cache
       ELSE Retry(r)
    /\ UNCHANGED <<sequence, cell, submitting, published>>

(* The second read of the counter: the sample is good if it has not moved. *)
ReadAfter(r) ==
    /\ snapshot[r].next = "sequence"
    /\ IF sequence[snapshot[r].clock] = snapshot[r].before
       THEN /\ cache' = [cache EXCEPT ![r].sample = snapshot[r].sample,
                                      ![r].version = (snapshot[r].before \div 2) + 1]
            /\ snapshot' = [snapshot EXCEPT ![r].next = "idle"]
       ELSE Retry(r)
    /\ UNCHANGED <<sequence, cell, submitting, published>>

Snapshot(r) == ReadBefore(r) \/ Read(r) \/ ReadAfter(r)

Next ==
    \/ \E c \in Clock : BeginSubmit(c) \/ Store(c) \/ EndSubmit(c)
    \/ \E r \in Reader, c \in Clock : Call(r, c)
    \/ \E r \in Reader : Snapshot(r)

(* A thread inside snapshot runs; the owner may stop in the middle of a    *)
(* submit, and nothing makes a host submit or a thread ask.                *)
Fairness == \A r \in Reader : WF_vars(Snapshot(r))

Spec == Init /\ [][Next]_vars /\ Fairness

-----------------------------------------------------------------------------
(***************************************************************************)
(* Type correctness.                                                       *)
(***************************************************************************)
TypeOK ==
    /\ sequence \in [Clock -> Nat]
    /\ cell \in [Clock -> Sample]
    /\ submitting \in [Clock -> [next: Step \cup {"idle", "sequence"}, sample: Sample]]
    /\ published \in [Clock -> Seq(Sample)]
    /\ snapshot \in [Reader -> [next: Step \cup {"idle", "before", "sequence"},
                                clock: Clock \cup {None}, attempt: 0 .. MaxAttempts,
                                before: Nat, sample: Sample, undisturbed: BOOLEAN]]
    /\ cache \in [Reader -> [owner: Clock \cup {None}, sample: Sample, version: Nat]]

(* What snapshot answers is always one sample that its own clock held as a *)
(* whole: never fields of two submits, never another clock's sample.       *)
SnapshotsAreComplete ==
    \A r \in Reader : cache[r].owner # None =>
        /\ cache[r].version \in DOMAIN published[cache[r].owner]
        /\ cache[r].sample = published[cache[r].owner][cache[r].version]

(* A thread that stays with one clock never gets an older sample than it   *)
(* had before, whichever attempts failed in between.                       *)
NeverGoesBack ==
    [][\A r \in Reader :
          cache[r].owner # None /\ cache'[r].owner = cache[r].owner
              => cache'[r].version >= cache[r].version]_vars

(* A snapshot that no submit overlaps answers with the newest sample.      *)
QuietReadIsFresh ==
    \A r \in Reader :
        snapshot[r].next = "idle" /\ snapshot[r].clock # None /\ snapshot[r].undisturbed
            => cache[r].sample = cell[snapshot[r].clock]

(* snapshot returns even if the owner has stopped in the middle of submit. *)
SnapshotReturns == \A r \in Reader : snapshot[r].next # "idle" ~> snapshot[r].next = "idle"
=============================================================================
