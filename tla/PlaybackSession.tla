--------------------------- MODULE PlaybackSession ---------------------------
(***************************************************************************)
(* cuexis::playback::PlaybackSession: content is prepared into a           *)
(* PreparedPlayback that the host holds, and a commit exchanges it with    *)
(* what the session has.  A commit takes only a candidate of this session  *)
(* object, of its present generation.                                      *)
(*                                                                         *)
(* Sessions live at addresses, which later sessions use again; a slot is a *)
(* PreparedPlayback variable of the host.  A session belongs to one thread *)
(* and refuses calls while one is active, so an operator below is one call *)
(* from entry to return, and calls come in any order.  What a prepare may  *)
(* make of a source is a parameter.                                        *)
(***************************************************************************)
EXTENDS Integers

CONSTANTS
    None,
    Session,        \* addresses of sessions
    Slot,           \* PreparedPlayback variables
    Source,         \* PlaybackSources
    Content,        \* what a source is prepared into
    Preparations,   \* what a prepare of a source may make of it; None: it fails
    HasMusic,       \* sources with main music
    Mode,           \* PlaybackModes that the host loads content with
    Material,       \* materials that a host override may set
    Time,           \* chart times of frames
    MaxToken,       \* BOUND on the sessions created
    MaxGeneration,  \* BOUND on the generation of a session
    MaxCandidate    \* BOUND on the candidates a session prepares

PlaybackMode == {"ChartClock", "HostClock", "CuexisAudio"}

ASSUME PlaybackAssumption ==
    /\ None \notin Session \cup Content \cup Material
    /\ Preparations \in [Source -> SUBSET (Content \cup {None})]
    /\ HasMusic \subseteq Source /\ Mode \subseteq PlaybackMode
    /\ Time \subseteq Nat /\ 0 \in Time
    /\ MaxToken \in Nat /\ MaxGeneration \in Nat /\ MaxCandidate \in Nat

SessionState == {"Empty", "Ready", "Running"}
ReloadPolicy == {"KeepChartTime", "RestartAtZero"}

VARIABLES
    session,   \* the session at an address; its token is 0 when there is none
    prepared,  \* the candidate in a slot
    nextToken, \* nextPlaybackSessionToken
    stale      \* history: slots whose session changed after they were prepared

playbackVars == <<session, prepared, nextToken, stale>>

(* active is history: the number of the candidate that was committed.       *)
(* applied is the override that the last frame was resolved with.           *)
SessionRecord ==
    [token: Nat, generation: Nat, state: SessionState, mode: PlaybackMode \cup {None},
     content: Content \cup {None}, active: Nat, lastFrame: Time \cup {None},
     override: Material \cup {None}, applied: Material \cup {None}, nextCandidate: Nat]

PreparedRecord ==
    [owner: Session, token: Nat, generation: Nat, replacement: BOOLEAN, mode: PlaybackMode,
     content: Content, target: Time \cup {None}, state: SessionState, number: Nat]

PlaybackTypeOK ==
    /\ session \in [Session -> SessionRecord]
    /\ prepared \in [Slot -> PreparedRecord \cup {None}]
    /\ nextToken \in Nat
    /\ stale \subseteq Slot

Fresh(token) ==
    [token |-> token, generation |-> 1, state |-> "Empty", mode |-> None, content |-> None,
     active |-> 0, lastFrame |-> None, override |-> None, applied |-> None, nextCandidate |-> 1]

PlaybackInit ==
    /\ session = [s \in Session |-> Fresh(0)]
    /\ prepared = [slot \in Slot |-> None]
    /\ nextToken = 1
    /\ stale = {}

Exists(s) == session[s].token # 0
IsActive(s) == session[s].state \in {"Ready", "Running"}

(* The slots that hold a candidate of the session now at an address.        *)
CandidatesOf(s) ==
    {slot \in Slot : prepared[slot] # None /\ prepared[slot].owner = s
                                           /\ prepared[slot].token = session[s].token}

-----------------------------------------------------------------------------
Create(s) ==
    /\ ~Exists(s)
    /\ nextToken <= MaxToken
    /\ session' = [session EXCEPT ![s] = Fresh(nextToken)]
    /\ nextToken' = nextToken + 1
    /\ UNCHANGED <<prepared, stale>>

Destroy(s) ==
    /\ Exists(s)
    /\ session' = [session EXCEPT ![s] = Fresh(0)]
    /\ stale' = stale \cup CandidatesOf(s)
    /\ UNCHANGED <<prepared, nextToken>>

-----------------------------------------------------------------------------
(* A load needs an empty session and a reload an active one.                *)
FitsLifecycle(s, replacement) ==
    IF replacement THEN IsActive(s) ELSE session[s].state = "Empty"

(* The chart clock is for content without music.                            *)
FitsMode(source, mode) == mode = "ChartClock" <=> source \notin HasMusic

Candidate(s, mode, replacement, target, content) ==
    [owner |-> s, token |-> session[s].token, generation |-> session[s].generation,
     replacement |-> replacement, mode |-> mode, content |-> content, target |-> target,
     state |-> IF replacement THEN session[s].state ELSE "Ready",
     number |-> session[s].nextCandidate]

(* What fails leaves the session as it was.  The content of a reload is     *)
(* sampled at the target here, which is one more way to fail.               *)
Prepare(s, slot, source, mode, replacement, target) ==
    /\ Exists(s) /\ FitsLifecycle(s, replacement) /\ FitsMode(source, mode)
    /\ prepared[slot] = None
    /\ session[s].nextCandidate <= MaxCandidate
    /\ \E content \in Preparations[source] :
           IF content = None THEN UNCHANGED <<session, prepared>>
           ELSE /\ prepared' = [prepared EXCEPT ![slot] =
                       Candidate(s, mode, replacement, target, content)]
                /\ session' = [session EXCEPT ![s].nextCandidate = @ + 1]
    /\ UNCHANGED <<nextToken, stale>>

PrepareLoad(s, slot, source, mode) == Prepare(s, slot, source, mode, FALSE, None)

(* The text forms build the source from the text and the database and      *)
(* provider of the session, and go on like the others.                     *)
PrepareReload(s, slot, source, frame, policy) ==
    /\ session[s].mode # None
    /\ Prepare(s, slot, source, session[s].mode, TRUE,
               IF policy = "RestartAtZero" THEN 0 ELSE frame)

Drop(slot) ==
    /\ prepared[slot] # None
    /\ prepared' = [prepared EXCEPT ![slot] = None]
    /\ stale' = stale \ {slot}
    /\ UNCHANGED <<session, nextToken>>

-----------------------------------------------------------------------------
(* A bug: the generation is not compared.                                   *)
AcceptsByToken(s, candidate) ==
    candidate.owner = s /\ candidate.token = session[s].token /\ FitsLifecycle(s, candidate.replacement)

Accepts(s, candidate) ==
    /\ candidate.owner = s /\ candidate.token = session[s].token
    /\ candidate.generation = session[s].generation
    /\ FitsLifecycle(s, candidate.replacement)

Committed(s, candidate) ==
    [token |-> session[s].token, generation |-> session[s].generation + 1,
     state |-> candidate.state, mode |-> candidate.mode, content |-> candidate.content,
     active |-> candidate.number, lastFrame |-> candidate.target, override |-> None,
     applied |-> None, nextCandidate |-> session[s].nextCandidate]

Commit(s, slot) ==
    /\ Exists(s) /\ prepared[slot] # None
    /\ Accepts(s, prepared[slot])
    /\ session[s].generation < MaxGeneration
    /\ session' = [session EXCEPT ![s] = Committed(s, prepared[slot])]
    /\ prepared' = [prepared EXCEPT ![slot] = None]
    /\ stale' = (stale \cup CandidatesOf(s)) \ {slot}
    /\ UNCHANGED nextToken

Updated(s, frame) ==
    [session[s] EXCEPT !.generation = @ + 1, !.state = "Running", !.lastFrame = frame,
                       !.applied = session[s].override]

(* RuntimeSession::update may refuse a frame; nothing is changed then.      *)
Update(s, frame) ==
    /\ Exists(s) /\ IsActive(s)
    /\ session[s].generation < MaxGeneration
    /\ session' = [session EXCEPT ![s] = Updated(s, frame)]
    /\ stale' = stale \cup CandidatesOf(s)
    /\ UNCHANGED <<prepared, nextToken>>

Unload(s) ==
    /\ Exists(s) /\ session[s].state # "Empty"
    /\ session[s].generation < MaxGeneration
    /\ session' = [session EXCEPT ![s] =
           [Fresh(@.token) EXCEPT !.generation = session[s].generation + 1,
                                  !.nextCandidate = session[s].nextCandidate]]
    /\ stale' = stale \cup CandidatesOf(s)
    /\ UNCHANGED <<prepared, nextToken>>

(* A token of the host on the material of an object, which the next frame   *)
(* applies.  The generation stays, so a candidate prepared before may still *)
(* be committed, and the override goes with the world it was set in.        *)
AcquireHostOverride(s, material) ==
    /\ Exists(s) /\ IsActive(s)
    /\ session[s].override = None
    /\ session' = [session EXCEPT ![s].override = material]
    /\ UNCHANGED <<prepared, nextToken, stale>>

ReleaseHostOverride(s) ==
    /\ Exists(s) /\ IsActive(s)
    /\ session[s].override # None
    /\ session' = [session EXCEPT ![s].override = None]
    /\ UNCHANGED <<prepared, nextToken, stale>>

PlaybackNext ==
    \/ \E s \in Session : Create(s) \/ Destroy(s) \/ Unload(s) \/ ReleaseHostOverride(s)
    \/ \E s \in Session, slot \in Slot : Commit(s, slot)
    \/ \E s \in Session, slot \in Slot, source \in Source :
           \/ \E mode \in Mode : PrepareLoad(s, slot, source, mode)
           \/ \E frame \in Time, policy \in ReloadPolicy :
                  PrepareReload(s, slot, source, frame, policy)
    \/ \E slot \in Slot : Drop(slot)
    \/ \E s \in Session, frame \in Time : Update(s, frame)
    \/ \E s \in Session, material \in Material : AcquireHostOverride(s, material)

PlaybackSpec == PlaybackInit /\ [][PlaybackNext]_playbackVars

-----------------------------------------------------------------------------
(* Nothing is committed over a session that has taken a frame, a commit or *)
(* an unload since the candidate was prepared, or over another session at  *)
(* the same address: the slot a commit empties is not stale.               *)
Commits(slot) ==
    /\ prepared[slot] # None /\ prepared'[slot] = None
    /\ session'[prepared[slot].owner] # session[prepared[slot].owner]

CommitIsCurrent == [][\A slot \in Slot : Commits(slot) => slot \notin stale]_playbackVars
=============================================================================
