------------------------ MODULE PlaybackSessionProof ------------------------
(***************************************************************************)
(* Two results, for any number of sessions, slots and calls.  A commit     *)
(* takes only what was prepared for the session as it is now: tokens are   *)
(* never given twice, so a candidate of an earlier session at an address   *)
(* differs from the present one in its token; and a candidate of the       *)
(* present one has at most its generation, less when it is stale.          *)
(*                                                                         *)
(* And the OpenGL adapter of a host shows what a session plays, keeps the  *)
(* order an adapter promises, and can draw every frame of it: a cache is   *)
(* of a content that its token was prepared or committed with, because the *)
(* numbers of candidates are never given twice either; and a frame of the  *)
(* content names only what the manifest of that content has an entry for.  *)
(***************************************************************************)
EXTENDS PlaybackHost, Sequences, TLAPS

TokensAreOld ==
    /\ \A s \in Session : session[s].token < nextToken
    /\ \A slot \in Slot : prepared[slot] # None =>
           prepared[slot].token # 0 /\ prepared[slot].token < nextToken

HasSession(slot) ==
    prepared[slot] # None /\ prepared[slot].token = session[prepared[slot].owner].token

GenerationsAreOld ==
    \A slot \in Slot : HasSession(slot) =>
        prepared[slot].generation <= session[prepared[slot].owner].generation

StaleIsOlder ==
    \A slot \in stale :
        /\ prepared[slot] # None
        /\ HasSession(slot) => prepared[slot].generation < session[prepared[slot].owner].generation

Inv == PlaybackTypeOK /\ nextToken # 0 /\ TokensAreOld /\ GenerationsAreOld /\ StaleIsOlder

-----------------------------------------------------------------------------
(* A new session is a session record.                                       *)
LEMMA FreshIsRecord == ASSUME NEW token \in Nat PROVE Fresh(token) \in SessionRecord
BY DEF Fresh, SessionRecord, SessionState

(* A candidate of an existing session is a candidate record.                *)
LEMMA CandidateIsRecord ==
    ASSUME PlaybackTypeOK, NEW s \in Session, NEW mode \in PlaybackMode, NEW replacement \in BOOLEAN,
           NEW target \in Time \cup {None}, NEW content \in Content
    PROVE  Candidate(s, mode, replacement, target, content) \in PreparedRecord
<1>1. session[s] \in SessionRecord
  BY DEF PlaybackTypeOK
<1>2. "Ready" \in SessionState
  BY DEF SessionState
<1> QED
  BY <1>1, <1>2 DEF Candidate, PreparedRecord, SessionRecord

-----------------------------------------------------------------------------
(* The invariant holds before any session exists.                           *)
LEMMA InitHasInv == PlaybackInit => Inv
<1> SUFFICES ASSUME PlaybackInit PROVE Inv
  OBVIOUS
<1>1. PlaybackTypeOK
  <2>1. 0 \in Nat /\ 1 \in Nat
    OBVIOUS
  <2> QED
    BY <2>1, FreshIsRecord DEF PlaybackInit, PlaybackTypeOK
<1>2. nextToken # 0 /\ TokensAreOld /\ GenerationsAreOld /\ StaleIsOlder
  BY DEF PlaybackInit, TokensAreOld, GenerationsAreOld, StaleIsOlder, HasSession, Fresh
<1> QED
  BY <1>1, <1>2 DEF Inv

(* Between a call that changes one session into a record of the same token *)
(* and a later generation, leaves the candidates or takes one, and counts   *)
(* those of the session as stale, the invariant is kept.                    *)
LEMMA LaterGeneration ==
    ASSUME Inv, NEW s \in Session, NEW later \in SessionRecord,
           later.token = session[s].token, later.generation > session[s].generation,
           session' = [session EXCEPT ![s] = later],
           prepared' \in [Slot -> PreparedRecord \cup {None}],
           \A slot \in Slot : prepared'[slot] \in {prepared[slot], None},
           nextToken' = nextToken,
           stale' = {slot \in stale \cup CandidatesOf(s) : prepared'[slot] # None}
    PROVE  Inv'
<1> USE DEF Inv
<1>1. PlaybackTypeOK'
  BY DEF PlaybackTypeOK, CandidatesOf
<1>2. TokensAreOld'
  BY DEF TokensAreOld, PlaybackTypeOK
<1>3. \A slot \in Slot : prepared'[slot] # None =>
          /\ prepared'[slot] = prepared[slot] /\ prepared[slot] \in PreparedRecord
          /\ prepared[slot].owner \in Session
          /\ session'[prepared[slot].owner].token = session[prepared[slot].owner].token
  BY DEF PlaybackTypeOK, PreparedRecord
<1>4. \A slot \in Slot : HasSession(slot)' =>
          /\ HasSession(slot)
          /\ prepared[slot].owner = s => slot \in CandidatesOf(s)
  BY <1>3 DEF HasSession, CandidatesOf
<1>5. \A slot \in Slot : prepared[slot] # None =>
          prepared[slot].generation \in Nat /\ session[prepared[slot].owner].generation \in Nat
  BY DEF PlaybackTypeOK, PreparedRecord, SessionRecord
<1>6. later.generation \in Nat /\ session[s].generation \in Nat
  BY DEF PlaybackTypeOK, SessionRecord
<1>7. session'[s] = later /\ \A t \in Session : t # s => session'[t] = session[t]
  BY DEF PlaybackTypeOK
<1>8. GenerationsAreOld'
  <2> SUFFICES ASSUME NEW slot \in Slot, HasSession(slot)'
               PROVE  prepared'[slot].generation <= session'[prepared'[slot].owner].generation
    BY DEF GenerationsAreOld
  <2>1. prepared'[slot] # None /\ prepared[slot] # None
    BY <1>4 DEF HasSession
  <2>2. prepared[slot].generation <= session[prepared[slot].owner].generation
    BY <1>4 DEF GenerationsAreOld
  <2> QED
    BY <2>1, <2>2, <1>3, <1>5, <1>6, <1>7
<1>9. StaleIsOlder'
  <2> SUFFICES ASSUME NEW slot \in stale', HasSession(slot)'
               PROVE  prepared'[slot].generation < session'[prepared'[slot].owner].generation
    BY DEF StaleIsOlder
  <2>1. slot \in Slot /\ slot \in stale \cup CandidatesOf(s)
    BY DEF PlaybackTypeOK, CandidatesOf
  <2>2. prepared'[slot] # None /\ prepared[slot] # None /\ HasSession(slot)
    BY <2>1, <1>4 DEF HasSession
  <2>3. prepared[slot].generation <= session[prepared[slot].owner].generation
    BY <2>1, <2>2 DEF GenerationsAreOld
  <2>4. CASE prepared[slot].owner = s
    BY <2>1, <2>2, <2>3, <2>4, <1>3, <1>5, <1>6, <1>7
  <2>5. CASE prepared[slot].owner # s
    <3>1. slot \in stale
      BY <2>1, <2>5 DEF CandidatesOf
    <3>2. prepared[slot].generation < session[prepared[slot].owner].generation
      BY <3>1, <2>2 DEF StaleIsOlder
    <3> QED
      BY <3>2, <2>1, <2>2, <2>5, <1>3, <1>7
  <2> QED
    BY <2>4, <2>5
<1> QED
  BY <1>1, <1>2, <1>8, <1>9

-----------------------------------------------------------------------------
(* Every call keeps the invariant.                                          *)
LEMMA NextKeepsInv == Inv /\ [PlaybackNext]_playbackVars => Inv'
<1> SUFFICES ASSUME Inv, [PlaybackNext]_playbackVars PROVE Inv'
  OBVIOUS
<1> USE DEF Inv
<1>t. /\ session \in [Session -> SessionRecord] /\ nextToken \in Nat /\ stale \subseteq Slot
      /\ prepared \in [Slot -> PreparedRecord \cup {None}]
  BY DEF PlaybackTypeOK
<1>g. \A s \in Session : session[s].token \in Nat /\ session[s].generation \in Nat
  BY <1>t DEF SessionRecord
<1>p. \A slot \in Slot : prepared[slot] # None =>
          /\ prepared[slot] \in PreparedRecord /\ prepared[slot].owner \in Session
          /\ prepared[slot].token \in Nat
  BY <1>t DEF PreparedRecord
<1>1. ASSUME NEW s \in Session, Create(s) PROVE Inv'
  <2>1. Fresh(nextToken) \in SessionRecord /\ Fresh(nextToken).token = nextToken
    BY <1>t, FreshIsRecord DEF Fresh
  <2>2. session'[s] = Fresh(nextToken) /\ \A t \in Session : t # s => session'[t] = session[t]
    BY <1>1, <1>t DEF Create
  <2>3. PlaybackTypeOK'
    BY <1>1, <1>t, <2>1 DEF Create, PlaybackTypeOK
  <2>4. nextToken' = nextToken + 1 /\ prepared' = prepared /\ stale' = stale
    BY <1>1 DEF Create
  <2>5. TokensAreOld' /\ nextToken' # 0
    BY <2>1, <2>2, <2>4, <1>t, <1>g, <1>p DEF TokensAreOld
  <2>6. \A slot \in Slot : HasSession(slot)' => HasSession(slot) /\ prepared[slot].owner # s
    BY <2>1, <2>2, <2>4, <1>t, <1>p DEF HasSession, TokensAreOld
  <2>7. GenerationsAreOld' /\ StaleIsOlder'
    BY <2>2, <2>4, <2>6, <1>t, <1>p DEF GenerationsAreOld, StaleIsOlder, HasSession
  <2> QED
    BY <2>3, <2>5, <2>7
<1>2. ASSUME NEW s \in Session, Destroy(s) PROVE Inv'
  <2>1. Fresh(0) \in SessionRecord /\ Fresh(0).token = 0
    BY FreshIsRecord DEF Fresh
  <2>2. session'[s] = Fresh(0) /\ \A t \in Session : t # s => session'[t] = session[t]
    BY <1>2, <1>t DEF Destroy
  <2>3. nextToken' = nextToken /\ prepared' = prepared /\ stale' = stale \cup CandidatesOf(s)
    BY <1>2 DEF Destroy
  <2>4. PlaybackTypeOK'
    BY <1>2, <1>t, <2>1 DEF Destroy, PlaybackTypeOK, CandidatesOf
  <2>5. TokensAreOld' /\ nextToken' # 0
    BY <2>1, <2>2, <2>3, <1>t, <1>g, <1>p DEF TokensAreOld
  <2>6. \A slot \in Slot : HasSession(slot)' => HasSession(slot) /\ prepared[slot].owner # s
    BY <2>1, <2>2, <2>3, <1>p DEF HasSession, TokensAreOld
  <2>7. GenerationsAreOld'
    BY <2>2, <2>3, <2>6, <1>p DEF GenerationsAreOld, HasSession
  <2>8. StaleIsOlder'
    <3> SUFFICES ASSUME NEW slot \in stale'
                 PROVE  /\ prepared'[slot] # None
                        /\ HasSession(slot)' => prepared'[slot].generation
                                                 < session'[prepared'[slot].owner].generation
      BY DEF StaleIsOlder
    <3>1. slot \in Slot /\ prepared[slot] # None
      BY <2>3, <1>t DEF StaleIsOlder, CandidatesOf
    <3>2. CASE HasSession(slot)'
      <4>1. slot \in stale
        BY <3>1, <3>2, <2>3, <2>6 DEF CandidatesOf
      <4> QED
        BY <4>1, <3>1, <3>2, <2>2, <2>3, <2>6, <1>p DEF StaleIsOlder
    <3>3. CASE ~HasSession(slot)'
      BY <3>1, <3>3, <2>3
    <3> QED
      BY <3>2, <3>3
  <2> QED
    BY <2>4, <2>5, <2>7, <2>8
<1>3. ASSUME NEW s \in Session, NEW slot \in Slot, NEW source \in Source, NEW mode \in PlaybackMode,
             NEW replacement \in BOOLEAN, NEW target \in Time \cup {None},
             Prepare(s, slot, source, mode, replacement, target)
      PROVE  Inv'
  <2>1. PICK content \in Preparations[source] :
            IF content = None THEN UNCHANGED <<session, prepared>>
            ELSE /\ prepared' = [prepared EXCEPT ![slot] =
                        Candidate(s, mode, replacement, target, content)]
                 /\ session' = [session EXCEPT ![s].nextCandidate = @ + 1]
    BY <1>3 DEF Prepare
  <2>2. nextToken' = nextToken /\ stale' = stale /\ Exists(s) /\ prepared[slot] = None
    BY <1>3 DEF Prepare
  <2>3. CASE content = None
    BY <2>1, <2>2, <2>3
       DEF PlaybackTypeOK, TokensAreOld, GenerationsAreOld, StaleIsOlder, HasSession
  <2>4. CASE content # None
    <3> DEFINE candidate == Candidate(s, mode, replacement, target, content)
    <3>1. content \in Content
      BY <2>4, PlaybackAssumption
    <3>2. candidate \in PreparedRecord
      BY <3>1, CandidateIsRecord
    <3>3. candidate.owner = s /\ candidate.token = session[s].token
              /\ candidate.generation = session[s].generation
      BY DEF Candidate
    <3> HIDE DEF candidate
    <3>4. prepared' = [prepared EXCEPT ![slot] = candidate]
      BY <2>1, <2>4 DEF candidate
    <3>5. session' = [session EXCEPT ![s].nextCandidate = @ + 1]
      BY <2>1, <2>4
    <3>6. \A t \in Session : /\ session'[t] \in SessionRecord
                             /\ session'[t].token = session[t].token
                             /\ session'[t].generation = session[t].generation
      BY <3>5, <1>t DEF SessionRecord
    <3>7. PlaybackTypeOK'
      BY <3>2, <3>4, <3>5, <3>6, <2>2, <1>t DEF PlaybackTypeOK
    <3>8. prepared'[slot] = candidate /\ \A c \in Slot : c # slot => prepared'[c] = prepared[c]
      BY <3>4, <1>t
    <3>9. TokensAreOld' /\ nextToken' # 0
      BY <3>3, <3>6, <3>8, <2>2, <1>g, <1>t DEF TokensAreOld, Exists
    <3>10. GenerationsAreOld'
      BY <3>3, <3>6, <3>8, <1>g, <1>p DEF GenerationsAreOld, HasSession
    <3>11. StaleIsOlder'
      BY <3>6, <3>8, <2>2, <1>t, <1>p DEF StaleIsOlder, HasSession
    <3> QED
      BY <3>7, <3>9, <3>10, <3>11
  <2> QED
    BY <2>3, <2>4
<1>4. ASSUME NEW slot \in Slot, Drop(slot) PROVE Inv'
  <2>1. /\ prepared' = [prepared EXCEPT ![slot] = None] /\ stale' = stale \ {slot}
        /\ session' = session /\ nextToken' = nextToken
    BY <1>4 DEF Drop
  <2>2. PlaybackTypeOK'
    BY <2>1, <1>t DEF PlaybackTypeOK
  <2>3. prepared'[slot] = None /\ \A c \in Slot : c # slot => prepared'[c] = prepared[c]
    BY <2>1, <1>t
  <2> QED
    BY <2>1, <2>2, <2>3, <1>t DEF TokensAreOld, GenerationsAreOld, StaleIsOlder, HasSession
<1>5. ASSUME NEW s \in Session, NEW slot \in Slot, Commit(s, slot) PROVE Inv'
  <2> DEFINE later == Committed(s, prepared[slot])
  <2>1. prepared[slot] \in PreparedRecord
    BY <1>5, <1>p DEF Commit
  <2>2. later \in SessionRecord /\ later.token = session[s].token
            /\ later.generation > session[s].generation
    <3>1. session[s] \in SessionRecord
      BY <1>t
    <3> QED
      BY <2>1, <3>1 DEF Committed, SessionRecord, PreparedRecord
  <2>3. session' = [session EXCEPT ![s] = later]
    BY <1>5 DEF Commit
  <2>4. /\ prepared' = [prepared EXCEPT ![slot] = None] /\ nextToken' = nextToken
        /\ stale' = (stale \cup CandidatesOf(s)) \ {slot}
    BY <1>5 DEF Commit
  <2> HIDE DEF later
  <2>5. prepared'[slot] = None /\ \A c \in Slot : c # slot => prepared'[c] = prepared[c]
    BY <2>4, <1>t
  <2>6. prepared' \in [Slot -> PreparedRecord \cup {None}]
    BY <2>4, <1>t
  <2>7. stale' = {c \in stale \cup CandidatesOf(s) : prepared'[c] # None}
    BY <2>4, <2>5, <1>t DEF StaleIsOlder, CandidatesOf
  <2> QED
    BY <2>2, <2>3, <2>4, <2>5, <2>6, <2>7, LaterGeneration
<1>6. ASSUME NEW s \in Session, NEW frame \in Time, Update(s, frame) PROVE Inv'
  <2> DEFINE later == Updated(s, frame)
  <2>1. later \in SessionRecord /\ later.token = session[s].token
            /\ later.generation > session[s].generation
    <3>1. session[s] \in SessionRecord /\ "Running" \in SessionState
      BY <1>t DEF SessionState
    <3>2. \A n \in Nat, time \in Time, material \in Material \cup {None} :
              [session[s] EXCEPT !.generation = n, !.state = "Running", !.lastFrame = time,
                                 !.applied = material] \in SessionRecord
      BY <3>1 DEF SessionRecord
    <3>3. /\ session[s].generation \in Nat /\ session[s].generation + 1 \in Nat
          /\ session[s].override \in Material \cup {None}
      BY <1>g, <3>1 DEF SessionRecord
    <3>4. later \in SessionRecord
      BY <3>2, <3>3 DEF Updated
    <3>5. later.token = session[s].token /\ later.generation = session[s].generation + 1
      BY <3>1 DEF Updated, SessionRecord
    <3> QED
      BY <3>3, <3>4, <3>5
  <2>2. session' = [session EXCEPT ![s] = later]
    BY <1>6 DEF Update
  <2> HIDE DEF later
  <2>3. prepared' = prepared /\ nextToken' = nextToken /\ stale' = stale \cup CandidatesOf(s)
    BY <1>6 DEF Update
  <2>4. stale' = {c \in stale \cup CandidatesOf(s) : prepared'[c] # None}
    BY <2>3 DEF StaleIsOlder, CandidatesOf
  <2> QED
    BY <2>1, <2>2, <2>3, <2>4, <1>t, LaterGeneration
<1>7. ASSUME NEW s \in Session, Unload(s) PROVE Inv'
  <2> DEFINE later == [Fresh(session[s].token) EXCEPT
                          !.generation = session[s].generation + 1,
                          !.nextCandidate = session[s].nextCandidate]
  <2>1. Fresh(session[s].token) \in SessionRecord
    BY <1>g, FreshIsRecord
  <2>2. later \in SessionRecord /\ later.token = session[s].token
            /\ later.generation > session[s].generation
    <3>1. session[s].nextCandidate \in Nat /\ session[s].generation + 1 \in Nat
      BY <1>t, <1>g DEF SessionRecord
    <3>2. later \in SessionRecord
      BY <2>1, <3>1 DEF SessionRecord
    <3>3. later.token = session[s].token /\ later.generation = session[s].generation + 1
      BY <3>1 DEF Fresh
    <3> QED
      BY <3>2, <3>3, <1>g
  <2>3. session' = [session EXCEPT ![s] = later]
    BY <1>7, <1>t DEF Unload
  <2> HIDE DEF later
  <2>4. prepared' = prepared /\ nextToken' = nextToken /\ stale' = stale \cup CandidatesOf(s)
    BY <1>7 DEF Unload
  <2>5. stale' = {c \in stale \cup CandidatesOf(s) : prepared'[c] # None}
    BY <2>4 DEF StaleIsOlder, CandidatesOf
  <2> QED
    BY <2>2, <2>3, <2>4, <2>5, <1>t, LaterGeneration
<1>8. ASSUME NEW s \in Session, NEW override \in Material \cup {None},
             session' = [session EXCEPT ![s].override = override],
             UNCHANGED <<prepared, nextToken, stale>>
      PROVE  Inv'
  <2>1. \A t \in Session : /\ session'[t] \in SessionRecord
                           /\ session'[t].token = session[t].token
                           /\ session'[t].generation = session[t].generation
    BY <1>8, <1>t DEF SessionRecord
  <2>2. PlaybackTypeOK'
    BY <1>8, <2>1, <1>t DEF PlaybackTypeOK
  <2> QED
    BY <1>8, <2>1, <2>2, <1>t, <1>p DEF TokensAreOld, GenerationsAreOld, StaleIsOlder, HasSession
<1>9. CASE UNCHANGED playbackVars
  BY <1>9 DEF playbackVars, PlaybackTypeOK, TokensAreOld, GenerationsAreOld, StaleIsOlder, HasSession
<1>10. CASE PlaybackNext
  <2>1. ASSUME NEW s \in Session, NEW slot \in Slot, NEW source \in Source,
               NEW mode \in Mode, PrepareLoad(s, slot, source, mode)
        PROVE  Inv'
    BY <2>1, <1>3, PlaybackAssumption DEF PrepareLoad
  <2>2. ASSUME NEW s \in Session, NEW slot \in Slot, NEW source \in Source,
               NEW frame \in Time, NEW policy \in ReloadPolicy,
               PrepareReload(s, slot, source, frame, policy)
        PROVE  Inv'
    <3>1. session[s].mode \in PlaybackMode
      BY <2>2, <1>t DEF PrepareReload, SessionRecord
    <3>2. (IF policy = "RestartAtZero" THEN 0 ELSE frame) \in Time \cup {None}
      BY PlaybackAssumption
    <3> QED
      BY <2>2, <3>1, <3>2, <1>3 DEF PrepareReload
  <2>3. ASSUME NEW s \in Session, NEW material \in Material, AcquireHostOverride(s, material)
        PROVE  Inv'
    BY <2>3, <1>8 DEF AcquireHostOverride
  <2>4. ASSUME NEW s \in Session, ReleaseHostOverride(s) PROVE Inv'
    BY <2>4, <1>8 DEF ReleaseHostOverride
  <2> QED
    BY <1>10, <1>1, <1>2, <1>4, <1>5, <1>6, <1>7, <2>1, <2>2, <2>3, <2>4 DEF PlaybackNext
<1> QED
  BY <1>9, <1>10

(* Sessions, candidates and the history have their types in every state.    *)
THEOREM TypeCorrect == PlaybackSpec => []PlaybackTypeOK
<1>1. Inv => PlaybackTypeOK
  BY DEF Inv
<1> QED
  BY InitHasInv, NextKeepsInv, <1>1, PTL DEF PlaybackSpec

(* A call that takes a candidate out of its slot and changes its session   *)
(* took one that is not stale.                                             *)
LEMMA NextIsCurrent ==
    Inv /\ [PlaybackNext]_playbackVars => \A slot \in Slot : Commits(slot) => slot \notin stale
<1> SUFFICES ASSUME Inv, [PlaybackNext]_playbackVars, NEW slot \in Slot, Commits(slot)
             PROVE  slot \notin stale
  OBVIOUS
<1>1. prepared \in [Slot -> PreparedRecord \cup {None}]
  BY DEF Inv, PlaybackTypeOK
<1>2. PICK s \in Session, c \in Slot : Commit(s, c)
  <2>1. prepared'[slot] # prepared[slot] /\ session' # session
    BY DEF Commits
  <2>2. ASSUME NEW s \in Session, NEW c \in Slot, NEW source \in Source, NEW mode \in PlaybackMode,
               NEW replacement \in BOOLEAN, NEW target,
               Prepare(s, c, source, mode, replacement, target)
        PROVE  FALSE
    <3>1. prepared[c] = None /\ (prepared' = prepared \/ \E x : prepared' = [prepared EXCEPT ![c] = x])
      BY <2>2 DEF Prepare
    <3>2. c # slot
      BY <3>1 DEF Commits
    <3> QED
      BY <3>1, <3>2, <2>1, <1>1
  <2>3. ASSUME NEW s \in Session, NEW c \in Slot, NEW source \in Source, NEW mode \in Mode
        PROVE  ~PrepareLoad(s, c, source, mode)
    BY <2>2, PlaybackAssumption DEF PrepareLoad
  <2>4. ASSUME NEW s \in Session, NEW c \in Slot, NEW source \in Source, NEW frame \in Time,
               NEW policy \in ReloadPolicy
        PROVE  ~PrepareReload(s, c, source, frame, policy)
    <3> SUFFICES ASSUME PrepareReload(s, c, source, frame, policy) PROVE FALSE
      OBVIOUS
    <3>1. session[s].mode \in PlaybackMode
      BY DEF PrepareReload, Inv, PlaybackTypeOK, SessionRecord
    <3> QED
      BY <3>1, <2>2 DEF PrepareReload
  <2>5. \A s \in Session : ~Create(s) /\ ~Destroy(s) /\ ~Unload(s) /\ ~ReleaseHostOverride(s)
    BY <2>1 DEF Create, Destroy, Unload, ReleaseHostOverride
  <2>6. \A c \in Slot : ~Drop(c)
    BY <2>1 DEF Drop
  <2>7. \A s \in Session :
            /\ \A frame \in Time : ~Update(s, frame)
            /\ \A material \in Material : ~AcquireHostOverride(s, material)
    BY <2>1 DEF Update, AcquireHostOverride
  <2>8. PlaybackNext
    BY <2>1 DEF playbackVars
  <2> QED
    BY <2>3, <2>4, <2>5, <2>6, <2>7, <2>8 DEF PlaybackNext
<1>3. c = slot
  BY <1>1, <1>2 DEF Commit, Commits
<1>4. /\ prepared[slot] # None /\ prepared[slot].owner = s
      /\ prepared[slot].token = session[s].token
      /\ prepared[slot].generation = session[s].generation
  BY <1>2, <1>3 DEF Commit, Accepts
<1>5. prepared[slot].generation \in Nat
  BY <1>1, <1>4 DEF PreparedRecord
<1> QED
  BY <1>4, <1>5 DEF Inv, StaleIsOlder, HasSession

(* Nothing is committed over a session that has changed since, for any     *)
(* sessions, slots, sources and number of calls.                           *)
THEOREM CommitsAreCurrent == PlaybackSpec => CommitIsCurrent
<1>1. Inv /\ [PlaybackNext]_playbackVars =>
          [\A slot \in Slot : Commits(slot) => slot \notin stale]_playbackVars
  BY NextIsCurrent
<1> QED
  BY InitHasInv, NextKeepsInv, <1>1, PTL DEF PlaybackSpec, CommitIsCurrent

-----------------------------------------------------------------------------
(* The host.  A token is given to one candidate only: its session has a    *)
(* token of its own and counts its candidates.                             *)
NumbersAreUnique ==
    /\ nextToken <= MaxToken + 1
    /\ \A s \in Session : /\ session[s].nextCandidate \in 1..(MaxCandidate + 1)
                          /\ session[s].active < session[s].nextCandidate
                          /\ IsActive(s) => session[s].content # None
    /\ \A s, t \in Session : Exists(s) /\ session[s].token = session[t].token => s = t
    /\ \A slot \in Slot : prepared[slot] # None => prepared[slot].number \in 1..MaxCandidate
    /\ \A slot \in Slot, s \in Session :
           prepared[slot] # None /\ prepared[slot].token = session[s].token =>
               /\ prepared[slot].number < session[s].nextCandidate
               /\ prepared[slot].number # session[s].active
    /\ \A slot, other \in Slot :
           prepared[slot] # None /\ prepared[other] # None /\ TokenOf(slot) = TokenOf(other) =>
               slot = other

(* A cache of the adapter has the manifest of whatever has its token, now  *)
(* and later: no candidate to come is given that token.                    *)
IsCacheOfToken(cache) ==
    /\ cache \in Cache
    /\ cache.token[1] < nextToken
    /\ \A s \in Session :
           /\ session[s].token = cache.token[1] => cache.token[2] < session[s].nextCandidate
           /\ IsActive(s) /\ ActiveToken(s) = cache.token =>
                  session[s].content.manifest = cache.manifest
    /\ \A slot \in Slot :
           prepared[slot] # None /\ TokenOf(slot) = cache.token =>
               prepared[slot].content.manifest = cache.manifest

CachesAreOfTokens ==
    /\ gl.pending # None => IsCacheOfToken(gl.pending)
    /\ gl.active # None => IsCacheOfToken(gl.active)

Backend ==
    [pending: Cache \cup {None}, active: Cache \cup {None}, retired: Cache \cup {None},
     candidate: Outstanding \cup {None}, pendingGeneration: Nat, nextGeneration: Nat,
     generation: Nat, submitted: BOOLEAN, lost: BOOLEAN, terminated: BOOLEAN]

(* The host holds a handle exactly while the adapter has a candidate, which*)
(* is what it has pending; the retired cache was freed when it was prepared*)
(* and nothing is retired before the candidate is taken.                   *)
HandleFits ==
    /\ handle = None => gl.candidate = None /\ gl.pending = None
    /\ handle # None =>
           /\ gl.candidate # None /\ gl.pending # None /\ gl.retired = None
           /\ handle = GL!Handle(gl)
           /\ GL!IsPending(gl)

HostInv ==
    /\ Inv /\ NumbersAreUnique /\ CachesAreOfTokens
    /\ gl \in Backend /\ handle \in HeldHandle \cup {None} /\ ~gl.terminated
    /\ HandleFits

(* What a call leaves of a session: nothing, a new one, or the same one,   *)
(* with what it played, with nothing, or with the content of a candidate.  *)
TokenGoesOn(old, later) ==
    \/ later.token = 0
    \/ later.token = nextToken /\ nextToken' = nextToken + 1
    \/ later.token = old.token /\ later.nextCandidate = old.nextCandidate

PlaysOn(old, later) ==
    \/ later.active = 0 /\ later.state = "Empty"
    \/ /\ later.token = old.token
       /\ later.active = old.active /\ later.content = old.content
       /\ later.state = "Empty" \/ old.state # "Empty"
    \/ \E c \in Slot :
          /\ prepared[c] # None /\ prepared'[c] = None
          /\ prepared[c].token = old.token /\ later.token = old.token
          /\ later.active = prepared[c].number /\ later.content = prepared[c].content

(* The numbers stay unique and a cache that of its token when one session  *)
(* changes and no candidate is new.                                        *)
LEMMA SessionChanges ==
    ASSUME Inv, NumbersAreUnique, NEW s \in Session, NEW later \in SessionRecord,
           session' = [session EXCEPT ![s] = later],
           nextToken' \in {nextToken, nextToken + 1}, nextToken' <= MaxToken + 1,
           \A slot \in Slot : prepared'[slot] \in {prepared[slot], None},
           TokenGoesOn(session[s], later), PlaysOn(session[s], later),
           later.nextCandidate \in 1..(MaxCandidate + 1), later.active < later.nextCandidate,
           later.state # "Empty" => later.content # None
    PROVE  /\ NumbersAreUnique'
           /\ \A cache : IsCacheOfToken(cache) => IsCacheOfToken(cache)'
<1>t. /\ session \in [Session -> SessionRecord] /\ nextToken \in Nat
      /\ prepared \in [Slot -> PreparedRecord \cup {None}]
  BY DEF Inv, PlaybackTypeOK
<1>s. /\ session'[s] = later
      /\ \A t \in Session : t # s => session'[t] = session[t]
  BY <1>t
<1>n. /\ \A t \in Session : /\ session[t].token \in Nat /\ session[t].active \in Nat
                            /\ session[t].nextCandidate \in Nat /\ session[t].token < nextToken
                            /\ session[t].state \in SessionState
      /\ later.token \in Nat /\ later.active \in Nat /\ later.nextCandidate \in Nat
      /\ later.state \in SessionState
  BY <1>t DEF SessionRecord, Inv, TokensAreOld
<1>p. \A slot \in Slot : prepared[slot] # None =>
          /\ prepared[slot].token \in Nat /\ prepared[slot].number \in Nat
          /\ prepared[slot].token # 0 /\ prepared[slot].token < nextToken
  BY <1>t DEF PreparedRecord, Inv, TokensAreOld
<1>q. \A slot \in Slot : prepared'[slot] # None =>
          prepared[slot] # None /\ prepared'[slot] = prepared[slot]
  OBVIOUS
<1>a. \A t \in Session : IsActive(t) <=> session[t].state # "Empty"
  BY <1>n DEF IsActive, SessionState
<1>b. \A t \in Session : IsActive(t)' <=> session'[t].state # "Empty"
  BY <1>n, <1>s DEF IsActive, SessionState
<1>1. /\ nextToken' <= MaxToken + 1
      /\ \A t \in Session : /\ session'[t].nextCandidate \in 1..(MaxCandidate + 1)
                            /\ session'[t].active < session'[t].nextCandidate
                            /\ IsActive(t)' => session'[t].content # None
  BY <1>s, <1>a, <1>b DEF NumbersAreUnique
<1>2. \A t, u \in Session :
          session'[t].token # 0 /\ session'[t].token = session'[u].token => t = u
  <2> SUFFICES ASSUME NEW t \in Session, NEW u \in Session, t # u,
                      session'[t].token # 0, session'[t].token = session'[u].token
               PROVE  FALSE
    OBVIOUS
  <2>1. ASSUME NEW v \in Session, v # s, session[v].token = later.token, later.token # 0 PROVE FALSE
    <3>1. later.token = session[s].token
      BY <2>1, <1>n DEF TokenGoesOn
    <3> QED
      BY <2>1, <3>1, <1>n DEF NumbersAreUnique, Exists
  <2>2. t = s \/ u = s
    BY <1>s, <1>n DEF NumbersAreUnique, Exists
  <2> QED
    BY <2>1, <2>2, <1>s
<1>3. \A slot \in Slot : prepared'[slot] # None => prepared'[slot].number \in 1..MaxCandidate
  BY <1>q DEF NumbersAreUnique
<1>4. ASSUME NEW slot \in Slot, NEW t \in Session, prepared'[slot] # None,
             prepared'[slot].token = session'[t].token
      PROVE  /\ prepared'[slot].number < session'[t].nextCandidate
             /\ prepared'[slot].number # session'[t].active
  <2>1. prepared[slot] # None /\ prepared'[slot] = prepared[slot]
    BY <1>4, <1>q
  <2>2. CASE t # s
    BY <1>4, <2>1, <2>2, <1>s DEF NumbersAreUnique
  <2>3. CASE t = s
    <3>1. later.token = session[s].token /\ later.nextCandidate = session[s].nextCandidate
      BY <1>4, <2>1, <2>3, <1>s, <1>p, <1>n DEF TokenGoesOn
    <3>2. /\ prepared[slot].number < session[s].nextCandidate
          /\ prepared[slot].number # session[s].active /\ prepared[slot].number # 0
      BY <1>4, <2>1, <2>3, <3>1, <1>s DEF NumbersAreUnique
    <3>3. ASSUME NEW c \in Slot, prepared[c] # None, prepared'[c] = None,
                 prepared[c].token = session[s].token
          PROVE  prepared[c].number # prepared[slot].number
      <4>1. c # slot
        BY <3>3, <1>4
      <4> QED
        BY <3>3, <4>1, <1>4, <2>1, <2>3, <3>1, <1>s DEF NumbersAreUnique, TokenOf
    <3>4. prepared[slot].number # later.active
      BY <3>2, <3>3 DEF PlaysOn
    <3> QED
      BY <2>1, <2>3, <3>1, <3>2, <3>4, <1>s
  <2> QED
    BY <2>2, <2>3
<1>5. \A slot, other \in Slot :
          prepared'[slot] # None /\ prepared'[other] # None /\ TokenOf(slot)' = TokenOf(other)' =>
              slot = other
  BY <1>q DEF NumbersAreUnique, TokenOf
<1>6. NumbersAreUnique'
  BY <1>1, <1>2, <1>3, <1>4, <1>5 DEF NumbersAreUnique, Exists
<1>7. ASSUME NEW cache, IsCacheOfToken(cache) PROVE IsCacheOfToken(cache)'
  <2>t. cache.token \in Token /\ cache.token[1] \in Nat /\ cache.token[2] \in Nat /\ cache.token[1] # 0
        /\ cache.token[1] < nextToken /\ cache.token[2] # 0
        /\ cache.token = <<cache.token[1], cache.token[2]>>
    <3>1. cache.token \in Token
      BY <1>7 DEF IsCacheOfToken, Cache
    <3>2. MaxToken \in Nat /\ MaxCandidate \in Nat
      BY PlaybackAssumption
    <3> QED
      BY <3>1, <3>2, <1>7 DEF IsCacheOfToken, Token
  <2>1. cache.token[1] < nextToken'
    BY <2>t, <1>t
  <2>2. ASSUME NEW t \in Session, session'[t].token = cache.token[1]
        PROVE  /\ session[t].token = cache.token[1]
               /\ session'[t].nextCandidate = session[t].nextCandidate
    BY <2>2, <2>t, <1>s, <1>n DEF TokenGoesOn
  <2>3. ASSUME NEW t \in Session, IsActive(t)', ActiveToken(t)' = cache.token
        PROVE  session'[t].content.manifest = cache.manifest
    <3>1. session'[t].token = cache.token[1] /\ session'[t].active = cache.token[2]
      BY <2>3, <2>t DEF ActiveToken
    <3>2. CASE t # s
      BY <3>1, <3>2, <2>3, <2>t, <1>7, <1>s, <1>a, <1>b DEF IsCacheOfToken, ActiveToken
    <3>3. CASE t = s
      <4>1. later.token = session[s].token
        BY <3>1, <3>3, <2>2, <1>s
      <4>2. later.active # 0 /\ later.state # "Empty"
        BY <3>1, <3>3, <2>3, <2>t, <1>s, <1>b
      <4>3. CASE /\ later.active = session[s].active /\ later.content = session[s].content
                 /\ session[s].state # "Empty"
        <5>1. IsActive(s) /\ ActiveToken(s) = cache.token
          BY <4>1, <4>3, <3>1, <3>3, <2>t, <1>s, <1>a DEF ActiveToken
        <5> QED
          BY <5>1, <4>3, <3>3, <1>7, <1>s DEF IsCacheOfToken
      <4>4. ASSUME NEW c \in Slot, prepared[c] # None, prepared[c].token = session[s].token,
                   later.active = prepared[c].number, later.content = prepared[c].content
            PROVE  later.content.manifest = cache.manifest
        <5>1. TokenOf(c) = cache.token
          BY <4>1, <4>4, <3>1, <3>3, <2>t, <1>s DEF TokenOf
        <5> QED
          BY <5>1, <4>4, <1>7 DEF IsCacheOfToken
      <4> QED
        BY <4>2, <4>3, <4>4, <3>3, <1>s DEF PlaysOn
    <3> QED
      BY <3>2, <3>3
  <2>4. \A slot \in Slot : prepared'[slot] # None /\ TokenOf(slot)' = cache.token =>
            prepared'[slot].content.manifest = cache.manifest
    BY <1>q, <1>7 DEF IsCacheOfToken, TokenOf
  <2> QED
    BY <2>1, <2>2, <2>3, <2>4, <1>7 DEF IsCacheOfToken
<1> QED
  BY <1>6, <1>7

(* A new candidate is given a token that nothing has.                       *)
LEMMA CandidateIsNew ==
    ASSUME Inv, NumbersAreUnique, NEW s \in Session, NEW c \in Slot, NEW candidate,
           Exists(s), prepared[c] = None,
           candidate.token = session[s].token, candidate.number = session[s].nextCandidate,
           session[s].nextCandidate <= MaxCandidate,
           prepared' = [prepared EXCEPT ![c] = candidate],
           session' = [session EXCEPT ![s].nextCandidate = @ + 1],
           nextToken' = nextToken
    PROVE  /\ NumbersAreUnique'
           /\ \A cache : IsCacheOfToken(cache) => IsCacheOfToken(cache)'
<1>t. /\ session \in [Session -> SessionRecord] /\ nextToken \in Nat
      /\ prepared \in [Slot -> PreparedRecord \cup {None}] /\ MaxCandidate \in Nat
  BY PlaybackAssumption DEF Inv, PlaybackTypeOK
<1>s. /\ session'[s] = [session[s] EXCEPT !.nextCandidate = @ + 1]
      /\ \A t \in Session : t # s => session'[t] = session[t]
  BY <1>t
<1>c. /\ prepared'[c] = candidate
      /\ \A slot \in Slot : slot # c => prepared'[slot] = prepared[slot]
  BY <1>t
<1>n. \A t \in Session : /\ session[t].token \in Nat /\ session[t].active \in Nat
                         /\ session[t].nextCandidate \in Nat
  BY <1>t DEF SessionRecord
<1>p. \A slot \in Slot : prepared[slot] # None =>
          prepared[slot].token \in Nat /\ prepared[slot].number \in Nat
  BY <1>t DEF PreparedRecord
<1>e. \A t \in Session : /\ session'[t].token = session[t].token
                         /\ session'[t].active = session[t].active
                         /\ session'[t].content = session[t].content
                         /\ session'[t].state = session[t].state
                         /\ t # s => session'[t].nextCandidate = session[t].nextCandidate
                         /\ session[t].nextCandidate <= session'[t].nextCandidate
  <2>1. session[s] \in SessionRecord
    BY <1>t
  <2> QED
    BY <2>1, <1>s, <1>n DEF SessionRecord
<1>f. session'[s].nextCandidate = session[s].nextCandidate + 1
  <2>1. session[s] \in SessionRecord
    BY <1>t
  <2> QED
    BY <2>1, <1>s DEF SessionRecord
<1>a. \A t \in Session : IsActive(t)' <=> IsActive(t)
  BY <1>e DEF IsActive
<1>1. \A t \in Session : /\ session'[t].nextCandidate \in 1..(MaxCandidate + 1)
                         /\ session'[t].active < session'[t].nextCandidate
                         /\ IsActive(t)' => session'[t].content # None
  BY <1>t, <1>e, <1>f, <1>a, <1>n DEF NumbersAreUnique
<1>2. \A t, u \in Session :
          session'[t].token # 0 /\ session'[t].token = session'[u].token => t = u
  BY <1>e DEF NumbersAreUnique, Exists
<1>3. \A slot \in Slot : prepared'[slot] # None => prepared'[slot].number \in 1..MaxCandidate
  BY <1>c, <1>t, <1>n DEF NumbersAreUnique
<1>4. ASSUME NEW slot \in Slot, NEW t \in Session, prepared'[slot] # None,
             prepared'[slot].token = session'[t].token
      PROVE  /\ prepared'[slot].number < session'[t].nextCandidate
             /\ prepared'[slot].number # session'[t].active
  <2>1. CASE slot = c
    <3>1. t = s
      BY <1>4, <2>1, <1>c, <1>e DEF NumbersAreUnique, Exists
    <3> QED
      BY <2>1, <3>1, <1>c, <1>e, <1>f, <1>n DEF NumbersAreUnique
  <2>2. CASE slot # c
    <3>1. prepared'[slot] = prepared[slot]
      BY <2>2, <1>c
    <3>2. /\ prepared[slot].number < session[t].nextCandidate
          /\ prepared[slot].number # session[t].active
      BY <1>4, <3>1, <1>e DEF NumbersAreUnique
    <3>3. /\ prepared[slot].number \in Nat /\ session'[t].nextCandidate \in Nat
          /\ session[t].nextCandidate \in Nat
      BY <1>4, <3>1, <1>1, <1>n, <1>p
    <3> QED
      BY <3>1, <3>2, <3>3, <1>e
  <2> QED
    BY <2>1, <2>2
<1>5. ASSUME NEW slot \in Slot, NEW other \in Slot, slot # other,
             prepared'[slot] # None, prepared'[other] # None,
             prepared'[slot].token = prepared'[other].token,
             prepared'[slot].number = prepared'[other].number
      PROVE  FALSE
  <2>1. ASSUME NEW d \in Slot, d # c, prepared[d] # None,
               prepared[d].token = candidate.token, prepared[d].number = candidate.number
        PROVE  FALSE
    <3>1. prepared[d].number < session[s].nextCandidate
      BY <2>1 DEF NumbersAreUnique
    <3> QED
      BY <2>1, <3>1, <1>n, <1>p
  <2> QED
    BY <1>5, <2>1, <1>c DEF NumbersAreUnique, TokenOf
<1>6. NumbersAreUnique'
  <2>1. nextToken' <= MaxToken + 1
    BY DEF NumbersAreUnique
  <2> QED
    BY <1>1, <1>2, <1>3, <1>4, <1>5, <2>1 DEF NumbersAreUnique, Exists, TokenOf
<1>7. ASSUME NEW cache, IsCacheOfToken(cache) PROVE IsCacheOfToken(cache)'
  <2>t. cache.token[1] \in Nat /\ cache.token[2] \in Nat
    BY <1>7, <1>t, PlaybackAssumption DEF IsCacheOfToken, Cache, Token
  <2>1. \A t \in Session : session'[t].token = cache.token[1] =>
            cache.token[2] < session'[t].nextCandidate
    BY <1>7, <2>t, <1>e, <1>1, <1>n DEF IsCacheOfToken
  <2>2. \A t \in Session : IsActive(t)' /\ ActiveToken(t)' = cache.token =>
            session'[t].content.manifest = cache.manifest
    BY <1>7, <1>a, <1>e DEF IsCacheOfToken, ActiveToken
  <2>3. ASSUME NEW slot \in Slot, prepared'[slot] # None, TokenOf(slot)' = cache.token
        PROVE  prepared'[slot].content.manifest = cache.manifest
    <3>1. slot # c
      <4> SUFFICES ASSUME slot = c PROVE FALSE
        OBVIOUS
      <4>1. cache.token[1] = session[s].token /\ cache.token[2] = session[s].nextCandidate
        BY <2>3, <1>c DEF TokenOf
      <4> QED
        BY <4>1, <1>7, <1>n DEF IsCacheOfToken
    <3> QED
      BY <2>3, <3>1, <1>7, <1>c DEF IsCacheOfToken, TokenOf
  <2> QED
    BY <1>7, <2>1, <2>2, <2>3 DEF IsCacheOfToken
<1> QED
  BY <1>6, <1>7

(* Every call of the session keeps the numbers unique and a cache that of  *)
(* its token.                                                              *)
LEMMA CallKeepsNumbers ==
    Inv /\ NumbersAreUnique /\ [PlaybackNext]_playbackVars =>
        /\ NumbersAreUnique'
        /\ \A cache : IsCacheOfToken(cache) => IsCacheOfToken(cache)'
<1> DEFINE Kept == /\ NumbersAreUnique'
                   /\ \A cache : IsCacheOfToken(cache) => IsCacheOfToken(cache)'
<1> SUFFICES ASSUME Inv, NumbersAreUnique, [PlaybackNext]_playbackVars PROVE Kept
  OBVIOUS
<1>t. /\ session \in [Session -> SessionRecord] /\ nextToken \in Nat
      /\ prepared \in [Slot -> PreparedRecord \cup {None}] /\ MaxCandidate \in Nat
      /\ None \notin Content
  BY PlaybackAssumption DEF Inv, PlaybackTypeOK
<1>n. \A t \in Session : /\ session[t].token \in Nat /\ session[t].active \in Nat
                         /\ session[t].nextCandidate \in 1..(MaxCandidate + 1)
                         /\ session[t].active < session[t].nextCandidate
                         /\ session[t].state \in SessionState
                         /\ session[t].state # "Empty" => session[t].content # None
  BY <1>t DEF SessionRecord, NumbersAreUnique, IsActive, SessionState
<1>p. \A slot \in Slot : prepared[slot] # None =>
          /\ prepared[slot] \in PreparedRecord /\ prepared[slot].owner \in Session
          /\ prepared[slot].content # None
  BY <1>t DEF PreparedRecord
<1>m. nextToken <= MaxToken + 1 /\ MaxToken \in Nat
  BY PlaybackAssumption DEF NumbersAreUnique
<1>f. \A token \in Nat : /\ Fresh(token) \in SessionRecord /\ Fresh(token).token = token
                         /\ Fresh(token).active = 0 /\ Fresh(token).state = "Empty"
                         /\ Fresh(token).nextCandidate = 1
  BY FreshIsRecord DEF Fresh
<1>u. ASSUME NEW s \in Session, NEW later \in SessionRecord,
             session' = [session EXCEPT ![s] = later],
             nextToken' = nextToken, \A slot \in Slot : prepared'[slot] \in {prepared[slot], None},
             TokenGoesOn(session[s], later), PlaysOn(session[s], later),
             later.nextCandidate \in 1..(MaxCandidate + 1), later.active < later.nextCandidate,
             later.state # "Empty" => later.content # None
      PROVE  Kept
  BY <1>u, <1>m, SessionChanges
<1> HIDE DEF Kept
<1>1. ASSUME NEW s \in Session, Create(s) PROVE Kept
  <2>1. /\ session' = [session EXCEPT ![s] = Fresh(nextToken)] /\ nextToken <= MaxToken
        /\ nextToken' = nextToken + 1 /\ prepared' = prepared
    BY <1>1 DEF Create
  <2>2. PICK later \in SessionRecord : later = Fresh(nextToken)
    BY <1>f, <1>t
  <2>3. later.token = nextToken /\ later.active = 0 /\ later.state = "Empty" /\ later.nextCandidate = 1
    BY <2>2, <1>f, <1>t
  <2>4. TokenGoesOn(session[s], later) /\ PlaysOn(session[s], later)
    BY <2>1, <2>3 DEF TokenGoesOn, PlaysOn
  <2>5. session' = [session EXCEPT ![s] = later] /\ nextToken' <= MaxToken + 1
    BY <2>1, <2>2, <1>t, <1>m
  <2>6. later.nextCandidate \in 1..(MaxCandidate + 1) /\ later.active < later.nextCandidate
    BY <2>3, <1>t
  <2>7. nextToken' \in {nextToken, nextToken + 1}
        /\ \A slot \in Slot : prepared'[slot] \in {prepared[slot], None}
    BY <2>1
  <2> QED
    BY <2>3, <2>4, <2>5, <2>6, <2>7, SessionChanges DEF Kept
<1>2. ASSUME NEW s \in Session, Destroy(s) PROVE Kept
  <2>1. session' = [session EXCEPT ![s] = Fresh(0)] /\ nextToken' = nextToken /\ prepared' = prepared
    BY <1>2 DEF Destroy
  <2>2. PICK later \in SessionRecord : later = Fresh(0)
    BY <1>f
  <2>3. later.token = 0 /\ later.active = 0 /\ later.state = "Empty" /\ later.nextCandidate = 1
    BY <2>2, <1>f
  <2>4. TokenGoesOn(session[s], later) /\ PlaysOn(session[s], later)
    BY <2>3 DEF TokenGoesOn, PlaysOn
  <2>5. later.nextCandidate \in 1..(MaxCandidate + 1) /\ later.active < later.nextCandidate
    BY <2>3, <1>t
  <2>6. session' = [session EXCEPT ![s] = later]
        /\ \A slot \in Slot : prepared'[slot] \in {prepared[slot], None}
    BY <2>1, <2>2
  <2> QED
    BY <2>1, <2>3, <2>4, <2>5, <2>6, <1>u
<1>3. ASSUME NEW s \in Session, NEW slot \in Slot, NEW source \in Source, NEW mode \in PlaybackMode,
             NEW replacement \in BOOLEAN, NEW target \in Time \cup {None},
             Prepare(s, slot, source, mode, replacement, target)
      PROVE  Kept
  <2>1. PICK content \in Preparations[source] :
            IF content = None THEN UNCHANGED <<session, prepared>>
            ELSE /\ prepared' = [prepared EXCEPT ![slot] =
                        Candidate(s, mode, replacement, target, content)]
                 /\ session' = [session EXCEPT ![s].nextCandidate = @ + 1]
    BY <1>3 DEF Prepare
  <2>2. /\ nextToken' = nextToken /\ Exists(s) /\ prepared[slot] = None
        /\ session[s].nextCandidate <= MaxCandidate
    BY <1>3 DEF Prepare
  <2>3. CASE content = None
    BY <2>1, <2>2, <2>3 DEF Kept, NumbersAreUnique, IsCacheOfToken, IsActive, ActiveToken, TokenOf, Exists
  <2>4. CASE content # None
    <3>1. PICK candidate : candidate = Candidate(s, mode, replacement, target, content)
      OBVIOUS
    <3>2. candidate.token = session[s].token /\ candidate.number = session[s].nextCandidate
      BY <3>1 DEF Candidate
    <3> QED
      BY <2>1, <2>2, <2>4, <3>1, <3>2, CandidateIsNew DEF Kept
  <2> QED
    BY <2>3, <2>4
<1>4. ASSUME NEW slot \in Slot, Drop(slot) PROVE Kept
  <2>1. /\ prepared[slot] # None /\ prepared' = [prepared EXCEPT ![slot] = None]
        /\ session' = session /\ nextToken' = nextToken
    BY <1>4 DEF Drop
  <2>2. PICK s \in Session : s = prepared[slot].owner
    BY <2>1, <1>p
  <2>3. PICK later \in SessionRecord : later = session[s]
    BY <1>t
  <2>4. session' = [session EXCEPT ![s] = later]
    BY <2>1, <2>3, <1>t
  <2>5. TokenGoesOn(session[s], later) /\ PlaysOn(session[s], later)
    BY <2>3 DEF TokenGoesOn, PlaysOn
  <2>6. \A c \in Slot : prepared'[c] \in {prepared[c], None}
    BY <2>1, <1>t
  <2> QED
    BY <2>1, <2>3, <2>4, <2>5, <2>6, <1>n, <1>u
<1>5. ASSUME NEW s \in Session, NEW slot \in Slot, Commit(s, slot) PROVE Kept
  <2>1. /\ prepared[slot] # None /\ prepared[slot].token = session[s].token
        /\ session' = [session EXCEPT ![s] = Committed(s, prepared[slot])]
        /\ prepared' = [prepared EXCEPT ![slot] = None] /\ nextToken' = nextToken
    BY <1>5 DEF Commit, Accepts
  <2>2. PICK later : later = Committed(s, prepared[slot])
    OBVIOUS
  <2>3. /\ later.token = session[s].token /\ later.state = prepared[slot].state
        /\ later.content = prepared[slot].content /\ later.active = prepared[slot].number
        /\ later.nextCandidate = session[s].nextCandidate
    BY <2>2 DEF Committed
  <2>4. later \in SessionRecord
    <3>1. session[s] \in SessionRecord /\ prepared[slot] \in PreparedRecord
      BY <2>1, <1>t, <1>p
    <3> QED
      BY <3>1, <2>2 DEF Committed, SessionRecord, PreparedRecord
  <2>5. prepared'[slot] = None /\ \A c \in Slot : prepared'[c] \in {prepared[c], None}
    BY <2>1, <1>t
  <2>6. TokenGoesOn(session[s], later) /\ PlaysOn(session[s], later)
    BY <2>1, <2>3, <2>5 DEF TokenGoesOn, PlaysOn
  <2>7. later.active < later.nextCandidate
    BY <2>1, <2>3 DEF NumbersAreUnique
  <2>8. session' = [session EXCEPT ![s] = later]
    BY <2>1, <2>2
  <2>9. later.content # None /\ later.nextCandidate \in 1..(MaxCandidate + 1)
    BY <2>1, <2>3, <1>n, <1>p
  <2> QED
    BY <2>1, <2>4, <2>5, <2>6, <2>7, <2>8, <2>9, <1>u
<1>6. ASSUME NEW s \in Session, NEW later \in SessionRecord,
             session' = [session EXCEPT ![s] = later], prepared' = prepared, nextToken' = nextToken,
             later.token = session[s].token, later.active = session[s].active,
             later.content = session[s].content, later.nextCandidate = session[s].nextCandidate,
             session[s].state # "Empty"
      PROVE  Kept
  <2>1. TokenGoesOn(session[s], later) /\ PlaysOn(session[s], later)
    BY <1>6 DEF TokenGoesOn, PlaysOn
  <2> QED
    BY <2>1, <1>6, <1>n, <1>u
<1>7. ASSUME NEW s \in Session, NEW frame \in Time, Update(s, frame) PROVE Kept
  <2>1. /\ session' = [session EXCEPT ![s] = Updated(s, frame)] /\ prepared' = prepared
        /\ nextToken' = nextToken /\ session[s].state # "Empty"
    BY <1>7 DEF Update, IsActive
  <2>2. session[s] \in SessionRecord
    BY <1>t
  <2>3. PICK later : later = Updated(s, frame)
    OBVIOUS
  <2>4. later \in SessionRecord
    <3>1. session'[s] = later
      BY <2>1, <2>3, <1>t
    <3>2. Inv'
      BY NextKeepsInv
    <3> QED
      BY <3>1, <3>2 DEF Inv, PlaybackTypeOK
  <2>5. /\ later.token = session[s].token /\ later.active = session[s].active
        /\ later.content = session[s].content /\ later.nextCandidate = session[s].nextCandidate
    BY <2>2, <2>3 DEF Updated, SessionRecord
  <2> QED
    BY <2>1, <2>3, <2>4, <2>5, <1>6
<1>8. ASSUME NEW s \in Session, Unload(s) PROVE Kept
  <2>1. PICK later : later = [Fresh(session[s].token) EXCEPT
                                 !.generation = session[s].generation + 1,
                                 !.nextCandidate = session[s].nextCandidate]
    OBVIOUS
  <2>2. /\ session' = [session EXCEPT ![s] = later] /\ prepared' = prepared
        /\ nextToken' = nextToken
    BY <1>8, <1>t, <2>1 DEF Unload
  <2>3. later \in SessionRecord
    <3>1. session'[s] = later
      BY <2>2, <1>t
    <3>2. Inv'
      BY NextKeepsInv
    <3> QED
      BY <3>1, <3>2 DEF Inv, PlaybackTypeOK
  <2>4. /\ later.token = session[s].token /\ later.active = 0 /\ later.state = "Empty"
        /\ later.nextCandidate = session[s].nextCandidate
    BY <2>1 DEF Fresh
  <2>5. TokenGoesOn(session[s], later) /\ PlaysOn(session[s], later)
    BY <2>4 DEF TokenGoesOn, PlaysOn
  <2>6. later.nextCandidate \in 1..(MaxCandidate + 1) /\ later.active < later.nextCandidate
    BY <2>4, <1>n, <1>t
  <2>7. \A slot \in Slot : prepared'[slot] \in {prepared[slot], None}
    BY <2>2
  <2> QED
    BY <2>2, <2>3, <2>4, <2>5, <2>6, <2>7, <1>u
<1>9. ASSUME NEW s \in Session, NEW override \in Material \cup {None}, IsActive(s),
             session' = [session EXCEPT ![s].override = override],
             UNCHANGED <<prepared, nextToken, stale>>
      PROVE  Kept
  <2>1. session[s] \in SessionRecord /\ session[s].state # "Empty"
    BY <1>9, <1>t DEF IsActive
  <2>2. PICK later : later = [session[s] EXCEPT !.override = override]
    OBVIOUS
  <2>3. /\ later \in SessionRecord
        /\ later.token = session[s].token /\ later.active = session[s].active
        /\ later.content = session[s].content /\ later.nextCandidate = session[s].nextCandidate
    BY <2>1, <2>2 DEF SessionRecord
  <2>4. session' = [session EXCEPT ![s] = later]
    BY <1>9, <2>2, <1>t
  <2> QED
    BY <1>9, <2>1, <2>3, <2>4, <1>6
<1>10. CASE UNCHANGED playbackVars
  BY <1>10 DEF playbackVars, Kept, NumbersAreUnique, IsCacheOfToken, IsActive, ActiveToken, TokenOf, Exists
<1>11. CASE PlaybackNext
  <2>1. ASSUME NEW s \in Session, NEW slot \in Slot, NEW source \in Source,
               NEW mode \in Mode, PrepareLoad(s, slot, source, mode)
        PROVE  Kept
    BY <2>1, <1>3, PlaybackAssumption DEF PrepareLoad
  <2>2. ASSUME NEW s \in Session, NEW slot \in Slot, NEW source \in Source,
               NEW frame \in Time, NEW policy \in ReloadPolicy,
               PrepareReload(s, slot, source, frame, policy)
        PROVE  Kept
    <3>1. session[s].mode \in PlaybackMode
      BY <2>2, <1>t DEF PrepareReload, SessionRecord
    <3>2. (IF policy = "RestartAtZero" THEN 0 ELSE frame) \in Time \cup {None}
      BY PlaybackAssumption
    <3> QED
      BY <2>2, <3>1, <3>2, <1>3 DEF PrepareReload
  <2>3. ASSUME NEW s \in Session, NEW material \in Material, AcquireHostOverride(s, material)
        PROVE  Kept
    BY <2>3, <1>9 DEF AcquireHostOverride
  <2>4. ASSUME NEW s \in Session, ReleaseHostOverride(s) PROVE Kept
    BY <2>4, <1>9 DEF ReleaseHostOverride
  <2> QED
    BY <1>11, <1>1, <1>2, <1>4, <1>5, <1>7, <1>8, <2>1, <2>2, <2>3, <2>4 DEF PlaybackNext
<1> QED
  BY <1>10, <1>11 DEF Kept

-----------------------------------------------------------------------------
(* What a call of the adapter does when the host keeps its side: nothing   *)
(* is retired while the host holds a handle.                               *)
SameDevice(old, new) ==
    /\ new.submitted = old.submitted /\ new.lost = old.lost
    /\ new.generation = old.generation /\ new.terminated = old.terminated

LEMMA PrepareUploads ==
    ASSUME NEW old \in Backend, NEW cache \in Cache
    PROVE  LET new == GL!Prepare(old, cache)
           IN /\ new \in Backend /\ SameDevice(old, new)
              /\ new.pending = cache /\ new.active = old.active /\ new.retired = None
              /\ new.candidate = [token |-> cache.token, number |-> old.nextGeneration + 1]
              /\ new.candidate \in Outstanding
              /\ new.pendingGeneration = old.nextGeneration + 1
<1>1. cache.token \in Token /\ old.nextGeneration + 1 \in Nat
  BY DEF Cache, Backend
<1>2. PICK candidate \in Outstanding :
          candidate = [token |-> cache.token, number |-> old.nextGeneration + 1]
  BY <1>1 DEF Outstanding
<1>3. GL!Prepare(old, cache) =
          [old EXCEPT !.retired = None, !.pending = cache,
                      !.pendingGeneration = old.nextGeneration + 1,
                      !.nextGeneration = old.nextGeneration + 1, !.candidate = candidate]
  BY <1>2 DEF GL!Prepare, GL!FreeRetired, Backend
<1> QED
  BY <1>1, <1>2, <1>3 DEF Backend, SameDevice

LEMMA ActivateShows ==
    ASSUME NEW old \in Backend, NEW held, GL!AcceptsHandle(old, held), GL!IsPending(old),
           old.retired = None
    PROVE  LET new == GL!Activate(old, held)
           IN /\ new \in Backend /\ SameDevice(old, new)
              /\ new.pending = None /\ new.candidate = None /\ new.active = old.pending
<1>1. PICK retired \in Cache \cup {None} :
          retired = IF old.active # None THEN old.active ELSE old.retired
  BY DEF Backend
<1>2. GL!Activate(old, held) =
          [old EXCEPT !.pending = None, !.pendingGeneration = 0, !.candidate = None,
                      !.active = old.pending, !.retired = retired]
  BY <1>1 DEF GL!Activate, GL!Taken, Backend
<1>3. PICK new : new = GL!Activate(old, held)
  OBVIOUS
<1>4. old.pending \in Cache \cup {None} /\ 0 \in Nat
  BY DEF Backend
<1>5. new \in Backend
  BY <1>1, <1>2, <1>3, <1>4 DEF Backend
<1>6. /\ SameDevice(old, new)
      /\ new.pending = None /\ new.candidate = None /\ new.active = old.pending
  BY <1>2, <1>3 DEF Backend, SameDevice
<1> QED
  BY <1>3, <1>5, <1>6

LEMMA DiscardDrops ==
    ASSUME NEW old \in Backend, GL!IsPending(old), old.retired = None
    PROVE  LET new == GL!DiscardPending(old)
           IN /\ new \in Backend /\ SameDevice(old, new)
              /\ new.pending = None /\ new.candidate = None /\ new.active = old.active
<1>1. GL!DiscardPending(old) =
          [old EXCEPT !.pending = None, !.pendingGeneration = 0, !.candidate = None,
                      !.retired = old.pending]
  BY DEF GL!DiscardPending, GL!Taken, Backend
<1>2. PICK new : new = GL!DiscardPending(old)
  OBVIOUS
<1>3. old.pending \in Cache \cup {None} /\ 0 \in Nat
  BY DEF Backend
<1>4. new \in Backend
  BY <1>1, <1>2, <1>3 DEF Backend
<1>5. /\ SameDevice(old, new)
      /\ new.pending = None /\ new.candidate = None /\ new.active = old.active
  BY <1>1, <1>2 DEF Backend, SameDevice
<1> QED
  BY <1>2, <1>4, <1>5

LEMMA RebuildDrops ==
    ASSUME NEW old \in Backend, NEW current \in BOOLEAN
    PROVE  LET new == GL!Rebuild(old, current)
           IN /\ new \in Backend /\ new.terminated = old.terminated
              /\ new.candidate = None /\ new.pending \in {old.pending, None}
              /\ new.active \in {old.active, None}
              /\ new.submitted = FALSE /\ new.lost = FALSE /\ new.generation = old.generation + 1
<1>1. CASE current
  <2>1. GL!Rebuild(old, current) =
            [old EXCEPT !.active = None, !.pending = None, !.retired = None, !.pendingGeneration = 0,
                        !.candidate = None, !.submitted = FALSE, !.lost = FALSE,
                        !.generation = old.generation + 1]
    BY <1>1 DEF GL!Rebuild, Backend
  <2>2. PICK new : new = GL!Rebuild(old, current)
    OBVIOUS
  <2>3. old.generation + 1 \in Nat /\ 0 \in Nat
    BY DEF Backend
  <2>4. new \in Backend
    BY <2>1, <2>2, <2>3 DEF Backend
  <2>5. /\ new.terminated = old.terminated
        /\ new.candidate = None /\ new.pending \in {old.pending, None}
        /\ new.active \in {old.active, None}
        /\ new.submitted = FALSE /\ new.lost = FALSE /\ new.generation = old.generation + 1
    BY <2>1, <2>2 DEF Backend
  <2> QED
    BY <2>2, <2>4, <2>5
<1>2. CASE ~current
  <2>1. GL!Rebuild(old, current) =
            [old EXCEPT !.candidate = None, !.submitted = FALSE, !.lost = FALSE,
                        !.generation = old.generation + 1]
    BY <1>2 DEF GL!Rebuild, Backend
  <2>2. PICK new : new = GL!Rebuild(old, current)
    OBVIOUS
  <2>3. old.generation + 1 \in Nat /\ 0 \in Nat
    BY DEF Backend
  <2>4. new \in Backend
    BY <2>1, <2>2, <2>3 DEF Backend
  <2>5. /\ new.terminated = old.terminated
        /\ new.candidate = None /\ new.pending \in {old.pending, None}
        /\ new.active \in {old.active, None}
        /\ new.submitted = FALSE /\ new.lost = FALSE /\ new.generation = old.generation + 1
    BY <2>1, <2>2 DEF Backend
  <2> QED
    BY <2>2, <2>4, <2>5
<1> QED
  BY <1>1, <1>2

LEMMA FreeKeeps ==
    ASSUME NEW old \in Backend
    PROVE  LET new == GL!FreeRetired(old)
           IN /\ new \in Backend /\ SameDevice(old, new) /\ new.retired = None
              /\ new.pending = old.pending /\ new.active = old.active
              /\ new.candidate = old.candidate /\ new.pendingGeneration = old.pendingGeneration
BY DEF GL!FreeRetired, Backend, SameDevice

LEMMA SubmitKeeps ==
    ASSUME NEW old \in Backend, NEW drawn \in BOOLEAN
    PROVE  LET new == GL!Submit(old, drawn)
           IN /\ new \in Backend /\ new.retired = None /\ new.submitted = drawn
              /\ new.pending = old.pending /\ new.active = old.active
              /\ new.candidate = old.candidate /\ new.pendingGeneration = old.pendingGeneration
              /\ new.lost = old.lost /\ new.generation = old.generation
              /\ new.terminated = old.terminated
<1>1. GL!Submit(old, drawn) = [old EXCEPT !.retired = None, !.submitted = drawn]
  BY DEF GL!Submit, GL!FreeRetired, Backend
<1> QED
  BY <1>1 DEF Backend

LEMMA PresentKeeps ==
    ASSUME NEW old \in Backend, NEW failure
    PROVE  LET new == GL!Present(old, failure)
           IN /\ new \in Backend /\ new.retired = old.retired /\ new.submitted = FALSE
              /\ new.pending = old.pending /\ new.active = old.active
              /\ new.candidate = old.candidate /\ new.pendingGeneration = old.pendingGeneration
              /\ new.generation = old.generation /\ new.terminated = old.terminated
<1>1. PICK lost \in BOOLEAN : lost = (failure = "unrecoverable")
  OBVIOUS
<1>2. GL!Present(old, failure) = [old EXCEPT !.submitted = FALSE, !.lost = lost]
  BY <1>1 DEF GL!Present
<1> QED
  BY <1>2 DEF Backend

-----------------------------------------------------------------------------
(* A step of the host is a call of the session, or none.                    *)
LEMMA HostStepIsCall == Inv /\ [Next]_vars => [PlaybackNext]_playbackVars
<1> SUFFICES ASSUME Inv, [Next]_vars PROVE [PlaybackNext]_playbackVars
  OBVIOUS
<1>1. ASSUME NEW slot \in Slot, CommitCandidate(slot) PROVE [PlaybackNext]_playbackVars
  <2>1. prepared[slot].owner \in Session
    BY <1>1 DEF CommitCandidate, Inv, PlaybackTypeOK, PreparedRecord
  <2>2. Commit(prepared[slot].owner, slot) \/ UNCHANGED playbackVars
    BY <1>1 DEF CommitCandidate, Transact
  <2> QED
    BY <2>1, <2>2 DEF PlaybackNext
<1>2. CASE UNCHANGED vars
  BY <1>2 DEF vars, playbackVars
<1> QED
  BY <1>1, <1>2 DEF Next, CallSession, PrepareCandidate, EndCandidate, Submit, Present, Rebuild,
                    playbackVars

(* The cache of a candidate in a slot has the manifest of its token.        *)
LEMMA CandidateIsCacheOfToken ==
    ASSUME Inv, NumbersAreUnique, NEW slot \in Slot, prepared[slot] # None,
           prepared[slot].content.manifest # None
    PROVE  IsCacheOfToken([token |-> TokenOf(slot), manifest |-> prepared[slot].content.manifest])
<1>1. PICK cache : cache = [token |-> TokenOf(slot), manifest |-> prepared[slot].content.manifest]
  OBVIOUS
<1>2. /\ prepared[slot] \in PreparedRecord /\ nextToken \in Nat /\ MaxToken \in Nat
      /\ prepared[slot].token # 0 /\ prepared[slot].token < nextToken /\ nextToken <= MaxToken + 1
      /\ prepared[slot].number \in 1..MaxCandidate
  BY PlaybackAssumption DEF Inv, PlaybackTypeOK, TokensAreOld, NumbersAreUnique
<1>3. TokenOf(slot) \in Token
  BY <1>2 DEF TokenOf, Token, PreparedRecord
<1>4. prepared[slot].content.manifest \in {content.manifest : content \in Content} \ {None}
  BY <1>2 DEF PreparedRecord
<1>5. cache \in Cache
  BY <1>1, <1>3, <1>4 DEF Cache
<1>6. /\ cache.token[1] = prepared[slot].token /\ cache.token[2] = prepared[slot].number
      /\ cache.token = TokenOf(slot) /\ cache.manifest = prepared[slot].content.manifest
  BY <1>1 DEF TokenOf
<1>7. \A s \in Session : ActiveToken(s) # cache.token
  BY <1>6 DEF ActiveToken, TokenOf, NumbersAreUnique
<1>8. \A s \in Session : session[s].token = cache.token[1] => cache.token[2] < session[s].nextCandidate
  BY <1>6 DEF NumbersAreUnique
<1>9. \A other \in Slot : prepared[other] # None /\ TokenOf(other) = cache.token => other = slot
  BY <1>6 DEF NumbersAreUnique
<1>10. cache.token[1] < nextToken
  BY <1>2, <1>6
<1>11. IsCacheOfToken(cache)
  BY <1>5, <1>6, <1>7, <1>8, <1>9, <1>10 DEF IsCacheOfToken
<1> QED
  BY <1>1, <1>11

(* The host has no session, no candidate and no handle at first.            *)
LEMMA InitHasHostInv == Init => HostInv
<1> SUFFICES ASSUME Init PROVE HostInv
  OBVIOUS
<1>1. Inv
  BY InitHasInv DEF Init
<1>2. NumbersAreUnique
  BY PlaybackAssumption DEF Init, PlaybackInit, NumbersAreUnique, Fresh, Exists, IsActive
<1>3. gl = [pending |-> None, active |-> None, retired |-> None, candidate |-> None,
            pendingGeneration |-> 0, nextGeneration |-> 0, generation |-> 1,
            submitted |-> FALSE, lost |-> FALSE, terminated |-> FALSE] /\ handle = None
  BY DEF Init, GL!NewBackend
<1>4. gl \in Backend
  BY <1>3 DEF Backend
<1>5. CachesAreOfTokens /\ HandleFits /\ ~gl.terminated
  BY <1>3 DEF CachesAreOfTokens, HandleFits
<1> QED
  BY <1>1, <1>2, <1>3, <1>4, <1>5 DEF HostInv

ShownStep ==
    gl'.active \notin {gl.active, None} =>
        \E s \in Session : session'[s] # session[s] /\ ActiveToken(s)' = gl'.active.token

RendererStep == [Renderer!Next]_(Renderer!rendererVars)

(* Every step of the host keeps its invariant, shows nothing uncommitted,  *)
(* and is a step of the renderer's interface or none.                       *)
LEMMA HostStep == HostInv /\ [Next]_vars => HostInv' /\ ShownStep /\ RendererStep
<1> SUFFICES ASSUME HostInv, [Next]_vars PROVE HostInv' /\ ShownStep /\ RendererStep
  OBVIOUS
<1>i. /\ Inv /\ NumbersAreUnique /\ CachesAreOfTokens /\ HandleFits
      /\ gl \in Backend /\ handle \in HeldHandle \cup {None} /\ gl.terminated = FALSE
  BY DEF HostInv, Backend
<1>j. Inv' /\ NumbersAreUnique' /\ \A cache : IsCacheOfToken(cache) => IsCacheOfToken(cache)'
  BY <1>i, HostStepIsCall, NextKeepsInv, CallKeepsNumbers
<1>b. /\ gl.pending \in Cache \cup {None} /\ gl.active \in Cache \cup {None}
      /\ gl.candidate \in Outstanding \cup {None} /\ gl.generation \in Nat
      /\ gl.submitted \in BOOLEAN /\ gl.lost \in BOOLEAN
  BY <1>i DEF Backend
<1>n. /\ None \notin Token /\ None \notin Cache /\ None \notin Outstanding /\ None \notin HeldHandle
      /\ \A cache \in Cache : cache.token \in Token
      /\ None \notin {cache.token : cache \in Cache}
  BY HostAssumption DEF Cache
<1>h. ASSUME handle # None
      PROVE  GL!AcceptsHandle(gl, handle) /\ GL!IsPending(gl) /\ gl.retired = None
             /\ gl.candidate # None /\ gl.pending # None
             /\ handle.token = gl.pending.token /\ handle.token = gl.candidate.token
             /\ handle.number = gl.candidate.number /\ handle.generation = gl.generation
  BY <1>h, <1>i DEF HandleFits, GL!Handle, GL!AcceptsHandle, GL!IsPending
<1>u. ASSUME gl'.pending = gl.pending, gl'.active = gl.active, gl'.candidate = gl.candidate,
             gl'.submitted = gl.submitted, gl'.lost = gl.lost, gl'.generation = gl.generation
      PROVE  ShownStep /\ RendererStep
  BY <1>u DEF ShownStep, RendererStep, Renderer!rendererVars, TokenIn
<1>1. CASE CallSession
  <2>1. gl' = gl /\ handle' = handle
    BY <1>1 DEF CallSession
  <2>2. CachesAreOfTokens' /\ HandleFits'
    BY <2>1, <1>i, <1>j DEF CachesAreOfTokens, HandleFits, GL!Handle, GL!IsPending
  <2> QED
    BY <2>1, <2>2, <1>i, <1>j, <1>u DEF HostInv
<1>2. ASSUME NEW slot \in Slot, PrepareCandidate(slot) PROVE HostInv' /\ ShownStep /\ RendererStep
  <2>1. /\ handle = None /\ prepared[slot] # None /\ ~gl.lost /\ gl.candidate = None /\ gl.pending = None
    BY <1>2 DEF PrepareCandidate, GL!MayPrepare
  <2>2. CASE gl' = GL!FreeRetired(gl) /\ handle' = handle
    <3>1. /\ gl' \in Backend /\ SameDevice(gl, gl')
          /\ gl'.pending = gl.pending /\ gl'.active = gl.active /\ gl'.candidate = gl.candidate
      BY <2>2, <1>i, FreeKeeps
    <3>2. CachesAreOfTokens' /\ HandleFits'
      BY <2>1, <2>2, <3>1, <1>i, <1>j DEF CachesAreOfTokens, HandleFits
    <3> QED
      BY <2>2, <3>1, <3>2, <1>i, <1>j, <1>u DEF HostInv, SameDevice
  <2>3. ASSUME NEW cache,
               cache = [token |-> TokenOf(slot), manifest |-> prepared[slot].content.manifest],
               cache.manifest # None, gl' = GL!Prepare(gl, cache), handle' = GL!Handle(gl')
        PROVE  HostInv' /\ ShownStep /\ RendererStep
    <3>1. IsCacheOfToken(cache) /\ cache \in Cache
      <4>1. prepared[slot].content.manifest # None
        BY <2>3
      <4>2. IsCacheOfToken(cache)
        BY <4>1, <2>1, <2>3, <1>i, CandidateIsCacheOfToken
      <4> QED
        BY <4>2 DEF IsCacheOfToken
    <3>2. /\ gl' \in Backend /\ SameDevice(gl, gl') /\ gl'.pending = cache
          /\ gl'.active = gl.active /\ gl'.retired = None
          /\ gl'.candidate = [token |-> cache.token, number |-> gl.nextGeneration + 1]
          /\ gl'.candidate \in Outstanding /\ gl'.pendingGeneration = gl.nextGeneration + 1
      BY <2>3, <3>1, <1>i, PrepareUploads
    <3>3. handle' = [token |-> gl'.candidate.token, number |-> gl'.candidate.number,
                     generation |-> gl'.generation]
      BY <2>3 DEF GL!Handle
    <3>4. handle' \in HeldHandle
      BY <3>2, <3>3 DEF Outstanding, HeldHandle, Backend
    <3>5. gl'.candidate # None /\ gl'.pending # None /\ handle' # None
      BY <3>1, <3>2, <3>4, <1>n
    <3>6. GL!IsPending(gl)'
      BY <3>2, <3>5 DEF GL!IsPending
    <3>7. HandleFits'
      BY <3>2, <3>3, <3>5, <3>6 DEF HandleFits, GL!Handle
    <3>8. CachesAreOfTokens'
      BY <3>1, <3>2, <1>i, <1>j DEF CachesAreOfTokens
    <3>9. HostInv'
      BY <3>2, <3>4, <3>7, <3>8, <1>i, <1>j DEF HostInv, SameDevice
    <3>10. ShownStep
      BY <3>2 DEF ShownStep
    <3>11. Renderer!Prepare
      BY <3>1, <3>2, <3>5, <2>1, <1>n DEF Renderer!Prepare, TokenIn, SameDevice
    <3> QED
      BY <3>9, <3>10, <3>11 DEF RendererStep, Renderer!Next
  <2> QED
    BY <1>2, <2>2, <2>3 DEF PrepareCandidate
<1>3. ASSUME handle # None, ~gl.submitted, gl' = GL!DiscardPending(gl), handle' = None
      PROVE  HostInv' /\ ShownStep /\ RendererStep
  <2>1. /\ gl' \in Backend /\ SameDevice(gl, gl')
        /\ gl'.pending = None /\ gl'.candidate = None /\ gl'.active = gl.active
    BY <1>3, <1>h, <1>i, DiscardDrops
  <2>2. CachesAreOfTokens' /\ HandleFits'
    BY <2>1, <1>3, <1>i, <1>j DEF CachesAreOfTokens, HandleFits
  <2>3. HostInv' /\ ShownStep
    BY <2>1, <2>2, <1>3, <1>i, <1>j DEF HostInv, ShownStep, SameDevice
  <2>4. Renderer!Discard
    BY <2>1, <1>3, <1>h DEF Renderer!Discard, TokenIn, SameDevice
  <2> QED
    BY <2>3, <2>4 DEF RendererStep, Renderer!Next
<1>4. ASSUME NEW slot \in Slot, CommitCandidate(slot) PROVE HostInv' /\ ShownStep /\ RendererStep
  <2>1. /\ handle # None /\ ~gl.submitted /\ handle' = None /\ prepared[slot] # None
        /\ TokenOf(slot) = handle.token
    BY <1>4 DEF CommitCandidate
  <2>2. CASE gl' = GL!Discard(gl, handle)
    <3>1. GL!Discard(gl, handle) = GL!DiscardPending(gl)
      BY <2>1, <1>h DEF GL!Discard
    <3> QED
      BY <2>1, <2>2, <3>1, <1>3
  <2>3. ASSUME NEW owner, owner = prepared[slot].owner, Commit(owner, slot),
               gl' = GL!Activate(gl, handle)
        PROVE  HostInv' /\ ShownStep /\ RendererStep
    <3>1. /\ gl' \in Backend /\ SameDevice(gl, gl')
          /\ gl'.pending = None /\ gl'.candidate = None /\ gl'.active = gl.pending
      BY <2>1, <2>3, <1>h, <1>i, ActivateShows
    <3>2. CachesAreOfTokens' /\ HandleFits'
      BY <3>1, <2>1, <1>h, <1>i, <1>j DEF CachesAreOfTokens, HandleFits
    <3>3. HostInv'
      BY <3>1, <3>2, <2>1, <1>i, <1>j DEF HostInv, SameDevice
    <3>4. owner \in Session /\ session[owner] \in SessionRecord /\ prepared[slot] \in PreparedRecord
      BY <2>1, <2>3, <1>i DEF Inv, PlaybackTypeOK, PreparedRecord
    <3>5. session'[owner] = Committed(owner, prepared[slot]) /\ prepared[slot].token = session[owner].token
      BY <2>3, <3>4, <1>i DEF Commit, Accepts, Inv, PlaybackTypeOK
    <3>6. /\ session'[owner].token = prepared[slot].token
          /\ session'[owner].active = prepared[slot].number
          /\ session'[owner].generation = session[owner].generation + 1
      BY <3>5 DEF Committed
    <3>7. session'[owner] # session[owner]
      <4>1. session[owner].generation \in Nat
        BY <3>4 DEF SessionRecord
      <4> QED
        BY <4>1, <3>6
    <3>8. ActiveToken(owner)' = gl'.active.token
      BY <3>1, <3>6, <2>1, <1>h DEF ActiveToken, TokenOf
    <3>9. ShownStep
      BY <3>4, <3>7, <3>8 DEF ShownStep
    <3>10. Renderer!Activate
      BY <3>1, <2>1, <1>h, <1>b, <1>n DEF Renderer!Activate, TokenIn, SameDevice
    <3> QED
      BY <3>3, <3>9, <3>10 DEF RendererStep, Renderer!Next
  <2> QED
    BY <1>4, <2>2, <2>3 DEF CommitCandidate, Transact
<1>5. CASE EndCandidate
  <2>1. /\ handle # None /\ ~gl.submitted /\ handle' = None
        /\ gl' = GL!Discard(gl, handle) \/ gl' = GL!DetachCandidate(gl, handle)
    BY <1>5 DEF EndCandidate
  <2>2. GL!Discard(gl, handle) = GL!DiscardPending(gl)
    BY <2>1, <1>h DEF GL!Discard
  <2>3. GL!DetachCandidate(gl, handle) = GL!DiscardPending(gl)
    BY <2>1, <1>h DEF GL!DetachCandidate
  <2> QED
    BY <2>1, <2>2, <2>3, <1>3
<1>6. ASSUME NEW s \in Session, Submit(s) PROVE HostInv' /\ ShownStep /\ RendererStep
  <2>1. PICK drawn \in BOOLEAN : drawn = Drawable(s)
    BY DEF Drawable
  <2>2. /\ gl' = GL!Submit(gl, drawn) /\ handle' = handle
        /\ ~gl.lost /\ ~gl.submitted /\ gl.active # None
    BY <1>6, <2>1 DEF Submit, GL!MaySubmit
  <2>3. /\ gl' \in Backend /\ gl'.retired = None /\ gl'.submitted = drawn
        /\ gl'.pending = gl.pending /\ gl'.active = gl.active
        /\ gl'.candidate = gl.candidate /\ gl'.pendingGeneration = gl.pendingGeneration
        /\ gl'.lost = gl.lost /\ gl'.generation = gl.generation /\ gl'.terminated = gl.terminated
    BY <2>2, <1>i, SubmitKeeps
  <2>4. CachesAreOfTokens' /\ HandleFits'
    BY <2>2, <2>3, <1>i, <1>j DEF CachesAreOfTokens, HandleFits, GL!Handle, GL!IsPending
  <2>5. HostInv' /\ ShownStep
    BY <2>2, <2>3, <2>4, <1>i, <1>j DEF HostInv, ShownStep
  <2>6. CASE drawn
    <3>1. Renderer!Submit
      BY <2>2, <2>3, <2>6, <1>b, <1>n DEF Renderer!Submit, TokenIn
    <3> QED
      BY <3>1, <2>5 DEF RendererStep, Renderer!Next
  <2>7. CASE ~drawn
    BY <2>2, <2>3, <2>5, <2>7, <1>b, <1>u
  <2> QED
    BY <2>6, <2>7
<1>7. CASE Present
  <2>1. PICK failure : gl' = GL!Present(gl, failure)
    BY <1>7 DEF Present
  <2>2. handle' = handle /\ ~gl.lost /\ gl.submitted
    BY <1>7 DEF Present, GL!MayPresent
  <2>3. /\ gl' \in Backend /\ gl'.retired = gl.retired /\ gl'.submitted = FALSE
        /\ gl'.pending = gl.pending /\ gl'.active = gl.active
        /\ gl'.candidate = gl.candidate /\ gl'.pendingGeneration = gl.pendingGeneration
        /\ gl'.generation = gl.generation /\ gl'.terminated = gl.terminated
    BY <2>1, <1>i, PresentKeeps
  <2>4. CachesAreOfTokens' /\ HandleFits'
    BY <2>2, <2>3, <1>i, <1>j DEF CachesAreOfTokens, HandleFits, GL!Handle, GL!IsPending
  <2>5. HostInv' /\ ShownStep
    BY <2>2, <2>3, <2>4, <1>i, <1>j DEF HostInv, ShownStep
  <2>6. gl'.lost \in BOOLEAN
    BY <2>3 DEF Backend
  <2>7. Renderer!Present
    BY <2>2, <2>3, <2>6 DEF Renderer!Present, TokenIn
  <2> QED
    BY <2>5, <2>7 DEF RendererStep, Renderer!Next
<1>8. CASE Rebuild
  <2>1. PICK current \in BOOLEAN : gl' = GL!Rebuild(gl, current)
    BY <1>8 DEF Rebuild
  <2>2. handle = None /\ handle' = handle /\ gl.candidate = None /\ gl.pending = None
    BY <1>8, <1>i DEF Rebuild, HandleFits
  <2>3. /\ gl' \in Backend /\ gl'.terminated = gl.terminated
        /\ gl'.candidate = None /\ gl'.pending = None
        /\ gl'.active \in {gl.active, None}
        /\ gl'.submitted = FALSE /\ gl'.lost = FALSE /\ gl'.generation = gl.generation + 1
    BY <2>1, <2>2, <1>i, RebuildDrops
  <2>4. CachesAreOfTokens' /\ HandleFits'
    BY <2>2, <2>3, <1>i, <1>j DEF CachesAreOfTokens, HandleFits
  <2>5. HostInv' /\ ShownStep
    BY <2>2, <2>3, <2>4, <1>i, <1>j DEF HostInv, ShownStep
  <2>6. Renderer!Rebuild
    BY <2>2, <2>3 DEF Renderer!Rebuild, TokenIn
  <2> QED
    BY <2>5, <2>6 DEF RendererStep, Renderer!Next
<1>9. CASE UNCHANGED vars
  <2>1. gl' = gl /\ handle' = handle
    BY <1>9 DEF vars
  <2>2. CachesAreOfTokens' /\ HandleFits'
    BY <2>1, <1>i, <1>j DEF CachesAreOfTokens, HandleFits, GL!Handle, GL!IsPending
  <2> QED
    BY <2>1, <2>2, <1>i, <1>j, <1>u DEF HostInv
<1> QED
  BY <1>1, <1>2, <1>4, <1>5, <1>6, <1>7, <1>8, <1>9 DEF Next

-----------------------------------------------------------------------------
(* A commit of the host takes only what is current, as one of a session    *)
(* alone does.                                                             *)
THEOREM HostCommitsAreCurrent == Spec => CommitIsCurrent
<1>1. HostInv /\ [Next]_vars => [\A slot \in Slot : Commits(slot) => slot \notin stale]_playbackVars
  BY HostStepIsCall, NextIsCurrent DEF HostInv
<1>2. HostInv /\ [Next]_vars => HostInv'
  BY HostStep
<1> QED
  BY InitHasHostInv, <1>1, <1>2, PTL DEF Spec, CommitIsCurrent

(* The adapter begins to show a candidate only in the step in which its    *)
(* session takes it, however often the host prepares, gives up and         *)
(* rebuilds.                                                               *)
THEOREM OnlyCommittedIsShown == Spec => ShownIsCommitted
<1>1. HostInv /\ [Next]_vars => HostInv' /\ [ShownStep]_vars
  BY HostStep
<1> QED
  BY InitHasHostInv, <1>1, PTL DEF Spec, ShownIsCommitted, ShownStep

(* The OpenGL adapter, called as the host calls it, is a presentation      *)
(* renderer: a cache that is replaced, discarded or retired is what the    *)
(* interface says, and a frame that cannot be drawn is no step of it.      *)
THEOREM AdapterImplementsRenderer == Spec => ImplementsRenderer
<1>1. Init => Renderer!Init
  BY DEF Init, GL!NewBackend, Renderer!Init, TokenIn
<1>2. HostInv /\ [Next]_vars => HostInv' /\ [Renderer!Next]_(Renderer!rendererVars)
  BY HostStep DEF RendererStep
<1> QED
  BY InitHasHostInv, <1>1, <1>2, PTL DEF Spec, ImplementsRenderer, Renderer!Spec

-----------------------------------------------------------------------------
(* A manifest is whole: it has an entry for each asset the chart requires  *)
(* and each asset that one of them names.                                  *)
IsWhole(database, chart, manifest) ==
    \E ids, named : /\ ids = {key[2] : key \in P!Required(chart)}
                   /\ named = UNION {P!Names(database, id) : id \in ids}
                   /\ manifest = {P!Entry(database, id) : id \in ids \cup named}

(* The reference of an asset is found in a manifest by the asset's id.      *)
IsFound(database, id, manifest) ==
    /\ P!Reference(database, id) \in P!ReferencesOf(manifest)
    /\ (CHOOSE r \in P!ReferencesOf(manifest) : r.id = id) = P!Reference(database, id)

(* What prepare gives to be drawn: nothing, when no object has a mesh;      *)
(* else a whole manifest.                                                  *)
LEMMA ManifestIsWhole ==
    ASSUME NEW database, NEW loadable, NEW chart, NEW presented,
           presented = P!PreparePresentation(database, loadable, chart),
           presented.ok, presented.manifest # None
    PROVE  \/ P!Required(chart) = {} /\ presented.manifest = {}
           \/ IsWhole(database, chart, presented.manifest)
<1> DEFINE required == P!Required(chart)
           ids == {key[2] : key \in required}
           named == UNION {P!Names(database, id) : id \in ids}
           manifest == {P!Entry(database, id) : id \in ids \cup named}
           unfit == \/ database = None
                    \/ \E k, l \in required : k[2] = l[2] /\ k[1] # l[1]
                    \/ \E k \in required : ~P!IsIndexed(database, k) \/ k[2] \notin loadable
                    \/ chart.v4 /\ \E id \in ids : ~P!IsPortable(database, id)
           legacy == \A id \in ids : ~P!IsPortable(database, id)
           unsound == \/ \E k \in required : ~P!IsSound(database, k[1], k[2])
                      \/ \E n \in named : n \notin loadable \/ P!Kind(database, n) # database[n].type
<1>1. P!PreparePresentation(database, loadable, chart) =
          CASE required = {} -> P!Presented({})
            [] required # {} /\ unfit -> P!Refused
            [] OTHER -> IF legacy THEN P!Presented(None)
                        ELSE IF unsound THEN P!Refused ELSE P!Presented(manifest)
  BY DEF P!PreparePresentation
<1> HIDE DEF required, manifest, unfit, legacy, unsound
<1>2. \/ (required = {} /\ presented = P!Presented({}))
      \/ presented = P!Refused \/ presented = P!Presented(None) \/ presented = P!Presented(manifest)
  BY <1>1
<1>3. /\ ~P!Refused.ok /\ P!Presented(None).manifest = None /\ P!Presented({}).manifest = {}
      /\ P!Presented(manifest).manifest = manifest
  BY DEF P!Refused, P!Presented
<1>4. (required = {} /\ presented.manifest = {}) \/ presented.manifest = manifest
  BY <1>2, <1>3
<1> QED
  BY <1>4 DEF required, manifest, IsWhole

(* Every asset that has an entry is found.                                  *)
LEMMA ReferenceIsFound ==
    ASSUME NEW database, NEW assets, NEW manifest,
           manifest = {P!Entry(database, a) : a \in assets}, NEW id \in assets
    PROVE  IsFound(database, id, manifest)
<1>1. \A a : P!Entry(database, a).reference = P!Reference(database, a)
  BY DEF P!Entry
<1>2. P!ReferencesOf(manifest) = {P!Reference(database, a) : a \in assets}
  BY <1>1 DEF P!ReferencesOf
<1>3. \A a : P!Reference(database, a).id = a
  BY DEF P!Reference
<1>4. \A r \in P!ReferencesOf(manifest) : r.id = id => r = P!Reference(database, id)
  BY <1>2, <1>3
<1>5. P!Reference(database, id) \in P!ReferencesOf(manifest)
  BY <1>2
<1> QED
  BY <1>3, <1>4, <1>5 DEF IsFound

(* The content of a host is what prepare makes of a chart and a database,  *)
(* whatever they are and whatever can be read; None stands for no          *)
(* reference.                                                              *)
ContentIsPrepared ==
    \A content \in Content : \E chart, database, readable, later :
        /\ content = P!PrepareContent(chart, database, readable, later)
        /\ \A i \in DOMAIN chart.objects : \E set : chart.objects[i].steps \in Seq(set)
        /\ \A id : P!Reference(database, id) # None

(* Whatever the time is, an object shows its base material, one that a     *)
(* step sets, or the override.                                             *)
LEMMA ShownIsOfObject ==
    ASSUME NEW object, NEW time \in Nat, NEW override, NEW set, object.steps \in Seq(set)
    PROVE  P!Shows(object, time, override) \in
               P!Materials(object) \cup (IF override = None THEN {} ELSE {override})
<1>1. CASE override # None \/ time = 0 \/ object.steps = <<>>
  BY <1>1 DEF P!Shows, P!Materials
<1>2. CASE override = None /\ time # 0 /\ object.steps # <<>>
  <2>1. Len(object.steps) \in Nat \ {0} /\ DOMAIN object.steps = 1..Len(object.steps)
    BY <1>2
  <2>2. PICK k \in Nat : k = Len(object.steps)
    BY <2>1
  <2>3. PICK least \in {time, k} : least = P!Min({time, k})
    <3>1. \E x \in {time, k} : \A y \in {time, k} : x <= y
      BY <2>2
    <3> QED
      BY <3>1 DEF P!Min
  <2>4. least \in DOMAIN object.steps
    <3>1. \E x \in {time, k} : \A y \in {time, k} : x <= y
      BY <2>2
    <3>2. least <= k
      BY <2>3, <3>1 DEF P!Min
    <3> QED
      BY <2>1, <2>2, <2>3, <3>2, <1>2
  <2>5. P!Shows(object, time, override) = object.steps[least]
    BY <1>2, <2>2, <2>3 DEF P!Shows
  <2> QED
    BY <2>4, <2>5 DEF P!Materials, P!ToSet
<1> QED
  BY <1>1, <1>2

(* Every frame of what prepare gave can be drawn from its manifest: at any  *)
(* time, with any override that the layout has.                            *)
LEMMA PreparedContentDraws ==
    ASSUME ContentIsPrepared, NEW content \in Content, None \notin Content,
           content.manifest # None, content.chart.camera,
           NEW time \in Nat, NEW override,
           override = None \/ \A i \in DOMAIN content.layout :
               content.layout[i].mesh # None => override \in DOMAIN content.layout[i].materials
    PROVE  /\ P!CanExtract(content.chart, content.layout, time, override)
           /\ P!Draws(P!ExtractFrame(content.chart, content.layout, time, override), content.manifest)
<1>1. PICK chart, database, readable, later :
          /\ content = P!PrepareContent(chart, database, readable, later)
          /\ \A i \in DOMAIN chart.objects : \E set : chart.objects[i].steps \in Seq(set)
          /\ \A id : P!Reference(database, id) # None
  BY DEF ContentIsPrepared
<1>2. PICK loadable, presented :
          /\ presented = P!PreparePresentation(database, loadable, chart)
          /\ presented.ok
          /\ content = [chart |-> chart, manifest |-> presented.manifest,
                        layout |-> P!LayoutOf(chart, presented.manifest)]
  BY <1>1 DEF P!PrepareContent
<1>3. PICK manifest, layout, objects :
          /\ manifest = presented.manifest /\ layout = P!LayoutOf(chart, manifest)
          /\ objects = chart.objects
  OBVIOUS
<1>4. content.chart = chart /\ content.manifest = manifest /\ content.layout = layout /\ manifest # None
  BY <1>2, <1>3
<1>5. \A i \in DOMAIN objects : objects[i].mesh # None =>
          /\ <<"mesh", objects[i].mesh>> \in P!Required(chart)
          /\ \A m \in P!Materials(objects[i]) : <<"material", m>> \in P!Required(chart)
  BY <1>3 DEF P!Required, P!Renderables, P!ToSet
<1> DEFINE Of(id) == CHOOSE r \in P!ReferencesOf(manifest) : r.id = id
<1>6. /\ DOMAIN layout = DOMAIN objects
      /\ \A i \in DOMAIN objects :
            IF objects[i].mesh = None THEN layout[i] = [mesh |-> None, materials |-> <<>>]
            ELSE layout[i] = [mesh |-> Of(objects[i].mesh),
                              materials |-> [m \in P!Materials(objects[i]) |-> Of(m)]]
  <2>1. layout = [i \in DOMAIN objects |->
            IF objects[i].mesh = None \/ manifest = None THEN [mesh |-> None, materials |-> <<>>]
            ELSE [mesh |-> Of(objects[i].mesh),
                  materials |-> [m \in P!Materials(objects[i]) |-> Of(m)]]]
    BY <1>3, Zenon DEF P!LayoutOf
  <2> HIDE DEF Of
  <2> QED
    BY <2>1, <1>4
<1> HIDE DEF Of
<1>7. ASSUME NEW i \in DOMAIN objects, layout[i].mesh # None
      PROVE  P!Shows(objects[i], time, override) \in P!Materials(objects[i])
  <2>1. objects[i].mesh # None /\ DOMAIN layout[i].materials = P!Materials(objects[i])
    BY <1>6, <1>7
  <2>2. override = None \/ override \in P!Materials(objects[i])
    BY <2>1, <1>4, <1>6, <1>7
  <2>3. PICK set : objects[i].steps \in Seq(set)
    BY <1>1, <1>3
  <2>4. P!Shows(objects[i], time, override) \in
            P!Materials(objects[i]) \cup (IF override = None THEN {} ELSE {override})
    BY <2>3, ShownIsOfObject
  <2> QED
    BY <2>2, <2>4
<1> DEFINE shown(i) == P!Shows(objects[i], time, override)
<1>8. P!CanExtract(chart, layout, time, override)
  <2>1. \A i \in DOMAIN layout : layout[i].mesh # None => shown(i) \in DOMAIN layout[i].materials
    BY <1>6, <1>7
  <2> QED
    BY <2>1, <1>3 DEF P!CanExtract
<1>9. PICK frame : frame = P!ExtractFrame(chart, layout, time, override)
  OBVIOUS
<1>10. /\ frame.camera = chart.camera /\ DOMAIN frame.objects = DOMAIN objects
       /\ \A i \in DOMAIN objects :
             /\ frame.objects[i].named = (objects[i].mesh # None)
             /\ frame.objects[i].mesh = layout[i].mesh
             /\ layout[i].mesh # None => frame.objects[i].material = layout[i].materials[shown(i)]
  BY <1>3, <1>6, <1>9 DEF P!ExtractFrame
<1> HIDE DEF shown
<1>11. P!Draws(frame, manifest)
  <2>1. CASE manifest = {}
    BY <2>1 DEF P!Draws
  <2>2. ASSUME manifest # {} PROVE P!Draws(frame, manifest)
    <3>1. PICK ids, named :
              /\ ids = {key[2] : key \in P!Required(chart)}
              /\ named = UNION {P!Names(database, id) : id \in ids}
              /\ manifest = {P!Entry(database, id) : id \in ids \cup named}
      <4>1. presented.manifest # None /\ presented.manifest # {} /\ manifest = presented.manifest
        BY <2>2, <1>3, <1>4
      <4>2. IsWhole(database, chart, manifest)
        BY <4>1, <1>2, ManifestIsWhole
      <4> QED
        BY <4>2 DEF IsWhole
    <3>2. \A id \in ids \cup named :
              /\ P!Reference(database, id) \in P!ReferencesOf(manifest)
              /\ Of(id) = P!Reference(database, id)
      <4>1. PICK assets : assets = ids \cup named
        OBVIOUS
      <4>2. manifest = {P!Entry(database, a) : a \in assets}
        BY <3>1, <4>1
      <4>3. \A id \in assets : IsFound(database, id, manifest)
        BY <4>2, ReferenceIsFound
      <4> QED
        BY <4>1, <4>3 DEF Of, IsFound
    <3>3. \A i \in DOMAIN objects : objects[i].mesh # None =>
              objects[i].mesh \in ids /\ P!Materials(objects[i]) \subseteq ids
      <4> SUFFICES ASSUME NEW i \in DOMAIN objects, objects[i].mesh # None
                   PROVE  objects[i].mesh \in ids /\ P!Materials(objects[i]) \subseteq ids
        OBVIOUS
      <4>1. \A id : <<"mesh", id>>[2] = id /\ <<"material", id>>[2] = id
        OBVIOUS
      <4>2. \A key \in P!Required(chart) : key[2] \in ids
        BY <3>1
      <4>3. \A id : <<"mesh", id>> \in P!Required(chart) => id \in ids
        BY <4>1, <4>2
      <4>4. \A id : <<"material", id>> \in P!Required(chart) => id \in ids
        BY <4>1, <4>2
      <4> QED
        BY <4>3, <4>4, <1>5
    <3>4. \A i \in DOMAIN objects : objects[i].mesh # None => layout[i].mesh # None
      BY <1>1, <1>6, <3>2, <3>3
    <3>9. \A i \in DOMAIN frame.objects :
              /\ frame.objects[i].mesh = None => ~frame.objects[i].named
              /\ frame.camera
      BY <1>4, <1>6, <1>10, <3>4
    <3> SUFFICES ASSUME NEW i \in DOMAIN objects, frame.objects[i].mesh # None
                 PROVE  /\ {frame.objects[i].mesh, frame.objects[i].material}
                               \subseteq P!ReferencesOf(manifest)
                        /\ \A e \in manifest : e.reference = frame.objects[i].material =>
                               e.dependencies \subseteq P!ReferencesOf(manifest)
      BY <1>10, <3>9 DEF P!Draws
    <3>5. layout[i].mesh # None /\ objects[i].mesh # None /\ shown(i) \in P!Materials(objects[i])
      BY <1>6, <1>7, <1>10 DEF shown
    <3>6. /\ frame.objects[i].mesh = P!Reference(database, objects[i].mesh)
          /\ frame.objects[i].material = P!Reference(database, shown(i))
          /\ shown(i) \in ids
      BY <1>6, <1>10, <3>2, <3>3, <3>5
    <3>7. ASSUME NEW e \in manifest, e.reference = frame.objects[i].material
          PROVE  e.dependencies \subseteq P!ReferencesOf(manifest)
      <4>1. PICK id \in ids \cup named : e = P!Entry(database, id)
        BY <3>1
      <4>2. /\ P!Reference(database, id) = P!Reference(database, shown(i))
            /\ e.dependencies = {P!Reference(database, n) : n \in P!Names(database, id)}
        BY <4>1, <3>6, <3>7 DEF P!Entry
      <4>3. id = shown(i)
        BY <4>2 DEF P!Reference
      <4>4. P!Names(database, id) \subseteq named
        BY <4>3, <3>1, <3>6
      <4> QED
        BY <4>2, <4>4, <3>2
    <3> QED
      BY <3>2, <3>3, <3>5, <3>6, <3>7
  <2> QED
    BY <2>1, <2>2
<1> QED
  BY <1>4, <1>8, <1>9, <1>11

(* While the adapter shows what a session plays, every frame of it can be  *)
(* drawn, and the one retired cache is never taken when it is wanted: for  *)
(* any charts, databases and assets that can be read, any number of        *)
(* sessions, candidates and uploads, and every order of the calls.         *)
THEOREM EveryFrameDraws == ContentIsPrepared /\ Spec => []FramesDraw
<1>1. ContentIsPrepared /\ HostInv => FramesDraw
  <2> SUFFICES ASSUME ContentIsPrepared, HostInv, NEW s \in Session,
                      HasFrame(s), gl.active # None, gl.active.token = ActiveToken(s),
                      session[s].content.chart.camera, session[s].applied = None \/ IsInLayout(s)
               PROVE  Drawable(s)
    BY DEF FramesDraw, HostInv
  <2>1. PICK content : content = session[s].content
    OBVIOUS
  <2>2. session[s] \in SessionRecord /\ IsActive(s) /\ session[s].lastFrame # None
    BY DEF HostInv, Inv, PlaybackTypeOK, HasFrame
  <2>3. content \in Content /\ None \notin Content
    BY <2>1, <2>2, PlaybackAssumption DEF HostInv, NumbersAreUnique, SessionRecord
  <2>4. PICK time \in Nat : time = session[s].lastFrame
    BY <2>2, PlaybackAssumption DEF SessionRecord
  <2>5. PICK override : override = session[s].applied
    OBVIOUS
  <2>6. gl.active.manifest = content.manifest /\ content.manifest # None
    <3>1. IsCacheOfToken(gl.active)
      BY DEF HostInv, CachesAreOfTokens
    <3>2. content.manifest = gl.active.manifest
      BY <3>1, <2>1, <2>2 DEF IsCacheOfToken
    <3> QED
      BY <3>1, <3>2 DEF IsCacheOfToken, Cache
  <2>7. override = None \/ \A i \in DOMAIN content.layout :
            content.layout[i].mesh # None => override \in DOMAIN content.layout[i].materials
    BY <2>1, <2>5 DEF IsInLayout
  <2>8. /\ P!CanExtract(content.chart, content.layout, time, override)
        /\ P!Draws(P!ExtractFrame(content.chart, content.layout, time, override), content.manifest)
    BY <2>1, <2>3, <2>4, <2>6, <2>7, PreparedContentDraws
  <2> QED
    BY <2>1, <2>4, <2>5, <2>6, <2>8 DEF Drawable, CanExtract, FrameOf
<1>2. HostInv /\ [Next]_vars => HostInv'
  BY HostStep
<1>3. ContentIsPrepared /\ [Next]_vars => ContentIsPrepared'
  OBVIOUS
<1> QED
  BY InitHasHostInv, <1>1, <1>2, <1>3, PTL DEF Spec
=============================================================================
