---------------------------- MODULE PlaybackHost ----------------------------
(***************************************************************************)
(* A host that shows what a PlaybackSession plays: PlayerController, or an *)
(* application that embeds the engine.  It prepares content, has the       *)
(* adapter prepare the candidate, commits and activates, and every frame   *)
(* extracts a snapshot, submits and presents it.                           *)
(*                                                                         *)
(* Between the steps the host may call the session as it likes, so that a  *)
(* commit may refuse a candidate whose resources are uploaded already.     *)
(* Everything runs on one thread: a step is one call, and commit with      *)
(* activate is one step because nothing may come between them.             *)
(***************************************************************************)
EXTENDS PlaybackSession

CONSTANTS
    Asset,          \* AssetIds
    MaxDepth,       \* ResourceManagerLimits::maxDependencyDepth
    MaxUpload,      \* BOUND on the candidates the adapter prepares
    MaxRebuild      \* BOUND on the generation of the adapter

P == INSTANCE Presentation

GL == INSTANCE OpenGlRenderer

VARIABLES
    gl,       \* the adapter
    handle    \* the PreparedPresentation of the host

vars == <<session, prepared, nextToken, stale, gl, handle>>

(* A token tells one candidate of one session.  The adapter keeps a cache   *)
(* for it, counts who may still use the cache, and gives the host a handle *)
(* for it; None stands for the lack of each.                               *)
Token == (1..MaxToken) \X (1..MaxCandidate)
Cache == [token: Token, manifest: {content.manifest : content \in Content} \ {None}]
Outstanding == [token: Token, number: Nat]
HeldHandle == [token: Token, number: Nat, generation: Nat]

ASSUME HostAssumption ==
    None \notin Token /\ None \notin Cache /\ None \notin Outstanding /\ None \notin HeldHandle

TokenOf(slot) == <<prepared[slot].token, prepared[slot].number>>
ActiveToken(s) == <<session[s].token, session[s].active>>

Init ==
    /\ PlaybackInit
    /\ gl = GL!NewBackend
    /\ handle = None

(* Calls of the session that leave the adapter alone.  A commit without an *)
(* adapter is for what has nothing to be drawn by one.                     *)
CallSession ==
    /\ ~gl.terminated /\ ~gl.submitted
    /\ PlaybackNext
    /\ \A slot \in Slot : Commits(slot) => prepared[slot].content.manifest = None
    /\ UNCHANGED <<gl, handle>>

PrepareCandidate(slot) ==
    /\ ~gl.terminated /\ ~gl.submitted /\ handle = None
    /\ prepared[slot] # None
    /\ GL!MayPrepare(gl)
    /\ gl.nextGeneration < MaxUpload
    /\ LET cache == [token |-> TokenOf(slot), manifest |-> prepared[slot].content.manifest]
       IN \/ /\ cache.manifest # None
             /\ gl' = GL!Prepare(gl, cache)
             /\ handle' = GL!Handle(gl')
          \/ /\ gl' = GL!FreeRetired(gl)
             /\ UNCHANGED handle
    /\ UNCHANGED playbackVars

(* A bug: the adapter shows the candidate although the commit refused it.   *)
ActivateUncommitted(slot) ==
    LET owner == prepared[slot].owner
    IN /\ GL!AcceptsHandle(gl, handle)
       /\ Commit(owner, slot) \/ UNCHANGED playbackVars
       /\ gl' = GL!Activate(gl, handle)

Transact(slot) ==
    LET owner == prepared[slot].owner
    IN \/ /\ GL!AcceptsHandle(gl, handle)
          /\ Commit(owner, slot)
          /\ gl' = GL!Activate(gl, handle)
       \/ /\ ~GL!AcceptsHandle(gl, handle) \/ ~Accepts(owner, prepared[slot])
          /\ gl' = GL!Discard(gl, handle)
          /\ UNCHANGED playbackVars

(* The host commits what the adapter was given, to the session it is for;   *)
(* the handle goes at the end.                                              *)
CommitCandidate(slot) ==
    /\ ~gl.terminated /\ ~gl.submitted /\ handle # None
    /\ prepared[slot] # None /\ TokenOf(slot) = handle.token
    /\ Transact(slot)
    /\ handle' = None

(* Another step of the transaction failed: discard, or the destructor.      *)
EndCandidate ==
    /\ ~gl.terminated /\ ~gl.submitted /\ handle # None
    /\ gl' = GL!Discard(gl, handle) \/ gl' = GL!DetachCandidate(gl, handle)
    /\ handle' = None
    /\ UNCHANGED playbackVars

FrameOf(s) ==
    LET content == session[s].content
    IN P!ExtractFrame(content.chart, content.layout, session[s].lastFrame, session[s].applied)

CanExtract(s) ==
    LET content == session[s].content
    IN P!CanExtract(content.chart, content.layout, session[s].lastFrame, session[s].applied)

Drawable(s) == CanExtract(s) /\ P!Draws(FrameOf(s), gl.active.manifest)

HasFrame(s) == Exists(s) /\ IsActive(s) /\ session[s].lastFrame # None

(* Extracted and submitted.  A surface of no size refuses the frame, which  *)
(* changes nothing.                                                        *)
Submit(s) ==
    /\ ~gl.terminated
    /\ HasFrame(s) /\ CanExtract(s)
    /\ GL!MaySubmit(gl)
    /\ gl' = GL!Submit(gl, Drawable(s))
    /\ UNCHANGED <<session, prepared, nextToken, stale, handle>>

Present ==
    /\ ~gl.terminated /\ GL!MayPresent(gl)
    /\ \E failure \in {"none", "recoverable", "unrecoverable"} : gl' = GL!Present(gl, failure)
    /\ UNCHANGED <<session, prepared, nextToken, stale, handle>>

(* The player rebuilds before it prepares, so it holds no handle.           *)
Rebuild ==
    /\ ~gl.terminated /\ ~gl.submitted /\ handle = None
    /\ gl.generation < MaxRebuild
    /\ \E current \in BOOLEAN : gl' = GL!Rebuild(gl, current)
    /\ UNCHANGED <<session, prepared, nextToken, stale, handle>>

Next ==
    \/ CallSession
    \/ \E slot \in Slot : PrepareCandidate(slot) \/ CommitCandidate(slot)
    \/ EndCandidate
    \/ \E s \in Session : Submit(s)
    \/ Present \/ Rebuild

Spec == Init /\ [][Next]_vars

-----------------------------------------------------------------------------
(* The adapter begins to show a candidate only in the step in which its    *)
(* session takes it; a refused commit leaves the old cache (commitBundle,  *)
(* PORTABLE_PRESENTATION.md section 9).                                    *)
ShownIsCommitted ==
    [][gl'.active \notin {gl.active, None} =>
           \E s \in Session : session'[s] # session[s] /\ ActiveToken(s)' = gl'.active.token]_vars

IsInLayout(s) ==
    LET content == session[s].content
    IN \A i \in DOMAIN content.layout :
           content.layout[i].mesh # None => session[s].applied \in DOMAIN content.layout[i].materials

(* While the adapter shows what the session plays, every frame can be       *)
(* drawn from it: whatever material the behaviours set at that time, and   *)
(* whatever of its layout the host overrides, the reference is in the      *)
(* manifest that was uploaded, with the textures and the shader it names.  *)
(* And the one retired cache the adapter has to spare is never taken when  *)
(* activate or discard wants it, which would end the process, whatever     *)
(* order the host commits, gives up, submits and rebuilds in               *)
(* (activatePresentation, discardPresentation).                            *)
FramesDraw ==
    /\ ~gl.terminated
    /\ \A s \in Session :
          /\ HasFrame(s) /\ gl.active # None /\ gl.active.token = ActiveToken(s)
          /\ session[s].content.chart.camera
          /\ session[s].applied = None \/ IsInLayout(s)
          => Drawable(s)

-----------------------------------------------------------------------------
(* The backend keeps what the interface promises.                           *)
TokenIn(cache) == IF cache = None THEN None ELSE cache.token

Renderer ==
    INSTANCE PresentationRenderer
        WITH pending <- TokenIn(gl.pending), active <- TokenIn(gl.active),
             outstanding <- gl.candidate # None, submitted <- gl.submitted,
             lost <- gl.lost, generation <- gl.generation

ImplementsRenderer == Renderer!Spec
=============================================================================
