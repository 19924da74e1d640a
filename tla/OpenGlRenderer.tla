--------------------------- MODULE OpenGlRenderer ---------------------------
(***************************************************************************)
(* cuexis::render_opengl::OpenGlBackend as a presentation renderer.  GPU   *)
(* objects may be freed only while the context is current, so a cache that *)
(* is replaced or discarded is retired, and freed by the next prepare or   *)
(* frame.  There is room for one: activate and discard are noexcept, and   *)
(* end the process when they find another retired.                         *)
(*                                                                         *)
(* An operator takes a backend and gives the one after the call.  A cache  *)
(* is the token it was prepared from and the manifest of its resources.    *)
(***************************************************************************)
EXTENDS Naturals

CONSTANT None

(* candidate is interfaceCandidate_.  A prepare gives a number to what it   *)
(* uploads, a rebuild a new generation to the backend.                      *)
NewBackend ==
    [pending |-> None, active |-> None, retired |-> None, candidate |-> None,
     pendingGeneration |-> 0, nextGeneration |-> 0, generation |-> 1,
     submitted |-> FALSE, lost |-> FALSE, terminated |-> FALSE]

Terminate(gl) == [gl EXCEPT !.terminated = TRUE]

MayPrepare(gl) == ~gl.lost /\ gl.candidate = None /\ gl.pending = None

(* What every prepare and every frame does first.                          *)
FreeRetired(gl) == [gl EXCEPT !.retired = None]

(* Everything is uploaded before the backend takes the candidate.           *)
Prepare(gl, cache) ==
    LET number == gl.nextGeneration + 1
    IN [FreeRetired(gl) EXCEPT
           !.pending = cache, !.pendingGeneration = number, !.nextGeneration = number,
           !.candidate = [token |-> cache.token, number |-> number]]

(* The handle that the host holds: a PreparedPresentation.                  *)
Handle(gl) == [token |-> gl.candidate.token, number |-> gl.candidate.number,
               generation |-> gl.generation]

AcceptsHandle(gl, handle) ==
    /\ gl.candidate # None
    /\ handle.generation = gl.generation
    /\ handle.token = gl.candidate.token

(* Whether the candidate of the interface is what the backend has pending.  *)
IsPending(gl) ==
    /\ gl.pending # None
    /\ gl.pendingGeneration = gl.candidate.number
    /\ gl.pending.token = gl.candidate.token

Taken(gl) == [gl EXCEPT !.pending = None, !.pendingGeneration = 0, !.candidate = None]

Activate(gl, handle) ==
    IF \/ ~AcceptsHandle(gl, handle) \/ ~IsPending(gl)
       \/ gl.active # None /\ gl.retired # None
    THEN Terminate(gl)
    ELSE [Taken(gl) EXCEPT !.active = gl.pending,
                           !.retired = IF gl.active # None THEN gl.active ELSE @]

DiscardPending(gl) ==
    IF ~IsPending(gl) \/ gl.retired # None THEN Terminate(gl)
    ELSE [Taken(gl) EXCEPT !.retired = gl.pending]

Discard(gl, handle) ==
    CASE gl.candidate = None -> gl
      [] gl.candidate # None /\ ~AcceptsHandle(gl, handle) -> [gl EXCEPT !.candidate = None]
      [] OTHER -> DiscardPending(gl)

(* The destructor of a handle.                                              *)
DetachCandidate(gl, handle) ==
    CASE gl.candidate = None -> gl
      [] gl.candidate # None /\ \/ handle.generation # gl.generation \/ gl.pending = None
                                \/ handle.number # gl.candidate.number
                                \/ handle.token # gl.candidate.token
            -> [gl EXCEPT !.candidate = None]
      [] OTHER -> DiscardPending(gl)

-----------------------------------------------------------------------------
MaySubmit(gl) == ~gl.lost /\ ~gl.submitted /\ gl.active # None

(* renderPresentation frees the retired cache whether the frame is drawn or *)
(* refused.                                                                 *)
Submit(gl, drawn) == [FreeRetired(gl) EXCEPT !.submitted = drawn]

MayPresent(gl) == ~gl.lost /\ gl.submitted

(* A bug: a frame that failed to be presented is kept for another present.  *)
PresentAgain(gl, failure) ==
    [gl EXCEPT !.submitted = failure # "none", !.lost = failure = "unrecoverable"]

Present(gl, failure) ==
    [gl EXCEPT !.submitted = FALSE, !.lost = failure = "unrecoverable"]

(* current: the context could be made current.                              *)
Rebuild(gl, current) ==
    LET freed == IF current
                 THEN [gl EXCEPT !.active = None, !.pending = None, !.retired = None,
                                 !.pendingGeneration = 0]
                 ELSE gl
    IN [freed EXCEPT !.candidate = None, !.submitted = FALSE, !.lost = FALSE,
                     !.generation = @ + 1]
=============================================================================
