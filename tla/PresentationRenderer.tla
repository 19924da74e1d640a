------------------------ MODULE PresentationRenderer ------------------------
(***************************************************************************)
(* What cuexis::presentation_renderer::IPresentationRenderer promises a    *)
(* host, as TestPresentationRenderer, the adapter the tests compare others *)
(* with, keeps it: one candidate at a time is prepared beside the active   *)
(* cache, which only an activation or a rebuild replaces; a frame is       *)
(* submitted to an active cache and presented once; a lost device refuses  *)
(* everything until it is rebuilt.                                         *)
(*                                                                         *)
(* A cache is the token of the playback candidate it was prepared from.    *)
(***************************************************************************)
EXTENDS Naturals

CONSTANTS
    None,
    Token     \* PresentationCandidateTokens

VARIABLES pending, active, outstanding, submitted, lost, generation

rendererVars == <<pending, active, outstanding, submitted, lost, generation>>

Init ==
    /\ pending = None /\ active = None
    /\ outstanding = FALSE /\ submitted = FALSE /\ lost = FALSE
    /\ generation = 1

Prepare ==
    /\ ~lost /\ ~outstanding
    /\ pending' \in Token
    /\ outstanding' = TRUE
    /\ UNCHANGED <<active, submitted, lost, generation>>

Activate ==
    /\ outstanding /\ pending # None
    /\ active' = pending /\ pending' = None
    /\ outstanding' = FALSE /\ submitted' = FALSE
    /\ UNCHANGED <<lost, generation>>

(* discard, and the destructor of a handle that was not activated.          *)
Discard ==
    /\ outstanding
    /\ pending' = None /\ outstanding' = FALSE
    /\ UNCHANGED <<active, submitted, lost, generation>>

Submit ==
    /\ ~lost /\ active # None /\ ~submitted
    /\ submitted' = TRUE
    /\ UNCHANGED <<pending, active, outstanding, lost, generation>>

(* A frame that fails to be presented is given up; the device may be lost.  *)
Present ==
    /\ ~lost /\ submitted
    /\ submitted' = FALSE
    /\ lost' \in BOOLEAN
    /\ UNCHANGED <<pending, active, outstanding, generation>>

(* What the adapter holds is dropped when it can be reached.                *)
Rebuild ==
    /\ active' \in {active, None} /\ pending' = None
    /\ submitted' = FALSE /\ lost' = FALSE
    /\ generation' = generation + 1
    /\ UNCHANGED <<outstanding>>

Next ==
    \/ Prepare \/ Activate \/ Discard
    \/ Submit \/ Present
    \/ Rebuild

Spec == Init /\ [][Next]_rendererVars
=============================================================================
