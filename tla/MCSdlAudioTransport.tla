------------------------- MODULE MCSdlAudioTransport -------------------------
(* A long and a short clip for the SDL transport.                          *)
EXTENDS SdlAudioTransport
CONSTANTS long, short
TwoClips == {long, short}
Lengths == [clip \in TwoClips |-> IF clip = long THEN 4 ELSE 1]
=============================================================================
