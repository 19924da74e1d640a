-------------------------- MODULE MCPlayerController --------------------------
(* A chart without music and one with, each with its timing offset.        *)
EXTENDS PlayerController, TLC
TwoUnits == [clip \in Clip |-> 2]
Silent(offset) == [music |-> FALSE, offset |-> offset]
Music(offset) == [music |-> TRUE, offset |-> offset]
SilentAndMusic == {Silent(1), Music(1)}
MusicOnly == {Music(0)}
LateMusic == {Music(1)}
SilentOnly == {Silent(0)}
Clips == Permutations(Clip)
=============================================================================
