--------------------------- MODULE MCRuntimeSession ---------------------------
(* A parent and its child, which has a camera; the parent has an           *)
(* appearance.  The tracks move the parent and change the camera, the clip *)
(* is over the camera.                                                     *)
EXTENDS RuntimeSession, TLC
MCEntity == {"parent", "child"}
MCParent == ("parent" :> None) @@ ("child" :> "parent")
P == <<"parent", "transform">>
C == <<"child", "transform">>
Camera == <<"child", "camera">>
Appearance == <<"parent", "appearance">>
MCCell == {P, C, Camera, Appearance}
Still == [initial |-> [c \in MCCell |-> 1], tracks |-> <<>>, clips |-> <<>>,
          beat |-> [time \in 0..2 |-> 0]]
Moving == [initial |-> [c \in MCCell |-> 2],
           tracks |-> (P :> [beat |-> 1, value |-> 3]) @@ (Camera :> [beat |-> 2, value |-> 3]),
           clips |-> Camera :> [beat |-> 1, add |-> 2],
           beat |-> [time \in 0..2 |-> time]]
MCCharts == {Still, Moving}
Ask(kind, priority, life, n, writes) ==
    [kind |-> kind, priority |-> priority, life |-> [kind |-> life, n |-> n], writes |-> writes]
MCOverrides ==
    {Ask("host", 1, "released", 0, C :> 3),
     Ask("host", 2, "frames", 2, (C :> 1) @@ (Appearance :> 2)),
     Ask("preview", 1, "until", 1, Camera :> Bad)}
At(time, delta, id) == [time |-> time, delta |-> delta, id |-> id]
MCFrames == {At(0, 0, 1), At(1, 1, 1), At(2, 0, 2)}
MCBaseWrites == {<<P, 1>>, <<Camera, 1>>, <<Camera, Bad>>}
=============================================================================
