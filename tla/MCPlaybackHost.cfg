SPECIFICATION Spec

CONSTANTS
    None = None
    m = m
    n = n
    u = u
    l = l
    p = p
    t = t
    s = s
    a = a
    stepped = stepped
    legacy = legacy
    Session = {s1}
    Slot = {c1, c2}
    Source <- Sources
    Content <- MCContent
    Preparations <- MCPreparations
    HasMusic <- MCHasMusic
    Mode = {"ChartClock", "CuexisAudio"}
    Material <- MCMaterial
    Time <- MCTime
    MaxToken = 2
    MaxGeneration = 4
    MaxCandidate = 2
    Asset = {m, n, u, l, p, t, s, a}
    MaxDepth = 2
    MaxUpload = 2
    MaxRebuild = 2

SYMMETRY Symmetry

INVARIANTS
    PrepareIsExact
    FramesDraw
PROPERTIES
    CommitIsCurrent
    ShownIsCommitted
    ImplementsRenderer

CHECK_DEADLOCK FALSE
