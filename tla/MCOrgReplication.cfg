\* The groups of two paths, one of them deleted and created again; tokens list
\* them in opposite orders; local organizations may have the slugs of one.
CONSTANTS
    Procs = {q1, q2}
    Ids = {1, 2, 3}
    Gids = {g1, g2}
    Paths = {p1, p2}
    g1 = g1
    g2 = g2
    p1 = p1
    p2 = p2
    None = None
    Settings <- Races
    SlugBase <- SlugOf
    MaxSlugs = 2
    Local <- Taken

SPECIFICATION FairSpec

INVARIANTS
    OneOrgPerGroup
    Anchored
    LocksInOrder

PROPERTIES
    IdSticks
    ResolvesEnd
