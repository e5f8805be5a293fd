SPECIFICATION Spec
CONSTANTS
    h1 = h1
    h2 = h2
    b1 = b1
    s1 = s1
    s2 = s2
    m1 = m1
    Human = {h1, h2}
    Bot = {b1}
    Host = h1
    Pokemon = {s1, s2, m1}
    Starter = {s1, s2}
    RosterSize = 2
    Task = {t1, t2}
    MaxDuels = 1
    MaxEchoes = 1
    None = None
SYMMETRY PokemonSymmetry
CHECK_DEADLOCK FALSE
INVARIANTS
    TypeOK
    StartersApart
    TeamsAreWhole
    ReadyBotHasTeam
