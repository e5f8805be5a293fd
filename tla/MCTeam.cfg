SPECIFICATION ScreenSpec
CONSTANTS
    h1 = h1
    h2 = h2
    h3 = h3
    s1 = s1
    s2 = s2
    m1 = m1
    m2 = m2
    Human = {h1, h2, h3}
    Bot = {}
    Host = h1
    Me = h2
    Rivals = {h1}
    Pokemon = {s1, s2, m1, m2}
    Starter = {s1, s2}
    RosterSize = 1
    Task = {t1}
    MaxDuels = 1
    MaxEchoes = 0
    MaxSent = 2
    MaxDrops = 1
    None = None
SYMMETRY PokemonSymmetry
CHECK_DEADLOCK FALSE
INVARIANTS
    ScreenTypeOK
    PickerNeverStuck
    ShownTeamIsHeld
    SeatIsEntered
