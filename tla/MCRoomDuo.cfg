SPECIFICATION FairSpec
CONSTANTS
    p1 = p1
    p2 = p2
    p3 = p3
    p4 = p4
    Nobody = Nobody
    Human = {p1, p2}
    Bot = {}
    Size = 2
    Seated = {p1}
    SetUp = {p1}
    Task = {t1, t2}
    Requests = {"reserve", "join", "ready", "leave", "drop"}
    Serial = {}
    Faulty = {}
    MaxDuels = 2
    MaxAbsences = 2
    MaxRestarts = 1
CHECK_DEADLOCK FALSE
INVARIANTS
    TypeOK
    OneDuelPerPair
PROPERTIES
    RankedByWins
    ReadyRoomStarts
    AbandonedLobbyGoes
