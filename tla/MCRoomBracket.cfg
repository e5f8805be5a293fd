SPECIFICATION Spec
CONSTANTS
    p1 = p1
    p2 = p2
    p3 = p3
    p4 = p4
    Nobody = Nobody
    Human = {p1, p2}
    Bot = {p3, p4}
    Size = 4
    Seated = {p1}
    SetUp = {}
    Task = {t1, t2}
    Requests = {"ready", "join", "drop", "leave", "bot", "unbot"}
    Serial = {"ready"}
    Faulty = {"arm"}
    MaxDuels = 4
    MaxAbsences = 1
    MaxRestarts = 0
SYMMETRY PlayerSymmetry
CHECK_DEADLOCK FALSE
INVARIANTS
    OneOpenDuelEach
    FinalsFromSemis
    NextRoundIsOwed
    ClosedBracketIsDecided
