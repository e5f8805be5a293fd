SPECIFICATION FairSpec
CONSTANTS
    p1 = p1
    p2 = p2
    normal = normal
    Player1 = p1
    Player2 = p2
    Slot = {1}
    FullHp = 1
    FullPP = 1
    LimitedMove = {}
    WeakMove = 4
    MoveDamage <- MCDamage
    Type = {normal}
    TypeOf <- MCTypeOf
    DoubledMultiplier <- MCMultiplier
    Handler = {h1, h2}
    Expiry = {x1}
    Requests = {"lead", "pick"}
    Faulty = {}
    NoMove = 0
    Nobody = Nobody
CHECK_DEADLOCK FALSE
PROPERTIES
    FirstTurnIsPlayed
