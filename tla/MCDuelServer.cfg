SPECIFICATION FairSpec
CONSTANTS
    p1 = p1
    p2 = p2
    normal = normal
    Player1 = p1
    Player2 = p2
    Slot = {1}
    FullHp = 1
    FullPP = 1
    LimitedMove = {}
    WeakMove = 4
    MoveDamage <- MCDamage
    Type = {normal}
    TypeOf <- MCTypeOf
    DoubledMultiplier <- MCMultiplier
    Handler = {h1, h2}
    Expiry = {x1}
    Requests = {"lead", "pick", "surrender"}
    Faulty = {"round_duel", "round_rows", "round_write"}
    NoMove = 0
    Nobody = Nobody
CHECK_DEADLOCK FALSE
INVARIANTS
    TypeOK
    PickHasOwner
PROPERTIES
    DecidedOnce
    PickIsTaken
    EndIsAnnounced
