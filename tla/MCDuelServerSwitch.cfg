SPECIFICATION Spec
CONSTANTS
    p1 = p1
    p2 = p2
    normal = normal
    Player1 = p1
    Player2 = p2
    Slot = {1, 2}
    FullHp = 1
    FullPP = 1
    LimitedMove = {}
    WeakMove = 4
    MoveDamage <- MCDamage
    Type = {normal}
    TypeOf <- MCTypeOf
    DoubledMultiplier <- MCMultiplier
    Handler = {h1, h2}
    Expiry = {}
    Requests = {"lead", "switch", "pick", "disconnect"}
    Faulty = {"switch_write", "round_duel", "round_write", "fresh_duel", "finish_write"}
    NoMove = 0
    Nobody = Nobody
SYMMETRY HandlerSymmetry
CHECK_DEADLOCK FALSE
INVARIANTS
    KoVerdict
    FaintedIffNoHp
