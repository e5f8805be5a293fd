SPECIFICATION Spec
CONSTANTS
    p1 = p1
    p2 = p2
    fire = fire
    water = water
    Player1 = p1
    Player2 = p2
    Slot = {1, 2}
    FullHp = 40
    FullPP = 1
    LimitedMove = {1}
    WeakMove = 4
    MoveDamage <- MCDamage
    Type = {fire, water}
    TypeOf <- MCTypeOf
    DoubledMultiplier <- MCMultiplier
    NoMove = 0
    Nobody = Nobody
INVARIANTS
    TypeOK
    FaintedIsOut
    OneActive
    LiveIsFielded
    KoVerdict
    VerdictShape
PROPERTIES
    Attrition
    VerdictIsFinal
