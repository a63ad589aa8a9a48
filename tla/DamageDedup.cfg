CONSTANTS
    bare = bare
    shielded = shielded
    Clients = {alice}
    Serials = {1, 2}
    Targets <- MCTargets
    MaxHp = 2
    Damage = 2
    Shield <- MCShield
    Keep = 1
    MaxQueue = 2
    MaxTicks = 5
    MaxLives = 1
SPECIFICATION DamageSpec
INVARIANTS OneDeathPerLife
PROPERTIES HitOnce
CHECK_DEADLOCK FALSE
