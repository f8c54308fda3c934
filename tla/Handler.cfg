CONSTANTS
    rgb = rgb
    packed = packed
    None = None
    LastFrame = 1
    Setting = {rgb, packed}
    InitialSettings = rgb
    BytesOf <- MCBytes
    c1 = c1
    c2 = c2
    Cacher = {c1, c2}
    Uses <- MCUses
SPECIFICATION FairSpec
INVARIANTS
    TypeOK
    CachedPicturesCurrent
    IndexNamesFrame
PROPERTIES
    CacheComesBack
CHECK_DEADLOCK FALSE
