CONSTANTS
    Cooldown = 2
    MaxCalls = 2
    MaxCount = 4
    threshold = 1
    overscan = 1
    estimateHeight = 1
    Height = {1, 2}
    View = {1, 2}
    Anchor = {0, 1, 2}
    Size = {0, 2, 9}
    MaxEntries = 4
    Width = {0, 10, 16}
    MinHeight = 4
    MaxHeight = 6
    MIN_TILE_AREA = 4
SPECIFICATION MCSpec
PROPERTY SignOutSticks
