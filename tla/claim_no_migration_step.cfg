SPECIFICATION FairSpec
CONSTANTS
    Slot = {h1, h2}
    MaxConns = 1
    Row = {1, 2}
    MaxList = 1
    Outside = {}
    Latest = 3
    MaxKills = 1
PROPERTIES
    NoSeparateMigrationStep
