SPECIFICATION SharingSpec
CONSTANTS
    a1 = a1  a2 = a2  b1 = b1  m1 = m1  k1 = k1  empty = empty  moved = moved
    Objects = {a1, a2}
    Builders = {b1}
    Mutables = {m1}
    Keys = {k1}
    Values = {empty}
    NoValue = empty
    Moved = moved
    MaxEntries = 2
    Holders = {a1}
    Cells = {1}
    Contents = {1}
    Nowhere = moved
    Optionals = {a1}
    StaticVariants = {a2}
    Types = {"A"}
    TheType = "A"
PROPERTY CopiesOnWrite
CHECK_DEADLOCK FALSE
