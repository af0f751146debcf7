\* Four keys compete for three slots: every hole pattern and a full table.
CONSTANTS
    MaxEntries = 3
    Keys = {k1, k2, k3, k4}
    Values = {h1, h2}
    NoKey = NoKey
    NoValue = NoValue
SPECIFICATION Spec
INVARIANTS
    TypeOK
    UniqueKeys
PROPERTIES
    EntriesStayPut
    ImplementsDirectory
