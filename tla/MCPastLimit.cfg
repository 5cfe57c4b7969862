CONSTANTS
    r1 = r1
    r2 = r2
    r3 = r3
    r4 = r4
    Rooms = {r1, r2, r3}
    Limit = 2
    Inventories <- KeyedLists
SPECIFICATION SearchSpec
INVARIANTS OfferedWasFree
