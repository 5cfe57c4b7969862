SPECIFICATION OperationSpec
CONSTANTS
    NULL = NULL
    None = None
    r1 = r1
    r2 = r2
    r3 = r3
    r4 = r4
    Rooms = {r1, r2, r3, r4}
    Limit = 3
    Inventories <- MCLists
    StayRooms = {r101, r102}
    RoomStates = {"available", "cleaning"}
    n201 = n201
    n202 = n202
    n301 = n301
    n100 = n100
    Admins = {ana}
    Demo <- DemoRooms
    Others = {n100}
    PageLimit = 5
    LateWrites = {n301}
    MaxCopies = 2
    LastDay = 57
    LastToday = 2
    Impossible = Impossible
    Nothing = Nothing
    Raised = Raised
    Texts <- MCTexts
INVARIANTS
    SearchTypeOK
    OfferHasReason
    WithheldHasReason
    CheckTypeOK
    VerdictWasTrue
    SeedTypeOK
    NoDuplicateRooms
    ReportIsTrue
    TypeOK
    WeekdayIsNext
    ComputedStayIsOrdered
    CrashNeedsBadDate
    NothingFoundAfterAll
    AlternativesKeepStay
PROPERTIES
    DemoRoomsAreSeeded
