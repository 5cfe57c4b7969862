CONSTANTS
    NULL = NULL
    lagoon = lagoon
    r101 = r101
    massage = massage
    Resorts = {lagoon}
    Rooms = {r101}
    Services = {massage}
    Bookings = {b1, b2, none}
    NoneText = none
    Texts = {text}
    Ids = {p1, p2}
    Proposals <- GuestProposals
    MaxPosts = 2
SPECIFICATION FairSpec
INVARIANTS TypeOK ToldIsTrue
PROPERTIES KeepsPromise EveryRunEnds
