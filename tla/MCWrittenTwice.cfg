CONSTANTS
    NULL = NULL
    lagoon = lagoon
    r101 = r101
    massage = massage
    Resorts = {lagoon}
    Rooms = {r101}
    Services = {massage}
    Bookings = {b1, none}
    NoneText = none
    Texts = {text}
    Ids = {p1}
    Proposals <- OnlyTowels
    MaxPosts = 2
SPECIFICATION Spec
INVARIANTS WrittenOnce
