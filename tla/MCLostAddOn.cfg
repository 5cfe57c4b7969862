CONSTANTS
    NULL = NULL
    lagoon = lagoon
    r101 = r101
    r102 = r102
    massage = massage
    diving = diving
    res1 = res1
    chat = chat
    text = text
    Resorts = {lagoon}
    Rooms = {r101}
    Services = {massage}
    Bookings = {res1}
    Texts = {text}
    Conversations = {chat}
    ResortOf <- ResortOfOnlyRoom
    LastDay = 40
    Turn = {t1, t2}
    Requests <- RacingRequests
    MaxRetry = 1
SPECIFICATION Spec
PROPERTIES AddOnIsProposed
