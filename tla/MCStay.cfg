CONSTANTS
    NULL = NULL
    lagoon = lagoon
    r101 = r101
    r102 = r102
    massage = massage
    diving = diving
    res1 = res1
    chat = chat
    text = text
    Resorts = {lagoon}
    Rooms = {r101, r102}
    Services = {massage, diving}
    Bookings = {res1}
    Texts = {text}
    Conversations = {chat}
    ResortOf <- ResortOfRoom
    LastDay = 40
    Turn = {t1}
    Requests <- StayAndAddOnRequests
    MaxRetry = 2
SPECIFICATION Spec
INVARIANTS ProposalIsAllowed
PROPERTIES AddOnIsProposed
