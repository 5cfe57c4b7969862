CONSTANTS
    NULL = NULL
    lagoon = lagoon
    r101 = r101
    r102 = r102
    massage = massage
    diving = diving
    res1 = res1
    chat = chat
    text = text
    now = now
    Resorts = {lagoon}
    Rooms = {r101}
    Services = {massage}
    Bookings = {res1, res2, none}
    NoneText = none
    Texts = {text, now}
    Conversations = {chat}
    ResortOf <- ResortOfOnlyRoom
    LastDay = 40
    Turn = {w}
    Window = w
    Ids = {p1, p2}
    MaxPosts = 1
    Confirming <- Confirmations
    Requests <- TerminalRequests
    MaxRetry = 1
SPECIFICATION FairTerminalSpec
PROPERTIES ProposalsAreForTheStay PromptReturns
