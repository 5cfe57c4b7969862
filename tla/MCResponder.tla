---------------------------- MODULE MCResponder ----------------------------
(***************************************************************************)
(* Requests for model checking the Responder.  Each message record is what *)
(* analyze_message and the other parsers extract from the quoted text.     *)
(* Day 1 is 2026-05-01.                                                    *)
(***************************************************************************)
EXTENDS Responder, TLC

CONSTANTS lagoon, r101, r102, massage, diving, res1, chat, text

ResortOfRoom == [room \in {r101, r102} |-> lagoon]
ResortOfOnlyRoom == [room \in {r101} |-> lagoon]

Silent ==
    [text |-> text, says |-> {}, booking_id |-> NULL, dates |-> <<>>,
     duration_days |-> NULL, adults |-> NULL, children |-> NULL,
     open_intent |-> NULL, resort |-> NULL, rooms |-> {}, typed |-> {},
     service |-> NULL]

\* "hello"
Hello == [Silent EXCEPT !.says = {"continuation_phrase", "pure_greeting"},
                        !.open_intent = "greeting"]
\* "which branches do you have?"
Branches == [Silent EXCEPT !.says = {"asks_question", "asks_list",
                                     "mentions_branch", "continuation_phrase"},
                           !.open_intent = "general_knowledge"]
\* "Lagoon"
NameLagoon == [Silent EXCEPT !.resort = lagoon]
\* "a room from 2026-05-01 to 2026-05-03"
Stay == [Silent EXCEPT !.says = {"mentions_room", "mentions_stay",
                                 "room_selection_hint"},
                       !.dates = <<1, 3>>]
\* "from 2026-05-02"
OneDate == [Silent EXCEPT !.says = {"mentions_stay", "room_selection_hint"},
                          !.dates = <<2>>]
\* "until 2026-05-04"
OtherDate == [Silent EXCEPT !.says = {"mentions_stay", "room_selection_hint"},
                            !.dates = <<4>>]
\* "for 1 night"
OneNight == [Silent EXCEPT !.says = {"mentions_stay"}, !.duration_days = 1]
\* "for 9999999 nights"
Forever == [OneNight EXCEPT !.duration_days = LastDay]
\* "from 2026-02-30": copied, not read as a date
NoSuchDay == [OneDate EXCEPT !.dates = <<LastDay + 1>>]
\* "from 2026-02-30 for 1 night": the shift raises
NoSuchNight == [Silent EXCEPT !.says = {"mentions_stay", "room_selection_hint",
                                        "dates_raise"},
                              !.duration_days = 1]
\* "2 adults and 0 children" (the substring "hi" of "children" counts as a
\* continuation phrase)
Party == [Silent EXCEPT !.says = {"continuation_phrase"},
                        !.adults = 2, !.children = 0]
\* "1 adult"
Alone == [Silent EXCEPT !.adults = 1]
\* "room 101"
Room101 == [Silent EXCEPT !.says = {"mentions_room", "room_selection_hint"},
                          !.rooms = {r101}]
\* "book room 102"
Book102 == [Silent EXCEPT !.says = {"mentions_booking", "mentions_room",
                                    "room_selection_hint",
                                    "continuation_phrase", "booking_keyword"},
                          !.rooms = {r102}]
\* "book room 101 or 102"
BookEither == [Book102 EXCEPT !.rooms = {r101, r102}]
\* "book the suite": 102 is one, 101 is not
BookSuite == [Book102 EXCEPT !.says = @ \ {"room_selection_hint"},
                             !.rooms = {}, !.typed = {r102}]
\* "book it" (the substring "ok" counts as a continuation phrase)
BookIt == [Silent EXCEPT !.says = {"mentions_booking", "continuation_phrase",
                                   "booking_keyword"}]
\* "book room 101 from 2026-05-01 to 2026-05-03 for 2 guests"
BookAll == [Silent EXCEPT !.says = {"mentions_booking", "mentions_room",
                                    "mentions_stay", "room_selection_hint",
                                    "continuation_phrase", "booking_keyword"},
                          !.dates = <<1, 3>>, !.adults = 2, !.children = 0,
                          !.rooms = {r101}]
\* "yes"
Yes == [Silent EXCEPT !.says = {"continuation_phrase"}]
\* "nearby dates"
Nearby == [Silent EXCEPT !.says = {"exploration_phrase"}]
\* "this is stupid"
Hostile == [Silent EXCEPT !.says = {"continuation_phrase"},
                          !.open_intent = "hostile_repair"]
\* "tell me about jazz"
Jazz == [Silent EXCEPT !.open_intent = "general_knowledge"]
\* "thanks"
Thanks == Silent
\* "is my reservation confirmed?"
Confirmed == [Silent EXCEPT !.says = {"asks_question", "asks_status",
                                      "mentions_booking",
                                      "mentions_existing_booking"},
                            !.open_intent = "general_knowledge"]
\* "show my booking res_1"
ShowBooking == [Silent EXCEPT !.says = {"asks_list", "mentions_booking",
                                        "mentions_existing_booking",
                                        "continuation_phrase",
                                        "booking_keyword", "lookup_phrase"},
                              !.booking_id = res1]
\* "res_1"
GiveBooking == [Silent EXCEPT !.says = {"only_booking_id"}, !.booking_id = res1]
\* "list the services"
ListServices == [Silent EXCEPT !.says = {"asks_list", "mentions_service"}]
\* "massage"
Massage == [Silent EXCEPT !.says = {"mentions_service"}, !.service = massage]
\* "diving"
Diving == [Silent EXCEPT !.service = diving]
\* "suggest an activity"
Suggest == [Silent EXCEPT !.says = {"mentions_recommendation"}]
\* "more towels"
Towels == [Silent EXCEPT !.says = {"mentions_service_request"}]
\* "is my reservation ready for check-in?"
ReadyYet == [Silent EXCEPT !.says = {"asks_question", "asks_status",
                                     "mentions_booking", "mentions_stay",
                                     "mentions_check_in",
                                     "mentions_existing_booking"},
                           !.open_intent = "general_knowledge"]

NoContext == [booking_id |-> NULL, room_id |-> NULL, resort_id |-> NULL]

Send(m) == [conv |-> chat, msg |-> m, ctx |-> NoContext, tools |-> Tools,
            staff |-> FALSE]

\* One guest working towards a booking, with every kind of interruption.
BookingRequests ==
    {Send(m) : m \in {Hello, Branches, NameLagoon, Stay, OneDate, OneNight, Party,
                      Alone, Room101, Book102, BookIt, Yes, Nearby, Hostile,
                      Jazz, Thanks, Forever, NoSuchDay, NoSuchNight, BookEither,
                      BookSuite}}

\* The in-stay agents, with and without a booking, for guests and staff.
StayRequests ==
    {Send(m) : m \in {Confirmed, ShowBooking, GiveBooking, ListServices, Massage,
                      Diving, Yes, Suggest, Towels, ReadyYet, Hostile}}
    \cup {[Send(m) EXCEPT !.ctx.booking_id = res1, !.staff = TRUE] :
              m \in {ReadyYet, Massage}}
    \cup {[Send(m) EXCEPT !.tools = {}] : m \in {BookAll, Towels, Massage, ReadyYet}}
    \cup {[Send(Yes) EXCEPT !.tools = NULL, !.ctx.room_id = r102]}

\* A guest of one branch who adds services to the booking plan.
AddOnRequests ==
    {[Send(m) EXCEPT !.ctx.resort_id = lagoon] :
        m \in {Stay, Party, BookAll, BookIt, ListServices, Massage, Suggest, Hostile}}

\* Both, and small talk in between.
StayAndAddOnRequests ==
    StayRequests \cup AddOnRequests \cup {Send(m) : m \in {Hello, Jazz}}

\* Messages worth racing against each other in one conversation.
RacingRequests ==
    {[Send(BookAll) EXCEPT !.ctx.resort_id = lagoon]}
    \cup {Send(m) : m \in {Stay, Yes, Massage, Hostile}}

\* A message for every agent that awaits something, two of them at a time, and a
\* second guest, whose hostile message leaves a task open.
OverlapRequests ==
    {[Send(BookAll) EXCEPT !.ctx.resort_id = lagoon]}
    \cup {Send(m) : m \in {Yes, Suggest}}
    \cup {[Send(Hostile) EXCEPT !.conv = c] : c \in Conversations}
    \cup {[Send(m) EXCEPT !.ctx.booking_id = res1] : m \in {Towels, ReadyYet, ShowBooking}}

\* A guest who settles the dates one message at a time.
DateRequests ==
    {[Send(m) EXCEPT !.ctx.resort_id = lagoon] : m \in {Stay, OneDate, OtherDate, Thanks}}
=============================================================================
