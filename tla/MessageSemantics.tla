-------------------------- MODULE MessageSemantics --------------------------
(***************************************************************************)
(* What the planner and the agents read out of one guest message           *)
(* (agents/message_semantics.py, agents/open_intents.py and the parsers of *)
(* utils/).                                                                *)
(*                                                                         *)
(* A message is the record of everything the regular expressions and word  *)
(* lists extract from it: says is the set of boolean signals that hold,    *)
(* the other entries are the parsed values.  Which text produces which     *)
(* record is the business of the parsers; the predicates below are the     *)
(* decisions taken from the record.                                        *)
(***************************************************************************)
EXTENDS ConversationState, Sequences, FiniteSets

Signals ==
    {"asks_question", "asks_list", "asks_status", "wants_action",
     "asks_availability", "mentions_branch", "mentions_booking",
     "mentions_room", "mentions_stay", "mentions_service",
     "mentions_service_request", "mentions_recommendation",
     "mentions_check_in", "mentions_faq", "mentions_existing_booking",
     "room_selection_hint",
     "lookup_phrase",       \* one of BOOKING_LOOKUP_PHRASES
     "continuation_phrase", \* one of SOFT_CONTINUATION_PHRASES, as a substring
     "exploration_phrase",  \* one of AVAILABILITY_EXPLORATION_PHRASES
     "booking_keyword",     \* "book", "reserve" or "take this", as a substring
     "branch_word",         \* exactly "branches", "resorts" or "locations"
     "pure_greeting",       \* exactly one of PURE_GREETING_MESSAGES
     "only_booking_id",     \* nothing but a booking identifier
     "dates_raise"}         \* reading its dates raises (extract_stay_dates)

OpenIntents ==
    {"greeting", "identity", "hostile_repair", "general_support",
     "general_knowledge"}

Message ==
    [text          : Texts,
     says          : SUBSET Signals,
     booking_id    : Optional(Bookings),
     dates         : {dates \in Seq(Nat) : Len(dates) <= 2},
     duration_days : Optional(Nat),
     adults        : Optional(Nat),
     children      : Optional(Nat),
     open_intent   : Optional(OpenIntents),
     resort        : Optional(Resorts),   \* the branch it names
     rooms         : SUBSET Rooms,        \* the rooms whose number or identifier it holds
     typed         : SUBSET Rooms,        \* the rooms of the types it names
     service       : Optional(Services)]  \* the service it names

Says(m, signal) == signal \in m.says

SuggestsCheckIn(m) ==
    /\ Says(m, "mentions_check_in")
    /\ \/ Says(m, "mentions_booking")
       \/ Says(m, "asks_status")
       \/ m.booking_id # NULL

SuggestsBranchCatalog(m) ==
    \/ Says(m, "mentions_branch") /\ (Says(m, "asks_list") \/ Says(m, "asks_question"))
    \/ Says(m, "branch_word")

SuggestsServiceCatalog(m) == Says(m, "mentions_service") /\ Says(m, "asks_list")

SuggestsServiceBooking(m, hasKnownService) ==
    \/ hasKnownService /\ ~SuggestsBranchCatalog(m)
    \/ {"wants_action", "mentions_existing_booking", "mentions_service"} \subseteq m.says

SuggestsServiceRequest(m) ==
    Says(m, "mentions_service_request") /\ ~SuggestsServiceBooking(m, FALSE)

RequestsBookingLookupExplicitly(m) ==
    \/ Says(m, "lookup_phrase")
    \/ /\ Says(m, "mentions_booking") /\ Says(m, "asks_status")
       /\ m.dates = <<>> /\ m.duration_days = NULL

SuggestsBookingSearch(m) ==
    /\ ~Says(m, "only_booking_id")
    /\ \/ m.dates # <<>> \/ m.duration_days \notin {NULL, 0}
       \/ m.adults # NULL \/ m.children # NULL
       \/ /\ Says(m, "asks_availability") \/ Says(m, "wants_action")
          /\ {"mentions_booking", "mentions_room", "mentions_stay"} \cap m.says # {}

SuggestsRecommendation(m) ==
    Says(m, "mentions_recommendation") /\ ~Says(m, "mentions_existing_booking")

SuggestsFaq(m) == Says(m, "mentions_faq") /\ Says(m, "asks_question")

SuggestsTaskContinuation(m) ==
    Says(m, "continuation_phrase") \/ m.open_intent = "greeting"

WantsAvailabilityExploration(m) == Says(m, "exploration_phrase")

\* Booking is asked for by keyword (_wants_booking).
WantsBooking(m) == Says(m, "booking_keyword")

(***************************************************************************)
(* match_room_choice: of the rooms named by identifier or number the first *)
(* of the list, whose order is the backend's; else the only available room *)
(* of the types named.  The set of its possible results.                   *)
(***************************************************************************)
MatchRoomChoice(m, available) ==
    LET named == m.rooms \cap available
        typed == m.typed \cap available
    IN IF named # {} THEN named
       ELSE IF Cardinality(typed) = 1 THEN typed
       ELSE {NULL}
=============================================================================
