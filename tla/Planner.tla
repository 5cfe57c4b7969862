------------------------------- MODULE Planner -------------------------------
(***************************************************************************)
(* Which agent answers a message (agents/planner.py, planner_state.py).    *)
(*                                                                         *)
(* The planner is an ordered list of rules; the first whose guard holds    *)
(* decides.  Confidence, secondary intents and read_tools are annotations  *)
(* nobody acts on and are left out, as is what only clarification_message  *)
(* would need: the planner never sets it, so the intents booking_lookup    *)
(* and check_in_readiness are never active and their branches of           *)
(* continue_active_task are dead.                                          *)
(***************************************************************************)
EXTENDS MessageSemantics

Plan(agent, intent) == [agent |-> agent, intent |-> intent]

BookingSearchPlan  == Plan("BookingAgent", "booking_search")
ServiceBookingPlan == Plan("RecommendationAgent", "service_booking")
ServiceRequestPlan == Plan("ServiceRequestAgent", "service_request")

Rule(guard, plan) == [guard |-> guard, plan |-> plan]

FirstRule(rules) ==
    rules[CHOOSE i \in DOMAIN rules :
            rules[i].guard /\ \A j \in 1..(i - 1) : ~rules[j].guard].plan

(***************************************************************************)
(* continue_active_task: the plan an ongoing task asks for, NULL if none.  *)
(* ctx is the booking context of the request merged with the stored one.   *)
(***************************************************************************)
ContinueActiveTask(m, ctx, s) ==
    FirstRule(<<
        Rule(/\ s.active_intent \in {"service_catalog", "service_booking"}
             /\ MatchKnownService(s, m.service) # NULL,
             ServiceBookingPlan),
        Rule(/\ s.active_intent = "service_booking"
             /\ \/ m.dates # <<>>
                \/ m.booking_id # NULL
                \/ SuggestsTaskContinuation(m),
             ServiceBookingPlan),
        Rule(/\ s.active_intent = "booking_search"
             /\ \/ SuggestsBookingSearch(m)
                \/ Says(m, "room_selection_hint")
                \/ SuggestsTaskContinuation(m)
                \/ Says(m, "asks_availability"),
             BookingSearchPlan),
        Rule(s.active_intent = "branch_selection", BookingSearchPlan),
        Rule(/\ s.active_intent = "service_request"
             /\ \/ m.booking_id # NULL
                \/ ctx.booking_id # NULL
                \/ s.missing_fields # {},
             ServiceRequestPlan),
        Rule(TRUE, NULL)>>)

ShouldOverrideActiveTask(m) ==
    m.open_intent \in {"general_knowledge", "identity", "hostile_repair"}

IsPureWelcome(m, s) ==
    /\ s.active_intent = NULL
    /\ m.open_intent = "greeting"
    /\ Says(m, "pure_greeting")

ShouldExploreBookingDates(m, s) ==
    /\ s.active_intent = "booking_search"
    /\ s.availability_status \in {"unavailable", "alternative_options"}
    /\ WantsAvailabilityExploration(m)

OpenIntentAgent(m) ==
    IF m.open_intent = "general_knowledge" THEN "SearchKnowledgeAgent"
                                           ELSE "InteractionAgent"

PlanFor(m, ctx, s) ==
    FirstRule(<<
        Rule(SuggestsCheckIn(m),
             Plan("GuestReceptionCheckInAgent", "check_in_readiness")),
        Rule(SuggestsBranchCatalog(m), Plan("WelcomeAgent", "branch_catalog")),
        Rule(SuggestsServiceCatalog(m),
             Plan("RecommendationAgent", "service_catalog")),
        Rule(SuggestsServiceRequest(m), ServiceRequestPlan),
        Rule(SuggestsServiceBooking(m, MatchKnownService(s, m.service) # NULL),
             ServiceBookingPlan),
        Rule(RequestsBookingLookupExplicitly(m) /\ ~SuggestsBookingSearch(m),
             Plan("BookingAgent", "booking_lookup")),
        Rule(/\ ContinueActiveTask(m, ctx, s) # NULL
             /\ ~ShouldOverrideActiveTask(m),
             ContinueActiveTask(m, ctx, s)),
        Rule(IsPureWelcome(m, s), Plan("WelcomeAgent", "welcome")),
        Rule(ShouldExploreBookingDates(m, s) \/ SuggestsBookingSearch(m),
             BookingSearchPlan),
        Rule(SuggestsRecommendation(m),
             Plan("RecommendationAgent", "recommendation")),
        Rule(SuggestsFaq(m), Plan("SearchKnowledgeAgent", "faq_lookup")),
        Rule(m.open_intent # NULL, Plan(OpenIntentAgent(m), m.open_intent)),
        Rule(TRUE, Plan("InteractionAgent", "general_support"))>>)
==============================================================================
