------------------------ MODULE RecommendationAgent ------------------------
(***************************************************************************)
(* Add-on services (agents/recommendation.py).                             *)
(*                                                                         *)
(* The agent awaits the service catalog and only then reads the live       *)
(* conversation state, so whatever other turns stored meanwhile counts.    *)
(* Ranking chooses which services are shown; here any subset may be.       *)
(***************************************************************************)
EXTENDS Turns

HandleRecommendation(t, r, live) == Await(t, r, live, NoFrame, "ranking")

\* A room and both dates are chosen and there is no booking yet.
PrebookingContext(r, live) ==
    r.ctx.booking_id = NULL /\ live.room_id # NULL /\ HasDates(live)

\* What the pre-booking answers write back of the state they just read.
KeepStay(live) ==
    [NoUpdate EXCEPT !.active_intent       = "booking_search",
                     !.availability_status = live.availability_status,
                     !.resort_id           = live.resort_id,
                     !.room_id             = live.room_id,
                     !.check_in_date       = live.check_in_date,
                     !.check_out_date      = live.check_out_date,
                     !.adults              = live.adults,
                     !.children            = live.children,
                     !.missing_fields      = {}]

MatchSelectedService(m, items) == IF m.service \in items THEN m.service ELSE NULL

(***************************************************************************)
(* _build_service_booking_flow: arrange item for an existing booking.      *)
(***************************************************************************)
ServiceBookingFlow(t, r, live, items, selected) ==
    LET item    == Or(selected, live.selected_service)
        booking == Or(Or(r.ctx.booking_id, r.msg.booking_id), live.booking_id)
        date    == IF r.msg.dates # <<>> THEN r.msg.dates[1] ELSE live.scheduled_date
        slot    == [booking_id |-> booking, scheduled_date |-> date]
        missing == {field \in DOMAIN slot : slot[field] = NULL}
        shown   == [NoUpdate EXCEPT !.known_services = items]
    IN
    \/ /\ item = NULL
       /\ Respond(t, r, live,
              Ask([shown EXCEPT !.active_intent  = "service_booking",
                                !.missing_fields = {"selected_service"}]))
    \/ /\ item # NULL /\ missing # {}
       /\ Respond(t, r, live,
              Ask([shown EXCEPT !.active_intent    = "service_booking",
                                !.booking_id       = booking,
                                !.scheduled_date   = date,
                                !.selected_service = item,
                                !.missing_fields   = missing]))
    \/ /\ item # NULL /\ missing = {} /\ ~ToolAllowed(r, "create_service_booking")
       /\ Respond(t, r, live, Tell(NoUpdate, {}))
    \/ /\ item # NULL /\ missing = {} /\ ToolAllowed(r, "create_service_booking")
       /\ Respond(t, r, live,
              Propose([tool |-> "create_service_booking", booking_id |-> booking,
                       service |-> item, scheduled_date |-> date],
                      shown,
                      {"active_intent", "selected_service", "scheduled_date",
                       "missing_fields"}))

\* The service catalog arrives and up to three services are ranked.
RankingArrives(t, items) ==
    LET r          == request[t]
        live       == Live(t)
        selected   == MatchSelectedService(r.msg, items)
        prebooking == PrebookingContext(r, live)
        flow       == selected # NULL \/ live.active_intent = "service_booking"
    IN
    /\ pc[t] = "ranking"
    /\ \/ /\ items = {}
          /\ Respond(t, r, live, Tell(NoUpdate, {}))
       \/ /\ selected # NULL /\ prebooking
          /\ Respond(t, r, live,
                 Tell([KeepStay(live) EXCEPT !.selected_service = selected,
                                             !.known_services   = items], {}))
       \/ /\ items # {} /\ flow /\ ~(selected # NULL /\ prebooking)
          /\ ServiceBookingFlow(t, r, live, items, selected)
       \/ /\ items # {} /\ ~flow /\ prebooking
          /\ Respond(t, r, live,
                 Tell([KeepStay(live) EXCEPT !.known_services = items],
                      {"selected_service", "scheduled_date"}))
       \/ /\ items # {} /\ ~flow /\ ~prebooking
          /\ Respond(t, r, live,
                 Tell([NoUpdate EXCEPT !.active_intent  = "service_catalog",
                                       !.known_services = items],
                      {"selected_service", "scheduled_date"}))
============================================================================
