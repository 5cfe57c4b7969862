---------------------------- MODULE BookingAgent ----------------------------
(***************************************************************************)
(* The booking dialogue (agents/booking.py).                               *)
(*                                                                         *)
(* handle runs in up to four pieces separated by awaits: resolve the       *)
(* branch, search rooms or alternative dates, and quote one room with its  *)
(* add-on services.  Note which state each piece reads: `live` is the      *)
(* shared stored state at that moment, `s` the agent's own copy, taken     *)
(* before the branch is resolved when the message reads like a search and  *)
(* after it otherwise.                                                     *)
(***************************************************************************)
EXTENDS Turns

CONSTANTS
    ResortOf,  \* the branch each room belongs to
    LastDay    \* date.max; a later day stands for a date that does not exist

ASSUME ResortOfRooms == ResortOf \in [Rooms -> Resorts]

ASSUME LastDayIsNat == LastDay \in Nat

RoomsOf(resort) == {room \in Rooms : ResortOf[room] = resort}

Known(adults, children) == adults # NULL /\ children # NULL

\* `count or default`: an explicit zero counts as missing.
OrElse(count, default) == IF count \in {NULL, 0} THEN default ELSE count

(***************************************************************************)
(* What every update of the search dialogue sets.                          *)
(***************************************************************************)
SearchUpdate(s, checkIn, checkOut, adults, children) ==
    [NoUpdate EXCEPT !.active_intent  = "booking_search",
                     !.resort_id      = s.resort_id,
                     !.check_in_date  = checkIn,
                     !.check_out_date = checkOut,
                     !.adults         = adults,
                     !.children       = children]

WithStatus(update, status, retries) ==
    [update EXCEPT !.availability_status = status, !.retry_count = retries]

WithMissing(update, fields) == [update EXCEPT !.missing_fields = fields]

(***************************************************************************)
(* Questions.                                                              *)
(***************************************************************************)
\* Mutant: the question does not say which task it belongs to.
AskBranchWithoutTask == Ask(WithMissing(NoUpdate, {"resort_id"}))

AskBranch ==
    Ask(WithMissing([NoUpdate EXCEPT !.active_intent = "booking_search"], {"resort_id"}))

AskGuestCounts(s, checkIn, checkOut, adults, children) ==
    LET count == [adults |-> adults, children |-> children] IN
    Ask(WithMissing(SearchUpdate(s, checkIn, checkOut, adults, children),
                    {field \in {"adults", "children"} : count[field] = NULL}))

FirstMissingDateField(s) ==
    IF s.check_out_date # NULL /\ s.check_in_date = NULL THEN "check_in_date"
                                                         ELSE "check_out_date"

\* One date given: it is taken for the date that is not the missing one.
AskOtherDate(s, date, adults, children) ==
    LET missing == FirstMissingDateField(s) IN
    Ask(WithMissing(
        SearchUpdate(s,
            IF missing = "check_out_date" THEN date ELSE s.check_in_date,
            IF missing = "check_in_date" THEN date ELSE s.check_out_date,
            adults, children),
        {missing}))

\* No date given.
AskDates(s, adults, children) ==
    LET missing == FirstMissingDateField(s)
        other   == IF missing = "check_out_date" THEN s.check_in_date
                                                 ELSE s.check_out_date
    IN Ask(WithMissing(
           SearchUpdate(s, s.check_in_date, s.check_out_date, adults, children),
           IF other # NULL THEN {missing} ELSE {"check_in_date", "check_out_date"}))

(***************************************************************************)
(* _resolve_dates: dates of the message, completed from the live state     *)
(* while a search is active.                                               *)
(***************************************************************************)
\* A duration alone completes a stored check-in.
CompletesStay(m, live) ==
    /\ live.active_intent = "booking_search"
    /\ m.dates = <<>> /\ m.duration_days \notin {NULL, 0}
    /\ live.check_in_date # NULL /\ live.check_out_date = NULL

\* shift_iso_date raises: no such check-in, or no check-out in the calendar.
ShiftRaises(m, live) ==
    CompletesStay(m, live) /\ live.check_in_date + m.duration_days > LastDay

ResolveDates(m, live) ==
    LET onlyIn  == live.check_in_date # NULL /\ live.check_out_date = NULL
        onlyOut == live.check_out_date # NULL /\ live.check_in_date = NULL
        active  == live.active_intent = "booking_search"
    IN CASE CompletesStay(m, live) ->
                <<live.check_in_date, live.check_in_date + m.duration_days>>
         [] active /\ Len(m.dates) = 1 /\ onlyIn ->
                <<live.check_in_date, m.dates[1]>>
         [] active /\ Len(m.dates) = 1 /\ onlyOut ->
                <<m.dates[1], live.check_out_date>>
         [] OTHER -> m.dates

(***************************************************************************)
(* Calls the agent suspends on.                                            *)
(***************************************************************************)
SearchRooms(t, r, live, s, checkIn, checkOut, adults, children) ==
    Await(t, r, live,
          [NoFrame EXCEPT !.state = s, !.check_in = checkIn, !.check_out = checkOut,
                          !.adults = adults, !.children = children],
          "inventory")

\* Writing down the nearby (or wider) ranges raises: no such date, or the last
\* range is beyond the calendar.
RangesRaise(m, s) ==
    LET widen  == WantsAvailabilityExploration(m) \/ s.retry_count >= 2
        offset == IF widen THEN 35 ELSE 7
    IN \/ s.check_in_date + offset + 1 > LastDay   \* at least one night
       \/ s.check_out_date + offset > LastDay

SearchAlternatives(t, r, live, s, adults, children) ==
    \/ /\ RangesRaise(r.msg, s)
       /\ RespondUnpolished(t, r, live, ServerError)
    \/ /\ ~RangesRaise(r.msg, s)
       /\ Await(t, r, live,
                [NoFrame EXCEPT !.state = s, !.adults = OrElse(adults, 1),
                                !.children = OrElse(children, 0)],
                "alternatives")

\* _handle_lookup: the state is never consulted for the identifier.
Lookup(t, r, live) ==
    LET booking == Or(r.ctx.booking_id, r.msg.booking_id) IN
    \/ booking = NULL /\ Respond(t, r, live, Ask(NoUpdate))
    \/ booking # NULL /\ Await(t, r, live, NoFrame, "record")

(***************************************************************************)
(* The rest of handle once the branch is known.                            *)
(***************************************************************************)
SearchDialogue(t, r, live, entry, resort) ==
    LET s        == [entry EXCEPT !.resort_id = resort]
        adults   == Or(r.msg.adults, s.adults)
        children == Or(r.msg.children, s.children)
        dates    == ResolveDates(r.msg, live)
        counted  == Known(adults, children)
        dialogue == s.active_intent \in {"branch_selection", "booking_search"}
    IN
    \/ /\ Len(dates) = 2 /\ ~counted
       /\ Respond(t, r, live,
                  AskGuestCounts(s, dates[1], dates[2], adults, children))
    \/ /\ Len(dates) = 2 /\ counted
       /\ SearchRooms(t, r, live, s, dates[1], dates[2], adults, children)
    \/ /\ Len(dates) = 1
       /\ Respond(t, r, live, AskOtherDate(s, dates[1], adults, children))
    \/ /\ dates = <<>> /\ dialogue /\ HasDates(s) /\ ~counted
       /\ Respond(t, r, live,
                  AskGuestCounts(s, s.check_in_date, s.check_out_date, adults, children))
    \/ /\ dates = <<>> /\ dialogue /\ HasDates(s) /\ counted
       /\ s.availability_status # "unavailable"
       /\ SearchRooms(t, r, live, s, s.check_in_date, s.check_out_date, adults, children)
    \/ /\ dates = <<>> /\ dialogue /\ HasDates(s) /\ counted
       /\ s.availability_status = "unavailable"
       /\ SearchAlternatives(t, r, live, s, adults, children)
    \/ /\ dates = <<>> /\ dialogue /\ ~HasDates(s)
       /\ Respond(t, r, live,
                  IF s.availability_status = "unavailable"
                  THEN AskDates(s, OrElse(adults, 1), OrElse(children, 0))
                  ELSE AskDates(s, adults, children))
    \/ /\ dates = <<>> /\ ~dialogue
       /\ Lookup(t, r, live)

WithResort(t, r, live, entry, resort) ==
    \/ /\ ShiftRaises(r.msg, live)
       /\ RespondUnpolished(t, r, live, ServerError)
    \/ /\ ~ShiftRaises(r.msg, live)
       /\ SearchDialogue(t, r, live, entry, resort)

(***************************************************************************)
(* BookingAgent.handle up to its first await.                              *)
(***************************************************************************)
EntryState(m, live) ==
    IF SuggestsBookingSearch(m)
    THEN [live EXCEPT !.active_intent = "booking_search"]
    ELSE live

HandleBooking(t, r, live) ==
    LET entry  == EntryState(r.msg, live)
        resort == Or(r.ctx.resort_id, entry.resort_id)
    IN
    \/ /\ Says(r.msg, "lookup_phrase")
       /\ Lookup(t, r, live)
    \/ /\ ~Says(r.msg, "lookup_phrase") /\ resort # NULL
       /\ WithResort(t, r, live, entry, resort)
    \/ /\ ~Says(r.msg, "lookup_phrase") /\ resort = NULL
       /\ Await(t, r, live,
                [NoFrame EXCEPT !.state =
                    IF SuggestsBookingSearch(r.msg) THEN entry ELSE NULL],
                "resorts")

\* The branch catalog arrives, with some of the branches or none.
ResortsArrive(t, catalog) ==
    LET r     == request[t]
        live  == Live(t)
        entry == Or(frame[t].state, live)
    IN
    /\ pc[t] = "resorts"
    /\ \/ /\ r.msg.resort \in catalog
          /\ WithResort(t, r, live, entry, r.msg.resort)
       \/ /\ r.msg.resort \notin catalog
          /\ Respond(t, r, live, AskBranch)

(***************************************************************************)
(* The room search answers with the rooms free for the stay.               *)
(***************************************************************************)
\* Mutant: a remembered room is taken without looking for it among the free.
SelectRoomUnchecked(r, available) ==
    IF r.ctx.room_id # NULL THEN {r.ctx.room_id}
                            ELSE MatchRoomChoice(r.msg, available)

\* _select_room: what it may return.
SelectRoom(r, available) ==
    IF r.ctx.room_id \in available THEN {r.ctx.room_id}
                                   ELSE MatchRoomChoice(r.msg, available)

\* Mutant: the remembered dates are proposed, not the searched ones.
BookingProposalOfRememberedDates(s, f, room) ==
    [tool |-> "create_booking", room_id |-> room, resort_id |-> s.resort_id,
     check_in_date |-> s.check_in_date, check_out_date |-> s.check_out_date,
     adults |-> f.adults, children |-> f.children, service |-> s.selected_service]

\* Mutant: the add-on is left out.
BookingProposalWithoutAddOn(s, f, room) ==
    [tool |-> "create_booking", room_id |-> room, resort_id |-> s.resort_id,
     check_in_date |-> f.check_in, check_out_date |-> f.check_out,
     adults |-> f.adults, children |-> f.children, service |-> NULL]

BookingProposal(s, f, room) ==
    [tool |-> "create_booking", room_id |-> room, resort_id |-> s.resort_id,
     check_in_date |-> f.check_in, check_out_date |-> f.check_out,
     adults |-> f.adults, children |-> f.children, service |-> s.selected_service]

ClearedByBooking ==
    {"active_intent", "availability_status", "retry_count", "selected_service",
     "missing_fields"}

\* Mutant: dates that were stored when the turn began are not stored again.
ClaimsUnlessStored(s, f) ==
    IF s.check_in_date = f.check_in /\ s.check_out_date = f.check_out THEN NoUpdate
    ELSE SearchUpdate(s, f.check_in, f.check_out, f.adults, f.children)

ClaimsOf(s, f) == SearchUpdate(s, f.check_in, f.check_out, f.adults, f.children)

\* What the agent answers once a room is selected or none is.
WithRooms(t, available, selected) ==
    LET r        == request[t]
        live     == Live(t)
        s        == frame[t].state
        f        == [frame[t] EXCEPT !.available = available]
        settled  == selected # NULL \/ Cardinality(available) = 1
        room     == IF selected # NULL THEN selected
                                       ELSE CHOOSE free \in available : TRUE
        claims   == ClaimsOf(s, f)
        offered  == WithStatus(claims, "available_options", 0)
    IN
    \/ /\ available = {}
       /\ Respond(t, r, live,
              Tell(WithMissing(WithStatus(claims, "unavailable", 1), {}), {}))
    \/ /\ available # {} /\ selected = NULL /\ ~WantsBooking(r.msg)
       /\ Respond(t, r, live, Tell(WithMissing(offered, {"room_id"}), {}))
    \/ /\ available # {} /\ ~settled /\ WantsBooking(r.msg)
       /\ Respond(t, r, live, Ask(WithMissing(offered, {"room_id"})))
    \/ /\ selected # NULL /\ ~WantsBooking(r.msg)
       /\ Await(t, r, live, [f EXCEPT !.room = selected], "services")
    \/ /\ settled /\ WantsBooking(r.msg) /\ ~ToolAllowed(r, "create_booking")
       /\ Respond(t, r, live,
              Tell([WithMissing(offered, {}) EXCEPT !.room_id = room], {}))
    \/ /\ settled /\ WantsBooking(r.msg) /\ ToolAllowed(r, "create_booking")
       /\ Finish(t, r, live, [f EXCEPT !.state = NULL], "polish",
              Propose(BookingProposal(s, f, room),
                      [claims EXCEPT !.active_intent = NULL, !.room_id = room],
                      ClearedByBooking))

InventoryArrives(t, available) ==
    /\ pc[t] = "inventory"
    /\ available \subseteq RoomsOf(frame[t].state.resort_id)
    /\ \E selected \in SelectRoom(request[t], available) : WithRooms(t, available, selected)

\* The add-on catalog arrives and the selected room is quoted.
ServicesArrive(t, catalog) ==
    LET s == frame[t].state
        f == frame[t]
    IN
    /\ pc[t] = "services"
    /\ Respond(t, request[t], Live(t),
           Tell([WithMissing(ClaimsOf(s, f), {}) EXCEPT
                     !.availability_status = "available_options",
                     !.room_id             = f.room,
                     !.selected_service    = s.selected_service,
                     !.known_services      = catalog],
                {}))

(***************************************************************************)
(* The searches of nearby (or wider) dates end, having found some or none. *)
(* Which dates were found is only told to the guest, never remembered.     *)
(***************************************************************************)
AlternativesArrive(t) ==
    LET s      == frame[t].state
        f      == frame[t]
        claims == SearchUpdate(s, s.check_in_date, s.check_out_date, f.adults, f.children)
    IN
    /\ pc[t] = "alternatives"
    /\ \/ Respond(t, request[t], Live(t),
              Tell(WithStatus(claims, "alternative_options", 0), {}))
       \/ Respond(t, request[t], Live(t),
              Tell(WithStatus(claims, "unavailable", s.retry_count + 1), {}))

\* The booking record arrives and is read out; nothing is remembered.
RecordArrives(t) ==
    /\ pc[t] = "record"
    /\ Respond(t, request[t], Live(t), Tell(NoUpdate, {}))
=============================================================================
