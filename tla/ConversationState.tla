------------------------- MODULE ConversationState -------------------------
(***************************************************************************)
(* The dialogue memory of one conversation                                 *)
(* (orchestration/conversation_state.py).                                  *)
(*                                                                         *)
(* A state is a record with one entry per remembered slot.  NULL is        *)
(* Python's None.  A stay date is the number of its day.  A service is one *)
(* value for the code's pair selected_service_id / selected_service_name,  *)
(* which every update writes together; a request description is one value  *)
(* for request_type / request_description, likewise.  active_agent,        *)
(* goal_summary, selected_resort_name and booking_status only reach the    *)
(* wording of answers and are left out.                                    *)
(***************************************************************************)
EXTENDS Naturals

CONSTANTS
    NULL,       \* None
    Resorts,    \* resort branches the backend knows
    Rooms,      \* rooms the backend knows
    Services,   \* add-on services the backend knows
    Bookings,   \* booking identifiers
    Texts       \* what a guest's message can say (kept as a description)

Intents ==
    {"booking_search", "branch_selection", "service_catalog",
     "service_booking", "service_request", "general_support"}

Statuses == {"unavailable", "available_options", "alternative_options"}

\* The slots a clarification can ask for.
Askable ==
    {"resort_id", "room_id", "booking_id", "check_in_date", "check_out_date",
     "adults", "children", "scheduled_date", "selected_service"}

ASSUME NullIsFresh ==
    /\ NULL \notin Nat
    /\ NULL \notin Resorts \cup Rooms \cup Services \cup Bookings \cup Texts
    /\ NULL \notin Intents \cup Statuses
    /\ \A fields \in SUBSET Askable : fields # NULL
    /\ \A shown \in SUBSET Services : shown # NULL

Optional(S) == S \cup {NULL}

State ==
    [active_intent       : Optional(Intents),
     availability_status : Optional(Statuses),
     retry_count         : Nat,
     booking_id          : Optional(Bookings),
     room_id             : Optional(Rooms),
     resort_id           : Optional(Resorts),
     check_in_date       : Optional(Nat),
     check_out_date      : Optional(Nat),
     adults              : Optional(Nat),
     children            : Optional(Nat),
     scheduled_date      : Optional(Nat),
     selected_service    : Optional(Services),
     request_description : Optional(Texts),
     missing_fields      : SUBSET Askable,
     known_services      : SUBSET Services]

\* What a slot holds before anything is said, and again once it is cleared.
FreshState ==
    [active_intent       |-> NULL,
     availability_status |-> NULL,
     retry_count         |-> 0,
     booking_id          |-> NULL,
     room_id             |-> NULL,
     resort_id           |-> NULL,
     check_in_date       |-> NULL,
     check_out_date      |-> NULL,
     adults              |-> NULL,
     children            |-> NULL,
     scheduled_date      |-> NULL,
     selected_service    |-> NULL,
     request_description |-> NULL,
     missing_fields      |-> {},
     known_services      |-> {}]

Slots == DOMAIN FreshState

(***************************************************************************)
(* A DialogueUpdate gives some slots a value, NULL in the others.  Slots   *)
(* named in clear (clear_fields) are emptied first, so a slot both cleared *)
(* and given a value ends up with the value.                               *)
(***************************************************************************)
NoUpdate == [slot \in Slots |-> NULL]

\* Mutant: every cleared slot becomes None, the counter and lists included.
ApplyUpdateClearingToNone(s, u, clear) ==
    [slot \in Slots |->
        IF u[slot] # NULL THEN u[slot]
        ELSE IF slot \in clear THEN NULL
        ELSE s[slot]]

ApplyUpdate(s, u, clear) ==
    [slot \in Slots |->
        IF u[slot] # NULL THEN u[slot]
        ELSE IF slot \in clear THEN FreshState[slot]
        ELSE s[slot]]

(***************************************************************************)
(* The booking context a client sends along.  `a or b` keeps what is       *)
(* stored when the client sends nothing: a client can overwrite an         *)
(* identifier but never erase one.                                         *)
(***************************************************************************)
Context ==
    [booking_id : Optional(Bookings),
     room_id    : Optional(Rooms),
     resort_id  : Optional(Resorts)]

Or(a, b) == IF a # NULL THEN a ELSE b

MergeBookingContext(s, ctx) ==
    [booking_id |-> Or(ctx.booking_id, s.booking_id),
     room_id    |-> Or(ctx.room_id, s.room_id),
     resort_id  |-> Or(ctx.resort_id, s.resort_id)]

\* Mutant: what the client leaves out is erased.
ApplyRequestContextOverwriting(s, ctx) ==
    [s EXCEPT !.booking_id = ctx.booking_id,
              !.room_id    = ctx.room_id,
              !.resort_id  = ctx.resort_id]

ApplyRequestContext(s, ctx) ==
    [s EXCEPT !.booking_id = Or(ctx.booking_id, @),
              !.room_id    = Or(ctx.room_id, @),
              !.resort_id  = Or(ctx.resort_id, @)]

\* The service, among those shown or selected before, that a message names.
MatchKnownService(s, named) ==
    IF named # NULL /\ (named \in s.known_services \/ named = s.selected_service)
    THEN named
    ELSE NULL

HasDates(s) == s.check_in_date # NULL /\ s.check_out_date # NULL
=============================================================================
