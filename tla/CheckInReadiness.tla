-------------------------- MODULE CheckInReadiness --------------------------
(***************************************************************************)
(* Is a booking ready for check-in?  clients/backend_api.py                *)
(* get_check_in_readiness reads the booking, then the room it names, then  *)
(* the log of that room, and judges them together; the front desk and the  *)
(* housekeeping go on working between the reads.                           *)
(***************************************************************************)
EXTENDS Naturals

CONSTANTS
    StayRooms,   \* rooms a booking may be given
    RoomStates,  \* states of a room; "available" stands for all that the code
                 \* does not list
    None

\* What the backend says of a booking and of a room.  The code compares
\* lower-cased strings and treats a status it does not list like any other.
BookingStatuses ==
    {"pending", "confirmed", "checked_in", "checked_out", "cancelled", "no_show"}

Verdicts == {"already_checked_in", "not_eligible", "not_ready", "eligible"}

VARIABLES
    booking,   \* backend: [status, room], the room None before it is assigned
    state,     \* backend: the state of each room
    step,      \* the read the client is suspended on
    record,    \* the booking as it was read
    snapshot,  \* the state of its room as it was read, None without a room
    verdict,   \* the readiness told to the staff or the guest
    were       \* history: the bookings, and the states of each room, since the
               \* check under way began

checkVars == <<booking, state, step, record, snapshot, verdict, were>>

Booking == [status : BookingStatuses, room : StayRooms \cup {None}]

Blocked == {"in_maintenance", "cleaning"}

ASSUME NoneIsNothing ==
    None \notin StayRooms \cup RoomStates \cup Blocked \cup Verdicts \cup Booking

Ineligible == {"cancelled", "no_show"}

(***************************************************************************)
(* derive_check_in_readiness                                               *)
(***************************************************************************)
Verdict(status, roomState) ==
    IF status = "checked_in" THEN "already_checked_in"
    ELSE IF status \in Ineligible THEN "not_eligible"
    ELSE IF roomState \in Blocked THEN "not_ready"
    ELSE "eligible"

(***************************************************************************)
(* The client.                                                             *)
(***************************************************************************)
AtPresent == [bookings |-> {booking}, states |-> [room \in StayRooms |-> {state[room]}]]

CheckInit ==
    /\ booking \in Booking
    /\ state \in [StayRooms -> RoomStates]
    /\ step = "idle"
    /\ record = None /\ snapshot = None /\ verdict = None
    /\ were = [bookings |-> {}, states |-> [room \in StayRooms |-> {}]]

Asks ==
    /\ step \in {"idle", "told", "failed"}
    /\ step' = "booking"
    /\ record' = None /\ snapshot' = None /\ verdict' = None
    /\ were' = AtPresent
    /\ UNCHANGED <<booking, state>>

\* Mutant: the room is read even when the booking names none.
BookingArrivesUnchecked ==
    /\ step = "booking"
    /\ record' = booking
    /\ step' = "room"
    /\ UNCHANGED <<booking, state, snapshot, verdict, were>>

\* Without a room the booking alone is judged, at once.
BookingArrives ==
    /\ step = "booking"
    /\ record' = booking
    /\ IF booking.room # None
       THEN step' = "room" /\ UNCHANGED verdict
       ELSE step' = "told" /\ verdict' = Verdict(booking.status, None)
    /\ UNCHANGED <<booking, state, snapshot, were>>

\* Mutant: the state of whichever room answers first.
RoomArrivesAny ==
    /\ step = "room"
    /\ \E room \in StayRooms : snapshot' = state[room]
    /\ step' = "log"
    /\ UNCHANGED <<booking, state, record, verdict, were>>

RoomArrives ==
    /\ step = "room"
    /\ snapshot' = state[record.room]
    /\ step' = "log"
    /\ UNCHANGED <<booking, state, record, verdict, were>>

\* The log of the room gives a remark; the verdict does not depend on it.
LogArrives ==
    /\ step = "log"
    /\ step' = "told"
    /\ verdict' = Verdict(record.status, snapshot)
    /\ UNCHANGED <<booking, state, record, snapshot, were>>

\* Any of the three reads may fail: BackendToolError, no verdict.
ReadFails ==
    /\ step \in {"booking", "room", "log"}
    /\ step' = "failed"
    /\ UNCHANGED <<booking, state, record, snapshot, verdict, were>>

(***************************************************************************)
(* The resort: bookings and rooms change at any time.                      *)
(***************************************************************************)
Leads(from, to) ==
    \/ from = "pending" /\ to \in {"confirmed", "cancelled"}
    \/ from = "confirmed" /\ to \in {"checked_in", "cancelled", "no_show"}
    \/ from = "checked_in" /\ to = "checked_out"

\* What is remembered is about the check under way.
Remember ==
    were' = IF step \in {"booking", "room", "log"}
            THEN [bookings |-> were.bookings \cup {booking'},
                  states   |-> [room \in StayRooms |-> were.states[room] \cup {state'[room]}]]
            ELSE were

BookingMoves(to) ==
    /\ Leads(booking.status, to)
    /\ booking' = [booking EXCEPT !.status = to]
    /\ UNCHANGED <<state, step, record, snapshot, verdict>>
    /\ Remember

RoomAssigned(room) ==
    /\ booking.status \in {"pending", "confirmed"} /\ booking.room # room
    /\ booking' = [booking EXCEPT !.room = room]
    /\ UNCHANGED <<state, step, record, snapshot, verdict>>
    /\ Remember

RoomChanges(room, to) ==
    /\ state[room] # to
    /\ state' = [state EXCEPT ![room] = to]
    /\ UNCHANGED <<booking, step, record, snapshot, verdict>>
    /\ Remember

Checker == Asks \/ BookingArrives \/ RoomArrives \/ LogArrives \/ ReadFails

Resort ==
    \/ \E to \in BookingStatuses : BookingMoves(to)
    \/ \E room \in StayRooms : RoomAssigned(room)
    \/ \E room \in StayRooms, to \in RoomStates : RoomChanges(room, to)

CheckNext == Checker \/ Resort

CheckSpec == CheckInit /\ [][CheckNext]_checkVars

(***************************************************************************)
(* Properties                                                              *)
(***************************************************************************)
CheckTypeOK ==
    /\ booking \in Booking
    /\ state \in [StayRooms -> RoomStates]
    /\ step \in {"idle", "booking", "room", "log", "told", "failed"}
    /\ record \in Booking \cup {None}
    /\ snapshot \in RoomStates \cup {None}
    /\ verdict \in Verdicts \cup {None}
    /\ step = "told" <=> verdict # None
    /\ step \in {"room", "log"} => record # None /\ record.room # None

\* The verdict is never pieced together from rooms or bookings that were not
\* each other's: there was a booking during the check with the judged status,
\* and the room it named then was in the judged state during the check.
VerdictWasTrue ==
    step = "told" =>
        \E b \in were.bookings :
            \/ b.status = "checked_in" /\ verdict = "already_checked_in"
            \/ b.status \in {"cancelled", "no_show"} /\ verdict = "not_eligible"
            \/ /\ b.status \in {"pending", "confirmed", "checked_out"}
               /\ \/ b.room = None /\ verdict = "eligible"
                  \/ /\ b.room # None
                     /\ \E s \in were.states[b.room] :
                           verdict = IF s \in {"cleaning", "in_maintenance"}
                                     THEN "not_ready" ELSE "eligible"
=============================================================================
