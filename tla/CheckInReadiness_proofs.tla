----------------------- MODULE CheckInReadiness_proofs -----------------------
(***************************************************************************)
(* The readiness check is right for any number of rooms.                   *)
(***************************************************************************)
EXTENDS CheckInReadiness, TLAPS

Reading == step \in {"booking", "room", "log"}

\* The memory of a check has the booking and the states of the moment.
Memory ==
    /\ were.bookings \subseteq Booking
    /\ were.states \in [StayRooms -> SUBSET RoomStates]
    /\ were = [bookings |-> were.bookings, states |-> were.states]
    /\ Reading =>
        /\ booking \in were.bookings
        /\ \A room \in StayRooms : state[room] \in were.states[room]

\* What was read is in the memory.
Readings ==
    /\ step = "booking" => record = None /\ snapshot = None
    /\ step \in {"room", "log"} => record \in were.bookings
    /\ step = "room" => snapshot = None
    /\ step = "log" => snapshot \in were.states[record.room]

IInv == CheckTypeOK /\ Memory /\ Readings /\ VerdictWasTrue

\* A verdict is one of the four.
LEMMA VerdictType == \A status, roomState : Verdict(status, roomState) \in Verdicts
  BY DEF Verdict, Verdicts

\* The memory starts empty.
LEMMA InitIInv == CheckInit => IInv
  BY NoneIsNothing
  DEF CheckInit, IInv, CheckTypeOK, Memory, Readings, VerdictWasTrue, Reading, Booking

\* A change of the booking alone keeps the invariant.
LEMMA BookingRemembered ==
  ASSUME IInv, booking' \in Booking, Remember,
         UNCHANGED <<state, step, record, snapshot, verdict>>
  PROVE  IInv'
<1> USE DEF IInv
<1>1. CheckTypeOK'
  BY DEF CheckTypeOK
<1>2. CASE Reading
  <2>1. were' = [bookings |-> were.bookings \cup {booking'},
                 states |-> [r \in StayRooms |-> were.states[r] \cup {state'[r]}]]
    BY <1>2 DEF Remember, Reading
  <2>2. Memory'
    BY <1>2, <2>1 DEF Memory, CheckTypeOK, Reading
  <2>3. Readings'
    BY <1>2, <2>1 DEF Memory, Readings, Reading, CheckTypeOK, Booking
  <2>4. VerdictWasTrue'
    BY <1>2 DEF VerdictWasTrue, Reading
  <2> QED BY <1>1, <2>2, <2>3, <2>4
<1>3. CASE ~Reading
  <2>1. UNCHANGED <<state, step, record, snapshot, verdict, were>>
    BY <1>3 DEF Remember, Reading
  <2> QED
    BY <1>1, <1>3, <2>1 DEF Memory, Readings, VerdictWasTrue, Reading
<1> QED BY <1>2, <1>3

\* Every step keeps the invariant: a read adds nothing that the memory does
\* not have, and the resort's changes enter the memory as they are made.
LEMMA NextIInv == IInv /\ [CheckNext]_checkVars => IInv'
<1> SUFFICES ASSUME IInv, [CheckNext]_checkVars PROVE IInv'
  OBVIOUS
<1> USE DEF IInv
<1>1. CASE Asks
  BY <1>1, NoneIsNothing
  DEF Asks, AtPresent, CheckTypeOK, Memory, Readings, VerdictWasTrue, Reading
<1>2. CASE BookingArrives
  <2>1. booking \in Booking /\ booking \in were.bookings /\ None \notin Booking
    BY <1>2, NoneIsNothing DEF BookingArrives, CheckTypeOK, Memory, Reading
  <2>2. CASE booking.room # None
    BY <1>2, <2>1, <2>2
    DEF BookingArrives, CheckTypeOK, Memory, Readings, VerdictWasTrue, Reading
  <2>3. CASE booking.room = None
    <3>1. verdict' \in Verdicts /\ None \notin Verdicts /\ step' = "told"
      BY <1>2, <2>3, VerdictType, NoneIsNothing DEF BookingArrives
    <3>2. CheckTypeOK' /\ Memory' /\ Readings'
      BY <1>2, <2>1, <3>1 DEF BookingArrives, CheckTypeOK, Memory, Readings, Reading
    <3>3. verdict' = Verdict(booking.status, None) /\ were' = were /\ booking' = booking
      BY <1>2, <2>3 DEF BookingArrives
    <3>4. VerdictWasTrue'
      BY <2>1, <2>3, <3>3, NoneIsNothing
      DEF VerdictWasTrue, Verdict, Ineligible, Blocked, Booking, BookingStatuses
    <3> QED BY <3>2, <3>4
  <2> QED BY <2>2, <2>3
<1>3. CASE RoomArrives
  <2>1. record \in Booking /\ record.room \in StayRooms /\ None \notin RoomStates
    BY <1>3, NoneIsNothing DEF RoomArrives, CheckTypeOK, Booking
  <2>2. state[record.room] \in RoomStates /\ state[record.room] \in were.states[record.room]
    BY <1>3, <2>1 DEF RoomArrives, CheckTypeOK, Memory, Reading
  <2> QED
    BY <1>3, <2>1, <2>2
    DEF RoomArrives, CheckTypeOK, Memory, Readings, VerdictWasTrue, Reading
<1>4. CASE LogArrives
  <2>1. /\ record \in Booking /\ record \in were.bookings /\ record.room # None
        /\ snapshot \in were.states[record.room]
    BY <1>4 DEF LogArrives, CheckTypeOK, Memory, Readings
  <2>2. verdict' \in Verdicts /\ None \notin Verdicts
    BY <1>4, VerdictType, NoneIsNothing DEF LogArrives
  <2>3. CheckTypeOK' /\ Memory' /\ Readings'
    BY <1>4, <2>1, <2>2 DEF LogArrives, CheckTypeOK, Memory, Readings, Reading
  <2>4. verdict' = Verdict(record.status, snapshot) /\ were' = were
    BY <1>4 DEF LogArrives
  <2>5. VerdictWasTrue'
    BY <2>1, <2>4
    DEF VerdictWasTrue, Verdict, Ineligible, Blocked, Booking, BookingStatuses
  <2> QED BY <2>3, <2>5
<1>5. CASE ReadFails
  BY <1>5 DEF ReadFails, CheckTypeOK, Memory, Readings, VerdictWasTrue, Reading
<1>6. ASSUME NEW to \in BookingStatuses, BookingMoves(to) PROVE IInv'
  <2>1. booking' \in Booking
    BY <1>6 DEF BookingMoves, CheckTypeOK, Booking
  <2>2. UNCHANGED <<state, step, record, snapshot, verdict>> /\ Remember
    BY <1>6 DEF BookingMoves
  <2> QED BY <2>1, <2>2, BookingRemembered
<1>7. ASSUME NEW room \in StayRooms, RoomAssigned(room) PROVE IInv'
  <2>1. booking' \in Booking
    BY <1>7 DEF RoomAssigned, CheckTypeOK, Booking
  <2>2. UNCHANGED <<state, step, record, snapshot, verdict>> /\ Remember
    BY <1>7 DEF RoomAssigned
  <2> QED BY <2>1, <2>2, BookingRemembered
<1>8. ASSUME NEW room \in StayRooms, NEW to \in RoomStates, RoomChanges(room, to) PROVE IInv'
  <2>1. state' \in [StayRooms -> RoomStates]
    BY <1>8 DEF RoomChanges, CheckTypeOK
  <2>2. CheckTypeOK'
    BY <1>8, <2>1 DEF RoomChanges, CheckTypeOK
  <2>3. CASE Reading
    <3>1. /\ were' = [bookings |-> were.bookings \cup {booking'},
                      states |-> [r \in StayRooms |-> were.states[r] \cup {state'[r]}]]
          /\ booking' = booking /\ step' = step /\ record' = record /\ snapshot' = snapshot
          /\ verdict' = verdict
      BY <1>8, <2>3 DEF RoomChanges, Remember, Reading
    <3>2. Memory'
      BY <2>1, <2>3, <3>1 DEF Memory, CheckTypeOK, Reading
    <3>3. Readings'
      BY <2>3, <3>1 DEF Memory, Readings, Reading, CheckTypeOK, Booking
    <3>4. VerdictWasTrue'
      BY <2>3, <3>1 DEF VerdictWasTrue, Reading
    <3> QED BY <2>2, <3>2, <3>3, <3>4
  <2>4. CASE ~Reading
    <3>1. UNCHANGED <<booking, step, record, snapshot, verdict, were>>
      BY <1>8, <2>4 DEF RoomChanges, Remember, Reading
    <3> QED
      BY <2>2, <2>4, <3>1 DEF Memory, Readings, VerdictWasTrue, Reading
  <2> QED BY <2>3, <2>4
<1>9. CASE UNCHANGED checkVars
  BY <1>9 DEF checkVars, CheckTypeOK, Memory, Readings, VerdictWasTrue, Reading
<1> QED
  BY <1>1, <1>2, <1>3, <1>4, <1>5, <1>6, <1>7, <1>8, <1>9 DEF CheckNext, Checker, Resort

\* Every reachable state satisfies the invariant.
THEOREM Invariance == CheckSpec => []IInv
  BY InitIInv, NextIInv, PTL DEF CheckSpec

\* Every variable has its type, and a verdict is there exactly when it was told.
THEOREM TypeCorrect == CheckSpec => []CheckTypeOK
<1>1. IInv => CheckTypeOK
  BY DEF IInv
<1> QED BY Invariance, <1>1, PTL

\* For any rooms, whatever the front desk and the housekeeping do between the
\* reads, the verdict is one that the booking and its own room gave.
THEOREM VerdictsAreTrue == CheckSpec => []VerdictWasTrue
<1>1. IInv => VerdictWasTrue
  BY DEF IInv
<1> QED BY Invariance, <1>1, PTL
=============================================================================
