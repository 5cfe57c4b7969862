---------------------------- MODULE PatientGuest ----------------------------
(***************************************************************************)
(* A guest who says anything for a while and then patiently asks for one   *)
(* booking: she repeats the whole request and, when the assistant asks for *)
(* the branch first, names it.  From then on the servers answer and rooms  *)
(* are free, so the dialogue itself is all that can keep the proposal from *)
(* her.                                                                    *)
(***************************************************************************)
EXTENDS Responder

CONSTANTS
    Guest,          \* the one turn slot of the conversation
    BookingAnswer,  \* the request with room, dates, party and "book"
    BranchAnswer    \* the request that names the branch

ASSUME AnswersAreRequests ==
    /\ Turn = {Guest}
    /\ {BookingAnswer, BranchAnswer} \subseteq Request
    /\ BookingAnswer.conv = BranchAnswer.conv

VARIABLE patient

guestVars == <<vars, patient>>

Memory == store[BookingAnswer.conv]

SaysAnything ==
    /\ ~patient
    /\ Next
    /\ UNCHANGED patient

\* Nothing is under way, and the bound on retries is not reached.
BecomesPatient ==
    /\ ~patient
    /\ pc[Guest] = "idle"
    /\ Memory.retry_count < MaxRetry
    /\ patient' = TRUE
    /\ UNCHANGED vars

AskedForBranch ==
    Memory.active_intent = "booking_search" /\ Memory.missing_fields = {"resort_id"}

Insists ==
    /\ patient
    /\ \/ AskedForBranch /\ Begin(Guest, BranchAnswer)
       \/ ~AskedForBranch /\ Begin(Guest, BookingAnswer)
    /\ UNCHANGED patient

IsServed ==
    /\ patient
    /\ \/ ResortsArrive(Guest, Resorts)
       \/ InventoryArrives(Guest, RoomsOf(frame[Guest].state.resort_id))
       \/ ServicesArrive(Guest, Services)
       \/ RankingArrives(Guest, Services)
       \/ Polished(Guest)
       \/ Deliver(Guest)
    /\ UNCHANGED patient

GuestInit == Init /\ patient = FALSE

GuestNext == SaysAnything \/ BecomesPatient \/ Insists \/ IsServed

\* The guest keeps answering and the servers keep serving.
GuestSpec ==
    /\ GuestInit /\ [][GuestNext]_guestVars
    /\ WF_guestVars(Insists) /\ WF_guestVars(IsServed)

\* Whatever was said before -- an unavailable stay, half a date range, a
\* stored branch, a reset, a question about jazz -- a patient guest gets her
\* booking proposed: no state of the dialogue swallows the request for good.
PatientGuestIsServed == patient ~> Proposes(Guest, "create_booking")
=============================================================================
