--------------------------- MODULE MCPatientGuest ---------------------------
(***************************************************************************)
(* Requests for model checking PatientGuest.                               *)
(***************************************************************************)
EXTENDS MCResponder, PatientGuest

\* "Lagoon please"
LagoonPlease == [Silent EXCEPT !.says = {"wants_action", "continuation_phrase"},
                               !.resort = lagoon]

Insistence    == Send(BookAll)
NamesBranch   == Send(LagoonPlease)

\* ... after asking for towels without saying for which booking.
TowelRequests == {Send(m) : m \in {Hello, Stay, Towels}}
=============================================================================
