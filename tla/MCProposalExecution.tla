------------------------ MODULE MCProposalExecution ------------------------
(***************************************************************************)
(* Proposals for model checking ProposalExecution.                         *)
(***************************************************************************)
EXTENDS ProposalExecution

CONSTANTS lagoon, r101, massage

BookRoom ==
    [tool |-> "create_booking", room_id |-> r101, resort_id |-> lagoon,
     service |-> NULL]

BookRoomAndMassage == [BookRoom EXCEPT !.service = massage]

Towels == [tool |-> "create_service_request"]

CheckIn == [tool |-> "validate_guest_check_in"]

GuestProposals == {BookRoom, BookRoomAndMassage, Towels, CheckIn}

OnlyTowels == {Towels}
=============================================================================
