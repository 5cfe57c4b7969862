---------------------------- MODULE MCOperations ----------------------------
(***************************************************************************)
(* Instances of the operations that work without the dialogue: the room    *)
(* search and the check-in readiness of the backend client, the seeding of *)
(* demo rooms, and the dates of a stay.  They have no state in common, so  *)
(* one is chosen at the start and the others rest: the reachable states    *)
(* are those of the four apart, not their product.                         *)
(***************************************************************************)
EXTENDS MCRoomAvailability, MCStayDates, CheckInReadiness, SeedRooms

CONSTANTS n201, n202, n301, n100

VARIABLE operation  \* the operation that runs

operationVars == <<operation, searchVars, checkVars, seedVars, vars>>

DemoRooms == <<n201, n202, n301>>

\* An operation that rests has one initial state.
OperationInit ==
    /\ operation \in {"searching", "checking", "seeding", "dating"}
    /\ SearchInit /\ (operation = "searching" \/ free = {})
    /\ CheckInit
    /\ \/ operation = "checking"
       \/ /\ booking = [status |-> "pending", room |-> None]
          /\ state = [room \in StayRooms |-> "available"]
    /\ SeedInit /\ (operation = "seeding" \/ Present = {})
    /\ Init

OperationNext ==
    /\ \/ /\ operation = "searching" /\ SearchNext
          /\ UNCHANGED <<checkVars, seedVars, vars>>
       \/ /\ operation = "checking" /\ CheckNext
          /\ UNCHANGED <<searchVars, seedVars, vars>>
       \/ /\ operation = "seeding" /\ SeedNext
          /\ UNCHANGED <<searchVars, checkVars, vars>>
       \/ /\ operation = "dating" /\ Next
          /\ UNCHANGED <<searchVars, checkVars, seedVars>>
    /\ UNCHANGED operation

\* Only the seeding is assumed to go on.
OperationSpec ==
    /\ OperationInit /\ [][OperationNext]_operationVars
    /\ operation = "seeding" => Persistence

\* However its runs are interrupted, an admin who repeats the command ends
\* with every demo room (SeedingEnds, where it is the seeding that runs).
DemoRoomsAreSeeded == operation = "seeding" => SeedingEnds
===============================================================================
