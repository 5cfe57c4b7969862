------------------------- MODULE MCRoomAvailability -------------------------
(***************************************************************************)
(* Room lists for model checking RoomAvailability.                         *)
(***************************************************************************)
EXTENDS RoomAvailability

CONSTANTS r1, r2, r3, r4

\* The rooms differ in their names alone, so one order of them stands for every
\* other.
List(keyed, isReady) ==
    [p \in DOMAIN keyed |->
        [id |-> <<r1, r2, r3, r4>>[p], keyed |-> keyed[p], ready |-> isReady]]

\* No room, two rooms and, past the limit of three, four; at most one of the
\* first two has no "id".
MCLists ==
    {List([p \in 1..n |-> p # unkeyed], isReady) :
        n \in {0, 2, 4}, unkeyed \in 0..2, isReady \in BOOLEAN}

\* Three rooms, each with its "id".
KeyedLists == {List([p \in 1..3 |-> TRUE], isReady) : isReady \in BOOLEAN}
===============================================================================
