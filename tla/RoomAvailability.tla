--------------------------- MODULE RoomAvailability ---------------------------
(***************************************************************************)
(* The room search of the backend client: clients/backend_api.py           *)
(* search_room_inventory, which lists the rooms of a resort, asks for each *)
(* of the first rooms whether it is free on the stay dates, all calls at   *)
(* once, and matches the answers to the rooms by their position.           *)
(*                                                                         *)
(* Meanwhile other guests book and leave rooms, calls answer in any order  *)
(* and some fail.  Room attributes other than the identifier and the       *)
(* status are left out: no step depends on them.                           *)
(***************************************************************************)
EXTENDS Naturals, Sequences, FiniteSets

CONSTANTS Rooms,        \* identifiers of the rooms of the resort
          Limit,        \* rooms asked about; 8 in the code (the [:8] slice)
          Inventories   \* the lists the backend may return

\* An entry of the room list.  keyed: it carries its identifier as "id", and
\* not as "roomId" or "room_id"; ready: its status is "available".
Item == [id : Rooms, keyed : BOOLEAN, ready : BOOLEAN]

\* A list names each room once: overrides are stored under the identifier.
ASSUME AvailabilityAssumption ==
    /\ Limit \in Nat
    /\ Inventories \subseteq Seq(Item)
    /\ \A list \in Inventories : \A p, q \in 1..Len(list) :
          list[p].id = list[q].id => p = q

Payloads == {"free", "taken", "unreadable", "failed"}

VARIABLES phase,      \* where the search is
          dated,      \* the request has both stay dates
          inventory,  \* the list the backend returned
          replies,    \* position of an asked room -> "pending" or its payload
          available,  \* position -> the availability reported to the agent
          free,       \* backend: the rooms free on the dates now
          wasFree,    \* history: the rooms free at a moment of this search
          wasTaken    \* history: the rooms taken at a moment of this search

searchVars == <<phase, dated, inventory, replies, available, free, wasFree, wasTaken>>

(***************************************************************************)
(* Helpers                                                                 *)
(***************************************************************************)
\* Mutant: one task per number up to the limit, whatever the list holds.
AskedToLimit(list, withDates) == {p \in 1..Limit : withDates}

\* The positions a task is created for: the first Limit entries that have "id".
Asked(list, withDates) ==
    {p \in 1..Len(list) : withDates /\ p <= Limit /\ list[p].keyed}

\* Mutant: the tasks are numbered from zero.
NumberFromZero(p) == Cardinality({q \in DOMAIN replies : q < p})

\* The number of the task created for position p: entries without "id" are
\* filtered out before the tasks are numbered.
Number(p) == Cardinality({q \in DOMAIN replies : q <= p})

\* zip: the task whose payload stands beside the entry at position p.
Beside(p) == {q \in DOMAIN replies : Number(q) = p}

\* parse_room_availability: an answer without a flag it knows means taken.
ParseRoomAvailability(payload) == payload = "free"

\* Mutant: gather without return_exceptions; one failed call closes every room.
ClosedByAnyFailure(p) ==
    /\ \A q \in DOMAIN replies : replies[q] # "failed"
    /\ IF Beside(p) # {}
       THEN \E q \in Beside(p) : ParseRoomAvailability(replies[q])
       ELSE inventory[p].ready

\* normalize_room_inventory: the override stored under the room's identifier,
\* else the status of the list.  An entry without "id" stores its override
\* under the key "None", where no room is looked up.
Availability(p) ==
    IF inventory[p].keyed /\ p <= Limit /\ Beside(p) # {}
    THEN \E q \in Beside(p) : ParseRoomAvailability(replies[q])
    ELSE inventory[p].ready

(***************************************************************************)
(* Steps                                                                   *)
(***************************************************************************)
SearchInit ==
    /\ phase = "idle"
    /\ dated = FALSE
    /\ inventory = <<>>
    /\ replies = <<>>
    /\ available = <<>>
    /\ free \in SUBSET Rooms
    /\ wasFree = free
    /\ wasTaken = Rooms \ free

Search(withDates) ==
    /\ phase = "idle"
    /\ phase' = "listing"
    /\ dated' = withDates
    /\ wasFree' = free
    /\ wasTaken' = Rooms \ free
    /\ UNCHANGED <<inventory, replies, available, free>>

\* The list answers; every availability call is sent before the next answer
\* is read.
RoomsListed(list) ==
    /\ phase = "listing"
    /\ phase' = "asking"
    /\ inventory' = list
    /\ replies' = [p \in Asked(list, dated) |-> "pending"]
    /\ UNCHANGED <<dated, available, free, wasFree, wasTaken>>

\* An error of the list call leaves search_room_inventory as an exception.
ListFails ==
    /\ phase = "listing"
    /\ phase' = "failed"
    /\ UNCHANGED <<dated, inventory, replies, available, free, wasFree, wasTaken>>

\* One availability call ends: an answer true when it was given, an answer
\* with no flag in it, or an exception kept by gather.
CallEnds(p) ==
    /\ phase = "asking"
    /\ replies[p] = "pending"
    /\ \E payload \in Payloads :
         /\ payload = "free" => inventory[p].id \in free
         /\ payload = "taken" => inventory[p].id \notin free
         /\ replies' = [replies EXCEPT ![p] = payload]
    /\ UNCHANGED <<phase, dated, inventory, available, free, wasFree, wasTaken>>

\* gather returns once no call is pending, and the inventory is normalised.
Gathered ==
    /\ phase = "asking"
    /\ \A p \in DOMAIN replies : replies[p] # "pending"
    /\ phase' = "done"
    /\ available' = [p \in 1..Len(inventory) |-> Availability(p)]
    /\ UNCHANGED <<dated, inventory, replies, free, wasFree, wasTaken>>

\* The client is ready for another search.
Forget ==
    /\ phase \in {"done", "failed"}
    /\ phase' = "idle"
    /\ dated' = FALSE
    /\ inventory' = <<>>
    /\ replies' = <<>>
    /\ available' = <<>>
    /\ UNCHANGED <<free, wasFree, wasTaken>>

\* Another guest books a room for the dates, or gives it back.
OtherGuest(room) ==
    /\ free' = IF room \in free THEN free \ {room} ELSE free \cup {room}
    /\ wasFree' = wasFree \cup free'
    /\ wasTaken' = wasTaken \cup (Rooms \ free')
    /\ UNCHANGED <<phase, dated, inventory, replies, available>>

SearchClient ==
    \/ \E withDates \in BOOLEAN : Search(withDates)
    \/ \E list \in Inventories : RoomsListed(list)
    \/ ListFails
    \/ \E p \in DOMAIN replies : CallEnds(p)
    \/ Gathered
    \/ Forget

SearchNext == SearchClient \/ \E room \in Rooms : OtherGuest(room)

SearchSpec == SearchInit /\ [][SearchNext]_searchVars

(***************************************************************************)
(* Properties                                                              *)
(***************************************************************************)
SearchTypeOK ==
    /\ phase \in {"idle", "listing", "asking", "done", "failed"}
    /\ dated \in BOOLEAN
    /\ inventory \in Seq(Item)
    /\ DOMAIN replies \subseteq 1..Len(inventory)
    /\ \A p \in DOMAIN replies : replies[p] \in Payloads \cup {"pending"}
    /\ available \in Seq(BOOLEAN)
    /\ phase = "done" => DOMAIN available = 1..Len(inventory)
    /\ free \subseteq Rooms

\* The entry at position p is asked about, and no entry before it shifts the
\* answers: the answer that stands beside it is its own.
AskedItself(p) == p <= Limit /\ \A q \in 1..p : inventory[q].keyed

\* The positions whose answer may stand for the entry at position p: its own,
\* or, behind an entry without "id", one further down the list.
AnswersFor(p) ==
    IF AskedItself(p) THEN {p}
    ELSE {q \in DOMAIN replies : inventory[p].keyed /\ p < q}

\* A room offered for stay dates was free on them at some moment of the
\* search, whatever other calls answered.  Where no answer about it is read,
\* past the limit and behind an entry without "id", it is offered because its
\* status of today says so or because a room further down the list was free,
\* and for no other reason.
OfferHasReason ==
    phase = "done" /\ dated =>
        \A p \in 1..Len(inventory) :
            \/ ~available[p]
            \/ \E q \in AnswersFor(p) : inventory[q].id \in wasFree
            \/ ~AskedItself(p) /\ inventory[p].ready

\* A room withheld was taken at some moment of the search, or the call that
\* asked about this very room gave no readable answer; with the same
\* exceptions.
WithheldHasReason ==
    phase = "done" /\ dated =>
        \A p \in 1..Len(inventory) :
            \/ available[p]
            \/ \E q \in AnswersFor(p) :
                  inventory[q].id \in wasTaken \/ replies[q] \in {"unreadable", "failed"}
            \/ ~AskedItself(p) /\ ~inventory[p].ready

\* What the agent tells the guest: every room it offers for the stay dates was
\* free on them at some moment of the search.
OfferedWasFree ==
    phase = "done" /\ dated =>
        \A p \in 1..Len(inventory) : available[p] => inventory[p].id \in wasFree
===============================================================================
