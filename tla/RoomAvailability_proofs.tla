----------------------- MODULE RoomAvailability_proofs -----------------------
(***************************************************************************)
(* Theorems about the room search: for any resort, any limit and any list  *)
(* the backend may return, each room gets the answer of its own call,      *)
(* whatever the order of the answers, except for those the code asks       *)
(* nothing about or numbers wrongly, and what becomes of these.            *)
(***************************************************************************)
EXTENDS RoomAvailability, FiniteSetTheorems, TLAPS

\* The tasks are those of the list that arrived.
TasksFit ==
    /\ phase \in {"idle", "listing"} => inventory = <<>> /\ replies = <<>>
    /\ phase \in {"asking", "done"} =>
          inventory \in Inventories /\ DOMAIN replies = Asked(inventory, dated)
    /\ phase = "done" => \A p \in DOMAIN replies : replies[p] # "pending"

\* The history has every state of the search, the present one included.
HistoryFits == free \subseteq wasFree /\ Rooms \ free \subseteq wasTaken

\* An answer was true when it was given.
RepliesFit ==
    \A p \in DOMAIN replies :
        /\ replies[p] = "free" => inventory[p].id \in wasFree
        /\ replies[p] = "taken" => inventory[p].id \in wasTaken

\* What is reported is what the zip gives.
ReportFits ==
    phase = "done" => \A p \in 1..Len(inventory) : available[p] = Availability(p)

IInv == SearchTypeOK /\ TasksFit /\ HistoryFits /\ RepliesFit /\ ReportFits

USE AvailabilityAssumption

-----------------------------------------------------------------------------
(***************************************************************************)
(* The zip of a list and the numbered tasks.                               *)
(***************************************************************************)

\* The number of a task is at most its position, and equal to it only when
\* every entry before it has a task too.
LEMMA NumberAtMostPosition ==
  ASSUME NEW n \in Nat, DOMAIN replies \subseteq 1..n, NEW q \in DOMAIN replies
  PROVE  /\ Number(q) \in Nat
         /\ Number(q) <= q
         /\ Number(q) = q <=> 1..q \subseteq DOMAIN replies
<1> DEFINE upTo == {r \in DOMAIN replies : r <= q}
<1>1. q \in 1..n /\ upTo \subseteq 1..q
  OBVIOUS
<1>2. IsFiniteSet(1..q) /\ Cardinality(1..q) = q
  BY <1>1, FS_Interval
<1>3. /\ Cardinality(upTo) \in Nat
      /\ Cardinality(upTo) <= q
      /\ Cardinality(upTo) = q => upTo = 1..q
  BY <1>1, <1>2, FS_Subset, FS_CardinalityType
<1>4. upTo = 1..q <=> 1..q \subseteq DOMAIN replies
  BY <1>1
<1>5. Number(q) = Cardinality(upTo)
  BY DEF Number
<1> HIDE DEF upTo
<1> QED  BY <1>2, <1>3, <1>4, <1>5

\* Where the tasks have no gap, no later task has the number.
LEMMA NumberBelongsToOne ==
  ASSUME NEW n \in Nat, DOMAIN replies \subseteq 1..n,
         NEW p \in Nat, 1..p \subseteq DOMAIN replies,
         NEW q \in DOMAIN replies, Number(q) = p
  PROVE  q <= p
<1> SUFFICES ASSUME p < q PROVE FALSE
  BY DOMAIN replies \subseteq 1..n
<1> DEFINE upTo == {r \in DOMAIN replies : r <= q}
<1>1. q \in Nat /\ upTo \subseteq 1..q
  BY DOMAIN replies \subseteq 1..n
<1>2. 1..p \cup {q} \subseteq upTo
  BY <1>1
<1>3. /\ IsFiniteSet(1..q) /\ IsFiniteSet(1..p)
      /\ Cardinality(1..p) = p
  BY <1>1, FS_Interval
<1>4. IsFiniteSet(upTo)
  BY <1>1, <1>3, FS_Subset
<1>5. Cardinality(1..p \cup {q}) = p + 1
  <2>1. q \notin 1..p
    BY <1>1
  <2> QED  BY <1>3, <2>1, FS_AddElement
<1>6. p + 1 <= Cardinality(upTo)
  BY <1>2, <1>4, <1>5, FS_Subset
<1>7. Number(q) = Cardinality(upTo)
  BY DEF Number
<1> HIDE DEF upTo
<1> QED  BY <1>6, <1>7

\* The lengths and positions of the list are numbers.
LEMMA Positions ==
  ASSUME SearchTypeOK
  PROVE  Len(inventory) \in Nat /\ DOMAIN replies \subseteq 1..Len(inventory)
<1>1. inventory \in Seq(Item) /\ DOMAIN replies \subseteq 1..Len(inventory)
  BY DEF SearchTypeOK
<1> QED  BY <1>1

\* The entry itself is asked about, with its own number, when all of those up
\* to it have a task.
LEMMA OwnTasks ==
  ASSUME SearchTypeOK, DOMAIN replies = Asked(inventory, TRUE), NEW p \in 1..Len(inventory)
  PROVE  AskedItself(p) <=> p <= Limit /\ 1..p \subseteq DOMAIN replies
<1>1. Len(inventory) \in Nat
  BY Positions
<1>2. \A q : q \in DOMAIN replies <=>
              q \in 1..Len(inventory) /\ q <= Limit /\ inventory[q].keyed
  BY DEF Asked
<1>3. p \in Nat /\ Limit \in Nat
  BY <1>1
<1>4. \A q \in 1..p : q \in 1..Len(inventory) /\ (p <= Limit => q <= Limit)
  BY <1>1, <1>3
<1>5. AskedItself(p) => 1..p \subseteq DOMAIN replies
  BY <1>2, <1>4 DEF AskedItself
<1>6. p <= Limit /\ 1..p \subseteq DOMAIN replies => AskedItself(p)
  BY <1>2 DEF AskedItself
<1> QED  BY <1>5, <1>6 DEF AskedItself

\* So the answer that stands beside an entry is its own if no entry before it
\* was left out, and else that of an entry further down the list.
LEMMA AnswerBeside ==
  ASSUME SearchTypeOK, DOMAIN replies = Asked(inventory, TRUE),
         NEW p \in 1..Len(inventory), p <= Limit, NEW q \in Beside(p)
  PROVE  /\ q \in DOMAIN replies /\ p <= q
         /\ AskedItself(p) <=> q = p
<1>1. Len(inventory) \in Nat /\ DOMAIN replies \subseteq 1..Len(inventory)
  BY Positions
<1>2. q \in DOMAIN replies /\ Number(q) = p
  BY DEF Beside
<1>3. p <= q /\ (q = p <=> 1..q \subseteq DOMAIN replies)
  BY <1>1, <1>2, NumberAtMostPosition
<1>4. AskedItself(p) <=> 1..p \subseteq DOMAIN replies
  BY OwnTasks
<1>5. 1..p \subseteq DOMAIN replies => q <= p
  <2>1. p \in Nat
    BY <1>1
  <2> QED  BY <1>1, <1>2, <2>1, NumberBelongsToOne
<1>6. p \in Nat
  BY <1>1
<1>7. q \in 1..Len(inventory)
  BY <1>1, <1>2
<1>8. q \in Nat
  BY <1>1, <1>7
<1>9. AskedItself(p) => q = p
  <2> SUFFICES ASSUME AskedItself(p) PROVE q = p
    OBVIOUS
  <2>1. q <= p /\ p <= q
    BY <1>3, <1>4, <1>5
  <2> QED  BY <1>6, <1>8, <2>1
<1>10. q = p => AskedItself(p)
  BY <1>3, <1>4
<1> QED  BY <1>2, <1>3, <1>9, <1>10

-----------------------------------------------------------------------------
(***************************************************************************)
(* The inductive invariant.                                                *)
(***************************************************************************)

\* A client between two searches keeps nothing.
LEMMA Nothing ==
  /\ <<>> \in Seq(Item) /\ <<>> \in Seq(BOOLEAN)
  /\ Len(<<>>) = 0 /\ DOMAIN <<>> = {}
  OBVIOUS

\* An entry of the list.
LEMMA Entries ==
  ASSUME SearchTypeOK, NEW p \in 1..Len(inventory)
  PROVE  /\ inventory[p].id \in Rooms
         /\ inventory[p].keyed \in BOOLEAN
         /\ inventory[p].ready \in BOOLEAN
<1>1. inventory[p] \in Item
  BY DEF SearchTypeOK
<1> QED  BY <1>1 DEF Item

\* Before a search nothing is asked, answered or remembered.
LEMMA InitIInv == SearchInit => IInv
  BY Nothing DEF SearchInit, IInv, SearchTypeOK, TasksFit, HistoryFits, RepliesFit, ReportFits

\* A request for a search.
LEMMA SearchStep ==
  ASSUME IInv, NEW withDates \in BOOLEAN, Search(withDates)
  PROVE  IInv'
  BY DEF IInv, SearchTypeOK, TasksFit, HistoryFits, RepliesFit, ReportFits, Search

\* The list of rooms.
LEMMA RoomsListedStep ==
  ASSUME IInv, NEW list \in Inventories, RoomsListed(list)
  PROVE  IInv'
<1>1. list \in Seq(Item)
  OBVIOUS
<1>2. /\ Asked(list, dated) \subseteq 1..Len(list)
      /\ DOMAIN replies' = Asked(list, dated)
      /\ \A p \in DOMAIN replies' : replies'[p] = "pending"
  BY DEF RoomsListed, Asked
<1>3. SearchTypeOK'
  BY <1>1, <1>2 DEF IInv, SearchTypeOK, RoomsListed
<1>4. TasksFit'
  BY <1>2 DEF IInv, SearchTypeOK, TasksFit, RoomsListed, Asked
<1>5. HistoryFits' /\ RepliesFit' /\ ReportFits'
  BY <1>2 DEF IInv, HistoryFits, RepliesFit, ReportFits, RoomsListed
<1> QED  BY <1>3, <1>4, <1>5 DEF IInv

\* The end of one availability call.
LEMMA CallEndsStep ==
  ASSUME IInv, NEW p \in DOMAIN replies, CallEnds(p)
  PROVE  IInv'
<1>1. PICK payload \in Payloads :
         /\ payload = "free" => inventory[p].id \in free
         /\ payload = "taken" => inventory[p].id \notin free
         /\ replies' = [replies EXCEPT ![p] = payload]
  BY DEF CallEnds
<1>2. /\ phase = "asking" /\ phase' = phase
      /\ UNCHANGED <<dated, inventory, available, free, wasFree, wasTaken>>
  BY DEF CallEnds
<1>3. /\ DOMAIN replies' = DOMAIN replies
      /\ \A q \in DOMAIN replies : replies'[q] = IF q = p THEN payload ELSE replies[q]
  BY <1>1
<1>4. inventory[p].id \in Rooms
  BY Entries DEF IInv, SearchTypeOK
<1>5. SearchTypeOK'
  BY <1>2, <1>3 DEF IInv, SearchTypeOK
<1>6. TasksFit' /\ HistoryFits' /\ ReportFits'
  BY <1>2, <1>3 DEF IInv, TasksFit, HistoryFits, ReportFits, Asked
<1>7. RepliesFit'
  BY <1>1, <1>2, <1>3, <1>4 DEF IInv, HistoryFits, RepliesFit
<1> QED  BY <1>5, <1>6, <1>7 DEF IInv

\* The end of the search.
LEMMA GatheredStep ==
  ASSUME IInv, Gathered
  PROVE  IInv'
<1>1. /\ phase = "asking" /\ phase' = "done"
      /\ \A p \in DOMAIN replies : replies[p] # "pending"
      /\ available' = [p \in 1..Len(inventory) |-> Availability(p)]
      /\ UNCHANGED <<dated, inventory, replies, free, wasFree, wasTaken>>
  BY DEF Gathered
<1>2. Len(inventory) \in Nat
  BY DEF IInv, SearchTypeOK
<1>3. \A p \in 1..Len(inventory) : Availability(p) \in BOOLEAN
  BY Entries DEF IInv, Availability
<1>4. available' \in Seq(BOOLEAN) /\ DOMAIN available' = 1..Len(inventory)
  BY <1>1, <1>2, <1>3
<1>5. SearchTypeOK'
  BY <1>1, <1>4 DEF IInv, SearchTypeOK
<1>6. TasksFit' /\ HistoryFits' /\ RepliesFit'
  BY <1>1 DEF IInv, TasksFit, HistoryFits, RepliesFit, Asked
<1>7. ReportFits'
  <2>1. \A p : Availability(p)' = Availability(p)
    BY <1>1 DEF Availability, Beside, Number
  <2> QED  BY <1>1, <2>1 DEF ReportFits
<1> QED  BY <1>5, <1>6, <1>7 DEF IInv

\* The steps that end a search without a report, and those of other guests.
LEMMA OtherStep ==
  ASSUME IInv, ListFails \/ Forget \/ (\E room \in Rooms : OtherGuest(room))
  PROVE  IInv'
<1>1. CASE ListFails
  BY <1>1 DEF IInv, SearchTypeOK, TasksFit, HistoryFits, RepliesFit, ReportFits, ListFails
<1>2. CASE Forget
  <2>1. /\ phase' = "idle" /\ dated' = FALSE
        /\ inventory' = <<>> /\ replies' = <<>> /\ available' = <<>>
        /\ UNCHANGED <<free, wasFree, wasTaken>>
    BY <1>2 DEF Forget
  <2>2. DOMAIN replies' = {}
    BY <2>1, Nothing
  <2>3. SearchTypeOK'
    BY <2>1, <2>2, Nothing DEF IInv, SearchTypeOK
  <2>4. TasksFit' /\ HistoryFits' /\ RepliesFit' /\ ReportFits'
    BY <2>1, <2>2 DEF IInv, TasksFit, HistoryFits, RepliesFit, ReportFits
  <2> QED  BY <2>3, <2>4 DEF IInv
<1>3. ASSUME NEW room \in Rooms, OtherGuest(room)
      PROVE  IInv'
  <2>1. UNCHANGED <<phase, dated, inventory, replies, available>>
    BY <1>3 DEF OtherGuest
  <2>2. free' \subseteq Rooms /\ wasFree \subseteq wasFree' /\ wasTaken \subseteq wasTaken'
    BY <1>3 DEF OtherGuest, IInv, SearchTypeOK
  <2>3. SearchTypeOK' /\ TasksFit'
    BY <2>1, <2>2 DEF IInv, SearchTypeOK, TasksFit, Asked
  <2>4. HistoryFits' /\ RepliesFit'
    BY <1>3, <2>1, <2>2 DEF IInv, OtherGuest, HistoryFits, RepliesFit
  <2>5. ReportFits'
    BY <2>1 DEF IInv, ReportFits, Availability, Beside, Number
  <2> QED  BY <2>3, <2>4, <2>5 DEF IInv
<1> QED  BY <1>1, <1>2, <1>3

\* Every step of a search, and every booking made beside it, keeps the invariant.
LEMMA NextIInv == IInv /\ [SearchNext]_searchVars => IInv'
<1> SUFFICES ASSUME IInv, [SearchNext]_searchVars PROVE IInv'
  OBVIOUS
<1>1. CASE UNCHANGED searchVars
  <2>1. UNCHANGED <<phase, dated, inventory, replies, available, free, wasFree, wasTaken>>
    BY <1>1 DEF searchVars
  <2>2. SearchTypeOK'
    BY <2>1 DEF IInv, SearchTypeOK
  <2>3. TasksFit' /\ HistoryFits' /\ RepliesFit'
    BY <2>1 DEF IInv, TasksFit, HistoryFits, RepliesFit, Asked
  <2>4. ReportFits'
    BY <2>1 DEF IInv, ReportFits, Availability, Beside, Number
  <2> QED  BY <2>2, <2>3, <2>4 DEF IInv
<1>2. CASE SearchClient
  BY <1>2, SearchStep, RoomsListedStep, CallEndsStep, GatheredStep, OtherStep DEF SearchClient
<1>3. CASE \E room \in Rooms : OtherGuest(room)
  BY <1>3, OtherStep
<1> QED  BY <1>1, <1>2, <1>3 DEF SearchNext

\* The inductive invariant holds throughout.
THEOREM Invariance == SearchSpec => []IInv
  BY InitIInv, NextIInv, PTL DEF SearchSpec

\* Type correctness of the room search, for every resort and limit.
THEOREM TypeCorrect == SearchSpec => []SearchTypeOK
<1>1. IInv => SearchTypeOK
  BY DEF IInv
<1> QED  BY <1>1, Invariance, PTL

-----------------------------------------------------------------------------
(***************************************************************************)
(* What the report says is so.                                             *)
(***************************************************************************)

\* In a report on a dated search, an entry has the answer of a task of its own
\* or of one further down, or else its status of today.
LEMMA ReportIsExplained ==
  ASSUME IInv, phase = "done", dated, NEW p \in 1..Len(inventory)
  PROVE  \/ \E q \in AnswersFor(p) :
               /\ q \in DOMAIN replies
               /\ available[p] = (replies[q] = "free")
         \/ ~AskedItself(p) /\ available[p] = inventory[p].ready
<1>1. /\ SearchTypeOK /\ DOMAIN replies = Asked(inventory, TRUE)
      /\ available[p] = Availability(p)
      /\ Len(inventory) \in Nat
  <2>1. SearchTypeOK /\ inventory \in Inventories /\ DOMAIN replies = Asked(inventory, dated)
    BY DEF IInv, TasksFit
  <2>2. dated = TRUE
    BY <2>1 DEF SearchTypeOK
  <2>3. available[p] = Availability(p)
    BY DEF IInv, ReportFits
  <2> QED  BY <2>1, <2>2, <2>3, Positions
<1>2. CASE inventory[p].keyed /\ p <= Limit /\ Beside(p) # {}
  <2>1. available[p] = \E q \in Beside(p) : replies[q] = "free"
    BY <1>1, <1>2 DEF Availability, ParseRoomAvailability
  <2>2. \A q \in Beside(p) : q \in DOMAIN replies /\ p <= q /\ (AskedItself(p) <=> q = p)
    BY <1>1, <1>2, AnswerBeside
  <2>3. \A q \in Beside(p) : q \in Nat /\ p \in Nat
    BY <1>1, <2>2 DEF Asked
  <2>4. \A q \in Beside(p) : q \in AnswersFor(p) /\ q \in DOMAIN replies
    BY <1>2, <2>2, <2>3 DEF AnswersFor
  <2>5. PICK q \in Beside(p) : available[p] = (replies[q] = "free")
    BY <1>2, <2>1
  <2> QED  BY <2>4, <2>5
<1>3. CASE ~(inventory[p].keyed /\ p <= Limit /\ Beside(p) # {})
  <2>1. available[p] = inventory[p].ready
    BY <1>1, <1>3 DEF Availability
  <2>2. ASSUME AskedItself(p)
        PROVE  FALSE
    <3>1. p \in 1..p /\ p <= Limit /\ inventory[p].keyed
      BY <1>1, <2>2 DEF AskedItself
    <3>2. 1..p \subseteq DOMAIN replies /\ p \in DOMAIN replies
      BY <1>1, <2>2, <3>1, OwnTasks
    <3>3. Number(p) = p
      BY <1>1, <3>2, Positions, NumberAtMostPosition
    <3>4. p \in Beside(p)
      BY <3>2, <3>3 DEF Beside
    <3> QED  BY <1>3, <3>1, <3>4
  <2> QED  BY <2>1, <2>2
<1> QED  BY <1>2, <1>3

\* For every resort, every limit and every list: a room offered for stay dates
\* was free on them during the search, unless no answer about it is read; then
\* its status of today or a free room further down the list is the reason.
THEOREM OffersAreTrue == SearchSpec => []OfferHasReason
<1>1. ASSUME IInv, phase = "done", dated, NEW p \in 1..Len(inventory), available[p]
      PROVE  \/ \E q \in AnswersFor(p) : inventory[q].id \in wasFree
             \/ ~AskedItself(p) /\ inventory[p].ready
  BY <1>1, ReportIsExplained DEF IInv, RepliesFit
<1>2. IInv => OfferHasReason
  BY <1>1 DEF OfferHasReason
<1> QED  BY <1>2, Invariance, PTL

\* For the same lists: a room withheld was taken during the search, or the call
\* about it failed or could not be read; with the same exceptions.
THEOREM RefusalsAreTrue == SearchSpec => []WithheldHasReason
<1>1. ASSUME IInv, phase = "done", dated, NEW p \in 1..Len(inventory), ~available[p]
      PROVE  \/ \E q \in AnswersFor(p) :
                   inventory[q].id \in wasTaken \/ replies[q] \in {"unreadable", "failed"}
             \/ ~AskedItself(p) /\ ~inventory[p].ready
  <2>1. \A q \in DOMAIN replies : replies[q] \in Payloads
    BY <1>1 DEF IInv, SearchTypeOK, TasksFit
  <2>2. \A q \in DOMAIN replies : replies[q] # "free" =>
           inventory[q].id \in wasTaken \/ replies[q] \in {"unreadable", "failed"}
    BY <1>1, <2>1 DEF IInv, RepliesFit, Payloads
  <2> QED  BY <1>1, <2>2, ReportIsExplained
<1>2. IInv => WithheldHasReason
  BY <1>1 DEF WithheldHasReason
<1> QED  BY <1>2, Invariance, PTL
===============================================================================
