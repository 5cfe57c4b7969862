------------------------------ MODULE SeedRooms ------------------------------
(***************************************************************************)
(* habitalife-admin seed-demo-rooms (cli/admin.py, cli/inventory_seed.py): *)
(* list the rooms of the resort, then create the demo rooms that are not   *)
(* among them, one POST after the other.  A refused POST is reported and   *)
(* the next one sent; an exception (no answer in time, no connection, a    *)
(* failed list) ends the program with nothing reported, and the admin may  *)
(* start it again.  The same resort may be seeded by several admins.       *)
(*                                                                         *)
(* The backend is modelled from how it is used: a room per accepted POST,  *)
(* and pages of at most PageLimit rooms.  It checks no room number, since  *)
(* nothing in this code relies on it doing so.                             *)
(***************************************************************************)
EXTENDS Naturals, Sequences, FiniteSets

CONSTANTS
    Admins,       \* terminals the command is run from
    Demo,         \* build_demo_room_payloads: the demo rooms by number
    Others,       \* numbers of the resort's other rooms
    PageLimit,    \* rooms of one page; 100 in the code
    LateWrites,   \* demo rooms whose POST may be carried out after its client
                  \* gave up on it
    MaxCopies,    \* bound: rooms with one number
    NULL

DemoNumbers == {Demo[i] : i \in 1..Len(Demo)}
Numbers == DemoNumbers \cup Others

ASSUME SeedAssumption ==
    /\ Demo \in Seq(DemoNumbers)
    /\ \A i, j \in 1..Len(Demo) : Demo[i] = Demo[j] => i = j
    /\ NULL \notin Numbers
    /\ PageLimit \in Nat
    /\ MaxCopies \in Nat \ {0}
    /\ LateWrites \subseteq DemoNumbers

ASSUME SeedNull == NULL \notin {"created", "refused"}

VARIABLES
    rooms,     \* backend: how many rooms have each number
    late,      \* backend: numbers POSTed by each admin, not carried out yet
    pc,        \* where each run of the command is
    dry,       \* it is a dry run
    existing,  \* room numbers it has listed
    next,      \* payload it considers next
    sent,      \* number of the POST it waits for, or NULL
    answer,    \* what the backend has done with that POST
    result,    \* SeedResult
    wrote      \* history: rooms created for this run

adminVars == <<pc, dry, existing, next, sent, result>>
seedVars == <<rooms, late, pc, dry, existing, next, sent, answer, result, wrote>>

Steps == {"idle", "listing", "seeding", "posting", "rendered"}

SeedResult ==
    [created : SUBSET DemoNumbers, skipped : SUBSET DemoNumbers,
     failed : SUBSET DemoNumbers]

NoResult == [created |-> {}, skipped |-> {}, failed |-> {}]

Present == {number \in Numbers : rooms[number] > 0}

RoomCount == Cardinality({copy \in Numbers \X (1..MaxCopies) : copy[2] <= rooms[copy[1]]})

\* The room numbers on the first page, in an order the client does not choose.
Pages ==
    {page \in SUBSET Present :
        /\ Cardinality(page) <= PageLimit
        /\ RoomCount <= PageLimit => page = Present}

SeedInit ==
    /\ rooms \in [Numbers -> 0..1]
    /\ late     = [a \in Admins |-> {}]
    /\ pc       = [a \in Admins |-> "idle"]
    /\ dry      = [a \in Admins |-> FALSE]
    /\ existing = [a \in Admins |-> {}]
    /\ next     = [a \in Admins |-> 1]
    /\ sent     = [a \in Admins |-> NULL]
    /\ answer   = [a \in Admins |-> NULL]
    /\ result   = [a \in Admins |-> NoResult]
    /\ wrote    = [a \in Admins |-> {}]

(***************************************************************************)
(* The command.                                                            *)
(***************************************************************************)
Start(a, dryRun) ==
    /\ pc[a] = "idle"
    /\ pc'     = [pc EXCEPT ![a] = "listing"]
    /\ dry'    = [dry EXCEPT ![a] = dryRun]
    /\ next'   = [next EXCEPT ![a] = 1]
    /\ result' = [result EXCEPT ![a] = NoResult]
    /\ wrote'  = [wrote EXCEPT ![a] = {}]
    /\ UNCHANGED <<rooms, late, existing, sent, answer>>

\* Mutant: rooms without a number are kept, under str(None).
ListedWithUnnumbered(a, page) ==
    /\ pc[a] = "listing"
    /\ pc'       = [pc EXCEPT ![a] = "seeding"]
    /\ existing' = [existing EXCEPT ![a] = page \cup {NULL}]
    /\ UNCHANGED <<rooms, late, dry, next, sent, answer, result, wrote>>

\* load_existing_room_numbers: rooms without a number are left out.
Listed(a, page) ==
    /\ pc[a] = "listing"
    /\ pc'       = [pc EXCEPT ![a] = "seeding"]
    /\ existing' = [existing EXCEPT ![a] = page]
    /\ UNCHANGED <<rooms, late, dry, next, sent, answer, result, wrote>>

\* Mutant: break instead of continue; the first existing room ends the loop.
SkipAndBreak(a) ==
    LET number == Demo[next[a]] IN
    /\ pc[a] = "seeding" /\ next[a] <= Len(Demo)
    /\ number \in existing[a] \/ dry[a]
    /\ result' = [result EXCEPT ![a].skipped = @ \cup {number}]
    /\ next' = [next EXCEPT ![a] = Len(Demo) + 1]
    /\ UNCHANGED <<rooms, late, pc, dry, existing, sent, answer, wrote>>

\* The next payload is not sent: its room exists, or the run is a dry one.
Skip(a) ==
    LET number == Demo[next[a]] IN
    /\ pc[a] = "seeding" /\ next[a] <= Len(Demo)
    /\ \/ /\ number \in existing[a]
          /\ result' = [result EXCEPT ![a].skipped = @ \cup {number}]
       \/ /\ number \notin existing[a] /\ dry[a]
          /\ result' = [result EXCEPT ![a].created = @ \cup {number}]
    /\ next' = [next EXCEPT ![a] = @ + 1]
    /\ UNCHANGED <<rooms, late, pc, dry, existing, sent, answer, wrote>>

\* Mutant: the numbers that exist are not looked at again.
PostAnyway(a) ==
    /\ pc[a] = "seeding" /\ next[a] <= Len(Demo)
    /\ ~dry[a]
    /\ pc'   = [pc EXCEPT ![a] = "posting"]
    /\ sent' = [sent EXCEPT ![a] = Demo[next[a]]]
    /\ UNCHANGED <<rooms, late, dry, existing, next, answer, result, wrote>>

Post(a) ==
    LET number == Demo[next[a]] IN
    /\ pc[a] = "seeding" /\ next[a] <= Len(Demo)
    /\ number \notin existing[a] /\ ~dry[a]
    /\ pc'   = [pc EXCEPT ![a] = "posting"]
    /\ sent' = [sent EXCEPT ![a] = number]
    /\ UNCHANGED <<rooms, late, dry, existing, next, answer, result, wrote>>

\* Mutant: any answer counts as a success.
PostEndsWell(a) ==
    /\ pc[a] = "posting" /\ answer[a] # NULL
    /\ result' = [result EXCEPT ![a].created = @ \cup {sent[a]}]
    /\ pc'     = [pc EXCEPT ![a] = "seeding"]
    /\ next'   = [next EXCEPT ![a] = @ + 1]
    /\ sent'   = [sent EXCEPT ![a] = NULL]
    /\ answer' = [answer EXCEPT ![a] = NULL]
    /\ UNCHANGED <<rooms, late, dry, existing, wrote>>

\* response.is_success decides where the number is reported.
PostEnds(a) ==
    /\ pc[a] = "posting"
    /\ \/ /\ answer[a] = "created"
          /\ result' = [result EXCEPT ![a].created = @ \cup {sent[a]}]
       \/ /\ answer[a] = "refused"
          /\ result' = [result EXCEPT ![a].failed = @ \cup {sent[a]}]
    /\ pc'     = [pc EXCEPT ![a] = "seeding"]
    /\ next'   = [next EXCEPT ![a] = @ + 1]
    /\ sent'   = [sent EXCEPT ![a] = NULL]
    /\ answer' = [answer EXCEPT ![a] = NULL]
    /\ UNCHANGED <<rooms, late, dry, existing, wrote>>

Rendered(a) ==
    /\ pc[a] = "seeding" /\ next[a] > Len(Demo)
    /\ pc' = [pc EXCEPT ![a] = "rendered"]
    /\ UNCHANGED <<rooms, late, dry, existing, next, sent, answer, result, wrote>>

\* An httpx exception, or the admin's interrupt, ends the process.  A POST
\* the backend has not carried out yet is lost, or carried out later.
RunAborts(a) ==
    /\ pc[a] \in {"listing", "posting"}
    /\ pc'       = [pc EXCEPT ![a] = "idle"]
    /\ existing' = [existing EXCEPT ![a] = {}]
    /\ sent'     = [sent EXCEPT ![a] = NULL]
    /\ answer'   = [answer EXCEPT ![a] = NULL]
    /\ \/ UNCHANGED late
       \/ /\ pc[a] = "posting" /\ answer[a] = NULL /\ sent[a] \in LateWrites
          /\ late' = [late EXCEPT ![a] = @ \cup {sent[a]}]
    /\ UNCHANGED <<rooms, dry, next, result, wrote>>

\* The shell prompt is back after a report.
Exit(a) ==
    /\ pc[a] = "rendered"
    /\ pc'       = [pc EXCEPT ![a] = "idle"]
    /\ existing' = [existing EXCEPT ![a] = {}]
    /\ UNCHANGED <<rooms, late, dry, next, sent, answer, result, wrote>>

(***************************************************************************)
(* The backend.                                                            *)
(***************************************************************************)
CreatesRoom(a) ==
    /\ pc[a] = "posting" /\ answer[a] = NULL /\ rooms[sent[a]] < MaxCopies
    /\ rooms'  = [rooms EXCEPT ![sent[a]] = @ + 1]
    /\ wrote'  = [wrote EXCEPT ![a] = @ \cup {sent[a]}]
    /\ answer' = [answer EXCEPT ![a] = "created"]
    /\ UNCHANGED <<late, adminVars>>

RefusesRoom(a) ==
    /\ pc[a] = "posting" /\ answer[a] = NULL
    /\ answer' = [answer EXCEPT ![a] = "refused"]
    /\ UNCHANGED <<rooms, late, adminVars, wrote>>

CreatesLate(a, number) ==
    /\ number \in late[a] /\ rooms[number] < MaxCopies
    /\ rooms' = [rooms EXCEPT ![number] = @ + 1]
    /\ late'  = [late EXCEPT ![a] = @ \ {number}]
    /\ UNCHANGED <<adminVars, answer, wrote>>

\* The resort gets another room.
OpensRoom(number) ==
    /\ number \in Others /\ rooms[number] = 0
    /\ rooms' = [rooms EXCEPT ![number] = 1]
    /\ UNCHANGED <<late, adminVars, answer, wrote>>

Command(a) ==
    \/ \E dryRun \in BOOLEAN : Start(a, dryRun)
    \/ \E page \in Pages : Listed(a, page)
    \/ Skip(a)
    \/ Post(a)
    \/ PostEnds(a)
    \/ Rendered(a)
    \/ RunAborts(a)
    \/ Exit(a)

Backend ==
    \/ \E a \in Admins : CreatesRoom(a) \/ RefusesRoom(a)
    \/ \E a \in Admins, number \in Numbers : CreatesLate(a, number)
    \/ \E number \in Numbers : OpensRoom(number)

SeedNext == Backend \/ \E a \in Admins : Command(a)

SeedSpec == SeedInit /\ [][SeedNext]_seedVars

\* An admin who goes on starting the command, dry runs apart, and a backend
\* that is not down for ever: a list or a room that is asked for again and
\* again is granted at last.  Every wait of a run ends, by the client's timeout
\* if by nothing else.
Persistence ==
    \A a \in Admins :
        /\ SF_seedVars(Start(a, FALSE))
        /\ SF_seedVars(~dry[a] /\ \E page \in Pages : Listed(a, page))
        /\ WF_seedVars(Skip(a) \/ Post(a) \/ PostEnds(a) \/ Rendered(a) \/ Exit(a)
                       \/ RunAborts(a))
        /\ SF_seedVars(CreatesRoom(a))

(***************************************************************************)
(* Properties                                                              *)
(***************************************************************************)
SeedTypeOK ==
    /\ rooms    \in [Numbers -> 0..MaxCopies]
    /\ late     \in [Admins -> SUBSET DemoNumbers]
    /\ pc       \in [Admins -> Steps]
    /\ dry      \in [Admins -> BOOLEAN]
    /\ existing \in [Admins -> SUBSET Numbers]
    /\ next     \in [Admins -> 1..Len(Demo) + 1]
    /\ sent     \in [Admins -> DemoNumbers \cup {NULL}]
    /\ answer   \in [Admins -> {"created", "refused", NULL}]
    /\ result   \in [Admins -> SeedResult]
    /\ wrote    \in [Admins -> SUBSET DemoNumbers]
    /\ \A a \in Admins : sent[a] # NULL <=> pc[a] = "posting"

\* No demo room is created twice, however often the command is interrupted,
\* loses an answer and is run again, unless the backend carries out a POST
\* after the run that sent it has ended.
NoDuplicateRooms == \A number \in DemoNumbers \ LateWrites : rooms[number] <= 1

\* The report is true, whoever else is seeding: each demo room is in one list,
\* "created" are the rooms this run created, "failed" were not created by it,
\* "skipped existing" exist, and a dry run has created nothing.
ReportIsTrue ==
    \A a \in Admins : pc[a] = "rendered" =>
        LET r == result[a] IN
        /\ r.created \cup r.skipped \cup r.failed = DemoNumbers
        /\ r.created \cap r.skipped = {} /\ r.created \cap r.failed = {}
        /\ r.skipped \cap r.failed = {}
        /\ r.skipped \subseteq Present
        /\ wrote[a] = IF dry[a] THEN {} ELSE r.created

\* However its runs are interrupted, an admin who repeats the command ends
\* with every demo room: a run goes on where an interrupted one stopped.
SeedingEnds == <>[](DemoNumbers \subseteq Present)
===============================================================================
