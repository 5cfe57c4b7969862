-------------------------- MODULE ProposalExecution --------------------------
(***************************************************************************)
(* The terminal chat and how it carries out a proposed write               *)
(* (cli/chat.py, cli/state.py, clients/proposal_execution.py).             *)
(*                                                                         *)
(* The chat is one coroutine: while it awaits an execution it reads no     *)
(* command.  Every agent proposes at most one write, so latest_proposals   *)
(* is NULL or one proposal.  The backend is external: a POST may reach it  *)
(* at any time after it was sent, also when the client has given up on it, *)
(* or never; it accepts or refuses, and its reply may be lost or useless.  *)
(* The proposal's idempotency key is not part of any POST.                 *)
(***************************************************************************)
EXTENDS ConversationState, FiniteSets

CONSTANTS
    Ids,        \* names for the proposals the chat ever receives
    Proposals,  \* the proposals the service may send
    NoneText,   \* "None", what str() makes of an identifier that is missing
    MaxPosts    \* bound on the POSTs sent

BookingStates == {"pending", "confirmed", "checked_in"}

ASSUME ExecutionAssumption ==
    /\ MaxPosts \in Nat
    /\ NoneText \in Bookings
    /\ NULL \notin BookingStates
    /\ \A p \in Proposals :
          \/ /\ p.tool = "create_booking"
             /\ p.room_id \in Rooms /\ p.resort_id \in Resorts
             /\ p.service \in Optional(Services)
          \/ p.tool \in {"create_service_booking", "create_service_request",
                         "validate_guest_check_in"}

VARIABLES
    context,    \* ChatState: the identifiers sent along with each message
    pending,    \* ChatState.latest_proposals
    execution,  \* the suspended execute_proposal
    outcome,    \* what was printed of the latest execution
    wire,       \* POSTs on their way to the backend
    answer,     \* the backend's reply to the POST being awaited
    bookings,   \* bookings the backend has made
    written,    \* history: POSTs the backend has accepted
    posts,      \* history: number of POSTs sent
    tried,      \* history: proposals a POST was sent for
    seen,       \* history: proposals received
    done        \* history: proposals reported as carried out

chatVars == <<context, pending, execution, outcome>>
backendVars == <<wire, answer, bookings, written>>
historyVars == <<posts, tried, seen, done>>
executionVars == <<chatVars, backendVars, historyVars>>

(***************************************************************************)
(* Records.                                                                *)
(***************************************************************************)
ChatContext ==
    [booking_id     : Optional(Bookings),
     room_id        : Optional(Rooms),
     resort_id      : Optional(Resorts),
     booking_status : Optional(BookingStates)]

FreshChat ==
    [booking_id |-> NULL, room_id |-> NULL, resort_id |-> NULL,
     booking_status |-> NULL]

Offered == [id : Ids, proposal : Proposals]

PostKinds == {"create_booking", "create_service_booking",
              "create_service_request", "add_on"}

Post == [n : Nat, by : Ids, kind : PostKinds, proposal : Proposals]

\* A booking in the backend, made by the POST of a proposal.
Reservation == [id : Bookings \ {NoneText}, by : Ids]

\* What normalize_booking_record reads of a reply, in which anything may be
\* missing; only the identifier is then given a value, the text "None".
Booking ==
    [id : Bookings, room : Optional(Rooms), resort : Optional(Resorts),
     status : Optional(BookingStates)]

\* Suspended on the POST post; booking is the one made by the first POST.
Execution ==
    [id : Ids, proposal : Proposals, post : Post, booking : Optional(Booking)]

\* A reply with a body of use, a refusal (BackendToolError), or a body that
\* cannot be read.
Answer ==
    [ok : {"yes", "refused", "unreadable"}, booking : Optional(Booking),
     priced : BOOLEAN]

Lines == {"booked", "service booked", "service requested", "executed", "failed",
          "unsupported"}

Outcome == [id : Ids, line : Lines, booking : Optional(Bookings)]

ASSUME RecordsAreNotNull == NULL \notin Offered /\ NULL \notin Execution

(***************************************************************************)
(* Executing a proposal.                                                   *)
(***************************************************************************)
NewPost(id, kind, proposal) ==
    [n |-> posts + 1, by |-> id, kind |-> kind, proposal |-> proposal]

Sends(post) ==
    /\ posts < MaxPosts
    /\ posts' = post.n
    /\ tried' = tried \cup {post.by}
    /\ wire'  = wire \cup {post}
    /\ answer' = NULL
    /\ UNCHANGED <<bookings, written>>

\* execute_proposal up to the await of its first POST.
Execute(id, proposal) ==
    LET post == NewPost(id, proposal.tool, proposal) IN
    /\ proposal.tool # "validate_guest_check_in"
    /\ Sends(post)
    /\ execution' = [id |-> id, proposal |-> proposal, post |-> post,
                     booking |-> NULL]
    /\ outcome' = NULL
    /\ UNCHANGED context

Prints(line, booking) ==
    outcome' = [id |-> execution.id, line |-> line, booking |-> booking]

\* The exception handler of execute_and_render_proposal: the proposal stays.
ExecutionFails ==
    /\ Prints("failed", NULL)
    /\ execution' = NULL
    /\ answer' = NULL
    /\ UNCHANGED <<context, pending, wire, bookings, written, historyVars>>

\* Mutant: a proposal that was carried out stays pending.
SucceedsLeavingProposal ==
    /\ pending' = pending
    /\ execution' = NULL
    /\ answer' = NULL
    /\ done' = done \cup {execution.id}
    /\ UNCHANGED <<wire, bookings, written, posts, tried, seen>>

Succeeds ==
    /\ pending' = NULL
    /\ execution' = NULL
    /\ answer' = NULL
    /\ done' = done \cup {execution.id}
    /\ UNCHANGED <<wire, bookings, written, posts, tried, seen>>

\* Mutant: room and status of the booking are swapped.
BookingSucceedsSwapped(b, line) ==
    /\ Succeeds
    /\ context' = [booking_id     |-> b.id,
                   room_id        |-> Or(b.status, context.room_id),
                   resort_id      |-> Or(b.resort, context.resort_id),
                   booking_status |-> Or(b.room, context.booking_status)]
    /\ Prints(line, b.id)

\* Mutant: the chat adopts a booking only if it has none.
BookingSucceedsKeeping(b, line) ==
    /\ Succeeds
    /\ context' = [context EXCEPT !.booking_id = Or(@, b.id)]
    /\ Prints(line, b.id)

\* The chat adopts the booking it was told of.
BookingSucceeds(b, line) ==
    /\ Succeeds
    /\ context' = [booking_id     |-> b.id,
                   room_id        |-> Or(b.room, context.room_id),
                   resort_id      |-> Or(b.resort, context.resort_id),
                   booking_status |-> Or(b.status, context.booking_status)]
    /\ Prints(line, b.id)

AwaitsBooking ==
    execution # NULL /\ execution.post.kind = "create_booking"

AwaitsAddOn ==
    execution # NULL /\ execution.post.kind = "add_on"

\* The booking is made; an add-on is booked too if the booking is confirmed.
BookingMade ==
    /\ AwaitsBooking /\ answer # NULL /\ answer.ok = "yes"
    /\ LET b       == answer.booking
           service == execution.proposal.service
           post    == NewPost(execution.id, "add_on", execution.proposal)
       IN
       \/ /\ service # NULL /\ b.status \in {"confirmed", "checked_in"}
          /\ Sends(post)
          /\ execution' = [execution EXCEPT !.post = post, !.booking = b]
          /\ UNCHANGED <<context, pending, outcome, seen, done>>
       \/ /\ service # NULL /\ b.status \notin {"confirmed", "checked_in"}
          /\ BookingSucceeds(b, "service requested")
       \/ /\ service = NULL
          /\ BookingSucceeds(b, "booked")

AddOnMade ==
    /\ AwaitsAddOn /\ answer # NULL /\ answer.ok = "yes"
    /\ BookingSucceeds(execution.booking,
           IF answer.priced THEN "service booked" ELSE "service requested")

\* Mutant: an add-on that was refused or not answered is called booked.
AddOnMissedUnnoticed == BookingSucceeds(execution.booking, "service booked")

\* A refused or unanswered add-on does not undo the booking: BackendToolError
\* is caught, its service_message is not printed.
AddOnMissed == BookingSucceeds(execution.booking, "service requested")

ServiceMade ==
    /\ execution # NULL
    /\ execution.post.kind \in {"create_service_booking", "create_service_request"}
    /\ answer # NULL /\ answer.ok = "yes"
    /\ Succeeds
    /\ Prints("executed", NULL)
    /\ UNCHANGED context

Refused ==
    /\ execution # NULL /\ answer # NULL /\ answer.ok = "refused"
    /\ \/ AwaitsAddOn /\ AddOnMissed
       \/ ~AwaitsAddOn /\ ExecutionFails

\* Nothing but BackendToolError is caught around the add-on, so a body that
\* cannot be read fails the whole execution, the booking made before it too.
Unreadable ==
    /\ execution # NULL /\ answer # NULL /\ answer.ok = "unreadable"
    /\ ExecutionFails

\* Mutant: only the POST of the add-on has a timeout.
GivesUpOnAddOn ==
    /\ execution # NULL
    /\ AwaitsAddOn /\ AddOnMissed

\* The HTTP client's timeout, or a connection that breaks.
GivesUp ==
    /\ execution # NULL
    /\ \/ AwaitsAddOn /\ AddOnMissed
       \/ ~AwaitsAddOn /\ ExecutionFails

Resumes == BookingMade \/ AddOnMade \/ ServiceMade \/ Refused \/ Unreadable \/ GivesUp

(***************************************************************************)
(* The chat loop.                                                          *)
(***************************************************************************)
\* A response arrives: its proposals replace the pending ones, also when it
\* has none.  A booking that the message confirms is executed unseen.
ResponseWithout ==
    /\ execution = NULL
    /\ pending' = NULL
    /\ outcome' = NULL
    /\ UNCHANGED <<context, execution, backendVars, historyVars>>

ResponseWith(proposal, confirms) ==
    /\ execution = NULL
    /\ \E id \in Ids \ seen :
          /\ pending' = [id |-> id, proposal |-> proposal]
          /\ seen' = seen \cup {id}
          /\ UNCHANGED done
          /\ \/ /\ confirms /\ proposal.tool = "create_booking"
                /\ Execute(id, proposal)
             \/ /\ ~(confirms /\ proposal.tool = "create_booking")
                /\ outcome' = NULL
                /\ UNCHANGED <<context, execution, backendVars, posts, tried>>

\* /run: the proposal that is waiting, if it is one execute_proposal knows.
RunPending ==
    /\ execution = NULL /\ pending # NULL
    /\ Execute(pending.id, pending.proposal)
    /\ UNCHANGED <<pending, seen, done>>

RunUnsupported ==
    /\ execution = NULL /\ pending # NULL
    /\ pending.proposal.tool = "validate_guest_check_in"
    /\ outcome' = [id |-> pending.id, line |-> "unsupported", booking |-> NULL]
    /\ UNCHANGED <<context, pending, execution, backendVars, historyVars>>

\* /reset: "Cleared booking, room, and status context."
Reset ==
    /\ execution = NULL
    /\ context' = [context EXCEPT !.booking_id = NULL, !.room_id = NULL,
                                  !.booking_status = NULL]
    /\ pending' = NULL
    /\ UNCHANGED <<execution, outcome, backendVars, historyVars>>

\* /booking, /room and /resort with or without a value.
SetIdentifier ==
    /\ execution = NULL
    /\ \/ \E b \in Optional(Bookings) : context' = [context EXCEPT !.booking_id = b]
       \/ \E room \in Optional(Rooms) : context' = [context EXCEPT !.room_id = room]
       \/ \E resort \in Optional(Resorts) : context' = [context EXCEPT !.resort_id = resort]
    /\ UNCHANGED <<pending, execution, outcome, backendVars, historyVars>>

\* /quit, Ctrl-C or an exception of the service ends the process; another
\* one starts.  What was sent stays sent.
Quit ==
    /\ context' = FreshChat
    /\ pending' = NULL
    /\ execution' = NULL
    /\ outcome' = NULL
    /\ answer' = NULL
    /\ UNCHANGED <<wire, bookings, written, historyVars>>

(***************************************************************************)
(* The backend.                                                            *)
(***************************************************************************)
Awaited(post) == execution # NULL /\ execution.post = post

Replies(post, reply) ==
    answer' = IF Awaited(post) THEN reply ELSE answer

\* What may be read of the reply about the booking id; with no identifier it
\* is called "None".
RepliesTo(post, id) ==
    [id : {id, NoneText}, room : {post.proposal.room_id, NULL},
     resort : {post.proposal.resort_id, NULL}, status : Optional(BookingStates)]

\* A booking is given an identifier of its own.
MakesBooking(post) ==
    /\ post.kind = "create_booking"
    /\ \E id \in Bookings \ {NoneText} :
          /\ \A other \in bookings : other.id # id
          /\ bookings' = bookings \cup {[id |-> id, by |-> post.by]}
          /\ \E b \in RepliesTo(post, id), ok \in {"yes", "unreadable"} :
                Replies(post, [ok |-> ok, booking |-> b, priced |-> FALSE])

AddsService(post) ==
    /\ post.kind # "create_booking"
    /\ \E ok \in {"yes", "unreadable"}, priced \in BOOLEAN :
          Replies(post, [ok |-> ok, booking |-> NULL, priced |-> priced])
    /\ UNCHANGED bookings

BackendAccepts(post) ==
    /\ MakesBooking(post) \/ AddsService(post)
    /\ wire' = wire \ {post}
    /\ written' = written \cup {post}
    /\ UNCHANGED <<chatVars, historyVars>>

BackendRefuses(post) ==
    /\ Replies(post, [ok |-> "refused", booking |-> NULL, priced |-> FALSE])
    /\ wire' = wire \ {post}
    /\ UNCHANGED <<chatVars, bookings, written, historyVars>>

Init ==
    /\ context = FreshChat
    /\ pending = NULL /\ execution = NULL /\ outcome = NULL
    /\ wire = {} /\ answer = NULL /\ bookings = {} /\ written = {}
    /\ posts = 0 /\ tried = {} /\ seen = {} /\ done = {}

Guest ==
    \/ RunPending \/ RunUnsupported \/ Reset \/ SetIdentifier \/ Quit

Backend == \E post \in wire : BackendAccepts(post) \/ BackendRefuses(post)

Next ==
    \/ ResponseWithout
    \/ \E p \in Proposals, confirms \in BOOLEAN : ResponseWith(p, confirms)
    \/ Guest \/ Resumes \/ Backend

Spec == Init /\ [][Next]_executionVars

\* The event loop resumes the awaited call when it is answered, and the HTTP
\* client gives up on it after backend_timeout_seconds.  The backend and the
\* guest owe nothing.
FairSpec == Spec /\ WF_executionVars(Resumes)

-----------------------------------------------------------------------------
(***************************************************************************)
(* Properties.                                                             *)
(***************************************************************************)
TypeOK ==
    /\ context   \in ChatContext
    /\ pending   \in Optional(Offered)
    /\ execution \in Optional(Execution)
    /\ outcome   \in Optional(Outcome)
    /\ wire      \subseteq Post
    /\ answer    \in Optional(Answer)
    /\ bookings  \subseteq Reservation
    /\ written   \subseteq Post
    /\ posts     \in Nat
    /\ tried     \subseteq Ids
    /\ seen      \subseteq Ids
    /\ done      \subseteq Ids

\* id names a booking made by proposal, or its reply had no name for it.
Denotes(id, proposal) ==
    \E b \in bookings : b.by = proposal /\ id \in {b.id, NoneText}

\* What the chat has printed is so: a booking it announces was made by the
\* backend for the proposal that was run, under the identifier given unless
\* that is "None", an add-on it calls booked was accepted, and so was the
\* write it says it executed -- whatever replies were late, lost or refused
\* in between.
ToldIsTrue ==
    outcome # NULL =>
        LET accepted == {p.kind : p \in {q \in written : q.by = outcome.id}} IN
        /\ outcome.booking # NULL => Denotes(outcome.booking, outcome.id)
        /\ outcome.line \in {"booked", "service booked", "service requested"} =>
              outcome.booking # NULL
        /\ outcome.line = "service booked" => "add_on" \in accepted
        /\ outcome.line = "executed" => accepted # {}

(***************************************************************************)
(* The chat implements the life cycle of a proposal.                       *)
(***************************************************************************)
StatusOf(id) ==
    IF id \notin seen THEN "none"
    ELSE IF execution # NULL /\ execution.id = id THEN "running"
    ELSE IF id \in done THEN "done"
    ELSE IF pending # NULL /\ pending.id = id THEN "offered"
    ELSE "dropped"

WrittenFor ==
    {id \in Ids : \E post \in written : post.by = id /\ post.kind # "add_on"}

Promise == INSTANCE ProposalLifecycle
    WITH status <- [id \in Ids |-> StatusOf(id)], performed <- WrittenFor

\* Nothing is run that the guest has not been offered, only one proposal is
\* on offer, a proposal reported as carried out was, and is never run again:
\* a failed run may be repeated, a successful or replaced one may not,
\* whatever reaches the backend late or twice.
KeepsPromise == Promise!Spec

\* Every execution ends, by an answer or by a timeout, also between the
\* booking and its add-on.
EveryRunEnds == execution # NULL ~> execution = NULL

\* docs/api/tool_contract_catalog_v1.rst: "the same confirmed proposal must
\* not create duplicate bookings, service requests, or room transitions".
WrittenOnce ==
    \A p, q \in written : p.by = q.by /\ p.kind = q.kind => p = q
=============================================================================
