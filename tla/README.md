# Verification of the HabitaLife agent service

TLA+ models, TLC runs and TLAPS proofs for the conversational service in
`src/agentic_intelligence_systems`. Paths below are relative to that package.

## 1. The system

| Part | State it keeps | Operations | What makes it correct |
| --- | --- | --- | --- |
| Conversation state (`orchestration/conversation_state.py`) | one record of dialogue slots per conversation, in memory | merge the client's booking context, apply an agent's update, match a known service | identifiers are never erased; a slot is forgotten only on purpose; related slots change together |
| Responder (`orchestration/responder.py`, `policies.py`, `api/routes.py`) | nothing of its own; one coroutine per request | store context, check policy, plan, dispatch to one agent, apply its update, polish the text | every request is answered; failure never corrupts the memory; only allowed writes are proposed |
| Planner and message semantics (`agents/planner*.py`, `message_semantics.py`, `open_intents.py`, `booking_recovery.py`) | nothing | ordered routing rules over signals and memory | an ongoing task is continued, and it does not swallow other requests |
| Booking agent (`agents/booking.py`) | a copy of the memory across its awaits | resolve branch, dates and party; search rooms; offer alternatives; quote a room; propose a booking; look up a booking | a proposal is for a room the backend reported free for those dates |
| Recommendation agent (`agents/recommendation.py`) | nothing | rank services, add one to the booking plan, arrange one for a booking | an add-on reaches the booking proposal |
| Service request, reception, welcome, interaction, knowledge agents | nothing | propose an in-stay request or a check-in; list branches; small talk and reset; open questions | check-in only for staff; the reset really resets |
| Backend client (`clients/backend_api.py`, `backend_availability.py`, normalizers, routes) | nothing | HTTP reads; a fan-out of availability calls | answers belong to the room asked about |
| Language model provider (`clients/llm_provider.py`) | nothing | polish a draft, answer a question | its failure never costs the draft |
| Terminal chat (`cli/chat.py`, `cli/state.py`) | identifiers sent with each message, the pending proposal | send a message, run, reset, set an identifier, quit | it comes back to its prompt; what is asked for is about the guest's booking |
| Proposal execution (`clients/proposal_execution.py`) | nothing | a booking and its add-on, a service booking, a service request | what it reports was done; what was done is not repeated |
| Admin seeding (`cli/admin.py`, `cli/inventory_seed.py`) | a report | list the rooms, create the missing demo rooms | no room twice, a true report, a run that can be repeated |
| Date parsers (`utils/dates.py`, `agents/booking_recovery.py`) | nothing | dates of a message, ranges around a stay | the day the guest meant; a stay as long as hers |
| Other parsers (`utils/`), sentiment, memory summarizer, API assembly, contracts | nothing | pure functions and wiring | |

The backend, which owns bookings and rooms, and the model server are outside
the repository.

How they interact: a client posts a message with a booking context. The
responder merges the context into the stored state, and the planner picks one
agent from the message and the state. The agent calls the backend, possibly
several times, and returns a text, proposals and a `DialogueUpdate`, which the
responder applies before it asks the language model to polish the text. The
terminal chat runs the service in its own process. It keeps the proposals of the
latest response, and executes one itself, against the same backend, on `/run` or
when the message confirms a booking. The booking it is then told of goes along
with its next messages.

What is hard about it: everything runs on one asyncio thread, so a step
between two awaits is atomic, but any number of turns, of the same conversation
too, interleave at the awaits. Agents read the shared state by reference, except
where `BookingAgent.handle` works on a `model_copy`. Any call can fail, and the
slot-filling dialogue has to survive failures, changes of subject, resets and
late answers. `PROJECT.json` lists the hazards with their lines.

## 2. The modules

| Module | Models | State and actions |
| --- | --- | --- |
| `ConversationState` | `conversation_state.py` | the record `State`; `ApplyUpdate`, `ApplyRequestContext`, `MergeBookingContext` |
| `MessageSemantics` | `message_semantics.py` and parsers | a message as the record of signals and values parsed from it; one operator per `suggests_*` |
| `Planner` | `planner.py`, `planner_state.py` | `PlanFor`, an ordered list of guarded rules |
| `Turns` | `responder.py`, failures, delivery | variables `store`, `pc`, `request`, `frame`, `reply`; the ways a step ends (`Await`, `Finish`, `Respond`) and the steps any turn may take |
| `BookingAgent`, `RecommendationAgent`, `StayAgents` | the agents | one operator per handler up to its first await, one action per answer awaited |
| `Responder` | the service | `Begin`, `Dispatch`, `Next`, `Spec`, `FairSpec` and the properties |
| `ConciergeService` | abstract | what turns serve, what they offer, what each conversation is known to have said and whether it has a task |
| `PatientGuest` | the environment | a guest who says anything, then insists on one booking |
| `ProposalLifecycle` | abstract | a proposal is offered, running, done or dropped; its effect may appear late |
| `ProposalExecution` | `proposal_execution.py`, `chat.py`, an external backend | `pending`, `execution`, the POSTs on the `wire`; one action per way an awaited POST ends, one per command |
| `TerminalChat` | chat and service in one process | composes `Responder` (one turn) with `ProposalExecution`; `Say` and `Receive` carry identifiers and proposals across, `Restart` loses both memories |
| `RoomAvailability` | `search_room_inventory`, `backend_availability.py` | a list of any length, its calls in flight, one action per call that ends; other guests book meanwhile |
| `CheckInReadiness` | `get_check_in_readiness` | three reads one after the other; booking and rooms change between them |
| `StayDates` | `utils/dates.py`, `_resolve_dates`, `booking_recovery.py`, the search loop | a text is heard, completed from the stored dates, stored, and ranges around the stay are searched |
| `SeedRooms` | `cli/admin.py`, `inventory_seed.py` | several admins' runs, POST by POST; interruptions; late writes |
| `MCOperations` | `RoomAvailability`, `CheckInReadiness`, `SeedRooms`, `StayDates` | one of the four operations runs and the others rest |
| other `MC*` | | messages, proposals and texts for TLC |
| `*_proofs` | | lemmas and theorems |

In `Turns`, `pc[t]` is the await turn `t` is suspended on (`resorts`,
`inventory`, `alternatives`, `services`, `record`, `ranking`, `stay`,
`readiness`, `welcome`, `knowledge`, `polish`), `idle` for a free slot, `reply`
for an answer about to be sent. `frame[t]` holds the local variables the
coroutine still needs. For a booking proposal the frame is kept until the answer
is sent, as the evidence the proposal is compared with; no action reads it.

Abstractions:

- Slots that only reach wording (`active_agent`, `goal_summary`,
  `selected_resort_name`, the service's `booking_status`) are left out.
  `selected_service_id` and `_name` are one value, and so are `request_type` and
  `request_description`; each pair is always written together.
- In the dialogue, dates are day numbers, and a day after `LastDay` stands for a
  date that does not exist; `StayDates` has the calendar and the texts. A message
  whose own dates cannot be read (`extract_stay_dates` raises) has the signal
  `dates_raise`: nothing was awaited yet, and the turn ends as an HTTP 500 after
  its booking context was stored. `missing_fields` and `known_services` are sets.
- A message names at most one branch and one service, and any number of rooms:
  those whose number or identifier it holds (`rooms`), of which the first in the
  backend's list is chosen, and those of the types it names (`typed`), of which
  one is chosen only if it is the only one. The order of the list being the
  backend's, `MatchRoomChoice` gives the set of possible results. Which text
  gives which signals was obtained by running `analyze_message` on the texts
  quoted in `MCResponder`.
- Between the agents and the backend, a read is one await that gives any
  admissible answer: a room search returns any subset of the rooms of the branch
  asked for (that the backend filters by branch is assumed, `RoomsOf`), the
  catalog ranking any subset. `RoomAvailability` and `CheckInReadiness` open up
  the two reads that are made of several calls. The two awaits of
  `ServiceRequestAgent.handle` with nothing read between them stay one.
- `clarification_message` is never set by the planner, so the branches of
  `respond` and `continue_active_task` that need it are dead and left out.
- Every agent returns at most one proposal, so `latest_proposals` is a proposal
  or nothing, and the index of `/run <n>` can only be 1. A POST has no
  idempotency key because the code sends none.
- A reply is usable, a refusal (`BackendToolError`), or a body that cannot be
  read (`json()` raises). Giving up covers the timeout and a broken connection.
  Of a usable reply to a booking anything may be missing: a missing room, branch
  or status is None, a missing identifier the text `"None"` (`NoneText`). A room
  without an identifier inside such a reply, called `"None"` likewise, is left out.
- A list entry of `RoomAvailability` has an identifier, a status and whether the
  identifier is under `"id"`; a list names a room once.
- `Mutant:` operators are wrong variants of the definition below them. Nothing
  uses them; each shows that a property would notice that mistake.

## 3. The runs

Dialogue runs: up to twenty-one quoted messages, one conversation (two in `racing`),
one branch, one or two rooms and services are enough: a handler reads one
conversation, distinguishes no more than "the named room" from "another", and every comparison
in the code is of a value with itself or with "nothing".

| Run | Bounds | Shows |
| --- | --- | --- |
| `booking` | 1 turn, 21 messages, some of them with dates that do not exist or two rooms, 2 rooms, then a patient guest (`GuestSpec`) | the memory invariants of the dialogue, grounded proposals, and that no state of the booking dialogue swallows a booking request |
| `stay` | 1 turn, 28 requests, 2 services | only allowed writes are proposed, check-ins only to staff; an added service is proposed with the booking |
| `racing` | 2 turns, 8 requests, one of a second conversation, 1 room, `FairSpec` | verdicts and proposals when turns interleave, with resets among them; two guests do not touch each other (the service implements `ConciergeService`); every request is answered |
| `execution` | 2 proposals of 4 kinds, 2 POSTs, 2 bookings and the name `"None"`, `FairSpec` | what is printed is true; the life cycle is implemented; an execution ends |
| `terminal` | 3 messages, 2 proposals, 2 bookings and `"None"`, 1 POST, `FairTerminalSpec` | in-stay proposals are for the booking announced; the terminal always returns to its prompt |
| `operations` | lists of 0, 2 and 4 rooms, limit 3, one entry without `"id"` or none; 2 rooms, every booking status, two room states; 3 demo rooms and another one, 1 admin; 57 days, 2 of them pass, all words, 3 ISO dates, 5 durations | what offers or withholds a room; a readiness verdict is about one booking and its own room; no duplicates, true reports, and seeding succeeds when repeated; the properties of dates and ranges |
| `lost_addon`, `named_room`, `checkout_answer`, `swallowed`, `written_twice`, `past_limit` | the smallest instance that shows the case | disagreements between code and promise, section 4 |

`operations` checks four operations in one run. They serve separate requests or run
in processes of their own (the admin's command) and have no variable in common,
so `MCOperations` chooses one at the start and lets the others rest; the states
are those of the four apart. Fairness is assumed, and
`DemoRoomsAreSeeded` asked, only where it is the seeding that runs.

Bounds. `MaxRetry` bounds `retry_count`: no booking turn starts once that many
searches in a row have failed. Two is enough for a search that fails again after
alternatives were looked for, and one where two turns overlap; what the code does with more of them
(`retry_count >= 3`) only changes wording. `MaxPosts` bounds the POSTs sent: two
are a booking and its add-on, or a run and its repetition. A proposal is executed
only while the bound has room for it, and a message of `TerminalChat` is sent only
while `Ids` has a name for its proposal and, if it confirms a booking, a POST is
left. `Limit` is 8 in the code, for a list of up to 20; the run takes 3 and lists of
up to 4, so that one room lies past it, and one of the first two entries may have
no `"id"`. "cleaning" stands for both states that keep a room
from being ready. `PageLimit` is 100 in the code; four rooms, one of them made
twice by a late write, fit on the page of five. `LateWrites` names the demo rooms
whose POST the backend may carry out after its client gave up. `LastDay` is the
end of the calendar, near enough that shifting by a duration or by the 35 days of
the widest range passes it, in the dialogue as in `StayDates`. `MaxCopies` lets a room be made twice. No run disables
the deadlock check.

Properties of the dialogue:

- `VerdictIsComplete`: a stored `availability_status` comes with branch, both
  dates and both counts, and "unavailable" with a counted failure. The follow-up
  branches of `BookingAgent.handle` rely on it.
- `BookingIsGrounded`: a booking proposal names a room the backend reported free
  in this turn for exactly the proposed dates, and is for the party of the search.
- `ProposalIsAllowed`: only writes the policy context allows; check-in for staff.
- `OnlyResetForgetsStay`, `IdentifiersAreKept`, `TaskEndsWithProposal`: what no
  step, failure or late answer may do to the memory.
- `AddOnIsProposed`: see run `stay`; it fails when turns of one conversation
  overlap (run `lost_addon`).
- `ServesEachGuest`: `Responder` implements `ConciergeService`. A turn serves one
  conversation from its first step to its answer, and no step touches two; what
  is known of a stay or an identifier is only forgotten by a reset; a task is only
  given up in the step that proposes a write; a proposal, once made, is made once
  and goes away with its answer. The polishing of a text is a stutter.
- `EveryTurnIsAnswered`, `PatientGuestIsServed`: liveness.

Of the terminal and the backend client:

- `ToldIsTrue`: a booking, an add-on or a write the chat announces was accepted
  by the backend for the proposal that was run, a booking under the name given
  unless that is `"None"`.
- `KeepsPromise`: `ProposalExecution` implements `ProposalLifecycle`. A proposal's
  status is computed from `seen`, `execution`, `done` and `pending`. A proposal is
  run only when it was offered (or confirmed as it arrived), never after it
  succeeded or was replaced.
- `ProposalsAreForTheStay`: the chat's identifiers and the service's memory agree
  on the booking, so that towels go to the room just booked.
- `EveryRunEnds`, `PromptReturns`: no wait without an end.
- `OfferHasReason`, `WithheldHasReason`: where each room's own answer is read,
  positions, answers and rooms match, and one failed call withholds one room; past
  the limit and behind an entry without `"id"`, the only other reasons are today's
  status and the answer about a room further down the list. What the guest is told,
  `OfferedWasFree`, fails in the first of these cases already (run `past_limit`).
- `VerdictWasTrue`: a verdict is never pieced together from a booking and a room
  that was not its own. That both facts held at one and the same moment is more
  than three reads can promise.
- `WeekdayIsNext`, `ComputedStayIsOrdered`, `CrashNeedsBadDate`,
  `NothingFoundAfterAll`, `AlternativesKeepStay`: dates.
- `NoDuplicateRooms`, `ReportIsTrue`, `SeedingEnds`: seeding. The first is checked
  for one admin, a list that fits on a page, and the rooms that are not in
  `LateWrites`; outside of that it depends on whether the backend refuses a room
  number twice, which this code does not tell.

Fairness. `FairSpec` of `Responder` is weak fairness of each begun turn. The event
loop resumes every coroutine whose await has ended, and every await is an HTTP
call with a timeout (`backend_timeout_seconds`, `llm_timeout_seconds`), so it
ends. No fairness is assumed of clients sending requests. `FairSpec` of
`ProposalExecution` is weak fairness of resuming, giving up included;
`FairTerminalSpec` is both for the one turn and the one execution, and nothing
about the guest or the backend. `GuestSpec` instead assumes a guest who goes on
answering and servers that answer without failing, with all rooms of the branch
free: the run asks what the dialogue does, not what the servers do.
`Persistence` of `SeedRooms` assumes an admin who goes on starting the command
and a backend that grants what is asked for again and again (strong fairness);
seeding cannot succeed otherwise.

## 4. Disagreements found

Each of these six is the counterexample of a run:

1. `checkout_answer`: with both dates stored, a new single date makes the agent
   ask for the checkout date and store the answer as check-in, again and again
   (`agents/booking.py:673-681`).
2. `named_room`: the remembered room outranks the room the message names
   (`agents/booking.py:507-512`).
3. `lost_addon`: an add-on stored while a booking turn awaits its room search is
   cleared without being proposed (`agents/booking.py:313-376`).
4. `swallowed`: an unfinished service request takes every later booking request
   (`agents/planner_state.py:74-89`).
5. `written_twice`: no idempotency key is sent, so a repeated `/run` after a
   timeout writes twice (`clients/proposal_execution.py:121-133`).
6. `past_limit`: a page of 20 rooms is listed and eight are asked about; every
   later room is offered for the stay by its status of today
   (`clients/backend_availability.py:29`, `clients/backend_routes.py:42`).

These were met while modelling, and are why some properties are stated under a
condition; no run shows them:

- A bare branch name, in answer to the question for it, drops the booking search
  (`agents/planner_state.py:38-53`). The patient guest repeats her request.
- After a date of an unavailable stay is changed, a message that asks for nothing
  new gets alternatives to dates that were never searched, "your original dates"
  (`agents/booking.py:379-409`).
- A turn under way when the thread is dropped reopens it
  (`agents/interaction.py:56-62`, `orchestration/responder.py:144`).
- `/run` of a check-in proposal always ends as unsupported, although `/help` says
  "Execute the nth pending proposal." (`clients/proposal_execution.py:136`;
  `RunUnsupported`).
- `/reset` clears the chat's identifiers and not the service's, which come back
  with the next message (`cli/chat.py:78-84`).
- An entry of the room list without `"id"` (the normalizer accepts other spellings)
  shifts the answers of the entries after it
  (`clients/backend_availability.py:40-46`): a room is offered because another one
  is free. Hence the exceptions of `OfferHasReason` and `WithheldHasReason`.
- The room search ignores the guest counts it is given (`agents/booking.py:202`).
- A booking whose reply has no identifier is announced as "Your booking ID is None",
  and the chat sends that identifier along from then on
  (`clients/backend_normalizers.py:71`, `cli/chat.py:216`). Hence `NoneText` in
  `ToldIsTrue`.
- "2026-02-30", or a stay longer than the calendar, ends the turn as an HTTP 500,
  and so does a later turn that completes such a stay or looks around it
  (`utils/dates.py:66`, `agents/booking_recovery.py:39`): `ServerError` in `Begin`
  and `BookingAgent`.
- A stay that ends before it begins, which nothing refuses, gets alternatives of
  one night (`agents/booking_recovery.py:41`). Hence the condition of
  `AlternativesKeepStay`.
- A pending or checked-out booking is called eligible because "Booking is
  confirmed" (`clients/backend_normalizers.py:289-293`).
- Existing rooms past the first page of 100 are created again
  (`cli/admin.py:82`): `NoDuplicateRooms` fails with a `PageLimit` smaller than
  the resort.

## 5. What is proved

For any number of turns and conversations, any requests, rooms, branches,
services, bookings, lists, texts, calendars and admins:

| Module | Theorem | Property | Also checked by run |
| --- | --- | --- | --- |
| `Responder_proofs` | `TypeCorrect` | `TypeOK` | `booking` |
| | `VerdictIsAlwaysComplete` | `VerdictIsComplete` | `booking`, `racing` |
| | `BookingsAreGrounded` | `BookingIsGrounded` | `booking`, `racing` |
| | `ProposalsAreAllowed` | `ProposalIsAllowed` | `stay` |
| `Responder_memory_proofs` | `IdentifiersStay` | `IdentifiersAreKept` | `booking` |
| | `StayIsForgottenOnlyByReset` | `OnlyResetForgetsStay` | `booking` |
| | `TasksEndWithProposals` | `TaskEndsWithProposal` | `booking` |
| | `ServiceServesEachGuest` | `ServesEachGuest` | `racing` |
| | `AddOnsAreProposed` (one turn of a conversation at a time) | `AddOnIsProposed` | `stay` |
| `ProposalExecution_proofs` | `TypeCorrect` | `TypeOK` | `execution` |
| | `WhatIsToldIsTrue` | `ToldIsTrue` | `execution` |
| | `Implements` | `KeepsPromise` | `execution` |
| `TerminalChat_proofs` | `ChatIsExecution` | the terminal is a `ProposalExecution` | |
| | `TerminalTellsTheTruth`, `TerminalKeepsPromise` | `ToldIsTrue`, `KeepsPromise` | `execution` |
| | `ServiceSurvivesRestarts` | `VerdictIsComplete`, `BookingIsGrounded`, `ProposalIsAllowed` | `booking`, `stay` |
| | `ProposalsBelongToTheStay` | `ProposalsAreForTheStay` | `terminal` |
| `RoomAvailability_proofs` | `TypeCorrect` | `SearchTypeOK` | `operations` |
| | `OffersAreTrue`, `RefusalsAreTrue` | `OfferHasReason`, `WithheldHasReason` | `operations` |
| `CheckInReadiness_proofs` | `TypeCorrect`, `VerdictsAreTrue` | `CheckTypeOK`, `VerdictWasTrue` | `operations` |
| `StayDates_proofs` | `TypeCorrect`, `CrashesHaveACause`, `WeekdaysAreNext`, `ComputedStaysAreOrdered`, `NothingIsFoundAfterAll`, `AlternativesKeepTheStay` | the six invariants | `operations` |
| `SeedRooms_proofs` | `TypeCorrect`, `ReportsAreTrue` | `SeedTypeOK`, `ReportIsTrue` | `operations` |
| | `NoRoomIsCreatedTwice` (one admin, a list of one page) | `NoDuplicateRooms` | `operations` |

Assumptions, each declared with its constant and evaluated by a run: None is no
other value (`NullIsFresh`, `RequestsAndProposalsAreNotNull`, `RecordsAreNotNull`,
`NoneIsNothing`, `SeedNull`, `TerminalAssumption`), a conversation has an
identifier (`ConversationsAreNamed`; `conversation_id` is a required string),
requests and proposals have the fields of their
kind (`RequestsAreWellFormed`, `ToolsAreNotNull`, `ExecutionAssumption`), every
room has a branch (`ResortOfRooms`), bounds are numbers (`MaxRetryIsNat`,
`LastDayIsNat`, `SeedAssumption`, `AvailabilityAssumption`), a calendar long enough for a week
(`CalendarAssumption`). `OffersAreTrue` and `RefusalsAreTrue` hold for lists of any
length, with any entries lacking `"id"`, and any limit. `ReportsAreTrue` covers what run `operations` leaves to it:
several admins at once, partial pages, and late writes of any room.
`NoRoomIsCreatedTwice` assumes what run `operations` does and the code needs: one
admin (two may list before either creates), a resort that fits on the first page
(`FitsOnAPage`: the rooms listed at most, one late copy of each included), and no
room of the resort that is not a demo room under a demo room's number. Its
property leaves out the rooms in `LateWrites`. `AddOnsAreProposed` assumes
`[]OneAtATime`: a client awaits the answer to a message before it sends the next
one of the same conversation, as the terminal does; any other conversations
overlap. Run `lost_addon` shows that the property fails otherwise;
`OneTurnProposesAddOns` is the case of one turn slot, where nothing is assumed.

*The dialogue.* None of its invariants is inductive alone. A proposal is made
from the local variables of a coroutine that was suspended with them, possibly
after other turns have reset the conversation. The inductive invariant `IInv`
(`Responder_proofs`) therefore adds what each coroutine holds while suspended,
`FrameFits`: a turn awaiting a room search holds a state with a branch, two dates
and two counts; one awaiting alternative dates holds a whole stay; one awaiting a
stay or a readiness check holds a booking. And `ReplyFits`: a computed answer
agrees with the request and with the search it came from. It is the copy taken
before the await, not the shared memory, that keeps verdicts complete across a
reset. The argument has three layers:

1. *The memory.* `ApplyUpdateType`; `VerdictKept`, `VerdictDropped` and
   `VerdictGiven` are the only three ways an update may treat a verdict.
2. *The two ways a step ends.* `AwaitKeeps` (suspend with a fitting frame) and
   `RespondKeeps` (return a `Sound` response) keep `IInv`; `FinishKeeps` serves
   the one step that keeps its frame as evidence, the booking proposal.
3. *The handlers.* One lemma per handler and per awaited answer shows which of
   the two it does. `NextKeeps` collects them.

*What the memory keeps.* An update can only empty a slot that it clears, so every
step has one of three fates: it keeps every slot in question, it ends the task
with a proposal, or it answers a hostile message. `Responder_memory_proofs` shows
which handler has which fate (`StepFate`); the three action properties follow.
So does `ServiceServesEachGuest`: a step that keeps every slot is a `Talk` of
`ConciergeService`, one that ends the task an `Offer`, one that answers a hostile
message a `Reset`, and the fate also says that only the turn concerned moved and
that it stayed with its request, so that it serves one conversation.

*An add-on.* `BookingAgent.handle` takes a copy of the memory into its search, and
proposes the add-on of the copy. `PlanIsCurrent` says that the copy has the
add-on that is stored. It is inductive as long as no other turn of the
conversation stores one meanwhile, which is what `OneAtATime` excludes; each
handler either suspends elsewhere, answers, or takes the copy in the same step
(`Carries`).

*The terminal.* `TerminalChat_proofs` instantiates the proofs of
`ProposalExecution` with the service's proposals (`Proved`) and shows that the
two instances of that module agree and that its assumptions hold. What is left to
prove of the composition is that the service sends the chat only what
`ProposalExecution` expects (`StepExecutes`), that the service's invariant also
survives a restart, which starts it afresh in the middle of anything
(`StepServes`), and how the two memories agree (`StepKeepsToStay`): a booking the
guest was told of is the one the chat sends along (`StayFits`), a turn that was
asked with a booking keeps to it across its await (`KeepsToBooking`), although
the memory of the conversation may name another one by then, and a turn and an
execution are never under way both.

*Executing a proposal.* `ToldIsTrue` speaks of the moment after an execution; the
invariant adds what holds before it: the answer being held belongs to the POST
being awaited and its booking is among those made or called `"None"`, every accepted POST was sent
for a proposal that was tried, and a proposal is never both done and pending.
`Implements` then maps each action to one of `ProposalLifecycle`: a response to
`Offer`, `OfferAndStart` or `Drop`, `/run` to `Start`, the ends of an execution to
`Succeed` or `Fail`, an acceptance by the backend to `Perform`, the second POST
and everything else to a stutter.

*The searches.* The answers stand beside the entries in the order of the tasks. As
long as no entry before it is left out, the number of a task is its position; once
one is, every later entry stands beside the answer of a task further down, or of
none. An answer was true at a moment that `wasFree` or `wasTaken` remembers. For check-in, the booking that was read and the state of
its room stay among those remembered until the verdict is told.

*Dates.* The invariant relates what was read to the text and the day it was heard
on, what it was completed to and what is stored to what was read, and what is asked to the ranges of the stored stay: offsets are asked in
order, so that a search which ends without four matches has asked them all.

*Seeding.* The numbers before `next` are exactly those already in one of the three
lists, "created" are those written by this run unless it is dry, and a listed
room is present for good. For `NoRoomIsCreatedTwice` the invariant `OnceInv` adds
that a room has at most one copy, that the POST under way, or carried out but not
yet answered, is for a room the run has seen missing, and that it is still
missing: nobody else creates it.

## 6. What is only model-checked, and what is not modelled

Only model-checked: liveness (`EveryTurnIsAnswered`, `PatientGuestIsServed`,
`EveryRunEnds`, `PromptReturns`, `DemoRoomsAreSeeded`), which the provers cannot do.
Every other property of a passing run is a theorem of section 5. The violation
runs are counterexamples and have nothing to be proved.

Not modelled:

- Prompts and wording; sentiment scoring and the memory summarizer, stateless
  functions of one request that score keywords; the `/recommend` endpoint, the
  ranking of which is "any subset".
- Word lists and regular expressions other than those of dates; they are
  represented by what they extract from given messages.
- API assembly, settings, headers and log context: fixed at start-up.
- Normalizers that copy fields under several spellings (resorts, services,
  categories): data without control.
- Of the terminal, commands that set a field of the next request only (`/user`,
  `/staff`, `/actor`, `/lang`, `/tools`, `/status`). What these fields decide, staff
  and allowed tools, is varied by the requests of run `stay`.
- `admin_check_in` and `admin_check_out` of the route table, which nothing calls.

## 7. Where it could go on

1. The search of a stay as an abstract specification (asked, searched, offered,
   proposed) between `ConciergeService` and `Responder`.
2. Several HTTP clients of one service process that restart at different times.
3. If the code starts to send idempotency keys: `WrittenOnce` as a passing run, and
   a stronger `ProposalLifecycle` in which `Perform` happens once.
