-------------------------------- MODULE Turns --------------------------------
(***************************************************************************)
(* Turns in flight (orchestration/responder.py).                           *)
(*                                                                         *)
(* Every POST /respond is a coroutine of one asyncio thread.  It runs      *)
(* without interruption between two awaits, and other turns, of the same   *)
(* conversation too, run while it is suspended.  A turn slot holds one     *)
(* such coroutine: pc is the await it is suspended on, frame its local     *)
(* variables, reply the answer it has computed.  The stored state of the   *)
(* conversation is shared by all turns: an agent holds a reference to it,  *)
(* not a copy, except where the code calls model_copy.                     *)
(***************************************************************************)
EXTENDS Planner

CONSTANTS
    Conversations,  \* conversation identifiers
    Turn,           \* slots for turns in flight
    Requests        \* requests clients may send, a subset of Request

VARIABLES
    store,     \* ConversationStateStore._states, created on first use
    pc,        \* what each turn is suspended on
    request,   \* the request of each turn, its booking context merged
    frame,     \* the local variables each turn needs when it resumes
    reply      \* the answer each turn has computed

vars == <<store, pc, request, frame, reply>>

Tools ==
    {"create_booking", "create_service_booking", "create_service_request",
     "validate_guest_check_in"}

\* tools is policy_context.allowed_tool_names, NULL a missing policy context.
Request ==
    [conv : Conversations, msg : Message, ctx : Context,
     tools : Optional(SUBSET Tools), staff : BOOLEAN]

ASSUME RequestsAreWellFormed == Requests \subseteq Request

ASSUME ConversationsAreNamed == NULL \notin Conversations

ASSUME ToolsAreNotNull == \A tools \in SUBSET Tools : tools # NULL

\* Awaits of the agents, named for the call they wait for.
Awaits ==
    {"resorts", "inventory", "alternatives", "services", "record", "ranking",
     "stay", "readiness", "welcome", "knowledge"}

Steps == Awaits \cup {"idle", "polish", "reply"}

Proposal ==
    [tool : {"create_booking"}, room_id : Rooms, resort_id : Resorts,
     check_in_date : Nat, check_out_date : Nat, adults : Nat, children : Nat,
     service : Optional(Services)]
    \cup [tool : {"create_service_booking"}, booking_id : Bookings,
          service : Services, scheduled_date : Nat]
    \cup [tool : {"create_service_request"}, booking_id : Bookings,
          description : Texts]
    \cup [tool : {"validate_guest_check_in"}, booking_id : Bookings]

ResponseTypes ==
    {"assistant_message", "clarification_required", "handover_required",
     "assistant_message_with_proposals",
     "server_error"}   \* an exception that respond does not catch: HTTP 500

ASSUME RequestsAndProposalsAreNotNull == NULL \notin Request /\ NULL \notin Proposal

Reply == [type : ResponseTypes, proposal : Optional(Proposal)]

Frame ==
    [state       : Optional(State),
     check_in    : Optional(Nat),
     check_out   : Optional(Nat),
     adults      : Optional(Nat),
     children    : Optional(Nat),
     room        : Optional(Rooms),
     available   : SUBSET Rooms,
     booking_id  : Optional(Bookings),
     description : Optional(Texts)]

NoFrame ==
    [state |-> NULL, check_in |-> NULL, check_out |-> NULL, adults |-> NULL,
     children |-> NULL, room |-> NULL, available |-> {}, booking_id |-> NULL,
     description |-> NULL]

(***************************************************************************)
(* DomainResponse: what an agent returns.                                  *)
(***************************************************************************)
DomainResponse(type, proposal, update, clear) ==
    [reply  |-> [type |-> type, proposal |-> proposal],
     update |-> update, clear |-> clear]

Tell(update, clear) == DomainResponse("assistant_message", NULL, update, clear)

Ask(update) == DomainResponse("clarification_required", NULL, update, {})

Handover(update) == DomainResponse("handover_required", NULL, update, {})

\* An exception that respond does not catch; nothing is applied.
ServerError == DomainResponse("server_error", NULL, NoUpdate, {})

Propose(proposal, update, clear) ==
    DomainResponse("assistant_message_with_proposals", proposal, update, clear)

\* Mutant: any policy context allows any write.
ToolAllowedByAnyPolicy(r, tool) == r.tools # NULL

ToolAllowed(r, tool) == r.tools # NULL /\ tool \in r.tools

(***************************************************************************)
(* The two ways a step of turn t ends.  r is its request, live the stored  *)
(* state of its conversation as the step sees it, f its local variables.   *)
(***************************************************************************)
\* Mutant: one ConversationState serves every conversation.
SettleForEveryone(t, live, r, f, step, answer) ==
    /\ store'   = [c \in Conversations |-> live]
    /\ request' = [request EXCEPT ![t] = r]
    /\ frame'   = [frame EXCEPT ![t] = f]
    /\ pc'      = [pc EXCEPT ![t] = step]
    /\ reply'   = [reply EXCEPT ![t] = answer]

Settle(t, live, r, f, step, answer) ==
    /\ store'   = [store EXCEPT ![r.conv] = live]
    /\ request' = [request EXCEPT ![t] = r]
    /\ frame'   = [frame EXCEPT ![t] = f]
    /\ pc'      = [pc EXCEPT ![t] = step]
    /\ reply'   = [reply EXCEPT ![t] = answer]

\* Suspend on a backend or model call.
Await(t, r, live, f, step) == Settle(t, live, r, f, step, NULL)

\* The agent returns: its update is applied in the same step (apply_update).
Finish(t, r, live, f, step, response) ==
    Settle(t, ApplyUpdate(live, response.update, response.clear), r, f, step,
           response.reply)

\* An answer the language model is then asked to polish, or not.
Respond(t, r, live, response) ==
    Finish(t, r, live, NoFrame, "polish", response)

\* Mutant: the branch that skips the polishing forgets to return the answer.
RespondUnpolishedUnsent(t, r, live, response) ==
    Finish(t, r, live, NoFrame, "idle", response)

RespondUnpolished(t, r, live, response) ==
    Finish(t, r, live, NoFrame, "reply", response)

(***************************************************************************)
(* What any suspended turn may meet.                                       *)
(***************************************************************************)
Live(t) == store[request[t].conv]

\* BackendToolError from an awaited call: handover, no update.  WelcomeAgent
\* and SearchKnowledgeAgent catch their own.
BackendFails(t) ==
    /\ pc[t] \in Awaits \ {"welcome", "knowledge"}
    /\ RespondUnpolished(t, request[t], Live(t), Handover(NoUpdate))

\* Any other exception, such as a body that is not JSON, is not caught.
HandlerRaises(t) ==
    /\ pc[t] \in Awaits
    /\ RespondUnpolished(t, request[t], Live(t), ServerError)

\* The polish call returned, or failed and the draft stands.
Polished(t) ==
    /\ pc[t] = "polish"
    /\ pc' = [pc EXCEPT ![t] = "reply"]
    /\ UNCHANGED <<store, request, frame, reply>>

\* The model server answered with something that is not JSON: the answer is
\* lost, after its update was applied.
PolishRaises(t) ==
    /\ pc[t] = "polish"
    /\ RespondUnpolished(t, request[t], Live(t), ServerError)

\* The HTTP response is sent and the slot is free.
Deliver(t) ==
    /\ pc[t] = "reply"
    /\ pc'      = [pc EXCEPT ![t] = "idle"]
    /\ request' = [request EXCEPT ![t] = NULL]
    /\ frame'   = [frame EXCEPT ![t] = NoFrame]
    /\ reply'   = [reply EXCEPT ![t] = NULL]
    /\ UNCHANGED store

InitTurns ==
    /\ store   = [c \in Conversations |-> FreshState]
    /\ pc      = [t \in Turn |-> "idle"]
    /\ request = [t \in Turn |-> NULL]
    /\ frame   = [t \in Turn |-> NoFrame]
    /\ reply   = [t \in Turn |-> NULL]

TypeOK ==
    /\ store   \in [Conversations -> State]
    /\ pc      \in [Turn -> Steps]
    /\ request \in [Turn -> Optional(Request)]
    /\ frame   \in [Turn -> Frame]
    /\ reply   \in [Turn -> Optional(Reply)]
    /\ \A t \in Turn : pc[t] # "idle" => request[t] \in Request
==============================================================================
