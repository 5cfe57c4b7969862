----------------------------- MODULE Responder -----------------------------
(***************************************************************************)
(* The conversational service: the responder, the planner, the agents and  *)
(* the conversation store, driven by any number of overlapping requests    *)
(* (orchestration/responder.py).                                           *)
(***************************************************************************)
EXTENDS BookingAgent, RecommendationAgent, StayAgents

CONSTANT MaxRetry   \* bound: no booking turn starts after this many retries

ASSUME MaxRetryIsNat == MaxRetry \in Nat

(***************************************************************************)
(* AgentResponder.respond up to the first await of the chosen agent.  The  *)
(* client's booking context is stored before anything is checked, also     *)
(* before the planner reads the dates of the message, which may raise.     *)
(***************************************************************************)
Dispatch(t, r, live) ==
    LET plan == PlanFor(r.msg, r.ctx, live) IN
    \/ /\ plan.agent = "BookingAgent" /\ live.retry_count < MaxRetry
       /\ HandleBooking(t, r, live)
    \/ plan.agent = "RecommendationAgent" /\ HandleRecommendation(t, r, live)
    \/ plan.agent = "ServiceRequestAgent" /\ HandleServiceRequest(t, r, live)
    \/ plan.agent = "GuestReceptionCheckInAgent" /\ HandleCheckIn(t, r, live)
    \/ plan.agent = "WelcomeAgent" /\ HandleWelcome(t, r, live)
    \/ plan.agent = "InteractionAgent" /\ HandleInteraction(t, r, live, plan.intent)
    \/ plan.agent = "SearchKnowledgeAgent" /\ HandleKnowledge(t, r, live)

Begin(t, received) ==
    LET live == ApplyRequestContext(store[received.conv], received.ctx)
        r    == [received EXCEPT !.ctx = MergeBookingContext(live, @)]
    IN
    /\ pc[t] = "idle"
    /\ \/ /\ r.tools = NULL
          /\ RespondUnpolished(t, r, live, Handover(NoUpdate))
       \/ /\ r.tools # NULL /\ Says(r.msg, "dates_raise")
          /\ RespondUnpolished(t, r, live, ServerError)
       \/ /\ r.tools # NULL /\ ~Says(r.msg, "dates_raise")
          /\ Dispatch(t, r, live)

\* The backend or the model server answers a suspended turn.
ServerAnswers(t) ==
    \/ \E catalog \in SUBSET Resorts : ResortsArrive(t, catalog)
    \/ \E available \in SUBSET Rooms : InventoryArrives(t, available)
    \/ \E catalog \in SUBSET Services : ServicesArrive(t, catalog)
    \/ \E items \in SUBSET Services : RankingArrives(t, items)
    \/ \E eligible \in BOOLEAN : ReadinessArrives(t, eligible)
    \/ AlternativesArrive(t)
    \/ RecordArrives(t)
    \/ StayArrives(t)
    \/ WelcomeArrives(t)
    \/ KnowledgeArrives(t)
    \/ Polished(t)

\* Or it does not.
ServerFails(t) == BackendFails(t) \/ HandlerRaises(t) \/ PolishRaises(t)

\* What moves a turn that has begun.
Advance(t) == ServerAnswers(t) \/ ServerFails(t) \/ Deliver(t)

Init == InitTurns

Next == \E t \in Turn : Advance(t) \/ \E r \in Requests : Begin(t, r)

Spec == Init /\ [][Next]_vars

\* The event loop resumes every coroutine and the HTTP client gives up on a
\* call after a timeout, so a turn that has begun keeps moving.  Nobody has
\* to send another request.
Fairness == \A t \in Turn : WF_vars(Advance(t))

FairSpec == Spec /\ Fairness

-----------------------------------------------------------------------------
(***************************************************************************)
(* Properties.                                                             *)
(***************************************************************************)
IdentifierSlots == {"booking_id", "room_id", "resort_id"}

SaidSlots == {"check_in_date", "check_out_date", "adults", "children"}

Answered(t) == pc[t] \in {"polish", "reply"}

Proposes(t, tool) ==
    /\ Answered(t)
    /\ reply[t].proposal # NULL
    /\ reply[t].proposal.tool = tool

\* A stored availability verdict is about one whole stay: branch, both dates
\* and both guest counts are stored with it, and "unavailable" has been
\* counted as at least one failed search.  The follow-up branches of
\* BookingAgent.handle read the verdict and trust the other slots.
IsAboutAStay(s) ==
    /\ s.availability_status # NULL =>
          /\ HasDates(s)
          /\ Known(s.adults, s.children)
          /\ s.resort_id # NULL
    /\ s.availability_status = "unavailable" => s.retry_count >= 1

VerdictIsComplete == \A c \in Conversations : IsAboutAStay(store[c])

\* A create_booking proposal names a room that the backend reported free in
\* this very turn, for exactly the proposed dates, in the branch the room
\* belongs to, and it is for the party the room was searched for -- whatever
\* other turns stored meanwhile and whatever room the client or an earlier
\* turn had selected.
BookingIsGrounded ==
    \A t \in Turn : Proposes(t, "create_booking") =>
        LET p == reply[t].proposal IN
        /\ p.room_id \in frame[t].available
        /\ p.resort_id = ResortOf[p.room_id]
        /\ p.check_in_date = frame[t].check_in
        /\ p.check_out_date = frame[t].check_out
        /\ p.adults = frame[t].adults /\ p.children = frame[t].children

\* A turn proposes only a write its policy context allows, and a check-in
\* only to staff.
ProposalIsAllowed ==
    \A t \in Turn : Answered(t) /\ reply[t].proposal # NULL =>
        /\ request[t].tools # NULL
        /\ reply[t].proposal.tool \in request[t].tools
        /\ reply[t].proposal.tool = "validate_guest_check_in" => request[t].staff

\* What a guest has said about the stay is forgotten only when a hostile
\* message resets the thread: no late answer of another turn, failure or
\* change of subject erases a date or a guest count.
OnlyResetForgetsStay ==
    [][\A c \in Conversations :
          (\E slot \in SaidSlots :
               store[c][slot] # NULL /\ store'[c][slot] = NULL)
          => \E t \in Turn :
                /\ pc[t] = "idle" /\ pc'[t] = "reply"
                /\ request'[t].conv = c
                /\ request'[t].msg.open_intent = "hostile_repair"]_vars

\* A conversation stops having a task only by proposing its outcome: no
\* failure, interruption or late answer leaves it with nothing to continue.
TaskEndsWithProposal ==
    [][\A c \in Conversations :
          store[c].active_intent # NULL /\ store'[c].active_intent = NULL
          => \E t \in Turn :
                /\ request'[t] # NULL /\ request'[t].conv = c
                /\ pc[t] # "polish" /\ pc'[t] = "polish"
                /\ reply'[t].proposal # NULL]_vars

\* The identifiers of a conversation are never erased, not even by a reset.
IdentifiersAreKept ==
    [][\A c \in Conversations :
          \A slot \in IdentifierSlots :
              store[c][slot] # NULL => store'[c][slot] # NULL]_vars

\* An add-on the guest has added to the booking plan is part of the booking
\* that is then proposed ("Added ... to this booking plan").
AddOnIsProposed ==
    [][\A t \in Turn :
          LET added == store[request[t].conv].selected_service IN
          pc[t] = "inventory" /\ added # NULL /\ Proposes(t, "create_booking")'
          => reply'[t].proposal.service = added]_vars

\* A booking proposal is for the one free room the guest's message names.
NamedRoomIsProposed ==
    \A t \in Turn : Proposes(t, "create_booking") =>
        LET named == request[t].msg.rooms \cap frame[t].available IN
        Cardinality(named) = 1 => reply[t].proposal.room_id \in named

\* One date given in answer to "what checkout date would you like?" leaves
\* the check-in date alone.
CheckoutAnswerKeepsCheckIn ==
    [][\A t \in Turn :
          LET s  == store[request'[t].conv]
              s1 == store'[request'[t].conv]
          IN
          /\ pc[t] = "idle" /\ pc'[t] # "idle"
          /\ s.active_intent = "booking_search"
          /\ s.missing_fields = {"check_out_date"}
          /\ Len(request'[t].msg.dates) = 1
          => s1.check_in_date = s.check_in_date]_vars

(***************************************************************************)
(* What the service promises (ConciergeService), in terms of its state.    *)
(***************************************************************************)
Concierge == INSTANCE ConciergeService
    WITH Nobody      <- NULL,
         Identifiers <- IdentifierSlots,
         Stay        <- SaidSlots,
         serves      <- [t \in Turn |-> IF pc[t] = "idle" THEN NULL ELSE request[t].conv],
         offering    <- {t \in Turn : Answered(t) /\ reply[t].proposal # NULL},
         known       <- [c \in Conversations |->
                            {slot \in IdentifierSlots \cup SaidSlots : store[c][slot] # NULL}],
         busy        <- {c \in Conversations : store[c].active_intent # NULL}

\* However the turns of several conversations interleave and fail, each
\* touches its own conversation only, from its first step to its answer, no
\* conversation forgets more than a reset drops, and a task ends only in the
\* step that makes its one proposal.
ServesEachGuest == Concierge!Spec

\* Every request is answered, by the agent, by a handover or by an error.
EveryTurnIsAnswered == \A t \in Turn : request[t] # NULL ~> pc[t] = "reply"
=============================================================================
