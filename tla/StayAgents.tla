----------------------------- MODULE StayAgents -----------------------------
(***************************************************************************)
(* The agents around the booking dialogue: in-stay requests                *)
(* (agents/service_request.py), arrival (agents/guest_reception.py), the   *)
(* branch overview (agents/welcome.py), small talk and the reset after     *)
(* hostility (agents/interaction.py), open questions                       *)
(* (agents/search_knowledge.py).                                           *)
(***************************************************************************)
EXTENDS Turns

(***************************************************************************)
(* ServiceRequestAgent.  Booking and description are resolved before the   *)
(* first await.  The stay context and the catalog are awaited one after    *)
(* the other with nothing read in between: one suspension here.            *)
(***************************************************************************)
RequestDescription(m, live) ==
    IF m.booking_id # NULL /\ live.request_description # NULL
    THEN live.request_description
    ELSE m.text

RequestUpdate(booking, description, missing) ==
    [NoUpdate EXCEPT !.active_intent       = "service_request",
                     !.booking_id          = booking,
                     !.request_description = description,
                     !.missing_fields      = missing]

HandleServiceRequest(t, r, live) ==
    LET booking     == Or(Or(r.ctx.booking_id, r.msg.booking_id), live.booking_id)
        description == RequestDescription(r.msg, live)
    IN
    \/ /\ booking = NULL
       /\ Respond(t, r, live,
                  Ask(RequestUpdate(NULL, description, {"booking_id"})))
    \/ /\ booking # NULL
       /\ Await(t, r, live,
                [NoFrame EXCEPT !.booking_id = booking, !.description = description],
                "stay")

StayArrives(t) ==
    LET r == request[t]
        f == frame[t]
    IN
    /\ pc[t] = "stay"
    /\ \/ /\ ~ToolAllowed(r, "create_service_request")
          /\ Respond(t, r, Live(t),
                     Handover(RequestUpdate(f.booking_id, f.description, {})))
       \/ /\ ToolAllowed(r, "create_service_request")
          /\ Respond(t, r, Live(t),
                 Propose([tool |-> "create_service_request",
                          booking_id |-> f.booking_id, description |-> f.description],
                         [NoUpdate EXCEPT !.booking_id = f.booking_id],
                         {"active_intent", "request_description", "missing_fields"}))

(***************************************************************************)
(* GuestReceptionAgent: only staff get a check-in proposal.                *)
(***************************************************************************)
HandleCheckIn(t, r, live) ==
    \/ r.ctx.booking_id = NULL /\ Respond(t, r, live, Ask(NoUpdate))
    \/ r.ctx.booking_id # NULL /\ Await(t, r, live, NoFrame, "readiness")

ReadinessArrives(t, eligible) ==
    LET r        == request[t]
        proposes == r.staff /\ eligible /\ ToolAllowed(r, "validate_guest_check_in")
    IN
    /\ pc[t] = "readiness"
    /\ \/ ~proposes /\ Respond(t, r, Live(t), Tell(NoUpdate, {}))
       \/ /\ proposes
          /\ Respond(t, r, Live(t),
                 Propose([tool |-> "validate_guest_check_in",
                          booking_id |-> r.ctx.booking_id],
                         NoUpdate, {}))

(***************************************************************************)
(* WelcomeAgent: lists the branches, or does without them if the backend   *)
(* fails, and waits for a choice.                                          *)
(***************************************************************************)
HandleWelcome(t, r, live) == Await(t, r, live, NoFrame, "welcome")

WelcomeArrives(t) ==
    /\ pc[t] = "welcome"
    /\ Respond(t, request[t], Live(t),
           Tell([NoUpdate EXCEPT !.active_intent  = "branch_selection",
                                 !.missing_fields = {"resort_id"}],
                {}))

(***************************************************************************)
(* InteractionAgent answers at once.  Hostility resets the thread but for  *)
(* the identifiers and the services shown.                                 *)
(***************************************************************************)
\* Mutant: the reset forgets the dates but not the verdict about them.
SoftResetKeepsVerdict ==
    {"active_intent", "retry_count", "check_in_date", "check_out_date", "adults",
     "children", "scheduled_date", "selected_service", "request_description",
     "missing_fields"}

SoftResetClears ==
    {"active_intent", "availability_status", "retry_count", "check_in_date",
     "check_out_date", "adults", "children", "scheduled_date",
     "selected_service", "request_description", "missing_fields"}

\* Mutant: every small talk resets the thread.
HandleInteractionAlwaysResetting(t, r, live, intent) ==
    RespondUnpolished(t, r, live,
        Tell([NoUpdate EXCEPT !.active_intent = "general_support"], SoftResetClears))

\* Mutant: after the reset there is no task at all.
HandleInteractionWithoutTask(t, r, live, intent) ==
    RespondUnpolished(t, r, live,
        Tell(NoUpdate, IF intent = "hostile_repair" THEN SoftResetClears ELSE {}))

HandleInteraction(t, r, live, intent) ==
    RespondUnpolished(t, r, live,
        Tell([NoUpdate EXCEPT !.active_intent = "general_support"],
             IF intent = "hostile_repair" THEN SoftResetClears ELSE {}))

(***************************************************************************)
(* SearchKnowledgeAgent asks the language model; nothing is remembered.    *)
(***************************************************************************)
HandleKnowledge(t, r, live) == Await(t, r, live, NoFrame, "knowledge")

KnowledgeArrives(t) ==
    /\ pc[t] = "knowledge"
    /\ RespondUnpolished(t, request[t], Live(t), Tell(NoUpdate, {}))
=============================================================================
