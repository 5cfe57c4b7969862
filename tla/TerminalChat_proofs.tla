------------------------ MODULE TerminalChat_proofs ------------------------
(***************************************************************************)
(* Theorems about the terminal chat, the service and the backend together: *)
(* the chat of the whole is the one ProposalExecution describes, so what   *)
(* is proved of that module holds here too; what is proved of the service  *)
(* survives its restarts; and what is proposed for a stay is proposed for  *)
(* the booking the guest was told of.                                      *)
(***************************************************************************)
EXTENDS TerminalChat, Responder_proofs

Proved == INSTANCE ProposalExecution_proofs WITH Proposals <- Proposal

InStayTools == {"create_service_booking", "create_service_request"}

\* An answer proposes nothing for a stay, or something for booking b.
IsFor(response, b) ==
    response.proposal # NULL /\ response.proposal.tool \in InStayTools
    => response.proposal.booking_id = b

\* A turn whose request names a booking keeps to it, whatever booking its
\* conversation is given by others while it is suspended.
KeepsToBooking(t) ==
    LET b == request[t].ctx.booking_id IN
    pc[t] # "idle" /\ b # NULL =>
        /\ pc[t] = "stay" => frame[t].booking_id = b
        /\ Answered(t) => IsFor(reply[t], b)

-----------------------------------------------------------------------------
(***************************************************************************)
(* The booking of a request.                                               *)
(***************************************************************************)
\* What a step leaves in the slot of its turn.
LEMMA SettleLeaves ==
  ASSUME IInv, NEW t \in Turn, NEW r, NEW new, NEW f, NEW step, NEW response,
         Settle(t, new, r, f, step, response)
  PROVE  request'[t] = r /\ frame'[t] = f /\ pc'[t] = step /\ reply'[t] = response
  BY DEF IInv, TypeOK, Settle

\* A step of turn t for request r that keeps to the booking of r.
StepFor(t, r) == request'[t] = r /\ KeepsToBooking(t)'

\* Suspending on anything but the stay context.
LEMMA AwaitKeepsTo ==
  ASSUME IInv, NEW t \in Turn, NEW r, NEW live, NEW f, NEW step \in Awaits \ {"stay"},
         Await(t, r, live, f, step)
  PROVE  StepFor(t, r)
  BY SettleLeaves DEF Await, StepFor, KeepsToBooking, Answered, Awaits

\* Answering with a proposal for the right booking, or another one or none.
LEMMA AnswerKeepsTo ==
  ASSUME IInv, NEW t \in Turn, NEW r, NEW live, NEW response,
         r.ctx.booking_id # NULL => IsFor(response.reply, r.ctx.booking_id),
         \/ Respond(t, r, live, response) \/ RespondUnpolished(t, r, live, response)
         \/ \E f : Finish(t, r, live, f, "polish", response)
  PROVE  StepFor(t, r)
  <1>1. /\ request'[t] = r /\ reply'[t] = response.reply
        /\ pc'[t] \in {"polish", "reply"}
    BY SettleLeaves DEF Respond, RespondUnpolished, Finish
  <1>. QED BY <1>1 DEF StepFor, KeepsToBooking, IsFor

\* Questions, answers and handovers propose nothing.
LEMMA TellKeepsTo ==
  ASSUME IInv, NEW t \in Turn, NEW r, NEW live, NEW u, NEW clear,
         \/ Respond(t, r, live, Ask(u))
         \/ Respond(t, r, live, Tell(u, clear)) \/ RespondUnpolished(t, r, live, Tell(u, clear))
         \/ Respond(t, r, live, Handover(u)) \/ RespondUnpolished(t, r, live, Handover(u))
         \/ RespondUnpolished(t, r, live, DomainResponse("server_error", NULL, u, {}))
  PROVE  StepFor(t, r)
  <1>1. ASSUME NEW b
        PROVE  /\ IsFor(Ask(u).reply, b) /\ IsFor(Tell(u, clear).reply, b)
               /\ IsFor(Handover(u).reply, b)
               /\ IsFor(DomainResponse("server_error", NULL, u, {}).reply, b)
    BY DEF IsFor, Ask, Tell, Handover, DomainResponse
  <1>2. CASE Respond(t, r, live, Ask(u))
    BY <1>1, <1>2, AnswerKeepsTo
  <1>3. CASE Respond(t, r, live, Tell(u, clear)) \/ RespondUnpolished(t, r, live, Tell(u, clear))
    BY <1>1, <1>3, AnswerKeepsTo
  <1>4. CASE Respond(t, r, live, Handover(u)) \/ RespondUnpolished(t, r, live, Handover(u))
    BY <1>1, <1>4, AnswerKeepsTo
  <1>5. CASE RespondUnpolished(t, r, live, DomainResponse("server_error", NULL, u, {}))
    BY <1>1, <1>5, AnswerKeepsTo
  <1>. QED BY <1>2, <1>3, <1>4, <1>5

\* A proposal made for the request's booking, or not for a stay.
LEMMA ProposeKeepsTo ==
  ASSUME IInv, NEW t \in Turn, NEW r, NEW live, NEW p, NEW u, NEW clear,
         r.ctx.booking_id # NULL /\ p.tool \in InStayTools
             => p.booking_id = r.ctx.booking_id,
         \/ Respond(t, r, live, Propose(p, u, clear))
         \/ \E f : Finish(t, r, live, f, "polish", Propose(p, u, clear))
  PROVE  StepFor(t, r)
  <1>1. Propose(p, u, clear).reply.proposal = p
    BY DEF Propose, DomainResponse
  <1>2. r.ctx.booking_id # NULL => IsFor(Propose(p, u, clear).reply, r.ctx.booking_id)
    BY <1>1 DEF IsFor
  <1>. QED BY <1>2, AnswerKeepsTo

\* A lookup asks for the booking or reads it.
LEMMA LookupKeepsTo ==
  ASSUME IInv, NEW t \in Turn, NEW r, NEW live, Lookup(t, r, live)
  PROVE  StepFor(t, r)
  <1>1. CASE Respond(t, r, live, Ask(NoUpdate))
    BY <1>1, TellKeepsTo
  <1>2. CASE Await(t, r, live, NoFrame, "record")
    <2>1. "record" \in Awaits \ {"stay"}
      BY DEF Awaits
    <2>. QED BY <1>2, <2>1, AwaitKeepsTo
  <1>. QED BY <1>1, <1>2 DEF Lookup

\* The search dialogue asks or searches.
LEMMA WithResortKeepsTo ==
  ASSUME IInv, NEW t \in Turn, NEW r, NEW live, NEW entry, NEW resort,
         WithResort(t, r, live, entry, resort)
  PROVE  StepFor(t, r)
  <1>1. ASSUME NEW u, Respond(t, r, live, Ask(u)) PROVE StepFor(t, r)
    BY <1>1, TellKeepsTo
  <1>2. ASSUME NEW s, NEW a, NEW b, NEW c, NEW d, Respond(t, r, live, AskGuestCounts(s, a, b, c, d))
        PROVE  StepFor(t, r)
    BY <1>1, <1>2 DEF AskGuestCounts
  <1>3. ASSUME NEW s, NEW a, NEW b, NEW c, Respond(t, r, live, AskOtherDate(s, a, b, c))
        PROVE  StepFor(t, r)
    BY <1>1, <1>3 DEF AskOtherDate
  <1>4. ASSUME NEW s, NEW a, NEW b, Respond(t, r, live, AskDates(s, a, b))
        PROVE  StepFor(t, r)
    BY <1>1, <1>4 DEF AskDates
  <1>5. {"inventory", "alternatives"} \subseteq Awaits \ {"stay"}
    BY DEF Awaits
  <1>6. ASSUME NEW s, NEW a, NEW b, NEW c, NEW d, SearchRooms(t, r, live, s, a, b, c, d)
        PROVE  StepFor(t, r)
    BY <1>5, <1>6, AwaitKeepsTo DEF SearchRooms
  <1>7. ASSUME NEW s, NEW a, NEW b, SearchAlternatives(t, r, live, s, a, b)
        PROVE  StepFor(t, r)
    BY <1>5, <1>7, AwaitKeepsTo, TellKeepsTo DEF SearchAlternatives, ServerError
  <1>8. \/ \E s, a, b, c, d : Respond(t, r, live, AskGuestCounts(s, a, b, c, d))
        \/ \E s, a, b, c, d : SearchRooms(t, r, live, s, a, b, c, d)
        \/ \E s, a, b, c : Respond(t, r, live, AskOtherDate(s, a, b, c))
        \/ \E s, a, b : SearchAlternatives(t, r, live, s, a, b)
        \/ \E s, a, b : Respond(t, r, live, AskDates(s, a, b))
        \/ RespondUnpolished(t, r, live, ServerError)
        \/ Lookup(t, r, live)
    BY DEF WithResort, SearchDialogue
  <1>9. CASE RespondUnpolished(t, r, live, ServerError)
    BY <1>9, TellKeepsTo DEF ServerError
  <1>. QED BY <1>2, <1>3, <1>4, <1>6, <1>7, <1>8, <1>9, LookupKeepsTo

\* Whichever agent the planner chooses.
LEMMA DispatchKeepsTo ==
  ASSUME IInv, NEW t \in Turn, NEW r, NEW live, Dispatch(t, r, live)
  PROVE  StepFor(t, r)
  <1>. DEFINE intent == PlanFor(r.msg, r.ctx, live).intent
  <1>1. \/ HandleBooking(t, r, live) \/ HandleRecommendation(t, r, live)
        \/ HandleServiceRequest(t, r, live) \/ HandleCheckIn(t, r, live)
        \/ HandleWelcome(t, r, live) \/ HandleKnowledge(t, r, live)
        \/ HandleInteraction(t, r, live, intent)
    BY DEF Dispatch
  <1>. HIDE DEF intent
  <1>2. {"resorts", "ranking", "readiness", "welcome", "knowledge"} \subseteq Awaits \ {"stay"}
    BY DEF Awaits
  <1>3. CASE HandleBooking(t, r, live)
    <2>1. \/ Lookup(t, r, live)
          \/ \E entry, resort : WithResort(t, r, live, entry, resort)
          \/ \E f : Await(t, r, live, f, "resorts")
      BY <1>3 DEF HandleBooking
    <2>. QED BY <1>2, <2>1, LookupKeepsTo, WithResortKeepsTo, AwaitKeepsTo
  <1>4. CASE \/ HandleRecommendation(t, r, live) \/ HandleWelcome(t, r, live)
             \/ HandleKnowledge(t, r, live)
    BY <1>2, <1>4, AwaitKeepsTo DEF HandleRecommendation, HandleWelcome, HandleKnowledge
  <1>5. CASE HandleServiceRequest(t, r, live)
    <2>1. PICK booking, description :
             /\ r.ctx.booking_id # NULL => booking = r.ctx.booking_id
             /\ \/ \E u : Respond(t, r, live, Ask(u))
                \/ Await(t, r, live, [NoFrame EXCEPT !.booking_id = booking,
                                                     !.description = description], "stay")
      BY <1>5 DEF HandleServiceRequest, Or
    <2>2. CASE \E u : Respond(t, r, live, Ask(u))
      BY <2>2, TellKeepsTo
    <2>3. CASE Await(t, r, live, [NoFrame EXCEPT !.booking_id = booking,
                                                 !.description = description], "stay")
      <3>. DEFINE f == [NoFrame EXCEPT !.booking_id = booking, !.description = description]
      <3>1. f.booking_id = booking
        BY DEF NoFrame
      <3>. HIDE DEF f
      <3>2. request'[t] = r /\ frame'[t] = f /\ pc'[t] = "stay"
        BY <2>3, SettleLeaves DEF Await, f
      <3>. QED BY <2>1, <3>1, <3>2 DEF StepFor, KeepsToBooking, Answered
    <2>. QED BY <2>1, <2>2, <2>3
  <1>6. CASE HandleCheckIn(t, r, live)
    BY <1>2, <1>6, TellKeepsTo, AwaitKeepsTo DEF HandleCheckIn
  <1>7. CASE HandleInteraction(t, r, live, intent)
    BY <1>7, TellKeepsTo DEF HandleInteraction
  <1>. QED BY <1>1, <1>3, <1>4, <1>5, <1>6, <1>7

\* A turn begins, with the identifiers of the client before those stored.
LEMMA BeginKeepsTo ==
  ASSUME IInv, NEW t \in Turn, NEW received \in Request, Begin(t, received)
  PROVE  /\ KeepsToBooking(t)'
         /\ received.ctx.booking_id # NULL =>
               request'[t].ctx.booking_id = received.ctx.booking_id
  <1>. DEFINE live == ApplyRequestContext(store[received.conv], received.ctx)
              r    == [received EXCEPT !.ctx = MergeBookingContext(live, @)]
  <1>1. received.ctx.booking_id # NULL => r.ctx.booking_id = received.ctx.booking_id
    <2>1. r.ctx = MergeBookingContext(live, received.ctx)
      BY DEF Request
    <2>. QED BY <2>1 DEF MergeBookingContext, Or
  <1>2. \/ RespondUnpolished(t, r, live, Handover(NoUpdate))
        \/ RespondUnpolished(t, r, live, ServerError)
        \/ Dispatch(t, r, live)
    BY DEF Begin
  <1>. HIDE DEF live, r
  <1>3. StepFor(t, r)
    BY <1>2, DispatchKeepsTo, TellKeepsTo DEF ServerError
  <1>. QED BY <1>1, <1>3 DEF StepFor

\* A room search ends in an answer, in a quote, or in a booking proposal.
LEMMA InventoryKeepsTo ==
  ASSUME IInv, NEW t \in Turn, NEW available, InventoryArrives(t, available)
  PROVE  StepFor(t, request[t])
  <1>. DEFINE r == request[t]  live == Live(t)
  <1>1. "services" \in Awaits \ {"stay"}
    BY DEF Awaits
  <1>2. \/ \E u : Respond(t, r, live, Tell(u, {})) \/ Respond(t, r, live, Ask(u))
        \/ \E f : Await(t, r, live, f, "services")
        \/ \E s, f, g, room, u, clear :
              Finish(t, r, live, g, "polish", Propose(BookingProposal(s, f, room), u, clear))
    BY DEF InventoryArrives, WithRooms
  <1>3. \A s, f, room : BookingProposal(s, f, room).tool \notin InStayTools
    BY DEF BookingProposal, InStayTools
  <1>. HIDE DEF live
  <1>. QED BY <1>1, <1>2, <1>3, TellKeepsTo, AwaitKeepsTo, ProposeKeepsTo

\* An add-on is booked for the booking of the request, also if another turn
\* has stored another one while the catalog was awaited.
LEMMA RankingKeepsTo ==
  ASSUME IInv, NEW t \in Turn, NEW items, RankingArrives(t, items)
  PROVE  StepFor(t, request[t])
  <1>. DEFINE r == request[t]  live == Live(t)
  <1>1. \/ \E u, clear : Respond(t, r, live, Tell(u, clear))
        \/ \E selected : ServiceBookingFlow(t, r, live, items, selected)
    BY DEF RankingArrives
  <1>. HIDE DEF live
  <1>2. ASSUME NEW selected, ServiceBookingFlow(t, r, live, items, selected)
        PROVE  StepFor(t, r)
    <2>1. PICK booking, service, date, u, clear :
             /\ r.ctx.booking_id # NULL => booking = r.ctx.booking_id
             /\ \/ \E v : Respond(t, r, live, Ask(v)) \/ Respond(t, r, live, Tell(v, {}))
                \/ Respond(t, r, live,
                      Propose([tool |-> "create_service_booking", booking_id |-> booking,
                               service |-> service, scheduled_date |-> date], u, clear))
      BY <1>2 DEF ServiceBookingFlow, Or
    <2>. QED BY <2>1, TellKeepsTo, ProposeKeepsTo
  <1>. QED BY <1>1, <1>2, TellKeepsTo

\* A request is made for the booking that was looked up.
LEMMA StayKeepsTo ==
  ASSUME IInv, NEW t \in Turn, KeepsToBooking(t), StayArrives(t)
  PROVE  StepFor(t, request[t])
  <1>. DEFINE r == request[t]  live == Live(t)
  <1>1. r.ctx.booking_id # NULL => frame[t].booking_id = r.ctx.booking_id
    BY DEF StayArrives, KeepsToBooking
  <1>2. \/ \E u : Respond(t, r, live, Handover(u))
        \/ \E description, u, clear :
              Respond(t, r, live,
                  Propose([tool |-> "create_service_request",
                           booking_id |-> frame[t].booking_id,
                           description |-> description], u, clear))
    BY DEF StayArrives
  <1>. HIDE DEF live
  <1>. QED BY <1>1, <1>2, TellKeepsTo, ProposeKeepsTo

\* A check-in is not a proposal for a stay, but for an arrival.
LEMMA ReadinessKeepsTo ==
  ASSUME IInv, NEW t \in Turn, NEW eligible, ReadinessArrives(t, eligible)
  PROVE  StepFor(t, request[t])
  <1>. DEFINE r == request[t]  live == Live(t)
  <1>1. \/ Respond(t, r, live, Tell(NoUpdate, {}))
        \/ \E booking : Respond(t, r, live,
              Propose([tool |-> "validate_guest_check_in", booking_id |-> booking],
                      NoUpdate, {}))
    BY DEF ReadinessArrives
  <1>2. "validate_guest_check_in" \notin InStayTools
    BY DEF InStayTools
  <1>. HIDE DEF live
  <1>. QED BY <1>1, <1>2, TellKeepsTo, ProposeKeepsTo

\* Whatever moves a turn that has begun.
LEMMA ServerKeepsTo ==
  ASSUME IInv, NEW t \in Turn, KeepsToBooking(t), ServerAnswers(t) \/ ServerFails(t)
  PROVE  StepFor(t, request[t])
  <1>. DEFINE r == request[t]  live == Live(t)
  <1>1. ASSUME NEW catalog, ResortsArrive(t, catalog) PROVE StepFor(t, request[t])
    <2>1. \/ \E entry, resort : WithResort(t, r, live, entry, resort)
          \/ \E u : Respond(t, r, live, Ask(u))
      BY <1>1 DEF ResortsArrive, AskBranch
    <2>. HIDE DEF live
    <2>. QED BY <2>1, WithResortKeepsTo, TellKeepsTo
  <1>2. CASE \/ (\E catalog : ServicesArrive(t, catalog)) \/ AlternativesArrive(t)
             \/ RecordArrives(t) \/ WelcomeArrives(t) \/ KnowledgeArrives(t)
             \/ BackendFails(t) \/ HandlerRaises(t) \/ PolishRaises(t)
    <2>1. \E u : \/ Respond(t, r, live, Tell(u, {}))
                 \/ RespondUnpolished(t, r, live, Tell(u, {}))
                 \/ RespondUnpolished(t, r, live, Handover(u))
                 \/ RespondUnpolished(t, r, live, DomainResponse("server_error", NULL, u, {}))
      BY <1>2 DEF ServicesArrive, AlternativesArrive, RecordArrives, WelcomeArrives,
                  KnowledgeArrives, BackendFails, HandlerRaises, PolishRaises, ServerError
    <2>. HIDE DEF live
    <2>. QED BY <2>1, TellKeepsTo
  <1>3. CASE Polished(t)
    <2>1. pc'[t] = "reply" /\ pc[t] = "polish" /\ UNCHANGED <<request, reply>>
      BY <1>3 DEF Polished, IInv, TypeOK
    <2>. QED BY <2>1 DEF StepFor, KeepsToBooking, Answered
  <1>. QED
    BY <1>1, <1>2, <1>3, InventoryKeepsTo, RankingKeepsTo, StayKeepsTo, ReadinessKeepsTo
    DEF ServerAnswers, ServerFails

-----------------------------------------------------------------------------
(***************************************************************************)
(* The theorems about ProposalExecution speak of this chat: Proved is the  *)
(* same instance as Execution, with the proofs.                            *)
(***************************************************************************)
\* Its variables, and where it starts.
LEMMA SameInit ==
  /\ Proved!Init <=> Execution!Init
  /\ UNCHANGED Proved!executionVars <=> UNCHANGED Execution!executionVars
  BY DEF Execution!Init, Proved!Init, Execution!FreshChat, Proved!FreshChat,
    Execution!executionVars, Proved!executionVars, Execution!chatVars,
    Proved!chatVars, Execution!backendVars, Proved!backendVars,
    Execution!historyVars, Proved!historyVars

\* The ends of an execution.
LEMMA SameResumes == Proved!Resumes <=> Execution!Resumes
  BY DEF Execution!Resumes, Proved!Resumes, Execution!BookingMade,
    Proved!BookingMade, Execution!AddOnMade, Proved!AddOnMade,
    Execution!ServiceMade, Proved!ServiceMade, Execution!Refused,
    Proved!Refused, Execution!Unreadable, Proved!Unreadable, Execution!GivesUp,
    Proved!GivesUp, Execution!BookingSucceeds, Proved!BookingSucceeds,
    Execution!Succeeds, Proved!Succeeds, Execution!Prints, Proved!Prints,
    Execution!ExecutionFails, Proved!ExecutionFails, Execution!AwaitsAddOn,
    Proved!AwaitsAddOn, Execution!AwaitsBooking, Proved!AwaitsBooking,
    Execution!AddOnMissed, Proved!AddOnMissed, Execution!NewPost,
    Proved!NewPost, Execution!Sends, Proved!Sends, Execution!Or, Proved!Or,
    Execution!historyVars, Proved!historyVars

\* What the guest does, and what the service sends.
LEMMA SameChat ==
  /\ Proved!RunPending <=> Execution!RunPending
  /\ Proved!RunUnsupported <=> Execution!RunUnsupported
  /\ Proved!Reset <=> Execution!Reset
  /\ Proved!SetIdentifier <=> Execution!SetIdentifier
  /\ Proved!Quit <=> Execution!Quit
  /\ Proved!ResponseWithout <=> Execution!ResponseWithout
  BY DEF Execution!RunPending, Proved!RunPending, Execution!RunUnsupported,
    Proved!RunUnsupported, Execution!Reset, Proved!Reset,
    Execution!SetIdentifier, Proved!SetIdentifier, Execution!Quit, Proved!Quit,
    Execution!ResponseWithout, Proved!ResponseWithout, Execution!Execute,
    Proved!Execute, Execution!Sends, Proved!Sends, Execution!NewPost,
    Proved!NewPost, Execution!FreshChat, Proved!FreshChat,
    Execution!backendVars, Proved!backendVars, Execution!historyVars,
    Proved!historyVars, Execution!Optional, Proved!Optional

\* A response that brings a proposal.
LEMMA SameResponse ==
  ASSUME NEW proposal, NEW confirms
  PROVE  Proved!ResponseWith(proposal, confirms) <=> Execution!ResponseWith(proposal, confirms)
  BY DEF Execution!ResponseWith, Proved!ResponseWith, Execution!Execute,
    Proved!Execute, Execution!Sends, Proved!Sends, Execution!NewPost,
    Proved!NewPost, Execution!backendVars, Proved!backendVars

\* What the backend does.
LEMMA SameBackend == Proved!Backend <=> Execution!Backend
  BY DEF Execution!Backend, Proved!Backend, Execution!BackendAccepts,
    Proved!BackendAccepts, Execution!BackendRefuses, Proved!BackendRefuses,
    Execution!MakesBooking, Proved!MakesBooking, Execution!RepliesTo,
    Proved!RepliesTo, Execution!AddsService,
    Proved!AddsService, Execution!Replies, Proved!Replies, Execution!Awaited,
    Proved!Awaited, Execution!chatVars, Proved!chatVars, Execution!historyVars,
    Proved!historyVars, Execution!Optional, Proved!Optional,
    Execution!BookingStates, Proved!BookingStates

\* Every step.
LEMMA SameNext == Proved!Next <=> Execution!Next
  BY SameResumes, SameChat, SameResponse, SameBackend
  DEF Execution!Next, Proved!Next, Execution!Guest, Proved!Guest

\* What those theorems assume of the proposals is so of the service's.
LEMMA ProvedApplies ==
  Proved!NullIsFresh /\ Proved!ExecutionAssumption /\ Proved!RecordsAreNotNull
  <1>1. Proved!NullIsFresh
    BY NullIsFresh DEF Proved!Intents, Proved!Statuses, Proved!Askable,
                       Intents, Statuses, Askable
  <1>2. \A p \in Proposal :
          \/ /\ p.tool = "create_booking"
             /\ p.room_id \in Rooms /\ p.resort_id \in Resorts
             /\ p.service \in Optional(Services)
          \/ p.tool \in {"create_service_booking", "create_service_request",
                         "validate_guest_check_in"}
    BY DEF Proposal
  <1>3. Proved!ExecutionAssumption
    BY <1>2, TerminalAssumption
    DEF Proved!ExecutionAssumption, Proved!BookingStates, Execution!BookingStates,
        Proved!Optional, Optional
  <1>4. Proved!RecordsAreNotNull
    BY TerminalAssumption
    DEF Proved!RecordsAreNotNull, Proved!Offered, Execution!Offered,
        Proved!Execution, Execution!Execution, Proved!Post, Execution!Post,
        Proved!PostKinds, Execution!PostKinds, Proved!Booking, Execution!Booking,
        Proved!BookingStates, Execution!BookingStates, Proved!Optional, Execution!Optional
  <1>. QED BY <1>1, <1>3, <1>4

-----------------------------------------------------------------------------
(***************************************************************************)
(* The steps of the whole.                                                 *)
(***************************************************************************)
\* What the guest was told of is what the chat sends along, and what a turn
\* under way was asked with; a turn and an execution are never under way both.
StayFits ==
    /\ stay # NULL => context.booking_id = stay
    /\ pc[Window] # "idle" => execution = NULL
    /\ pc[Window] # "idle" /\ stay # NULL => request[Window].ctx.booking_id = stay

TerminalInv ==
    IInv /\ Proved!IInv /\ KeepsToBooking(Window) /\ StayFits

\* Nothing but a step of the chat, of the backend, or a restart changes what
\* ProposalExecution is about.
LEMMA StepExecutes ==
  ASSUME IInv, [TerminalNext]_terminalVars
  PROVE  [Proved!Next]_(Proved!executionVars)
  <1>1. UNCHANGED clientVars => UNCHANGED Proved!executionVars
    BY DEF clientVars, Proved!executionVars, Proved!chatVars, Proved!backendVars,
           Proved!historyVars
  <1>2. CASE Say \/ Serve
    BY <1>1, <1>2 DEF Say, Serve
  <1>3. CASE Receive
    <2>1. reply[Window] \in Reply
      <3>1. Window \in Turn
        BY OneWindow
      <3>. QED BY <1>3, <3>1 DEF IInv, Receive, Answered, ReplyFits
    <2>2. reply[Window].proposal # NULL => reply[Window].proposal \in Proposal
      BY <2>1 DEF Reply, Optional
    <2>3. (request[Window].msg \in Confirming) \in BOOLEAN
      OBVIOUS
    <2>4. \/ Proved!ResponseWithout
          \/ \E p \in Proposal, confirms \in BOOLEAN : Proved!ResponseWith(p, confirms)
      BY <1>3, <2>2, <2>3, SameChat, SameResponse DEF Receive
    <2>. QED BY <2>4 DEF Proved!Next
  <1>4. CASE Crash \/ Restart
    BY <1>4, SameChat DEF Crash, Restart, Proved!Next, Proved!Guest
  <1>5. CASE Run \/ ResetCommand \/ Command
    BY <1>5, SameChat DEF Run, ResetCommand, Command, Proved!Next, Proved!Guest
  <1>6. CASE Resume \/ Backend
    BY <1>6, SameResumes, SameBackend DEF Resume, Backend, Proved!Next
  <1>7. CASE UNCHANGED terminalVars
    BY <1>1, <1>7 DEF terminalVars
  <1>. QED BY <1>2, <1>3, <1>4, <1>5, <1>6, <1>7 DEF TerminalNext

\* The service's invariant survives, a restart included: it starts afresh.
LEMMA StepServes ==
  ASSUME IInv, Proved!TypeOK, [TerminalNext]_terminalVars
  PROVE  IInv'
  <1>1. Window \in Turn
    BY OneWindow
  <1>2. CASE Say
    <2>1. PICK r \in Requests : Begin(Window, [r EXCEPT !.ctx = Identifiers])
      BY <1>2 DEF Say
    <2>2. r \in Request
      BY RequestsAreWellFormed
    <2>3. Identifiers \in Context
      BY DEF Proved!TypeOK, Proved!ChatContext, Proved!Optional, Identifiers,
             Context, Optional
    <2>4. [r EXCEPT !.ctx = Identifiers] \in Request
      BY <2>2, <2>3 DEF Request
    <2>. QED BY <1>1, <2>1, <2>4, BeginKeeps
  <1>3. CASE Serve \/ Receive
    <2>1. ServerAnswers(Window) \/ ServerFails(Window) \/ Deliver(Window)
      BY <1>3 DEF Serve, Receive
    <2>. QED BY <1>1, <2>1, NextKeeps DEF Next, Advance
  <1>4. CASE Crash \/ Restart
    <2>1. Init'
      BY <1>4 DEF Crash, Restart, Init, InitTurns
    <2>2. (Init => IInv)'
      BY InitIsInvariant, PTL
    <2>. QED BY <2>1, <2>2
  <1>5. CASE \/ Run \/ ResetCommand \/ Command \/ Resume \/ Backend
             \/ UNCHANGED terminalVars
    <2>1. UNCHANGED vars
      BY <1>5 DEF Run, ResetCommand, Command, Resume, Backend, terminalVars
    <2>. QED BY <2>1, NextKeeps
  <1>. QED BY <1>2, <1>3, <1>4, <1>5 DEF TerminalNext

\* Turns keep to the booking they were asked for, and to the one of the stay.
LEMMA StepKeepsToStay ==
  ASSUME TerminalInv, [TerminalNext]_terminalVars
  PROVE  KeepsToBooking(Window)' /\ StayFits'
  <1>. USE DEF TerminalInv
  <1>1. Window \in Turn
    BY OneWindow
  <1>2. CASE Say
    <2>1. PICK r \in Requests : Begin(Window, [r EXCEPT !.ctx = Identifiers])
      BY <1>2 DEF Say
    <2>2. r \in Request
      BY RequestsAreWellFormed
    <2>3. Identifiers \in Context
      BY DEF Proved!IInv, Proved!TypeOK, Proved!ChatContext, Proved!Optional, Identifiers,
             Context, Optional
    <2>. DEFINE asked == [r EXCEPT !.ctx = Identifiers]
    <2>4. asked \in Request /\ asked.ctx.booking_id = context.booking_id
      BY <2>2, <2>3 DEF Request, Identifiers
    <2>5. Begin(Window, asked)
      BY <2>1
    <2>. HIDE DEF asked
    <2>6. /\ KeepsToBooking(Window)'
          /\ context.booking_id # NULL =>
                request'[Window].ctx.booking_id = context.booking_id
      BY <1>1, <2>4, <2>5, BeginKeepsTo
    <2>7. execution = NULL /\ UNCHANGED <<context, execution, stay>>
      BY <1>2 DEF Say, AtPrompt, clientVars
    <2>. QED BY <2>6, <2>7 DEF StayFits
  <1>3. CASE Serve
    <2>1. StepFor(Window, request[Window])
      BY <1>1, <1>3, ServerKeepsTo DEF Serve
    <2>2. UNCHANGED <<context, execution, stay>> /\ pc[Window] # "idle"
      <3>1. pc[Window] # "idle"
        BY <1>3 DEF Serve, ServerAnswers, ServerFails, ResortsArrive, InventoryArrives,
                    ServicesArrive, RankingArrives, ReadinessArrives, AlternativesArrive,
                    RecordArrives, StayArrives, WelcomeArrives, KnowledgeArrives, Polished,
                    BackendFails, HandlerRaises, PolishRaises, Awaits
      <3>. QED BY <1>3, <3>1 DEF Serve, clientVars
    <2>. QED BY <2>1, <2>2 DEF StepFor, StayFits
  <1>4. CASE Receive
    <2>1. pc'[Window] = "idle" /\ stay' = stay /\ pc[Window] # "idle"
      BY <1>1, <1>4 DEF Receive, Deliver, IInv, TypeOK
    <2>2. context' = context
      BY <1>4 DEF Receive, Execution!ResponseWithout, Execution!ResponseWith, Execution!Execute
    <2>. QED BY <2>1, <2>2 DEF StayFits, KeepsToBooking
  <1>5. CASE Crash \/ Restart
    <2>1. pc'[Window] = "idle" /\ stay' = NULL
      BY <1>1, <1>5 DEF Crash, Restart
    <2>. QED BY <2>1 DEF StayFits, KeepsToBooking
  <1>6. CASE Run \/ ResetCommand \/ Command
    <2>1. pc'[Window] = "idle" /\ UNCHANGED vars
      BY <1>6 DEF Run, ResetCommand, Command, AtPrompt, vars
    <2>2. stay' # NULL => context'.booking_id = stay'
      <3>1. CASE Run
        BY <3>1 DEF Run, Execution!RunPending, Execution!RunUnsupported, Execution!Execute, StayFits
      <3>2. CASE ResetCommand
        BY <3>2 DEF ResetCommand
      <3>3. CASE Command
        BY <3>3 DEF Command, StayFits
      <3>. QED BY <1>6, <3>1, <3>2, <3>3
    <2>. QED BY <2>1, <2>2 DEF StayFits, KeepsToBooking, vars
  <1>7. CASE Resume
    <2>1. execution # NULL /\ UNCHANGED vars
      BY <1>7 DEF Resume, Execution!Resumes, Execution!BookingMade, Execution!AddOnMade,
                  Execution!ServiceMade, Execution!Refused, Execution!Unreadable,
                  Execution!GivesUp, Execution!AwaitsBooking, Execution!AwaitsAddOn
    <2>2. pc'[Window] = "idle"
      BY <2>1 DEF vars, StayFits
    <2>3. \/ execution' # NULL /\ context' = context
          \/ execution' = NULL /\ outcome'.booking = NULL /\ context' = context
          \/ /\ execution' = NULL /\ outcome'.booking # NULL
             /\ context'.booking_id = outcome'.booking
      BY <1>7, SameResumes, ProvedApplies, Proved!ResumeEnds DEF Resume
    <2>. QED BY <1>7, <2>1, <2>2, <2>3 DEF Resume, StayFits, KeepsToBooking, vars
  <1>8. CASE Backend \/ UNCHANGED terminalVars
    <2>1. UNCHANGED <<vars, stay, context, execution>>
      BY <1>8 DEF Backend, terminalVars, clientVars, Execution!Backend,
                  Execution!BackendAccepts, Execution!BackendRefuses, Execution!chatVars
    <2>. QED BY <2>1 DEF vars, StayFits, KeepsToBooking, Answered
  <1>. QED BY <1>2, <1>3, <1>4, <1>5, <1>6, <1>7, <1>8 DEF TerminalNext

\* The whole keeps the invariant.
LEMMA StepKeepsAll ==
  TerminalInv /\ [TerminalNext]_terminalVars => TerminalInv'
  <1>. SUFFICES ASSUME TerminalInv, [TerminalNext]_terminalVars PROVE TerminalInv'
    OBVIOUS
  <1>1. Proved!IInv'
    BY StepExecutes, ProvedApplies, Proved!NextKeeps DEF TerminalInv
  <1>2. IInv'
    BY StepServes DEF TerminalInv, Proved!IInv
  <1>. QED BY <1>1, <1>2, StepKeepsToStay DEF TerminalInv

\* And so has it always.
LEMMA TerminalInvariance == TerminalSpec => []TerminalInv
  <1>1. TerminalInit => TerminalInv
    <2>. SUFFICES ASSUME TerminalInit PROVE TerminalInv
      OBVIOUS
    <2>1. IInv
      BY InitIsInvariant DEF TerminalInit, Init
    <2>2. Proved!IInv
      BY SameInit, ProvedApplies, Proved!InitIsInvariant DEF TerminalInit
    <2>3. pc[Window] = "idle" /\ stay = NULL
      BY OneWindow DEF TerminalInit, InitTurns
    <2>. QED BY <2>1, <2>2, <2>3 DEF TerminalInv, StayFits, KeepsToBooking
  <1>. QED BY <1>1, StepKeepsAll, PTL DEF TerminalSpec

-----------------------------------------------------------------------------
(***************************************************************************)
(* What the parts promise, the whole keeps.                                *)
(***************************************************************************)
\* The chat of the whole behaves as ProposalExecution says: the service that
\* is really there never sends what that module does not expect, nor at a
\* moment it does not expect.
THEOREM ChatIsExecution == TerminalSpec => Execution!Spec
  <1>1. TerminalInit => Execution!Init
    BY DEF TerminalInit
  <1>2. TerminalInv /\ [TerminalNext]_terminalVars
        => [Execution!Next]_(Execution!executionVars)
    BY StepExecutes, SameNext, SameInit DEF TerminalInv
  <1>. QED BY <1>1, <1>2, TerminalInvariance, PTL DEF TerminalSpec, Execution!Spec

\* Whatever the service proposes and whenever it crashes, what the chat has
\* printed of a booking, an add-on or a service is so.
THEOREM TerminalTellsTheTruth == TerminalSpec => []Execution!ToldIsTrue
  <1>1. TerminalInv => Execution!ToldIsTrue
    BY DEF TerminalInv, Proved!IInv, Proved!ToldIsTrue, Execution!ToldIsTrue,
           Proved!Denotes, Execution!Denotes
  <1>. QED BY <1>1, TerminalInvariance, PTL

\* A proposal of the service lives the life ProposalLifecycle describes.
THEOREM TerminalKeepsPromise == TerminalSpec => Execution!KeepsPromise
  <1>1. TerminalInit => Proved!Init
    BY SameInit DEF TerminalInit
  <1>2. TerminalInv /\ [TerminalNext]_terminalVars
        => [Proved!Next]_(Proved!executionVars)
    BY StepExecutes DEF TerminalInv
  <1>3. TerminalSpec => Proved!Spec
    BY <1>1, <1>2, TerminalInvariance, PTL DEF TerminalSpec, Proved!Spec
  <1>4. Proved!Spec => Proved!KeepsPromise
    BY ProvedApplies, Proved!Implements, PTL
  <1>5. Proved!KeepsPromise => Execution!KeepsPromise
    <2>1. Proved!Promise!Init <=> Execution!Promise!Init
      BY DEF Proved!Promise!Init, Execution!Promise!Init, Proved!StatusOf, Execution!StatusOf,
             Proved!WrittenFor, Execution!WrittenFor
    <2>2. [Proved!Promise!Next]_(Proved!Promise!lifecycleVars)
          <=> [Execution!Promise!Next]_(Execution!Promise!lifecycleVars)
      BY DEF Proved!Promise!Next, Execution!Promise!Next, Proved!Promise!Drop,
             Execution!Promise!Drop, Proved!Promise!Offer, Execution!Promise!Offer,
             Proved!Promise!Start, Execution!Promise!Start, Proved!Promise!OfferAndStart,
             Execution!Promise!OfferAndStart, Proved!Promise!Perform,
             Execution!Promise!Perform, Proved!Promise!Fail, Execution!Promise!Fail,
             Proved!Promise!Succeed, Execution!Promise!Succeed, Proved!Promise!Lapsed,
             Execution!Promise!Lapsed, Proved!Promise!Live, Execution!Promise!Live,
             Proved!Promise!lifecycleVars, Execution!Promise!lifecycleVars,
             Proved!StatusOf, Execution!StatusOf, Proved!WrittenFor, Execution!WrittenFor
    <2>. QED
      BY <2>1, <2>2, PTL DEF Proved!KeepsPromise, Execution!KeepsPromise,
                             Proved!Promise!Spec, Execution!Promise!Spec
  <1>. QED BY <1>3, <1>4, <1>5, PTL

\* Also of a service that crashes and restarts with an empty memory: verdicts
\* are about whole stays, bookings are grounded, proposals are allowed.
THEOREM ServiceSurvivesRestarts ==
  TerminalSpec => [](VerdictIsComplete /\ BookingIsGrounded /\ ProposalIsAllowed)
  <1>1. TerminalInv => VerdictIsComplete /\ BookingIsGrounded /\ ProposalIsAllowed
    BY InvariantImplies DEF TerminalInv
  <1>. QED BY <1>1, TerminalInvariance, PTL

\* What the guest asks for after she was told of her booking is proposed for
\* that booking, until she names another or leaves.
THEOREM ProposalsBelongToTheStay == TerminalSpec => ProposalsAreForTheStay
  <1>1. ASSUME TerminalInv, Receive, stay # NULL, reply[Window].proposal # NULL,
               reply[Window].proposal.tool \in InStayTools
        PROVE  reply[Window].proposal.booking_id = stay
    <2>1. pc[Window] = "reply" /\ Answered(Window)
      BY <1>1 DEF Receive, Answered
    <2>2. request[Window].ctx.booking_id = stay
      BY <1>1, <2>1 DEF TerminalInv, StayFits
    <2>. QED BY <1>1, <2>1, <2>2 DEF TerminalInv, KeepsToBooking, IsFor
  <1>2. TerminalInv /\ [TerminalNext]_terminalVars =>
          [LET answered == reply[Window] IN
           /\ Receive
           /\ stay # NULL
           /\ answered.proposal # NULL
           /\ answered.proposal.tool \in {"create_service_booking", "create_service_request"}
           => answered.proposal.booking_id = stay]_terminalVars
    BY <1>1 DEF InStayTools
  <1>. QED BY <1>2, TerminalInvariance, PTL DEF TerminalSpec, ProposalsAreForTheStay

=============================================================================
