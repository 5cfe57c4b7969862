---------------------- MODULE Responder_memory_proofs ----------------------
(***************************************************************************)
(* What the service never forgets.  An update can only empty a slot it     *)
(* clears, and the clear sets of the agents are few: so every step either  *)
(* keeps all that the guest has said, or ends the task with a proposal, or *)
(* is the reset after a hostile message.  At the end, what becomes of an   *)
(* add-on the guest has asked for while a search runs.                     *)
(***************************************************************************)
EXTENDS Responder_proofs, WellFoundedInduction

Remembered == IdentifierSlots \cup SaidSlots \cup {"active_intent"}

\* No slot that had a value has lost it.
Keeps(s, s1, slots) == \A slot \in slots : s[slot] # NULL => s1[slot] # NULL

\* The step keeps these slots of conversation c, and all of the others.
Stores(c, slots) ==
    /\ \A d \in Conversations : d # c => store'[d] = store[d]
    /\ Keeps(store[c], store'[c], slots)

\* A step of a turn that goes on from what is stored.
Continues(t, r, live) ==
    /\ IInv /\ t \in Turn /\ r.conv \in Conversations
    /\ Keeps(store[r.conv], live, Remembered)

\* Turn t goes on, with request r, and no other does.
Moves(t, r) ==
    /\ request'[t] = r /\ pc'[t] # "idle"
    /\ \A u \in Turn \ {t} :
          pc'[u] = pc[u] /\ request'[u] = request[u] /\ reply'[u] = reply[u]

Proposing(t) == Answered(t) /\ reply[t].proposal # NULL

\* The three ways a step may treat the memory.
KeepsAll(t, r) == Stores(r.conv, Remembered) /\ Moves(t, r) /\ ~Proposing(t)'

EndsTask(t, r) ==
    /\ Stores(r.conv, IdentifierSlots \cup SaidSlots)
    /\ Moves(t, r) /\ ~Answered(t) /\ pc'[t] = "polish"
    /\ reply'[t].proposal \in Proposal
    /\ store'[r.conv].active_intent \in {NULL, store[r.conv].active_intent}

Resets(t, r) ==
    /\ Stores(r.conv, IdentifierSlots \cup {"active_intent"})
    /\ Moves(t, r) /\ pc[t] = "idle" /\ pc'[t] = "reply" /\ ~Proposing(t)'
    /\ store'[r.conv].active_intent # NULL
    /\ r.msg.open_intent = "hostile_repair"

Fate(t, r) == KeepsAll(t, r) \/ EndsTask(t, r) \/ Resets(t, r)

-----------------------------------------------------------------------------
(***************************************************************************)
(* Ways to end a step.                                                     *)
(***************************************************************************)
\* What was kept twice is kept.
LEMMA KeepsTwice ==
  ASSUME NEW s, NEW s1, NEW s2, NEW slots, NEW all, slots \subseteq all,
         Keeps(s, s1, all), Keeps(s1, s2, slots)
  PROVE  Keeps(s, s2, slots)
  BY DEF Keeps

\* A slot that is not cleared keeps its value or gets another.
LEMMA UpdateKeeps ==
  ASSUME NEW live, NEW u, NEW clear, NEW slots, slots \subseteq SlotNames,
         slots \cap clear = {}
  PROVE  Keeps(live, ApplyUpdate(live, u, clear), slots)
  BY SlotAfterUpdate DEF Keeps

\* All that is written is the conversation of the turn.
LEMMA SettleStores ==
  ASSUME NEW t, NEW r, NEW live, Continues(t, r, live), NEW new, NEW f, NEW step,
         NEW answer, Settle(t, new, r, f, step, answer), step # "idle",
         NEW slots, slots \subseteq Remembered, Keeps(live, new, slots)
  PROVE  /\ Stores(r.conv, slots) /\ Moves(t, r)
         /\ pc'[t] = step /\ reply'[t] = answer /\ store'[r.conv] = new
  <1>1. /\ store \in [Conversations -> State] /\ t \in Turn
        /\ request \in [Turn -> Optional(Request)] /\ pc \in [Turn -> Steps]
        /\ reply \in [Turn -> Optional(Reply)] /\ r.conv \in Conversations
    BY DEF Continues, IInv, TypeOK
  <1>2. store'[r.conv] = new /\ \A d \in Conversations : d # r.conv => store'[d] = store[d]
    BY <1>1 DEF Settle
  <1>3. Keeps(store[r.conv], new, slots)
    BY KeepsTwice DEF Continues
  <1>4. /\ request'[t] = r /\ pc'[t] = step /\ reply'[t] = answer
        /\ \A u \in Turn \ {t} :
              pc'[u] = pc[u] /\ request'[u] = request[u] /\ reply'[u] = reply[u]
    BY <1>1 DEF Settle
  <1>. QED BY <1>2, <1>3, <1>4 DEF Stores, Moves

\* Suspending forgets nothing.
LEMMA AwaitStores ==
  ASSUME NEW t, NEW r, NEW live, Continues(t, r, live), NEW f,
         NEW step \in Awaits, Await(t, r, live, f, step)
  PROVE  KeepsAll(t, r)
  <1>1. Keeps(live, live, Remembered) /\ step # "idle"
    BY DEF Keeps, Awaits
  <1>2. Stores(r.conv, Remembered) /\ Moves(t, r) /\ pc'[t] = step
    BY <1>1, SettleStores DEF Await
  <1>. QED BY <1>2 DEF KeepsAll, Proposing, Answered, Awaits

\* Answering forgets no more than the answer clears.
LEMMA FinishStores ==
  ASSUME NEW t, NEW r, NEW live, Continues(t, r, live), NEW f, NEW step, NEW response,
         Finish(t, r, live, f, step, response), step # "idle",
         NEW slots, slots \subseteq Remembered, slots \cap response.clear = {}
  PROVE  /\ Stores(r.conv, slots) /\ Moves(t, r)
         /\ pc'[t] = step /\ reply'[t] = response.reply
         /\ store'[r.conv] = ApplyUpdate(live, response.update, response.clear)
  <1>1. slots \subseteq SlotNames
    BY DEF Remembered, IdentifierSlots, SaidSlots, SlotNames
  <1>2. Keeps(live, ApplyUpdate(live, response.update, response.clear), slots)
    BY <1>1, UpdateKeeps
  <1>. QED BY <1>2, SettleStores DEF Finish

\* An answer that clears nothing of this.
LEMMA AnswerStores ==
  ASSUME NEW t, NEW r, NEW live, Continues(t, r, live), NEW response,
         Respond(t, r, live, response) \/ RespondUnpolished(t, r, live, response),
         Remembered \cap response.clear = {}, response.reply.proposal = NULL
  PROVE  KeepsAll(t, r)
  <1>1. PICK step \in {"polish", "reply"} : Finish(t, r, live, NoFrame, step, response)
    BY DEF Respond, RespondUnpolished
  <1>2. Stores(r.conv, Remembered) /\ Moves(t, r) /\ reply'[t] = response.reply
    BY <1>1, FinishStores
  <1>. QED BY <1>2 DEF KeepsAll, Proposing

\* What the kinds of answers clear.
LEMMA Clears ==
  ASSUME NEW u, NEW clear
  PROVE  /\ Ask(u).clear = {} /\ Ask(u).reply.proposal = NULL
         /\ Handover(u).clear = {} /\ Handover(u).reply.proposal = NULL
         /\ Tell(u, clear).clear = clear /\ Tell(u, clear).reply.proposal = NULL
         /\ DomainResponse("server_error", NULL, u, {}).clear = {}
         /\ DomainResponse("server_error", NULL, u, {}).reply.proposal = NULL
  BY DEF Ask, Handover, Tell, DomainResponse

\* A question or an answer without clears keeps everything.
LEMMA TellStores ==
  ASSUME NEW t, NEW r, NEW live, Continues(t, r, live), NEW u, NEW clear,
         Remembered \cap clear = {},
         \/ Respond(t, r, live, Ask(u))
         \/ Respond(t, r, live, Tell(u, clear)) \/ RespondUnpolished(t, r, live, Tell(u, clear))
         \/ Respond(t, r, live, Handover(u)) \/ RespondUnpolished(t, r, live, Handover(u))
         \/ RespondUnpolished(t, r, live, DomainResponse("server_error", NULL, u, {}))
  PROVE  KeepsAll(t, r)
  <1>1. /\ Remembered \cap Ask(u).clear = {} /\ Remembered \cap Handover(u).clear = {}
        /\ Remembered \cap Tell(u, clear).clear = {}
        /\ Remembered \cap DomainResponse("server_error", NULL, u, {}).clear = {}
    BY Clears
  <1>2. CASE Respond(t, r, live, Ask(u))
    BY <1>1, <1>2, Clears, AnswerStores
  <1>3. CASE Respond(t, r, live, Tell(u, clear)) \/ RespondUnpolished(t, r, live, Tell(u, clear))
    BY <1>1, <1>3, Clears, AnswerStores
  <1>4. CASE Respond(t, r, live, Handover(u)) \/ RespondUnpolished(t, r, live, Handover(u))
    BY <1>1, <1>4, Clears, AnswerStores
  <1>5. CASE RespondUnpolished(t, r, live, DomainResponse("server_error", NULL, u, {}))
    BY <1>1, <1>5, Clears, AnswerStores
  <1>. QED BY <1>2, <1>3, <1>4, <1>5

\* A proposal keeps what it does not clear, and ends the task if it clears that.
LEMMA ProposeStores ==
  ASSUME NEW t, NEW r, NEW live, Continues(t, r, live), NEW u, NEW clear,
         NEW p \in Proposal, NEW f, ~Answered(t),
         live.active_intent = store[r.conv].active_intent, u.active_intent = NULL,
         (IdentifierSlots \cup SaidSlots) \cap clear = {},
         \/ Finish(t, r, live, f, "polish", Propose(p, u, clear))
         \/ Respond(t, r, live, Propose(p, u, clear))
  PROVE  EndsTask(t, r)
  <1>1. IdentifierSlots \cup SaidSlots \subseteq Remembered
    BY DEF Remembered
  <1>. DEFINE response == Propose(p, u, clear)
  <1>2. /\ response.clear = clear /\ response.update = u
        /\ response.reply.proposal = p
    BY DEF Propose, DomainResponse
  <1>3. \E g : Finish(t, r, live, g, "polish", response)
    BY DEF Respond
  <1>. HIDE DEF response
  <1>4. PICK g : Finish(t, r, live, g, "polish", response)
    BY <1>3
  <1>5. /\ Stores(r.conv, IdentifierSlots \cup SaidSlots)
        /\ Moves(t, r) /\ pc'[t] = "polish" /\ reply'[t] = response.reply
        /\ store'[r.conv] = ApplyUpdate(live, u, clear)
    BY <1>1, <1>2, <1>4, FinishStores
  <1>6. ApplyUpdate(live, u, clear).active_intent \in {NULL, live.active_intent}
    BY SlotAfterUpdate DEF SlotNames, FreshState
  <1>. QED BY <1>2, <1>5, <1>6 DEF EndsTask

-----------------------------------------------------------------------------
(***************************************************************************)
(* Turns that begin.                                                       *)
(***************************************************************************)
\* A lookup asks for the booking or reads it.
LEMMA LookupStores ==
  ASSUME NEW t, NEW r, NEW live, Continues(t, r, live), Lookup(t, r, live)
  PROVE  KeepsAll(t, r)
  <1>1. CASE Respond(t, r, live, Ask(NoUpdate))
    BY <1>1, TellStores
  <1>2. CASE Await(t, r, live, NoFrame, "record")
    BY <1>2, AwaitStores DEF Awaits
  <1>. QED BY <1>1, <1>2 DEF Lookup

\* Every branch of the dialogue asks a question or starts a search.
LEMMA WithResortStores ==
  ASSUME NEW t, NEW r, NEW live, Continues(t, r, live), NEW entry, NEW resort,
         WithResort(t, r, live, entry, resort)
  PROVE  KeepsAll(t, r)
  <1>1. ASSUME NEW u, Respond(t, r, live, Ask(u)) PROVE KeepsAll(t, r)
    BY <1>1, TellStores
  <1>2. ASSUME NEW s, NEW a, NEW b, NEW c, NEW d, Respond(t, r, live, AskGuestCounts(s, a, b, c, d))
        PROVE  KeepsAll(t, r)
    BY <1>1, <1>2 DEF AskGuestCounts
  <1>3. ASSUME NEW s, NEW a, NEW b, NEW c, Respond(t, r, live, AskOtherDate(s, a, b, c))
        PROVE  KeepsAll(t, r)
    BY <1>1, <1>3 DEF AskOtherDate
  <1>4. ASSUME NEW s, NEW a, NEW b, Respond(t, r, live, AskDates(s, a, b))
        PROVE  KeepsAll(t, r)
    BY <1>1, <1>4 DEF AskDates
  <1>5. ASSUME NEW s, NEW a, NEW b, NEW c, NEW d, SearchRooms(t, r, live, s, a, b, c, d)
        PROVE  KeepsAll(t, r)
    BY <1>5, AwaitStores DEF SearchRooms, Awaits
  <1>6. ASSUME NEW s, NEW a, NEW b, SearchAlternatives(t, r, live, s, a, b)
        PROVE  KeepsAll(t, r)
    BY <1>6, AwaitStores, TellStores DEF SearchAlternatives, Awaits, ServerError
  <1>7. \/ \E s, a, b, c, d : Respond(t, r, live, AskGuestCounts(s, a, b, c, d))
        \/ \E s, a, b, c, d : SearchRooms(t, r, live, s, a, b, c, d)
        \/ \E s, a, b, c : Respond(t, r, live, AskOtherDate(s, a, b, c))
        \/ \E s, a, b : SearchAlternatives(t, r, live, s, a, b)
        \/ \E s, a, b : Respond(t, r, live, AskDates(s, a, b))
        \/ RespondUnpolished(t, r, live, ServerError)
        \/ Lookup(t, r, live)
    BY DEF WithResort, SearchDialogue
  <1>8. CASE RespondUnpolished(t, r, live, ServerError)
    BY <1>8, TellStores DEF ServerError
  <1>. QED BY <1>2, <1>3, <1>4, <1>5, <1>6, <1>7, <1>8, LookupStores

\* BookingAgent.handle stores nothing before its first await but questions.
LEMMA BookingStores ==
  ASSUME NEW t, NEW r, NEW live, Continues(t, r, live), HandleBooking(t, r, live)
  PROVE  KeepsAll(t, r)
  <1>1. \/ Lookup(t, r, live)
        \/ \E entry, resort : WithResort(t, r, live, entry, resort)
        \/ \E f : Await(t, r, live, f, "resorts")
    BY DEF HandleBooking
  <1>. QED BY <1>1, LookupStores, WithResortStores, AwaitStores DEF Awaits

\* An in-stay request asks for the booking or waits for the stay.
LEMMA ServiceRequestStores ==
  ASSUME NEW t, NEW r, NEW live, Continues(t, r, live), HandleServiceRequest(t, r, live)
  PROVE  KeepsAll(t, r)
  <1>1. \/ \E u : Respond(t, r, live, Ask(u))
        \/ \E f : Await(t, r, live, f, "stay")
    BY DEF HandleServiceRequest
  <1>. QED BY <1>1, TellStores, AwaitStores DEF Awaits

\* A check-in asks for the booking or waits for its readiness.
LEMMA CheckInStores ==
  ASSUME NEW t, NEW r, NEW live, Continues(t, r, live), HandleCheckIn(t, r, live)
  PROVE  KeepsAll(t, r)
  <1>1. CASE Respond(t, r, live, Ask(NoUpdate))
    BY <1>1, TellStores
  <1>2. CASE Await(t, r, live, NoFrame, "readiness")
    BY <1>2, AwaitStores DEF Awaits
  <1>. QED BY <1>1, <1>2 DEF HandleCheckIn

\* An update that names a task leaves one.
LEMMA IntentGiven ==
  ASSUME NEW live, NEW u, NEW clear, u.active_intent # NULL
  PROVE  /\ ApplyUpdate(live, u, clear).active_intent # NULL
         /\ Keeps(live, ApplyUpdate(live, u, clear), {"active_intent"})
  <1>1. "active_intent" \in SlotNames
    BY DEF SlotNames
  <1>2. ApplyUpdate(live, u, clear)["active_intent"] = u["active_intent"]
    BY <1>1, SlotAfterUpdate
  <1>. QED BY <1>2 DEF Keeps

\* What is told, changed and cleared.
LEMMA TellIs ==
  ASSUME NEW u, NEW clear
  PROVE  Tell(u, clear).update = u /\ Tell(u, clear).clear = clear
  BY DEF Tell, DomainResponse

\* Small talk keeps everything; the reset still leaves a task.
LEMMA InteractionStores ==
  ASSUME NEW t, NEW r, NEW live, Continues(t, r, live), pc[t] = "idle",
         NEW intent, HandleInteraction(t, r, live, intent),
         intent = "hostile_repair" => r.msg.open_intent = "hostile_repair"
  PROVE  Fate(t, r)
  <1>. DEFINE u     == [NoUpdate EXCEPT !.active_intent = "general_support"]
              clear == IF intent = "hostile_repair" THEN SoftResetClears ELSE {}
              new   == ApplyUpdate(live, u, clear)
  <1>1. RespondUnpolished(t, r, live, Tell(u, clear))
    BY DEF HandleInteraction
  <1>2. CASE intent # "hostile_repair"
    <2>1. Remembered \cap clear = {}
      BY <1>2
    <2>. QED BY <1>1, <2>1, TellStores DEF Fate
  <1>3. CASE intent = "hostile_repair"
    <2>1. u.active_intent # NULL
      BY NoUpdateType, NullIsFresh DEF SlotNames, Intents
    <2>2. new.active_intent # NULL /\ Keeps(live, new, {"active_intent"})
      BY <2>1, IntentGiven
    <2>3. Keeps(live, new, IdentifierSlots)
      BY <1>3, UpdateKeeps DEF IdentifierSlots, SlotNames, SoftResetClears
    <2>4. Keeps(live, new, IdentifierSlots \cup {"active_intent"})
      BY <2>2, <2>3 DEF Keeps
    <2>5. Settle(t, new, r, NoFrame, "reply", Tell(u, clear).reply)
      BY <1>1, TellIs DEF RespondUnpolished, Finish
    <2>. HIDE DEF new
    <2>6. /\ Stores(r.conv, IdentifierSlots \cup {"active_intent"}) /\ Moves(t, r)
          /\ pc'[t] = "reply" /\ reply'[t] = Tell(u, clear).reply
          /\ store'[r.conv] = new
      BY <2>4, <2>5, SettleStores DEF Remembered
    <2>7. ~Proposing(t)'
      BY <2>6, Clears DEF Proposing
    <2>8. store'[r.conv].active_intent # NULL
      BY <2>2, <2>6
    <2>. QED BY <1>3, <2>6, <2>7, <2>8 DEF Fate, Resets
  <1>. QED BY <1>2, <1>3

-----------------------------------------------------------------------------
(***************************************************************************)
(* The planner's rules.                                                    *)
(***************************************************************************)
\* A set of numbers that is not empty has a least element.
LEMMA LeastElement ==
  ASSUME NEW T \in SUBSET Nat, T # {}
  PROVE  \E i \in T : \A j \in T : ~(j < i)
  <1>. DEFINE R == OpToRel(<, Nat)
  <1>1. IsWellFoundedOn(R, Nat)
    BY NatLessThanWellFounded
  <1>2. \A i, j \in Nat : j < i => <<j, i>> \in R
    BY DEF OpToRel
  <1>. HIDE DEF R
  <1>3. PICK i \in T : \A j \in T : ~(<<j, i>> \in R)
    BY <1>1, WFMin
  <1>. QED BY <1>2, <1>3

\* The plan chosen is that of a rule whose guard holds.
LEMMA FirstRuleHolds ==
  ASSUME NEW n \in Nat, NEW rules, DOMAIN rules = 1..n,
         NEW k \in 1..n, rules[k].guard
  PROVE  \E i \in 1..n : rules[i].guard /\ FirstRule(rules) = rules[i].plan
  <1>. DEFINE T == {i \in 1..n : rules[i].guard}
  <1>. DEFINE Least(i) == i \in T /\ \A j \in T : ~(j < i)
  <1>1. PICK i : Least(i)
    <2>1. T \in SUBSET Nat /\ k \in T
      OBVIOUS
    <2>. HIDE DEF T
    <2>. QED BY <2>1, LeastElement
  <1>2. /\ i \in DOMAIN rules /\ rules[i].guard
        /\ \A j \in 1..(i - 1) : ~rules[j].guard
    BY <1>1
  <1>. DEFINE First(m) == /\ rules[m].guard
                         /\ \A j \in 1..(m - 1) : ~rules[j].guard
              first == CHOOSE m \in DOMAIN rules : First(m)
  <1>3. first \in DOMAIN rules /\ First(first)
    BY <1>2
  <1>. QED BY <1>3 DEF FirstRule

\* An active task goes on with a plan of its own.
LEMMA ContinuedIsNotHostile ==
  ASSUME NEW m, NEW ctx, NEW s
  PROVE  ContinueActiveTask(m, ctx, s) \in
             {NULL, ServiceBookingPlan, BookingSearchPlan, ServiceRequestPlan}
  <1>. DEFINE G1 == /\ s.active_intent \in {"service_catalog", "service_booking"}
                    /\ MatchKnownService(s, m.service) # NULL
              G2 == /\ s.active_intent = "service_booking"
                    /\ \/ m.dates # <<>>
                       \/ m.booking_id # NULL
                       \/ SuggestsTaskContinuation(m)
              G3 == /\ s.active_intent = "booking_search"
                    /\ \/ SuggestsBookingSearch(m)
                       \/ Says(m, "room_selection_hint")
                       \/ SuggestsTaskContinuation(m)
                       \/ Says(m, "asks_availability")
              G4 == s.active_intent = "branch_selection"
              G5 == /\ s.active_intent = "service_request"
                    /\ \/ m.booking_id # NULL
                       \/ ctx.booking_id # NULL
                       \/ s.missing_fields # {}
              rules == <<Rule(G1, ServiceBookingPlan), Rule(G2, ServiceBookingPlan),
                         Rule(G3, BookingSearchPlan), Rule(G4, BookingSearchPlan),
                         Rule(G5, ServiceRequestPlan), Rule(TRUE, NULL)>>
  <1>1. ContinueActiveTask(m, ctx, s) = FirstRule(rules)
    BY DEF ContinueActiveTask
  <1>. HIDE DEF G1, G2, G3, G4, G5
  <1>2. DOMAIN rules = 1..6 /\ rules[6].guard
    BY DEF Rule
  <1>3. \A i \in 1..6 : rules[i].plan \in
           {NULL, ServiceBookingPlan, BookingSearchPlan, ServiceRequestPlan}
    BY DEF Rule
  <1>. HIDE DEF rules
  <1>5. \E n \in Nat : n = 6 /\ DOMAIN rules = 1..n /\ n \in 1..n /\ rules[n].guard
    BY <1>2
  <1>6. \E i \in 1..6 : rules[i].guard /\ FirstRule(rules) = rules[i].plan
    BY <1>5, FirstRuleHolds
  <1>. QED BY <1>1, <1>2, <1>3, <1>6

\* Only a hostile message is planned as one.
LEMMA HostilePlan ==
  ASSUME NEW m, NEW ctx, NEW s, PlanFor(m, ctx, s).intent = "hostile_repair"
  PROVE  m.open_intent = "hostile_repair"
  <1>. DEFINE known   == MatchKnownService(s, m.service) # NULL
              ongoing == ContinueActiveTask(m, ctx, s)
              H  == RequestsBookingLookupExplicitly(m) /\ ~SuggestsBookingSearch(m)
              C  == ongoing # NULL /\ ~ShouldOverrideActiveTask(m)
              E  == ShouldExploreBookingDates(m, s) \/ SuggestsBookingSearch(m)
              rules ==
                <<Rule(SuggestsCheckIn(m),
                       Plan("GuestReceptionCheckInAgent", "check_in_readiness")),
                  Rule(SuggestsBranchCatalog(m), Plan("WelcomeAgent", "branch_catalog")),
                  Rule(SuggestsServiceCatalog(m),
                       Plan("RecommendationAgent", "service_catalog")),
                  Rule(SuggestsServiceRequest(m), ServiceRequestPlan),
                  Rule(SuggestsServiceBooking(m, known), ServiceBookingPlan),
                  Rule(H, Plan("BookingAgent", "booking_lookup")),
                  Rule(C, ongoing),
                  Rule(IsPureWelcome(m, s), Plan("WelcomeAgent", "welcome")),
                  Rule(E, BookingSearchPlan),
                  Rule(SuggestsRecommendation(m),
                       Plan("RecommendationAgent", "recommendation")),
                  Rule(SuggestsFaq(m), Plan("SearchKnowledgeAgent", "faq_lookup")),
                  Rule(m.open_intent # NULL, Plan(OpenIntentAgent(m), m.open_intent)),
                  Rule(TRUE, Plan("InteractionAgent", "general_support"))>>
  <1>1. PlanFor(m, ctx, s) = FirstRule(rules)
    BY DEF PlanFor
  <1>2. ongoing # NULL => ongoing.intent # "hostile_repair"
    BY ContinuedIsNotHostile
    DEF Plan, ServiceBookingPlan, BookingSearchPlan, ServiceRequestPlan
  <1>. HIDE DEF known, ongoing, H, E
  <1>3. DOMAIN rules = 1..13 /\ rules[13].guard
    BY DEF Rule
  <1>4. ASSUME NEW i \in 1..13, rules[i].guard
        PROVE  rules[i].plan.intent = "hostile_repair" => m.open_intent = "hostile_repair"
    <2>1. CASE i = 7
      <3>1. C /\ rules[7].plan = ongoing
        BY <1>4, <2>1 DEF Rule
      <3>. QED BY <1>2, <2>1, <3>1
    <2>2. CASE i # 7
      BY <2>2 DEF Rule, Plan, ServiceRequestPlan, ServiceBookingPlan, BookingSearchPlan
    <2>. QED BY <2>1, <2>2
  <1>. HIDE DEF rules
  <1>5. \E n \in Nat : n = 13 /\ DOMAIN rules = 1..n /\ n \in 1..n /\ rules[n].guard
    BY <1>3
  <1>6. \E i \in 1..13 : rules[i].guard /\ FirstRule(rules) = rules[i].plan
    BY <1>5, FirstRuleHolds
  <1>. QED BY <1>1, <1>3, <1>4, <1>6

-----------------------------------------------------------------------------
(***************************************************************************)
(* The service.                                                            *)
(***************************************************************************)
\* Whichever agent the planner chooses.
LEMMA DispatchStores ==
  ASSUME NEW t, NEW r, NEW live, Continues(t, r, live), pc[t] = "idle",
         Dispatch(t, r, live)
  PROVE  Fate(t, r)
  <1>. DEFINE intent == PlanFor(r.msg, r.ctx, live).intent
  <1>1. \/ HandleBooking(t, r, live) \/ HandleRecommendation(t, r, live)
        \/ HandleServiceRequest(t, r, live) \/ HandleCheckIn(t, r, live)
        \/ HandleWelcome(t, r, live) \/ HandleKnowledge(t, r, live)
        \/ HandleInteraction(t, r, live, intent)
    BY DEF Dispatch
  <1>2. intent = "hostile_repair" => r.msg.open_intent = "hostile_repair"
    BY HostilePlan
  <1>. HIDE DEF intent
  <1>3. CASE \/ HandleRecommendation(t, r, live) \/ HandleWelcome(t, r, live)
             \/ HandleKnowledge(t, r, live)
    <2>1. \E step \in Awaits : Await(t, r, live, NoFrame, step)
      BY <1>3 DEF HandleRecommendation, HandleWelcome, HandleKnowledge, Awaits
    <2>. QED BY <2>1, AwaitStores DEF Fate
  <1>. QED
    BY <1>1, <1>2, <1>3, BookingStores, ServiceRequestStores, CheckInStores,
       InteractionStores DEF Fate

\* The client's identifiers overwrite, and never erase.
LEMMA ContextKeeps ==
  ASSUME NEW s \in State, NEW ctx \in Context
  PROVE  Keeps(s, ApplyRequestContext(s, ctx), Remembered)
  <1>. DEFINE v == ApplyRequestContext(s, ctx)
  <1>1. /\ v.booking_id = Or(ctx.booking_id, s.booking_id)
        /\ v.room_id = Or(ctx.room_id, s.room_id)
        /\ v.resort_id = Or(ctx.resort_id, s.resort_id)
        /\ v.check_in_date = s.check_in_date /\ v.check_out_date = s.check_out_date
        /\ v.adults = s.adults /\ v.children = s.children
        /\ v.active_intent = s.active_intent
    BY DEF ApplyRequestContext, State
  <1>. HIDE DEF v
  <1>2. ASSUME NEW slot \in Remembered, s[slot] # NULL PROVE v[slot] # NULL
    BY <1>1, <1>2 DEF Or, Remembered, IdentifierSlots, SaidSlots
  <1>. QED BY <1>2 DEF Keeps, v

\* A turn begins.
LEMMA BeginStores ==
  ASSUME IInv, NEW t \in Turn, NEW received \in Requests, Begin(t, received)
  PROVE  pc[t] = "idle" /\ \E r \in Request : Fate(t, r)
  <1>. DEFINE live == ApplyRequestContext(store[received.conv], received.ctx)
              r    == [received EXCEPT !.ctx = MergeBookingContext(live, @)]
  <1>1. received \in Request
    BY RequestsAreWellFormed
  <1>2. received.conv \in Conversations /\ received.ctx \in Context
    BY <1>1 DEF Request
  <1>3. store[received.conv] \in State
    BY <1>2 DEF IInv, TypeOK
  <1>4. Keeps(store[received.conv], live, Remembered) /\ live \in State
    BY <1>2, <1>3, ContextKeeps, ContextTypes
  <1>5. /\ pc[t] = "idle"
        /\ \/ RespondUnpolished(t, r, live, Handover(NoUpdate))
           \/ RespondUnpolished(t, r, live, ServerError)
           \/ Dispatch(t, r, live)
    BY DEF Begin
  <1>. HIDE DEF live
  <1>6. r \in Request /\ r.conv = received.conv
    <2>1. MergeBookingContext(live, received.ctx) \in Context
      BY <1>2, <1>4, ContextTypes
    <2>. QED BY <1>1, <2>1 DEF Request
  <1>. HIDE DEF r
  <1>7. Continues(t, r, live)
    BY <1>2, <1>4, <1>6 DEF Continues
  <1>8. Fate(t, r)
    BY <1>5, <1>7, TellStores, DispatchStores DEF Fate, ServerError
  <1>. QED BY <1>5, <1>6, <1>8

\* A suspended turn goes on from what is stored by then.
LEMMA TurnContinues ==
  ASSUME IInv, NEW t \in Turn, pc[t] # "idle"
  PROVE  Continues(t, request[t], Live(t)) /\ request[t] \in Request
  <1>1. request[t] \in Request /\ request[t].conv \in Conversations
    BY DEF IInv, TypeOK, Request
  <1>. QED BY <1>1 DEF Continues, Live, Keeps

\* A failure stores nothing.
LEMMA FailsStores ==
  ASSUME IInv, NEW t \in Turn, ServerFails(t)
  PROVE  Fate(t, request[t]) /\ request[t] \in Request
  <1>1. pc[t] # "idle"
    BY DEF ServerFails, BackendFails, HandlerRaises, PolishRaises, Awaits
  <1>2. \/ RespondUnpolished(t, request[t], Live(t), Handover(NoUpdate))
        \/ RespondUnpolished(t, request[t], Live(t), ServerError)
    BY DEF ServerFails, BackendFails, HandlerRaises, PolishRaises
  <1>. QED BY <1>1, <1>2, TurnContinues, TellStores DEF Fate, ServerError

\* The answers that never propose.
LEMMA PlainAnswersStore ==
  ASSUME IInv, NEW t \in Turn,
         \/ \E catalog \in SUBSET Resorts : ResortsArrive(t, catalog)
         \/ \E catalog \in SUBSET Services : ServicesArrive(t, catalog)
         \/ AlternativesArrive(t) \/ RecordArrives(t)
         \/ WelcomeArrives(t) \/ KnowledgeArrives(t)
  PROVE  Fate(t, request[t]) /\ request[t] \in Request
  <1>. DEFINE r    == request[t]
              live == Live(t)
  <1>1. pc[t] # "idle"
    BY DEF ResortsArrive, ServicesArrive, AlternativesArrive, RecordArrives,
           WelcomeArrives, KnowledgeArrives
  <1>2. Continues(t, r, live) /\ r \in Request
    BY <1>1, TurnContinues
  <1>3. \/ \E entry, resort : WithResort(t, r, live, entry, resort)
        \/ \E u : Respond(t, r, live, Ask(u))
        \/ \E u : Respond(t, r, live, Tell(u, {}))
        \/ \E u : RespondUnpolished(t, r, live, Tell(u, {}))
    <2>1. ASSUME NEW catalog, ResortsArrive(t, catalog)
          PROVE  \/ \E entry, resort : WithResort(t, r, live, entry, resort)
                 \/ \E u : Respond(t, r, live, Ask(u))
      BY <2>1 DEF ResortsArrive, AskBranch
    <2>2. ASSUME NEW catalog, ServicesArrive(t, catalog)
          PROVE  \E u : Respond(t, r, live, Tell(u, {}))
      BY <2>2 DEF ServicesArrive
    <2>3. CASE AlternativesArrive(t)
      BY <2>3 DEF AlternativesArrive
    <2>4. CASE RecordArrives(t) \/ WelcomeArrives(t)
      BY <2>4 DEF RecordArrives, WelcomeArrives
    <2>5. CASE KnowledgeArrives(t)
      BY <2>5 DEF KnowledgeArrives
    <2>. QED BY <2>1, <2>2, <2>3, <2>4, <2>5
  <1>. HIDE DEF r, live
  <1>4. KeepsAll(t, r)
    BY <1>2, <1>3, WithResortStores, TellStores
  <1>. QED BY <1>2, <1>4 DEF Fate, r

\* The stay context arrives and the request is proposed or handed over.
LEMMA StayArrivesStores ==
  ASSUME IInv, NEW t \in Turn, StayArrives(t)
  PROVE  Fate(t, request[t]) /\ request[t] \in Request
  <1>. DEFINE f == frame[t]
              p == [tool |-> "create_service_request", booking_id |-> f.booking_id,
                    description |-> f.description]
              u == [NoUpdate EXCEPT !.booking_id = f.booking_id]
              w == RequestUpdate(f.booking_id, f.description, {})
              clear == {"active_intent", "request_description", "missing_fields"}
  <1>1. /\ Continues(t, request[t], Live(t)) /\ request[t] \in Request
        /\ f.booking_id \in Bookings /\ f.description \in Texts
        /\ ~Answered(t) /\ Live(t).active_intent = store[request[t].conv].active_intent
        /\ u.active_intent = NULL
    BY TurnReady, TurnContinues, NoUpdateType
    DEF StayArrives, FrameFits, Answered, Live, SlotNames
  <1>2. p \in Proposal
    BY <1>1 DEF Proposal
  <1>3. \/ Respond(t, request[t], Live(t), Handover(w))
        \/ Respond(t, request[t], Live(t), Propose(p, u, clear))
    BY DEF StayArrives
  <1>4. (IdentifierSlots \cup SaidSlots) \cap clear = {}
    BY DEF IdentifierSlots, SaidSlots
  <1>. HIDE DEF p, u, w, clear
  <1>. QED BY <1>1, <1>2, <1>3, <1>4, TellStores, ProposeStores DEF Fate

\* The readiness arrives and the check-in is proposed to staff.
LEMMA ReadinessArrivesStores ==
  ASSUME IInv, NEW t \in Turn, NEW eligible, ReadinessArrives(t, eligible)
  PROVE  Fate(t, request[t]) /\ request[t] \in Request
  <1>. DEFINE p == [tool |-> "validate_guest_check_in",
                    booking_id |-> request[t].ctx.booking_id]
  <1>1. /\ Continues(t, request[t], Live(t)) /\ request[t] \in Request
        /\ request[t].ctx.booking_id \in Bookings /\ ~Answered(t)
        /\ Live(t).active_intent = store[request[t].conv].active_intent
        /\ NoUpdate.active_intent = NULL
    BY TurnReady, TurnContinues, NoUpdateType
    DEF ReadinessArrives, FrameFits, Answered, Live, SlotNames
  <1>2. p \in Proposal
    BY <1>1 DEF Proposal
  <1>3. \/ Respond(t, request[t], Live(t), Tell(NoUpdate, {}))
        \/ Respond(t, request[t], Live(t), Propose(p, NoUpdate, {}))
    BY DEF ReadinessArrives
  <1>. HIDE DEF p
  <1>. QED BY <1>1, <1>2, <1>3, TellStores, ProposeStores DEF Fate

\* The room search answers.
LEMMA InventoryArrivesStores ==
  ASSUME IInv, NEW t \in Turn, NEW available \in SUBSET Rooms,
         InventoryArrives(t, available)
  PROVE  Fate(t, request[t]) /\ request[t] \in Request
  <1>0. PICK selected \in SelectRoom(request[t], available) :
           WithRooms(t, available, selected)
    BY DEF InventoryArrives
  <1>. DEFINE r        == request[t]
              live     == Live(t)
              s        == frame[t].state
              f        == [frame[t] EXCEPT !.available = available]
              settled  == selected # NULL \/ Cardinality(available) = 1
              room     == IF selected # NULL THEN selected
                                             ELSE CHOOSE free \in available : TRUE
              p        == BookingProposal(s, f, room)
              update   == [ClaimsOf(s, f) EXCEPT !.active_intent = NULL, !.room_id = room]
  <1>1. /\ Continues(t, r, live) /\ r \in Request /\ ~Answered(t)
        /\ frame[t] \in Frame /\ FrameFits("inventory", frame[t], r)
        /\ live.active_intent = store[r.conv].active_intent
    BY TurnReady, TurnContinues DEF InventoryArrives, Answered, Live
  <1>2. /\ s \in State /\ s.resort_id # NULL
        /\ f.check_in \in Nat /\ f.check_out \in Nat
        /\ f.adults \in Nat /\ f.children \in Nat
    BY <1>1 DEF FrameFits, Frame
  <1>3. \/ \E u : Respond(t, r, live, Tell(u, {}))
        \/ \E u : Respond(t, r, live, Ask(u))
        \/ \E g : Await(t, r, live, g, "services")
        \/ settled /\ Finish(t, r, live, [f EXCEPT !.state = NULL], "polish",
                             Propose(p, update, ClearedByBooking))
    BY <1>0 DEF WithRooms
  <1>4. selected # NULL => selected \in available
    BY SelectRoomType
  <1>5. settled => room \in Rooms
    BY <1>4, FS_EmptySet
  <1>6. settled => p \in Proposal
    BY <1>2, <1>5, StateSlots, OptionalHas DEF BookingProposal, Proposal
  <1>7. (IdentifierSlots \cup SaidSlots) \cap ClearedByBooking = {}
    BY DEF IdentifierSlots, SaidSlots, ClearedByBooking
  <1>8. update.active_intent = NULL
    BY ClaimsType, UpdateSlots DEF SlotNames
  <1>. HIDE DEF r, live, f, p, settled, update
  <1>9. CASE \/ \E u : Respond(t, r, live, Tell(u, {}))
             \/ \E u : Respond(t, r, live, Ask(u))
    BY <1>1, <1>9, TellStores DEF Fate, r
  <1>10. CASE \E g : Await(t, r, live, g, "services")
    BY <1>1, <1>10, AwaitStores DEF Fate, r, Awaits
  <1>11. CASE settled /\ Finish(t, r, live, [f EXCEPT !.state = NULL], "polish",
                                Propose(p, update, ClearedByBooking))
    BY <1>1, <1>6, <1>7, <1>8, <1>11, ProposeStores DEF Fate, r
  <1>. QED BY <1>3, <1>9, <1>10, <1>11

\* The service catalog arrives.
LEMMA RankingArrivesStores ==
  ASSUME IInv, NEW t \in Turn, NEW items \in SUBSET Services, RankingArrives(t, items)
  PROVE  Fate(t, request[t]) /\ request[t] \in Request
  <1>. DEFINE r        == request[t]
              live     == Live(t)
              selected == MatchSelectedService(r.msg, items)
              item     == Or(selected, live.selected_service)
              booking  == Or(Or(r.ctx.booking_id, r.msg.booking_id), live.booking_id)
              date     == IF r.msg.dates # <<>> THEN r.msg.dates[1] ELSE live.scheduled_date
              slot     == [booking_id |-> booking, scheduled_date |-> date]
              missing  == {field \in DOMAIN slot : slot[field] = NULL}
              shown    == [NoUpdate EXCEPT !.known_services = items]
              p        == [tool |-> "create_service_booking", booking_id |-> booking,
                           service |-> item, scheduled_date |-> date]
              clear    == {"active_intent", "selected_service", "scheduled_date",
                           "missing_fields"}
              listed   == {"selected_service", "scheduled_date"}
  <1>1. /\ Continues(t, r, live) /\ r \in Request /\ live \in State /\ ~Answered(t)
        /\ live.active_intent = store[r.conv].active_intent
        /\ shown.active_intent = NULL
    BY TurnReady, TurnContinues, NoUpdateType
    DEF RankingArrives, Answered, Live, SlotNames
  <1>2. \/ \E u : Respond(t, r, live, Tell(u, {}))
        \/ \E u : Respond(t, r, live, Tell(u, listed))
        \/ ServiceBookingFlow(t, r, live, items, selected)
    BY DEF RankingArrives
  <1>3. \/ \E u : Respond(t, r, live, Tell(u, {}))
        \/ \E u : Respond(t, r, live, Tell(u, listed))
        \/ \E u : Respond(t, r, live, Ask(u))
        \/ /\ item # NULL /\ missing = {}
           /\ Respond(t, r, live, Propose(p, shown, clear))
    BY <1>2 DEF ServiceBookingFlow
  <1>4. missing = {} => booking # NULL /\ date # NULL
    BY SMT
  <1>5. item \in Optional(Services) /\ booking \in Optional(Bookings)
    <2>1. selected \in Optional(Services)
      BY OptionalHas DEF MatchSelectedService
    <2>. QED BY <1>1, <2>1, StateSlots, RequestFields, OrType
  <1>6. date \in Optional(Nat)
    BY <1>1, StateSlots, RequestFields, MessageDates, OptionalHas DEF AtMostTwo
  <1>. HIDE DEF item, booking, date, missing
  <1>7. item # NULL /\ missing = {} => p \in Proposal
    BY <1>4, <1>5, <1>6, OptionalHas DEF Proposal
  <1>8. (IdentifierSlots \cup SaidSlots) \cap clear = {} /\ Remembered \cap listed = {}
    BY DEF IdentifierSlots, SaidSlots, Remembered
  <1>. HIDE DEF r, live, p, clear, shown, listed
  <1>9. CASE \/ \E u : Respond(t, r, live, Tell(u, {}))
             \/ \E u : Respond(t, r, live, Tell(u, listed))
             \/ \E u : Respond(t, r, live, Ask(u))
    BY <1>1, <1>8, <1>9, TellStores DEF Fate, r
  <1>10. CASE /\ item # NULL /\ missing = {}
              /\ Respond(t, r, live, Propose(p, shown, clear))
    BY <1>1, <1>7, <1>8, <1>10, ProposeStores DEF Fate, r
  <1>. QED BY <1>3, <1>9, <1>10

-----------------------------------------------------------------------------
(***************************************************************************)
(* The theorems.                                                           *)
(***************************************************************************)
\* Every step that does not just send an answer has one of the three fates,
\* and a turn that has begun stays with its request.
LEMMA StepFate ==
  ASSUME IInv, Next
  PROVE  \E t \in Turn :
            \/ Polished(t) \/ Deliver(t)
            \/ \E r \in Request : Fate(t, r) /\ (pc[t] # "idle" => r = request[t])
  <1>1. ASSUME NEW t \in Turn, NEW received \in Requests, Begin(t, received)
        PROVE  pc[t] = "idle" /\ \E r \in Request : Fate(t, r)
    BY <1>1, BeginStores
  <1>2. ASSUME NEW t \in Turn, ServerAnswers(t)
        PROVE  Polished(t) \/ (Fate(t, request[t]) /\ request[t] \in Request)
    BY <1>2, PlainAnswersStore, StayArrivesStores, ReadinessArrivesStores,
       InventoryArrivesStores, RankingArrivesStores DEF ServerAnswers
  <1>3. ASSUME NEW t \in Turn, ServerFails(t)
        PROVE  Fate(t, request[t]) /\ request[t] \in Request
    BY <1>3, FailsStores
  <1>. QED BY <1>1, <1>2, <1>3 DEF Next, Advance

\* What a step may do to one slot.
LEMMA SlotFate ==
  ASSUME IInv, [Next]_vars, NEW c \in Conversations, NEW slot \in Remembered,
         store[c][slot] # NULL, store'[c][slot] = NULL
  PROVE  \E t \in Turn, r \in Request :
            /\ r.conv = c
            /\ \/ EndsTask(t, r) /\ slot = "active_intent"
               \/ Resets(t, r) /\ slot \in SaidSlots
  <1>1. CASE UNCHANGED vars
    BY <1>1 DEF vars
  <1>2. CASE Next
    <2>1. PICK t \in Turn, r \in Request : Fate(t, r)
      <3>1. PICK u \in Turn :
               \/ Polished(u) \/ Deliver(u)
               \/ \E r \in Request : Fate(u, r) /\ (pc[u] # "idle" => r = request[u])
        BY <1>2, StepFate
      <3>2. ~Polished(u) /\ ~Deliver(u)
        BY DEF Polished, Deliver
      <3>. QED BY <3>1, <3>2
    <2>2. CASE KeepsAll(t, r)
      BY <2>2 DEF KeepsAll, Stores, Keeps
    <2>3. CASE EndsTask(t, r)
      <3>1. Stores(r.conv, IdentifierSlots \cup SaidSlots)
        BY <2>3 DEF EndsTask
      <3>2. r.conv = c /\ slot \notin IdentifierSlots \cup SaidSlots
        BY <3>1 DEF Stores, Keeps
      <3>. QED BY <2>3, <3>2 DEF Remembered
    <2>4. CASE Resets(t, r)
      <3>1. Stores(r.conv, IdentifierSlots \cup {"active_intent"})
        BY <2>4 DEF Resets
      <3>2. r.conv = c /\ slot \notin IdentifierSlots \cup {"active_intent"}
        BY <3>1 DEF Stores, Keeps
      <3>. QED BY <2>4, <3>2 DEF Remembered
    <2>. QED BY <2>1, <2>2, <2>3, <2>4 DEF Fate
  <1>. QED BY <1>1, <1>2

\* However turns overlap, fail or answer late, a booking, a room or a branch
\* that is known to a conversation stays known.
THEOREM IdentifiersStay == Spec => IdentifiersAreKept
  <1>1. IInv /\ [Next]_vars =>
           [\A c \in Conversations :
              \A slot \in IdentifierSlots :
                  store[c][slot] # NULL => store'[c][slot] # NULL]_vars
    <2>. SUFFICES ASSUME IInv, [Next]_vars, NEW c \in Conversations, NEW slot \in IdentifierSlots,
                         store[c][slot] # NULL, store'[c][slot] = NULL
                  PROVE  FALSE
      BY DEF IdentifierSlots
    <2>1. slot \in Remembered /\ slot # "active_intent" /\ slot \notin SaidSlots
      BY DEF Remembered, IdentifierSlots, SaidSlots
    <2>. QED BY <2>1, SlotFate
  <1>. QED BY <1>1, Invariance, PTL DEF Spec, IdentifiersAreKept

\* However turns overlap, only a hostile message makes the service forget the
\* dates or the party.
THEOREM StayIsForgottenOnlyByReset == Spec => OnlyResetForgetsStay
  <1>1. IInv /\ [Next]_vars =>
           [\A c \in Conversations :
              (\E slot \in SaidSlots :
                   store[c][slot] # NULL /\ store'[c][slot] = NULL)
              => \E t \in Turn :
                    /\ pc[t] = "idle" /\ pc'[t] = "reply"
                    /\ request'[t].conv = c
                    /\ request'[t].msg.open_intent = "hostile_repair"]_vars
    <2>. SUFFICES ASSUME IInv, [Next]_vars, NEW c \in Conversations, NEW slot \in SaidSlots,
                         store[c][slot] # NULL, store'[c][slot] = NULL
                  PROVE  \E t \in Turn :
                            /\ pc[t] = "idle" /\ pc'[t] = "reply"
                            /\ request'[t].conv = c
                            /\ request'[t].msg.open_intent = "hostile_repair"
      BY DEF SaidSlots
    <2>1. slot \in Remembered /\ slot # "active_intent"
      BY DEF Remembered, SaidSlots
    <2>2. PICK t \in Turn, r \in Request : r.conv = c /\ Resets(t, r)
      BY <2>1, SlotFate
    <2>. QED BY <2>2 DEF Resets, Moves
  <1>. QED BY <1>1, Invariance, PTL DEF Spec, OnlyResetForgetsStay

\* However turns overlap, a conversation is left without a task only when the
\* task's outcome is proposed.
THEOREM TasksEndWithProposals == Spec => TaskEndsWithProposal
  <1>1. IInv /\ [Next]_vars =>
           [\A c \in Conversations :
              store[c].active_intent # NULL /\ store'[c].active_intent = NULL
              => \E t \in Turn :
                    /\ request'[t] # NULL /\ request'[t].conv = c
                    /\ pc[t] # "polish" /\ pc'[t] = "polish"
                    /\ reply'[t].proposal # NULL]_vars
    <2>. SUFFICES ASSUME IInv, [Next]_vars, NEW c \in Conversations,
                         store[c].active_intent # NULL, store'[c].active_intent = NULL
                  PROVE  \E t \in Turn :
                            /\ request'[t] # NULL /\ request'[t].conv = c
                            /\ pc[t] # "polish" /\ pc'[t] = "polish"
                            /\ reply'[t].proposal # NULL
      OBVIOUS
    <2>1. "active_intent" \in Remembered /\ "active_intent" \notin SaidSlots
      BY DEF Remembered, SaidSlots
    <2>2. store[c]["active_intent"] # NULL /\ store'[c]["active_intent"] = NULL
      OBVIOUS
    <2>3. PICK t \in Turn, r \in Request : r.conv = c /\ EndsTask(t, r)
      BY <2>1, <2>2, SlotFate
    <2>. QED BY <2>3, RequestsAndProposalsAreNotNull DEF EndsTask, Moves, Answered
  <1>. QED BY <1>1, Invariance, PTL DEF Spec, TaskEndsWithProposal

-----------------------------------------------------------------------------
(***************************************************************************)
(* The service implements ConciergeService.                                *)
(***************************************************************************)
\* The variables of ConciergeService, in terms of the service's.
Serving == [t \in Turn |-> IF pc[t] = "idle" THEN NULL ELSE request[t].conv]

Offering == {t \in Turn : Answered(t) /\ reply[t].proposal # NULL}

KeptSlots == IdentifierSlots \cup SaidSlots

Knowledge == [c \in Conversations |-> {slot \in KeptSlots : store[c][slot] # NULL}]

Busy == {c \in Conversations : store[c].active_intent # NULL}

\* A turn that moves serves the conversation of its request.
LEMMA MovesServes ==
  ASSUME NEW t \in Turn, NEW r, Moves(t, r), pc[t] # "idle" => r = request[t]
  PROVE  /\ Serving[t] \in {NULL, r.conv}
         /\ Serving' = [Serving EXCEPT ![t] = r.conv]
         /\ Offering' \ {t} = Offering \ {t}
         /\ t \in Offering' <=> Proposing(t)'
         /\ t \in Offering <=> Proposing(t)
  BY DEF Moves, Serving, Offering, Proposing, Answered

\* Keeping slots is forgetting none of them.
LEMMA StoresLearns ==
  ASSUME NEW c \in Conversations, NEW slots, NEW kept \in SUBSET (slots \cap KeptSlots),
         Stores(c, slots)
  PROVE  \E told \in SUBSET KeptSlots :
             Knowledge' = [Knowledge EXCEPT ![c] = (@ \cap kept) \cup told]
  <1>. DEFINE told == {slot \in KeptSlots : store'[c][slot] # NULL}
  <1>1. (Knowledge[c] \cap kept) \cup told = told
    BY DEF Stores, Keeps, Knowledge
  <1>2. \A d \in Conversations : d # c =>
            {slot \in KeptSlots : store'[d][slot] # NULL} = Knowledge[d]
    BY DEF Stores, Knowledge
  <1>3. Knowledge' = [Knowledge EXCEPT ![c] = told]
    BY <1>2 DEF Knowledge
  <1>. QED BY <1>1, <1>3

\* Only the task of one conversation may begin or end.
LEMMA StoresBusy ==
  ASSUME NEW c \in Conversations, NEW slots, Stores(c, slots)
  PROVE  /\ Busy' \ {c} = Busy \ {c}
         /\ c \in Busy' <=> store'[c].active_intent # NULL
         /\ c \in Busy <=> store[c].active_intent # NULL
  BY DEF Stores, Busy

\* Each fate is a step of ConciergeService.
LEMMA FateServes ==
  ASSUME NEW t \in Turn, NEW r \in Request, Fate(t, r), pc[t] # "idle" => r = request[t]
  PROVE  Concierge!Next
  <1>. DEFINE c == r.conv
  <1>1. c \in Conversations
    BY DEF Request
  <1>2. Moves(t, r) /\ \E slots : Stores(c, slots)
    BY DEF Fate, KeepsAll, EndsTask, Resets
  <1>3. /\ Serving[t] \in {NULL, c}
        /\ Serving' = [Serving EXCEPT ![t] = c]
        /\ Offering' \ {t} = Offering \ {t}
        /\ t \in Offering' <=> Proposing(t)'
        /\ t \in Offering <=> Proposing(t)
    BY <1>2, MovesServes
  <1>4. /\ Busy' \ {c} = Busy \ {c}
        /\ c \in Busy' <=> store'[c].active_intent # NULL
        /\ c \in Busy <=> store[c].active_intent # NULL
    BY <1>1, <1>2, StoresBusy
  <1>5. KeptSlots \subseteq Remembered /\ IdentifierSlots \subseteq KeptSlots
    BY DEF KeptSlots, Remembered
  <1>. DEFINE Learns(kept) == \E told \in SUBSET KeptSlots :
                  Knowledge' = [Knowledge EXCEPT ![c] = (@ \cap kept) \cup told]
  <1>6. ASSUME KeepsAll(t, r) PROVE Concierge!Talk(t, c)
    <2>1. Stores(c, Remembered) /\ ~Proposing(t)'
      BY <1>6 DEF KeepsAll
    <2>2. Learns(KeptSlots)
      BY <1>1, <1>5, <2>1, StoresLearns
    <2>3. store[c].active_intent # NULL => store'[c].active_intent # NULL
      BY <2>1 DEF Stores, Keeps, Remembered
    <2>4. Busy' \in {Busy, Busy \cup {c}} /\ Offering' = Offering \ {t}
      BY <1>3, <1>4, <2>1, <2>3
    <2>. HIDE DEF c
    <2>. QED BY <1>3, <2>2, <2>4
         DEF Concierge!Talk, Concierge!Serve, Concierge!Learn, Serving, Offering,
             KeptSlots, Knowledge, Busy
  <1>7. ASSUME EndsTask(t, r) PROVE Concierge!Offer(t, c)
    <2>1. /\ Stores(c, KeptSlots) /\ Proposing(t)' /\ ~Proposing(t)
          /\ store'[c].active_intent \in {NULL, store[c].active_intent}
      BY <1>7, RequestsAndProposalsAreNotNull
      DEF EndsTask, KeptSlots, Proposing, Answered
    <2>2. Learns(KeptSlots)
      BY <1>1, <2>1, StoresLearns
    <2>3. Busy' \in {Busy, Busy \ {c}} /\ t \notin Offering /\ Offering' = Offering \cup {t}
      BY <1>3, <1>4, <2>1
    <2>. HIDE DEF c
    <2>. QED BY <1>3, <2>2, <2>3
         DEF Concierge!Offer, Concierge!Serve, Concierge!Learn, Serving, Offering,
             KeptSlots, Knowledge, Busy
  <1>8. ASSUME Resets(t, r) PROVE Concierge!Reset(t, c)
    <2>1. /\ Stores(c, IdentifierSlots \cup {"active_intent"})
          /\ ~Proposing(t)' /\ ~Proposing(t) /\ store'[c].active_intent # NULL
          /\ Serving[t] = NULL
      BY <1>8 DEF Resets, Proposing, Answered, Serving
    <2>2. Learns(IdentifierSlots)
      <3>. DEFINE slots == IdentifierSlots \cup {"active_intent"}
      <3>1. IdentifierSlots \in SUBSET (slots \cap KeptSlots) /\ Stores(c, slots)
        BY <1>5, <2>1
      <3>. HIDE DEF slots
      <3>. QED BY <1>1, <3>1, StoresLearns
    <2>3. Busy' = Busy \cup {c} /\ Offering' = Offering
      BY <1>1, <1>3, <1>4, <2>1
    <2>. HIDE DEF c
    <2>. QED BY <1>3, <2>1, <2>2, <2>3
         DEF Concierge!Reset, Concierge!Serve, Concierge!Learn, Serving, Offering,
             KeptSlots, Knowledge, Busy
  <1>. QED BY <1>1, <1>6, <1>7, <1>8 DEF Fate, Concierge!Next

\* So is the delivery of an answer; its polishing is nothing to the guest.
LEMMA DeliverServes ==
  ASSUME IInv, NEW t \in Turn, Polished(t) \/ Deliver(t)
  PROVE  Concierge!Next \/ UNCHANGED Concierge!serviceVars
  <1>1. /\ pc[t] # "idle" /\ request[t].conv \in Conversations /\ store' = store
        /\ \A u \in Turn \ {t} :
              pc'[u] = pc[u] /\ request'[u] = request[u] /\ reply'[u] = reply[u]
    BY DEF Polished, Deliver, IInv, TypeOK, Request
  <1>2. Knowledge' = Knowledge /\ Busy' = Busy
    BY <1>1 DEF Knowledge, Busy
  <1>3. CASE Polished(t)
    <2>1. pc'[t] = "reply" /\ pc[t] = "polish" /\ request' = request /\ reply' = reply
      BY <1>3 DEF Polished, IInv, TypeOK
    <2>2. Serving' = Serving /\ Offering' = Offering
      BY <1>1, <2>1 DEF Serving, Offering, Answered
    <2>. QED BY <1>2, <2>2
         DEF Concierge!serviceVars, Serving, Offering, KeptSlots, Knowledge, Busy
  <1>4. CASE Deliver(t)
    <2>1. pc'[t] = "idle"
      BY <1>4 DEF Deliver, IInv, TypeOK
    <2>2. /\ Serving' = [Serving EXCEPT ![t] = NULL] /\ Offering' = Offering \ {t}
      BY <1>1, <2>1 DEF Serving, Offering, Answered
    <2>3. Serving[t] # NULL
      BY <1>1, ConversationsAreNamed DEF Serving
    <2>. QED BY <1>2, <2>2, <2>3
         DEF Concierge!Next, Concierge!Answer, Serving, Offering, KeptSlots, Knowledge, Busy
  <1>. QED BY <1>3, <1>4

\* Whatever the agents, the servers and the overlapping turns do, the service
\* keeps its promise to each guest: it touches the memory of one conversation
\* at a time, forgets no more than a reset drops, and proposes a write once,
\* in the step that ends the task.
THEOREM ServiceServesEachGuest == Spec => ServesEachGuest
  <1>1. Init => Concierge!Init
    <2>. SUFFICES ASSUME Init PROVE Concierge!Init
      OBVIOUS
    <2>1. /\ Serving = [t \in Turn |-> NULL] /\ Offering = {}
          /\ Knowledge = [c \in Conversations |-> {}] /\ Busy = {}
      BY DEF Init, InitTurns, FreshState, Serving, Offering, Answered, KeptSlots, Knowledge,
             Busy, IdentifierSlots, SaidSlots
    <2>. QED BY <2>1
         DEF Concierge!Init, Serving, Offering, KeptSlots, Knowledge, Busy
  <1>2. IInv /\ [Next]_vars => [Concierge!Next]_Concierge!serviceVars
    <2>1. ASSUME IInv, Next PROVE Concierge!Next \/ UNCHANGED Concierge!serviceVars
      <3>1. PICK t \in Turn :
               \/ Polished(t) \/ Deliver(t)
               \/ \E r \in Request : Fate(t, r) /\ (pc[t] # "idle" => r = request[t])
        BY <2>1, StepFate
      <3>. QED BY <2>1, <3>1, FateServes, DeliverServes
    <2>2. ASSUME UNCHANGED vars PROVE UNCHANGED Concierge!serviceVars
      BY <2>2 DEF vars, Concierge!serviceVars, Answered
    <2>. QED BY <2>1, <2>2
  <1>. QED BY <1>1, <1>2, Invariance, PTL DEF Spec, ServesEachGuest, Concierge!Spec

-----------------------------------------------------------------------------
(***************************************************************************)
(* The add-on of a booking plan.  The room search is awaited with a copy   *)
(* of the state, so an add-on stored meanwhile is not in the proposal:     *)
(* what is proved is for clients that await the answer to one message      *)
(* before they send the next one of the same conversation.                 *)
(***************************************************************************)
OneAtATime ==
    \A t, u \in Turn :
        t # u /\ pc[t] # "idle" /\ pc[u] # "idle" => request[t].conv # request[u].conv

\* A copy of the state taken along into a search has the add-on that is stored.
CarriesAddOn(step, f, live) ==
    step = "inventory" \/ (step = "resorts" /\ f.state # NULL)
    => f.state.selected_service = live.selected_service

PlanIsCurrent ==
    \A t \in Turn : CarriesAddOn(pc[t], frame[t], store[request[t].conv])

\* A step of turn t that ends with such a copy, or none.
Carries(t) ==
    \E r, live, f, step, answer :
        /\ Settle(t, live, r, f, step, answer)
        /\ r.conv \in Conversations /\ step \in Steps \ {"idle"}
        /\ CarriesAddOn(step, f, live)

\* Suspending on anything else.
LEMMA AwaitCarries ==
  ASSUME NEW t, NEW r, r.conv \in Conversations, NEW live, NEW f,
         NEW step \in Awaits \ {"inventory", "resorts"}, Await(t, r, live, f, step)
  PROVE  Carries(t)
  BY DEF Await, Carries, CarriesAddOn, Awaits, Steps

\* Answering.
LEMMA AnswerCarries ==
  ASSUME NEW t, NEW r, r.conv \in Conversations, NEW live, NEW response,
         \/ Respond(t, r, live, response) \/ RespondUnpolished(t, r, live, response)
         \/ \E f : Finish(t, r, live, f, "polish", response)
  PROVE  Carries(t)
  BY DEF Respond, RespondUnpolished, Finish, Carries, CarriesAddOn, Steps

\* A lookup asks for the booking or reads it.
LEMMA LookupCarries ==
  ASSUME NEW t, NEW r, r.conv \in Conversations, NEW live, Lookup(t, r, live)
  PROVE  Carries(t)
  <1>1. "record" \in Awaits \ {"inventory", "resorts"}
    BY DEF Awaits
  <1>. QED BY <1>1, AwaitCarries, AnswerCarries DEF Lookup

\* The search takes along the state it was entered with.
LEMMA WithResortCarries ==
  ASSUME NEW t, NEW r, r.conv \in Conversations, NEW live, NEW entry \in State,
         entry.selected_service = live.selected_service, NEW resort,
         WithResort(t, r, live, entry, resort)
  PROVE  Carries(t)
  <1>. DEFINE s == [entry EXCEPT !.resort_id = resort]
  <1>1. s.selected_service = live.selected_service
    BY DEF State
  <1>2. \/ \E response : Respond(t, r, live, response)
        \/ \E a, b, c, d : SearchRooms(t, r, live, s, a, b, c, d)
        \/ \E a, b : SearchAlternatives(t, r, live, s, a, b)
        \/ RespondUnpolished(t, r, live, ServerError)
        \/ Lookup(t, r, live)
    BY DEF WithResort, SearchDialogue
  <1>. HIDE DEF s
  <1>3. ASSUME NEW a, NEW b, NEW c, NEW d, SearchRooms(t, r, live, s, a, b, c, d)
        PROVE  Carries(t)
    <2>. DEFINE f == [NoFrame EXCEPT !.state = s, !.check_in = a, !.check_out = b,
                                     !.adults = c, !.children = d]
    <2>1. f.state = s
      BY DEF NoFrame
    <2>2. Settle(t, live, r, f, "inventory", NULL)
      BY <1>3 DEF SearchRooms, Await
    <2>. HIDE DEF f
    <2>3. CarriesAddOn("inventory", f, live)
      BY <1>1, <2>1 DEF CarriesAddOn
    <2>. QED BY <2>2, <2>3 DEF Carries, Steps, Awaits
  <1>4. ASSUME NEW a, NEW b, SearchAlternatives(t, r, live, s, a, b) PROVE Carries(t)
    <2>1. "alternatives" \in Awaits \ {"inventory", "resorts"}
      BY DEF Awaits
    <2>. QED BY <1>4, <2>1, AwaitCarries, AnswerCarries DEF SearchAlternatives
  <1>. QED BY <1>2, <1>3, <1>4, AnswerCarries, LookupCarries

\* Reading a message like a search leaves the add-on alone.
LEMMA EntryHasAddOn ==
  ASSUME NEW m, NEW live \in State
  PROVE  /\ EntryState(m, live) \in State
         /\ EntryState(m, live).selected_service = live.selected_service
  BY DEF EntryState, State, Optional, Intents

\* So does waiting for the branches.
LEMMA BookingCarries ==
  ASSUME NEW t, NEW r, r.conv \in Conversations, NEW live \in State,
         HandleBooking(t, r, live)
  PROVE  Carries(t)
  <1>. DEFINE entry == EntryState(r.msg, live)
  <1>1. entry \in State /\ entry.selected_service = live.selected_service
    BY EntryHasAddOn
  <1>2. \/ Lookup(t, r, live)
        \/ \E resort : WithResort(t, r, live, entry, resort)
        \/ \E copy : /\ copy \in {entry, NULL}
                     /\ Await(t, r, live, [NoFrame EXCEPT !.state = copy], "resorts")
    BY DEF HandleBooking
  <1>. HIDE DEF entry
  <1>3. ASSUME NEW copy \in {entry, NULL},
               Await(t, r, live, [NoFrame EXCEPT !.state = copy], "resorts")
        PROVE  Carries(t)
    <2>. DEFINE f == [NoFrame EXCEPT !.state = copy]
    <2>1. f.state = copy
      BY DEF NoFrame
    <2>2. Settle(t, live, r, f, "resorts", NULL)
      BY <1>3 DEF Await
    <2>. HIDE DEF f
    <2>3. CarriesAddOn("resorts", f, live)
      BY <1>1, <2>1 DEF CarriesAddOn
    <2>. QED BY <2>2, <2>3 DEF Carries, Steps, Awaits
  <1>. QED BY <1>1, <1>2, <1>3, LookupCarries, WithResortCarries

\* A turn begins.
LEMMA BeginCarries ==
  ASSUME IInv, NEW t \in Turn, NEW received \in Requests, Begin(t, received)
  PROVE  Carries(t)
  <1>. DEFINE live == ApplyRequestContext(store[received.conv], received.ctx)
              r    == [received EXCEPT !.ctx = MergeBookingContext(live, @)]
  <1>1. received \in Request
    BY RequestsAreWellFormed
  <1>2. received.conv \in Conversations /\ received.ctx \in Context
    BY <1>1 DEF Request
  <1>3. live \in State
    BY <1>2, ContextTypes DEF IInv, TypeOK
  <1>4. r.conv \in Conversations
    BY <1>1 DEF Request
  <1>5. \/ RespondUnpolished(t, r, live, Handover(NoUpdate))
        \/ RespondUnpolished(t, r, live, ServerError)
        \/ Dispatch(t, r, live)
    BY DEF Begin
  <1>. HIDE DEF live, r
  <1>6. CASE Dispatch(t, r, live)
    <2>1. \/ HandleBooking(t, r, live)
          \/ \E response : \/ Respond(t, r, live, response)
                           \/ RespondUnpolished(t, r, live, response)
          \/ \E f, step : /\ step \in Awaits \ {"inventory", "resorts"}
                          /\ Await(t, r, live, f, step)
      BY <1>6 DEF Dispatch, HandleRecommendation, HandleServiceRequest, HandleCheckIn,
                  HandleWelcome, HandleInteraction, HandleKnowledge, Awaits
    <2>. QED BY <1>3, <1>4, <2>1, BookingCarries, AnswerCarries, AwaitCarries
  <1>. QED BY <1>4, <1>5, <1>6, AnswerCarries

\* A turn resumes, fails or ends.
LEMMA AdvanceCarries ==
  ASSUME IInv, PlanIsCurrent, NEW t \in Turn, Advance(t)
  PROVE  Carries(t) \/ Polished(t) \/ Deliver(t)
  <1>. DEFINE r == request[t]  live == Live(t)
  <1>1. ASSUME pc[t] # "idle" PROVE r.conv \in Conversations /\ live \in State
    BY <1>1, TurnReady DEF Request
  <1>2. ASSUME NEW catalog \in SUBSET Resorts, ResortsArrive(t, catalog) PROVE Carries(t)
    <2>. DEFINE entry == Or(frame[t].state, live)
    <2>1. pc[t] = "resorts" /\ frame[t] \in Frame
      BY <1>2 DEF ResortsArrive, IInv, TypeOK
    <2>2. entry \in State /\ entry.selected_service = live.selected_service
      <3>1. CASE frame[t].state = NULL
        BY <1>1, <2>1, <3>1 DEF Or
      <3>2. CASE frame[t].state # NULL
        <4>1. frame[t].state \in State
          BY <2>1, <3>2 DEF Frame, Optional
        <4>2. frame[t].state.selected_service = live.selected_service
          BY <2>1, <3>2 DEF PlanIsCurrent, CarriesAddOn, Live
        <4>. QED BY <3>2, <4>1, <4>2 DEF Or
      <3>. QED BY <3>1, <3>2
    <2>3. \/ \E resort : WithResort(t, r, live, entry, resort)
          \/ \E response : Respond(t, r, live, response)
      BY <1>2 DEF ResortsArrive
    <2>. HIDE DEF entry, live
    <2>. QED BY <1>1, <2>1, <2>2, <2>3, WithResortCarries, AnswerCarries
  <1>3. \/ \E catalog \in SUBSET Resorts : ResortsArrive(t, catalog)
        \/ /\ pc[t] # "idle"
           /\ \/ \E response : \/ Respond(t, r, live, response)
                               \/ RespondUnpolished(t, r, live, response)
                               \/ \E f : Finish(t, r, live, f, "polish", response)
              \/ \E f : Await(t, r, live, f, "services")
        \/ Polished(t) \/ Deliver(t)
    BY DEF Advance, ServerAnswers, ServerFails, InventoryArrives, WithRooms, ServicesArrive,
           RankingArrives, ServiceBookingFlow, ReadinessArrives, AlternativesArrive,
           RecordArrives, StayArrives, WelcomeArrives, KnowledgeArrives, BackendFails,
           HandlerRaises, PolishRaises, Awaits
  <1>4. "services" \in Awaits \ {"inventory", "resorts"}
    BY DEF Awaits
  <1>. HIDE DEF live
  <1>. QED BY <1>1, <1>2, <1>3, <1>4, AnswerCarries, AwaitCarries

\* While turns of a conversation wait for each other, no search is left with
\* an old copy.
LEMMA StepKeepsPlans ==
  ASSUME IInv, PlanIsCurrent, OneAtATime', [Next]_vars
  PROVE  PlanIsCurrent'
  <1>1. CASE UNCHANGED vars
    BY <1>1 DEF vars, PlanIsCurrent
  <1>2. ASSUME NEW u \in Turn, Carries(u) PROVE PlanIsCurrent'
    <2>1. PICK r, live, f, step, answer :
             /\ Settle(u, live, r, f, step, answer)
             /\ r.conv \in Conversations /\ step \in Steps \ {"idle"}
             /\ CarriesAddOn(step, f, live)
      BY <1>2 DEF Carries
    <2>2. /\ pc'[u] = step /\ frame'[u] = f /\ request'[u] = r /\ store'[r.conv] = live
          /\ \A d \in Conversations : d # r.conv => store'[d] = store[d]
          /\ \A t \in Turn : t # u => /\ pc'[t] = pc[t] /\ frame'[t] = frame[t]
                                      /\ request'[t] = request[t]
      BY <2>1 DEF Settle, IInv, TypeOK
    <2>3. CarriesAddOn(pc'[u], frame'[u], store'[request'[u].conv])
      BY <2>1, <2>2
    <2>4. ASSUME NEW t \in Turn, t # u
          PROVE  CarriesAddOn(pc'[t], frame'[t], store'[request'[t].conv])
      <3>1. CASE pc[t] = "idle"
        BY <2>2, <2>4, <3>1 DEF CarriesAddOn
      <3>2. CASE pc[t] # "idle"
        <4>1. request[t].conv # r.conv /\ request[t].conv \in Conversations
          BY <2>1, <2>2, <2>4, <3>2 DEF OneAtATime, IInv, TypeOK, Request
        <4>2. store'[request'[t].conv] = store[request[t].conv]
          BY <2>2, <2>4, <4>1
        <4>. QED BY <2>2, <2>4, <4>2 DEF PlanIsCurrent
      <3>. QED BY <3>1, <3>2
    <2>. QED BY <2>3, <2>4 DEF PlanIsCurrent
  <1>3. ASSUME NEW u \in Turn, Polished(u) \/ Deliver(u) PROVE PlanIsCurrent'
    <2>1. /\ pc'[u] \in {"reply", "idle"} /\ store' = store
          /\ \A t \in Turn : t # u => /\ pc'[t] = pc[t] /\ frame'[t] = frame[t]
                                      /\ request'[t] = request[t]
      BY <1>3 DEF Polished, Deliver, IInv, TypeOK
    <2>. QED BY <2>1 DEF PlanIsCurrent, CarriesAddOn
  <1>4. CASE Next
    BY <1>2, <1>3, <1>4, AdvanceCarries, BeginCarries DEF Next
  <1>. QED BY <1>1, <1>4

\* A booking is proposed with the add-on of the copy the search was made with.
LEMMA SearchProposesAddOn ==
  ASSUME IInv, NEW t \in Turn, NEW available, InventoryArrives(t, available),
         Proposes(t, "create_booking")'
  PROVE  reply'[t].proposal.service = frame[t].state.selected_service
  <1>. DEFINE r == request[t]  live == Live(t)  s == frame[t].state
  <1>1. ASSUME NEW u, NEW clear,
               Respond(t, r, live, Tell(u, clear)) \/ Respond(t, r, live, Ask(u))
        PROVE  FALSE
    <2>1. reply'[t].proposal = NULL
      BY <1>1 DEF Respond, Finish, Settle, Tell, Ask, DomainResponse, IInv, TypeOK
    <2>. QED BY <2>1 DEF Proposes
  <1>2. ASSUME NEW f, Await(t, r, live, f, "services") PROVE FALSE
    BY <1>2 DEF Await, Settle, IInv, TypeOK, Proposes, Answered
  <1>3. \/ \E u : Respond(t, r, live, Tell(u, {})) \/ Respond(t, r, live, Ask(u))
        \/ \E f : Await(t, r, live, f, "services")
        \/ \E f, g, room, u, clear :
              Finish(t, r, live, g, "polish", Propose(BookingProposal(s, f, room), u, clear))
    BY DEF InventoryArrives, WithRooms
  <1>4. ASSUME NEW f, NEW g, NEW room, NEW u, NEW clear,
               Finish(t, r, live, g, "polish", Propose(BookingProposal(s, f, room), u, clear))
        PROVE  reply'[t].proposal.service = s.selected_service
    <2>1. reply'[t].proposal = BookingProposal(s, f, room)
      BY <1>4 DEF Finish, Settle, Propose, DomainResponse, IInv, TypeOK
    <2>. QED BY <2>1 DEF BookingProposal
  <1>. HIDE DEF r, live, s
  <1>5. reply'[t].proposal.service = s.selected_service
    BY <1>1, <1>2, <1>3, <1>4
  <1>. QED BY <1>5 DEF s

\* What a turn does at the end of its room search.
LEMMA SearchEnds ==
  ASSUME IInv, PlanIsCurrent, Next, NEW t \in Turn,
         pc[t] = "inventory", pc'[t] # "inventory"
  PROVE  \/ \E available \in SUBSET Rooms : InventoryArrives(t, available)
         \/ BackendFails(t) \/ HandlerRaises(t)
  <1>1. PICK u \in Turn : Advance(u) \/ \E r \in Requests : Begin(u, r)
    BY DEF Next
  <1>2. CASE u # t
    <2>1. pc'[t] = pc[t]
      <3>1. CASE \E r, live, f, step, answer : Settle(u, live, r, f, step, answer)
        BY <1>2, <3>1 DEF Settle, IInv, TypeOK
      <3>2. CASE Polished(u) \/ Deliver(u)
        BY <1>2, <3>2 DEF Polished, Deliver, IInv, TypeOK
      <3>. QED BY <1>1, <3>1, <3>2, AdvanceCarries, BeginCarries DEF Carries
    <2>. QED BY <2>1
  <1>3. CASE u = t
    BY <1>1, <1>3 DEF Begin, Advance, ServerAnswers, ServerFails, ResortsArrive, ServicesArrive,
           RankingArrives, ReadinessArrives, AlternativesArrive,
           RecordArrives, StayArrives, WelcomeArrives, KnowledgeArrives,
           PolishRaises, Polished, Deliver
  <1>. QED BY <1>2, <1>3

\* The booking proposed at the end of a search has the add-on that is stored.
LEMMA StepProposesAddOn ==
  ASSUME IInv, PlanIsCurrent, [Next]_vars, NEW t \in Turn, pc[t] = "inventory",
         Proposes(t, "create_booking")'
  PROVE  reply'[t].proposal.service = store[request[t].conv].selected_service
  <1>1. pc'[t] # "inventory" /\ pc' # pc /\ reply'[t].proposal # NULL
    BY DEF Proposes, Answered
  <1>2. Next
    BY <1>1 DEF vars
  <1>3. ASSUME BackendFails(t) \/ HandlerRaises(t) PROVE FALSE
    <2>1. reply'[t].proposal = NULL
      BY <1>3 DEF BackendFails, HandlerRaises, Respond, RespondUnpolished, Finish, Settle,
                  Handover, ServerError, DomainResponse, IInv, TypeOK
    <2>. QED BY <1>1, <2>1
  <1>4. PICK available \in SUBSET Rooms : InventoryArrives(t, available)
    BY <1>1, <1>2, <1>3, SearchEnds
  <1>5. frame[t].state.selected_service = store[request[t].conv].selected_service
    BY DEF PlanIsCurrent, CarriesAddOn
  <1>. QED BY <1>4, <1>5, SearchProposesAddOn

\* A client that awaits the answer to one message before it sends the next
\* one of the same conversation gets the add-on it was told of with the
\* booking that is proposed ("Added ... to this booking plan").
THEOREM AddOnsAreProposed == Spec /\ []OneAtATime => AddOnIsProposed
  <1>1. Init => PlanIsCurrent
    BY DEF Init, InitTurns, PlanIsCurrent, CarriesAddOn
  <1>2. IInv /\ PlanIsCurrent /\ OneAtATime' /\ [Next]_vars => PlanIsCurrent'
    BY StepKeepsPlans
  <1>3. IInv /\ PlanIsCurrent /\ [Next]_vars
        => [\A t \in Turn :
              LET added == store[request[t].conv].selected_service IN
              pc[t] = "inventory" /\ added # NULL /\ Proposes(t, "create_booking")'
              => reply'[t].proposal.service = added]_vars
    BY StepProposesAddOn
  <1>. QED BY <1>1, <1>2, <1>3, Invariance, PTL DEF Spec, AddOnIsProposed

\* With one turn at a time there is nothing to await.
THEOREM OneTurnProposesAddOns ==
  ASSUME NEW turn, Turn = {turn}
  PROVE  Spec => AddOnIsProposed
  <1>1. OneAtATime
    BY DEF OneAtATime
  <1>. QED BY <1>1, AddOnsAreProposed, PTL

=============================================================================
