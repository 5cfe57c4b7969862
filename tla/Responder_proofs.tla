--------------------------- MODULE Responder_proofs ---------------------------
(***************************************************************************)
(* Theorems about the conversational service, for any number of turns,     *)
(* conversations, messages, rooms and services.                            *)
(*                                                                         *)
(* The inductive invariant says what each suspended coroutine holds in its *)
(* local variables.  Every handler either suspends or returns a response,  *)
(* so one lemma about suspending and one about responding carry the proof; *)
(* what is left for each handler is that its frame fits and that its       *)
(* response is sound.                                                      *)
(*                                                                         *)
(* The provers do not see through a record of fifteen slots changed in     *)
(* several places at once.  So states and updates are handled as functions *)
(* of their slots, and a changed record is typed slot by slot.             *)
(***************************************************************************)
EXTENDS Responder, FiniteSetTheorems, SequenceTheorems, TLAPS

SlotNames ==
    {"active_intent", "availability_status", "retry_count", "booking_id", "room_id",
     "resort_id", "check_in_date", "check_out_date", "adults", "children",
     "scheduled_date", "selected_service", "request_description",
     "missing_fields", "known_services"}

\* A DialogueUpdate: every slot has a value of its type, or none.
Update ==
    [active_intent       : Optional(Intents),
     availability_status : Optional(Statuses),
     retry_count         : Optional(Nat),
     booking_id          : Optional(Bookings),
     room_id             : Optional(Rooms),
     resort_id           : Optional(Resorts),
     check_in_date       : Optional(Nat),
     check_out_date      : Optional(Nat),
     adults              : Optional(Nat),
     children            : Optional(Nat),
     scheduled_date      : Optional(Nat),
     selected_service    : Optional(Services),
     request_description : Optional(Texts),
     missing_fields      : Optional(SUBSET Askable),
     known_services      : Optional(SUBSET Services)]

\* What each slot of an update may hold.
SlotType ==
    [active_intent       |-> Optional(Intents),
     availability_status |-> Optional(Statuses),
     retry_count         |-> Optional(Nat),
     booking_id          |-> Optional(Bookings),
     room_id             |-> Optional(Rooms),
     resort_id           |-> Optional(Resorts),
     check_in_date       |-> Optional(Nat),
     check_out_date      |-> Optional(Nat),
     adults              |-> Optional(Nat),
     children            |-> Optional(Nat),
     scheduled_date      |-> Optional(Nat),
     selected_service    |-> Optional(Services),
     request_description |-> Optional(Texts),
     missing_fields      |-> Optional(SUBSET Askable),
     known_services      |-> Optional(SUBSET Services)]

FrameFields ==
    {"state", "check_in", "check_out", "adults", "children", "room", "available",
     "booking_id", "description"}

StaySlots == {"check_in_date", "check_out_date", "adults", "children", "resort_id"}

-----------------------------------------------------------------------------
(***************************************************************************)
(* Records by their slots.                                                 *)
(***************************************************************************)
\* The slots of a dialogue state, by name.
LEMMA SlotsAre == Slots = SlotNames
  BY DEF Slots, FreshState, SlotNames

\* An optional value is a value or none.
LEMMA OptionalHas ==
  ASSUME NEW S
  PROVE  /\ NULL \in Optional(S)
         /\ \A x \in S : x \in Optional(S)
         /\ \A x \in Optional(S) : x # NULL => x \in S
  BY DEF Optional

\* A record with the slots of a state and a fitting value in each is a state.
LEMMA StateBySlots ==
  ASSUME NEW u, u = [slot \in SlotNames |-> u[slot]],
         u.retry_count \in Nat,
         u.missing_fields \in SUBSET Askable,
         u.known_services \in SUBSET Services,
         \A slot \in SlotNames \ {"retry_count", "missing_fields", "known_services"} :
             u[slot] \in SlotType[slot]
  PROVE  u \in State
  BY DEF State, SlotNames, SlotType

\* Likewise an update.
LEMMA UpdateBySlots ==
  ASSUME NEW u, u = [slot \in SlotNames |-> u[slot]],
         \A slot \in SlotNames : u[slot] \in SlotType[slot]
  PROVE  u \in Update
  BY DEF Update, SlotNames, SlotType

\* The slots of an update are typed.
LEMMA UpdateSlots ==
  ASSUME NEW u \in Update
  PROVE  /\ u = [slot \in SlotNames |-> u[slot]]
         /\ \A slot \in SlotNames : u[slot] \in SlotType[slot]
  BY DEF Update, SlotNames, SlotType

\* An update with some slots changed to fitting values is an update.
LEMMA ChangedUpdate ==
  ASSUME NEW u \in Update, NEW v, NEW changed \in SUBSET SlotNames,
         v = [slot \in SlotNames |-> v[slot]],
         \A slot \in changed : v[slot] \in SlotType[slot],
         \A slot \in SlotNames \ changed : v[slot] = u[slot]
  PROVE  v \in Update
  BY UpdateSlots, UpdateBySlots

\* The empty update.
LEMMA NoUpdateType ==
  /\ NoUpdate = [slot \in SlotNames |-> NULL]
  /\ NoUpdate \in Update
  <1>1. NoUpdate = [slot \in SlotNames |-> NULL]
    BY SlotsAre DEF NoUpdate
  <1>. QED
    BY <1>1, OptionalHas DEF Update, SlotNames

-----------------------------------------------------------------------------
(***************************************************************************)
(* The dialogue memory.                                                    *)
(***************************************************************************)
\* What a conversation starts from is a state.
LEMMA FreshStateType ==
  /\ FreshState = [slot \in SlotNames |-> FreshState[slot]]
  /\ FreshState \in State
  BY DEF FreshState, State, Optional, SlotNames

\* A state with other identifiers, dates or intent is a state.
LEMMA ChangedState ==
  ASSUME NEW s \in State, NEW v, NEW changed \in SUBSET SlotNames,
         v = [slot \in SlotNames |-> v[slot]],
         changed \cap {"retry_count", "missing_fields", "known_services"} = {},
         \A slot \in changed : v[slot] \in SlotType[slot],
         \A slot \in SlotNames \ changed : v[slot] = s[slot]
  PROVE  v \in State
  <1>1. \A slot \in SlotNames \ {"retry_count", "missing_fields", "known_services"} :
           s[slot] \in SlotType[slot]
    BY DEF State, SlotNames, SlotType
  <1>2. v.retry_count = s.retry_count /\ v.missing_fields = s.missing_fields
        /\ v.known_services = s.known_services
    BY DEF SlotNames
  <1>3. s.retry_count \in Nat /\ s.missing_fields \in SUBSET Askable
        /\ s.known_services \in SUBSET Services
    BY DEF State
  <1>. QED
    BY <1>1, <1>2, <1>3, StateBySlots

\* What one slot holds after an update.
LEMMA SlotAfterUpdate ==
  ASSUME NEW s, NEW u, NEW clear, NEW slot \in SlotNames
  PROVE  ApplyUpdate(s, u, clear)[slot] =
           IF u[slot] # NULL THEN u[slot]
           ELSE IF slot \in clear THEN FreshState[slot]
           ELSE s[slot]
  BY SlotsAre DEF ApplyUpdate

\* Applying a well-formed update to a well-formed state gives one again,
\* whatever is cleared: a slot is only ever cleared to its first value.
LEMMA ApplyUpdateType ==
  ASSUME NEW s \in State, NEW u \in Update, NEW clear
  PROVE  ApplyUpdate(s, u, clear) \in State
  <1>. DEFINE v == ApplyUpdate(s, u, clear)
  <1>1. v = [slot \in SlotNames |-> v[slot]]
    BY SlotsAre DEF ApplyUpdate
  <1>2. \A slot \in SlotNames : v[slot] \in {u[slot], FreshState[slot], s[slot]}
    BY SlotAfterUpdate
  <1>. HIDE DEF v
  <1>3. \A slot \in SlotNames \ {"retry_count", "missing_fields", "known_services"} :
           /\ u[slot] \in SlotType[slot]
           /\ s[slot] \in SlotType[slot]
           /\ FreshState[slot] \in SlotType[slot]
    BY FreshStateType DEF State, Update, SlotNames, SlotType
  <1>4. /\ v.retry_count \in Nat
        /\ v.missing_fields \in SUBSET Askable
        /\ v.known_services \in SUBSET Services
    BY SlotAfterUpdate DEF FreshState, State, Update, Optional, SlotNames, v
  <1>. QED
    BY <1>1, <1>2, <1>3, <1>4, StateBySlots DEF v

\* The client's context leaves a state a state, and a verdict complete.
LEMMA ContextTypes ==
  ASSUME NEW s \in State, NEW ctx \in Context
  PROVE  /\ ApplyRequestContext(s, ctx) \in State
         /\ MergeBookingContext(s, ctx) \in Context
         /\ IsAboutAStay(s) => IsAboutAStay(ApplyRequestContext(s, ctx))
  <1>. DEFINE v == ApplyRequestContext(s, ctx)
              changed == {"booking_id", "room_id", "resort_id"}
  <1>1. /\ v = [slot \in SlotNames |-> v[slot]]
        /\ \A slot \in SlotNames \ changed : v[slot] = s[slot]
    BY DEF ApplyRequestContext, State, SlotNames
  <1>2. /\ v.booking_id = Or(ctx.booking_id, s.booking_id)
        /\ v.room_id = Or(ctx.room_id, s.room_id)
        /\ v.resort_id = Or(ctx.resort_id, s.resort_id)
    BY DEF ApplyRequestContext, State
  <1>3. /\ Or(ctx.booking_id, s.booking_id) \in Optional(Bookings)
        /\ Or(ctx.room_id, s.room_id) \in Optional(Rooms)
        /\ Or(ctx.resort_id, s.resort_id) \in Optional(Resorts)
    BY DEF Or, State, Context
  <1>4. MergeBookingContext(s, ctx) \in Context
    BY <1>3 DEF MergeBookingContext, Context
  <1>. HIDE DEF v
  <1>5. /\ \A slot \in changed : v[slot] \in SlotType[slot]
        /\ changed \in SUBSET SlotNames
        /\ changed \cap {"retry_count", "missing_fields", "known_services"} = {}
    BY <1>2, <1>3 DEF SlotType, SlotNames
  <1>. HIDE DEF changed
  <1>6. v \in State
    BY <1>1, <1>5, ChangedState
  <1>7. ASSUME IsAboutAStay(s) PROVE IsAboutAStay(v)
    <2>1. /\ v.availability_status = s.availability_status
          /\ v.retry_count = s.retry_count
          /\ v.check_in_date = s.check_in_date /\ v.check_out_date = s.check_out_date
          /\ v.adults = s.adults /\ v.children = s.children
      BY <1>1 DEF SlotNames, changed
    <2>2. s.resort_id # NULL => v.resort_id # NULL
      BY <1>2 DEF Or
    <2>. QED
      BY <1>7, <2>1, <2>2 DEF IsAboutAStay, HasDates, Known
  <1>. QED BY <1>4, <1>6, <1>7 DEF v

(***************************************************************************)
(* When a stored verdict is about a whole stay after an update.            *)
(***************************************************************************)
\* The update leaves the verdict as it is and clears none of its stay.
LEMMA VerdictKept ==
  ASSUME NEW s \in State, NEW u \in Update, NEW clear, IsAboutAStay(s),
         u.availability_status \in {NULL, s.availability_status},
         u.retry_count = NULL,
         clear \cap (StaySlots \cup {"availability_status", "retry_count"}) = {}
  PROVE  IsAboutAStay(ApplyUpdate(s, u, clear))
  BY SlotAfterUpdate DEF State, Update, SlotNames, FreshState, StaySlots, IsAboutAStay,
         HasDates, Known

\* The update drops the verdict.
LEMMA VerdictDropped ==
  ASSUME NEW s \in State, NEW u \in Update, NEW clear,
         u.availability_status = NULL, "availability_status" \in clear
  PROVE  IsAboutAStay(ApplyUpdate(s, u, clear))
  <1>1. ApplyUpdate(s, u, clear).availability_status = NULL
    BY SlotAfterUpdate DEF State, Update, SlotNames, FreshState
  <1>. QED BY <1>1, NullIsFresh DEF IsAboutAStay, Statuses

\* The update brings a verdict together with its stay.
LEMMA VerdictGiven ==
  ASSUME NEW s \in State, NEW u \in Update, NEW clear,
         u.availability_status # NULL,
         \A slot \in StaySlots : u[slot] # NULL,
         u.availability_status = "unavailable" => u.retry_count \in Nat \ {0}
  PROVE  IsAboutAStay(ApplyUpdate(s, u, clear))
  BY NullIsFresh, SlotAfterUpdate
     DEF State, Update, SlotNames, FreshState, StaySlots, IsAboutAStay,
         HasDates, Known


\* The parts of a request are typed.
LEMMA RequestFields ==
  ASSUME NEW r \in Request
  PROVE  /\ r.conv \in Conversations /\ r.msg \in Message /\ r.ctx \in Context
         /\ r.ctx.booking_id \in Optional(Bookings)
         /\ r.ctx.room_id \in Optional(Rooms)
         /\ r.ctx.resort_id \in Optional(Resorts)
         /\ r.msg.text \in Texts
         /\ r.msg.booking_id \in Optional(Bookings)
         /\ r.msg.resort \in Optional(Resorts)
         /\ r.msg.service \in Optional(Services)
         /\ r.msg.adults \in Optional(Nat) /\ r.msg.children \in Optional(Nat)
         /\ r.msg.duration_days \in Optional(Nat)
  BY DEF Request, Message, Context

\* `a or b` is of the type of both.
LEMMA OrType ==
  ASSUME NEW S, NEW a \in Optional(S), NEW b \in Optional(S)
  PROVE  Or(a, b) \in Optional(S)
  BY DEF Or

\* The slots of a state are typed.
LEMMA StateSlots ==
  ASSUME NEW s \in State
  PROVE  /\ s.active_intent \in Optional(Intents)
         /\ s.availability_status \in Optional(Statuses)
         /\ s.retry_count \in Nat
         /\ s.booking_id \in Optional(Bookings)
         /\ s.room_id \in Optional(Rooms)
         /\ s.resort_id \in Optional(Resorts)
         /\ s.check_in_date \in Optional(Nat) /\ s.check_out_date \in Optional(Nat)
         /\ s.adults \in Optional(Nat) /\ s.children \in Optional(Nat)
         /\ s.scheduled_date \in Optional(Nat)
         /\ s.selected_service \in Optional(Services)
         /\ s.request_description \in Optional(Texts)
  BY DEF State

\* At most two dates: none, one day or two.
AtMostTwo(dates) ==
    /\ Len(dates) \in 0..2
    /\ dates # <<>> => dates[1] \in Nat
    /\ Len(dates) = 2 => dates[1] \in Nat /\ dates[2] \in Nat
    /\ Len(dates) = 0 <=> dates = <<>>

\* That is what a message has.
LEMMA MessageDates ==
  ASSUME NEW m \in Message
  PROVE  AtMostTwo(m.dates)
  <1>1. m.dates \in Seq(Nat) /\ Len(m.dates) <= 2
    BY DEF Message
  <1>. DEFINE d == m.dates
  <1>. HIDE DEF d
  <1>2. d \in Seq(Nat) /\ Len(d) <= 2
    BY <1>1 DEF d
  <1>3. Len(d) = 0 <=> d = <<>>
    BY <1>2, EmptySeq
  <1>4. Len(d) \in Nat /\ d \in [1..Len(d) -> Nat]
    BY <1>2, LenProperties
  <1>5. (d # <<>> => d[1] \in Nat) /\ (Len(d) = 2 => d[1] \in Nat /\ d[2] \in Nat)
    BY <1>3, <1>4
  <1>6. Len(d) \in 0..2
    BY <1>2, <1>4
  <1>. QED BY <1>2, <1>3, <1>5, <1>6 DEF d, AtMostTwo

-----------------------------------------------------------------------------
(***************************************************************************)
(* The invariant.                                                          *)
(***************************************************************************)
\* What the coroutine suspended at a step holds in its local variables.
FrameFits(step, f, r) ==
    /\ step \in {"inventory", "services"} =>
          /\ f.state \in State /\ f.state.resort_id # NULL
          /\ f.check_in \in Nat /\ f.check_out \in Nat
          /\ f.adults \in Nat /\ f.children \in Nat
    /\ step = "services" => f.room \in Rooms
    /\ step = "alternatives" =>
          /\ f.state \in State /\ f.state.resort_id # NULL /\ HasDates(f.state)
          /\ f.adults \in Nat /\ f.children \in Nat
    /\ step = "stay" => f.booking_id \in Bookings /\ f.description \in Texts
    /\ step = "readiness" => r.ctx.booking_id \in Bookings

\* What a reply proposes, given the room search kept in frame f.
ReplyFits(answer, f, r) ==
    /\ answer \in Reply
    /\ answer.proposal # NULL =>
          /\ ToolAllowed(r, answer.proposal.tool)
          /\ answer.proposal.tool = "validate_guest_check_in" => r.staff
    /\ answer.proposal # NULL /\ answer.proposal.tool = "create_booking" =>
          LET p == answer.proposal IN
          /\ p.room_id \in f.available
          /\ p.resort_id = ResortOf[p.room_id]
          /\ p.check_in_date = f.check_in
          /\ p.check_out_date = f.check_out
          /\ p.adults = f.adults /\ p.children = f.children

IInv ==
    /\ TypeOK
    /\ VerdictIsComplete
    /\ \A t \in Turn :
          /\ FrameFits(pc[t], frame[t], request[t])
          /\ Answered(t) => ReplyFits(reply[t], frame[t], request[t])

\* A proposal other than a booking that the policy of request r allows.
Allowed(r, p) ==
    /\ p.tool # "create_booking"
    /\ ToolAllowed(r, p.tool)
    /\ p.tool = "validate_guest_check_in" => r.staff

\* What an agent other than the booking dialogue may return to request r.
Sound(r, live, response) ==
    /\ response.reply \in Reply
    /\ response.update \in Update
    /\ IsAboutAStay(ApplyUpdate(live, response.update, response.clear))
    /\ response.reply.proposal # NULL => Allowed(r, response.reply.proposal)

\* What a handler may rely on.
Ready(t, r, live) ==
    /\ IInv /\ t \in Turn /\ r \in Request
    /\ live \in State /\ IsAboutAStay(live)

\* A step that ends in a fitting frame keeps the invariant.
LEMMA SettleKeeps ==
  ASSUME NEW t, NEW r, NEW live, Ready(t, r, live),
         NEW f \in Frame, NEW step \in Steps \ {"idle"}, NEW answer \in Optional(Reply),
         FrameFits(step, f, r), Settle(t, live, r, f, step, answer),
         step \in {"polish", "reply"} => ReplyFits(answer, f, r)
  PROVE  IInv'
  <1>. USE DEF Ready, IInv, Settle
  <1>1. store' \in [Conversations -> State]
    BY DEF TypeOK
  <1>2. pc' \in [Turn -> Steps] /\ frame' \in [Turn -> Frame]
    BY DEF TypeOK
  <1>3. request' \in [Turn -> Optional(Request)] /\ reply' \in [Turn -> Optional(Reply)]
    BY DEF TypeOK, Optional
  <1>4. \A u \in Turn : pc'[u] # "idle" => request'[u] \in Request
    BY DEF TypeOK
  <1>5. VerdictIsComplete'
    BY DEF TypeOK, VerdictIsComplete, Request
  <1>6. \A u \in Turn : FrameFits(pc'[u], frame'[u], request'[u])
    BY DEF TypeOK
  <1>7. \A u \in Turn : Answered(u)' => ReplyFits(reply'[u], frame'[u], request'[u])
    BY DEF TypeOK, Answered
  <1>. QED
    BY <1>1, <1>2, <1>3, <1>4, <1>5, <1>6, <1>7 DEF TypeOK

\* A frame without anything in it, and its fields.
LEMMA NoFrameType ==
  /\ NoFrame \in Frame
  /\ NoFrame = [field \in FrameFields |-> NoFrame[field]]
  /\ NoFrame.available = {} /\ NoFrame.room = NULL /\ NoFrame.booking_id = NULL
  /\ NoFrame.description = NULL /\ NoFrame.state = NULL /\ NoFrame.check_in = NULL
  /\ NoFrame.check_out = NULL /\ NoFrame.adults = NULL /\ NoFrame.children = NULL
  <1>1. NoFrame \in Frame
    BY DEF NoFrame, Frame, Optional
  <1>. QED
    BY <1>1 DEF NoFrame, FrameFields

\* A record with the fields of a frame and a fitting value in each is a frame.
LEMMA FrameByFields ==
  ASSUME NEW f, f = [field \in FrameFields |-> f[field]],
         f.state \in Optional(State),
         f.check_in \in Optional(Nat), f.check_out \in Optional(Nat),
         f.adults \in Optional(Nat), f.children \in Optional(Nat),
         f.room \in Optional(Rooms), f.available \in SUBSET Rooms,
         f.booking_id \in Optional(Bookings), f.description \in Optional(Texts)
  PROVE  f \in Frame
  BY DEF Frame, FrameFields

\* Suspending with fitting local variables keeps the invariant.
LEMMA AwaitKeeps ==
  ASSUME NEW t, NEW r, NEW live, Ready(t, r, live),
         NEW f \in Frame, NEW step \in Awaits, FrameFits(step, f, r),
         Await(t, r, live, f, step)
  PROVE  IInv'
  <1>1. step \in Steps \ {"idle"} /\ NULL \in Optional(Reply)
    BY DEF Awaits, Steps, Optional
  <1>2. step \notin {"polish", "reply"}
    BY DEF Awaits
  <1>. QED
    BY <1>1, <1>2, SettleKeeps DEF Await

\* Returning a response that fits the local variables kept keeps the invariant.
LEMMA FinishKeeps ==
  ASSUME NEW t, NEW r, NEW live, Ready(t, r, live),
         NEW f \in Frame, NEW step \in {"polish", "reply"},
         NEW response, response.update \in Update, ReplyFits(response.reply, f, r),
         IsAboutAStay(ApplyUpdate(live, response.update, response.clear)),
         Finish(t, r, live, f, step, response)
  PROVE  IInv'
  <1>. DEFINE new == ApplyUpdate(live, response.update, response.clear)
  <1>1. step \in Steps \ {"idle"} /\ FrameFits(step, f, r)
    BY DEF Steps, FrameFits
  <1>2. response.reply \in Optional(Reply) /\ Ready(t, r, new)
    BY ApplyUpdateType DEF Ready, ReplyFits, Optional
  <1>. QED
    BY <1>1, <1>2, SettleKeeps DEF Finish

\* Returning a sound response keeps the invariant.
LEMMA RespondKeeps ==
  ASSUME NEW t, NEW r, NEW live, Ready(t, r, live),
         NEW response, Sound(r, live, response),
         Respond(t, r, live, response) \/ RespondUnpolished(t, r, live, response)
  PROVE  IInv'
  <1>1. ReplyFits(response.reply, NoFrame, r)
    BY DEF Sound, Allowed, ReplyFits
  <1>. QED
    BY <1>1, NoFrameType, FinishKeeps DEF Respond, RespondUnpolished, Sound


-----------------------------------------------------------------------------
(***************************************************************************)
(* Responses.                                                              *)
(***************************************************************************)
\* An update that leaves the stored verdict alone.
KeepsVerdict(live, u) ==
    /\ u \in Update
    /\ u.availability_status \in {NULL, live.availability_status}
    /\ u.retry_count = NULL

\* An update that brings a verdict together with its stay.
BringsVerdict(u) ==
    /\ u \in Update
    /\ u.availability_status # NULL
    /\ u.availability_status = "unavailable" => u.retry_count \in Nat \ {0}
    /\ \A slot \in StaySlots : u[slot] # NULL

\* Every response type makes a reply without a proposal, and every proposal
\* makes one.
LEMMA ReplyTypes ==
  /\ \A type \in ResponseTypes : [type |-> type, proposal |-> NULL] \in Reply
  /\ \A p \in Proposal :
        [type |-> "assistant_message_with_proposals", proposal |-> p] \in Reply
  BY OptionalHas DEF Reply, ResponseTypes

\* Any kind of response is sound if its update leaves the verdict complete.
LEMMA SoundResponses ==
  ASSUME NEW r, NEW live, NEW u \in Update, NEW clear,
         IsAboutAStay(ApplyUpdate(live, u, clear))
  PROVE  /\ Sound(r, live, Tell(u, clear))
         /\ \A p \in Proposal : Allowed(r, p) => Sound(r, live, Propose(p, u, clear))
         /\ clear = {} => /\ Sound(r, live, Ask(u))
                          /\ Sound(r, live, Handover(u))
                          /\ Sound(r, live, DomainResponse("server_error", NULL, u, {}))
  BY ReplyTypes
     DEF Sound, Tell, Ask, Handover, Propose, DomainResponse, ResponseTypes

\* An update that leaves the verdict alone and clears none of its stay.
LEMMA KeptIsSound ==
  ASSUME NEW live \in State, IsAboutAStay(live), NEW u, KeepsVerdict(live, u), NEW r
  PROVE  /\ Sound(r, live, Ask(u))
         /\ Sound(r, live, Handover(u))
         /\ Sound(r, live, DomainResponse("server_error", NULL, u, {}))
         /\ \A clear : clear \cap (StaySlots \cup {"availability_status", "retry_count"}) = {}
               => /\ Sound(r, live, Tell(u, clear))
                  /\ \A p \in Proposal :
                        Allowed(r, p) => Sound(r, live, Propose(p, u, clear))
  <1>1. u \in Update
    BY DEF KeepsVerdict
  <1>2. \A clear : clear \cap (StaySlots \cup {"availability_status", "retry_count"}) = {}
               => IsAboutAStay(ApplyUpdate(live, u, clear))
    BY VerdictKept DEF KeepsVerdict
  <1>3. IsAboutAStay(ApplyUpdate(live, u, {}))
    <2>1. {} \cap (StaySlots \cup {"availability_status", "retry_count"}) = {}
      OBVIOUS
    <2>. QED BY <1>2, <2>1
  <1>. QED BY <1>1, <1>2, <1>3, SoundResponses

\* An update that brings a verdict with its stay.
LEMMA BroughtIsSound ==
  ASSUME NEW live \in State, NEW u, BringsVerdict(u), NEW r
  PROVE  Sound(r, live, Tell(u, {})) /\ Sound(r, live, Ask(u))
  <1>1. IsAboutAStay(ApplyUpdate(live, u, {}))
    BY VerdictGiven DEF BringsVerdict
  <1>2. u \in Update
    BY DEF BringsVerdict
  <1>. QED BY <1>1, <1>2, SoundResponses

\* An update that says nothing at all.
LEMMA NothingIsSound ==
  ASSUME NEW live \in State, IsAboutAStay(live), NEW r
  PROVE  /\ KeepsVerdict(live, NoUpdate)
         /\ Sound(r, live, Tell(NoUpdate, {}))
         /\ Sound(r, live, Ask(NoUpdate))
         /\ Sound(r, live, Handover(NoUpdate))
         /\ Sound(r, live, ServerError)
         /\ \A p \in Proposal : Allowed(r, p) => Sound(r, live, Propose(p, NoUpdate, {}))
  <1>1. KeepsVerdict(live, NoUpdate)
    BY NoUpdateType DEF KeepsVerdict, SlotNames
  <1>. QED BY <1>1, KeptIsSound DEF ServerError

\* Asking for missing fields changes nothing else of an update.
LEMMA MissingKeeps ==
  ASSUME NEW u \in Update, NEW fields \in SUBSET Askable
  PROVE  /\ WithMissing(u, fields) \in Update
         /\ \A live : KeepsVerdict(live, u) => KeepsVerdict(live, WithMissing(u, fields))
         /\ BringsVerdict(u) => BringsVerdict(WithMissing(u, fields))
  <1>1. WithMissing(u, fields) \in Update
    BY OptionalHas DEF WithMissing, Update
  <1>2. \A slot \in SlotNames \ {"missing_fields"} : WithMissing(u, fields)[slot] = u[slot]
    BY DEF WithMissing, Update, SlotNames
  <1>. QED
    BY <1>1, <1>2 DEF KeepsVerdict, BringsVerdict, StaySlots, SlotNames

\* Naming the room changes nothing else.
LEMMA RoomKeeps ==
  ASSUME NEW u, BringsVerdict(u), NEW room \in Rooms
  PROVE  BringsVerdict([u EXCEPT !.room_id = room])
  <1>. DEFINE v == [u EXCEPT !.room_id = room]
  <1>1. v \in Update
    BY OptionalHas DEF BringsVerdict, Update
  <1>2. \A slot \in SlotNames \ {"room_id"} : v[slot] = u[slot]
    BY DEF BringsVerdict, Update, SlotNames
  <1>. QED
    BY <1>1, <1>2 DEF BringsVerdict, StaySlots, SlotNames

\* The update of the search dialogue: its type and its slots.
LEMMA SearchUpdateType ==
  ASSUME NEW s \in State,
         NEW checkIn \in Optional(Nat), NEW checkOut \in Optional(Nat),
         NEW adults \in Optional(Nat), NEW children \in Optional(Nat)
  PROVE  LET v == SearchUpdate(s, checkIn, checkOut, adults, children) IN
         /\ v \in Update
         /\ \A live : KeepsVerdict(live, v)
         /\ v.check_in_date = checkIn /\ v.check_out_date = checkOut
         /\ v.adults = adults /\ v.children = children
         /\ v.resort_id = s.resort_id
  <1>. DEFINE v == SearchUpdate(s, checkIn, checkOut, adults, children)
              changed == StaySlots \cup {"active_intent"}
  <1>1. /\ v = [slot \in SlotNames |-> v[slot]]
        /\ \A slot \in SlotNames \ changed : v[slot] = NoUpdate[slot]
        /\ changed \in SUBSET SlotNames
    BY NoUpdateType DEF SearchUpdate, SlotNames, StaySlots
  <1>2. /\ v.active_intent = "booking_search" /\ v.resort_id = s.resort_id
        /\ v.check_in_date = checkIn /\ v.check_out_date = checkOut
        /\ v.adults = adults /\ v.children = children
    BY NoUpdateType DEF SearchUpdate, SlotNames
  <1>. HIDE DEF v
  <1>3. s.resort_id \in Optional(Resorts) /\ "booking_search" \in Optional(Intents)
    BY OptionalHas DEF State, Intents
  <1>4. \A slot \in changed : v[slot] \in SlotType[slot]
    BY <1>2, <1>3 DEF StaySlots, SlotType
  <1>5. v.availability_status = NULL /\ v.retry_count = NULL
    BY <1>1, NoUpdateType DEF SlotNames, StaySlots
  <1>. HIDE DEF changed
  <1>6. v \in Update
    BY <1>1, <1>4, NoUpdateType, ChangedUpdate
  <1>. QED BY <1>2, <1>5, <1>6 DEF v, KeepsVerdict

\* The same with a verdict about a whole stay.
LEMMA StatusUpdateType ==
  ASSUME NEW s \in State, s.resort_id # NULL,
         NEW checkIn \in Nat, NEW checkOut \in Nat, NEW adults \in Nat, NEW children \in Nat,
         NEW status \in Statuses, NEW retries \in Nat,
         status = "unavailable" => retries # 0
  PROVE  BringsVerdict(WithStatus(SearchUpdate(s, checkIn, checkOut, adults, children),
                                  status, retries))
  <1>. DEFINE u == SearchUpdate(s, checkIn, checkOut, adults, children)
              v == WithStatus(u, status, retries)
              changed == {"availability_status", "retry_count"}
  <1>0. /\ checkIn \in Optional(Nat) /\ checkOut \in Optional(Nat)
        /\ adults \in Optional(Nat) /\ children \in Optional(Nat)
    BY OptionalHas
  <1>1. /\ u \in Update
        /\ u.check_in_date = checkIn /\ u.check_out_date = checkOut
        /\ u.adults = adults /\ u.children = children
        /\ u.resort_id = s.resort_id
    BY <1>0, SearchUpdateType
  <1>. HIDE DEF u
  <1>2. /\ v = [slot \in SlotNames |-> v[slot]]
        /\ \A slot \in SlotNames \ changed : v[slot] = u[slot]
        /\ v.availability_status = status /\ v.retry_count = retries
    BY <1>1 DEF WithStatus, Update, SlotNames
  <1>. HIDE DEF v
  <1>3. \A slot \in changed : v[slot] \in SlotType[slot]
    BY <1>2, OptionalHas DEF SlotType
  <1>4. changed \in SUBSET SlotNames
    BY DEF SlotNames
  <1>5. \A slot \in StaySlots : v[slot] # NULL
    BY <1>1, <1>2, NullIsFresh DEF StaySlots, SlotNames
  <1>. HIDE DEF changed
  <1>6. v \in Update
    BY <1>1, <1>2, <1>3, <1>4, ChangedUpdate
  <1>7. status # NULL
    BY NullIsFresh
  <1>8. BringsVerdict(v)
    BY <1>2, <1>5, <1>6, <1>7 DEF BringsVerdict
  <1>. QED BY <1>8 DEF u, v

-----------------------------------------------------------------------------
(***************************************************************************)
(* What any suspended turn may meet.                                       *)
(***************************************************************************)
\* A turn that has begun resumes with a request, a state and a frame that fit.
LEMMA TurnReady ==
  ASSUME IInv, NEW t \in Turn, pc[t] # "idle"
  PROVE  /\ Ready(t, request[t], Live(t))
         /\ request[t] \in Request /\ Live(t) \in State /\ IsAboutAStay(Live(t))
         /\ frame[t] \in Frame /\ FrameFits(pc[t], frame[t], request[t])
  <1>1. request[t] \in Request /\ request[t].conv \in Conversations
    BY DEF IInv, TypeOK, Request
  <1>2. frame[t] \in Frame /\ FrameFits(pc[t], frame[t], request[t])
    BY DEF IInv, TypeOK
  <1>3. Live(t) \in State /\ IsAboutAStay(Live(t))
    BY <1>1 DEF IInv, TypeOK, VerdictIsComplete, Live
  <1>. QED
    BY <1>1, <1>2, <1>3 DEF Ready

\* No failure disturbs the invariant: nothing is written to the memory.
LEMMA FailureKeeps ==
  ASSUME IInv, NEW t \in Turn, ServerFails(t)
  PROVE  IInv'
  <1>1. pc[t] # "idle"
    BY DEF ServerFails, BackendFails, HandlerRaises, PolishRaises, Awaits
  <1>2. /\ Sound(request[t], Live(t), Handover(NoUpdate))
        /\ Sound(request[t], Live(t), ServerError)
    BY <1>1, TurnReady, NothingIsSound
  <1>3. \/ RespondUnpolished(t, request[t], Live(t), Handover(NoUpdate))
        \/ RespondUnpolished(t, request[t], Live(t), ServerError)
    BY DEF ServerFails, BackendFails, HandlerRaises, PolishRaises
  <1>. QED
    BY <1>1, <1>2, <1>3, TurnReady, RespondKeeps

\* A polished answer waits to be sent.
LEMMA PolishedKeeps ==
  ASSUME IInv, NEW t \in Turn, Polished(t)
  PROVE  IInv'
  <1>. USE DEF IInv, Polished, TypeOK
  <1>1. TypeOK'
    BY DEF Steps
  <1>2. VerdictIsComplete'
    BY DEF VerdictIsComplete
  <1>3. \A u \in Turn : FrameFits(pc'[u], frame'[u], request'[u])
    <2>1. FrameFits("reply", frame[t], request[t])
      BY DEF FrameFits
    <2>. QED BY <2>1
  <1>4. \A u \in Turn : Answered(u)' => ReplyFits(reply'[u], frame'[u], request'[u])
    BY DEF Answered
  <1>. QED BY <1>1, <1>2, <1>3, <1>4

\* Sending an answer frees the slot.
LEMMA DeliverKeeps ==
  ASSUME IInv, NEW t \in Turn, Deliver(t)
  PROVE  IInv'
  <1>. USE DEF IInv, Deliver, TypeOK
  <1>1. TypeOK'
    BY NoFrameType, OptionalHas DEF Steps
  <1>2. VerdictIsComplete'
    BY DEF VerdictIsComplete
  <1>3. \A u \in Turn : FrameFits(pc'[u], frame'[u], request'[u])
    <2>1. FrameFits("idle", NoFrame, NULL)
      BY DEF FrameFits
    <2>. QED BY <2>1
  <1>4. \A u \in Turn : Answered(u)' => ReplyFits(reply'[u], frame'[u], request'[u])
    BY DEF Answered
  <1>. QED BY <1>1, <1>2, <1>3, <1>4

-----------------------------------------------------------------------------
(***************************************************************************)
(* The agents around the booking dialogue.                                 *)
(***************************************************************************)
\* Suspending without local variables keeps the invariant at these steps.
LEMMA EmptyAwaitKeeps ==
  ASSUME NEW t, NEW r, NEW live, Ready(t, r, live),
         NEW step \in {"resorts", "ranking", "record", "welcome", "knowledge"},
         Await(t, r, live, NoFrame, step)
  PROVE  IInv'
  <1>1. step \in Awaits /\ FrameFits(step, NoFrame, r)
    BY DEF Awaits, FrameFits
  <1>. QED
    BY <1>1, NoFrameType, AwaitKeeps

\* What an in-stay request remembers leaves the verdict alone.
LEMMA RequestUpdateType ==
  ASSUME NEW live, NEW booking \in Optional(Bookings), NEW description \in Texts,
         NEW missing \in SUBSET Askable
  PROVE  KeepsVerdict(live, RequestUpdate(booking, description, missing))
  <1>. DEFINE v == RequestUpdate(booking, description, missing)
              changed == {"active_intent", "booking_id", "request_description",
                          "missing_fields"}
  <1>1. /\ v = [slot \in SlotNames |-> v[slot]]
        /\ \A slot \in SlotNames \ changed : v[slot] = NoUpdate[slot]
        /\ v.active_intent = "service_request" /\ v.booking_id = booking
        /\ v.request_description = description /\ v.missing_fields = missing
    BY NoUpdateType DEF RequestUpdate, SlotNames
  <1>. HIDE DEF v
  <1>2. "service_request" \in Optional(Intents) /\ description \in Optional(Texts)
        /\ missing \in Optional(SUBSET Askable)
    BY OptionalHas DEF Intents
  <1>3. \A slot \in changed : v[slot] \in SlotType[slot]
    BY <1>1, <1>2 DEF SlotType
  <1>4. /\ changed \in SUBSET SlotNames
        /\ v.availability_status = NULL /\ v.retry_count = NULL
    BY <1>1, NoUpdateType DEF SlotNames
  <1>. HIDE DEF changed
  <1>5. v \in Update
    BY <1>1, <1>3, <1>4, NoUpdateType, ChangedUpdate
  <1>. QED BY <1>4, <1>5 DEF v, KeepsVerdict

\* ServiceRequestAgent asks for the booking or reads the stay.
LEMMA ServiceRequestKeeps ==
  ASSUME NEW t, NEW r, NEW live, Ready(t, r, live), HandleServiceRequest(t, r, live)
  PROVE  IInv'
  <1>. DEFINE booking == Or(Or(r.ctx.booking_id, r.msg.booking_id), live.booking_id)
              description == RequestDescription(r.msg, live)
              f == [NoFrame EXCEPT !.booking_id = booking, !.description = description]
  <1>1. booking \in Optional(Bookings) /\ description \in Texts
    BY RequestFields DEF Ready, Or, RequestDescription, State, Optional
  <1>2. \/ booking = NULL /\ Respond(t, r, live,
               Ask(RequestUpdate(NULL, description, {"booking_id"})))
        \/ booking # NULL /\ Await(t, r, live, f, "stay")
    BY DEF HandleServiceRequest
  <1>. HIDE DEF booking, description
  <1>3. CASE booking = NULL
    <2>1. KeepsVerdict(live, RequestUpdate(NULL, description, {"booking_id"}))
      BY <1>1, RequestUpdateType, OptionalHas DEF Askable
    <2>2. Sound(r, live, Ask(RequestUpdate(NULL, description, {"booking_id"})))
      BY <2>1, KeptIsSound DEF Ready
    <2>. QED BY <1>2, <1>3, <2>2, RespondKeeps
  <1>4. CASE booking # NULL
    <2>1. f \in Frame
      BY <1>1, NoFrameType DEF Frame, Optional
    <2>2. FrameFits("stay", f, r)
      BY <1>1, <1>4, OptionalHas, NoFrameType DEF FrameFits, Frame
    <2>. QED BY <1>2, <1>4, <2>1, <2>2, AwaitKeeps DEF Awaits
  <1>. QED BY <1>3, <1>4

\* The stay is known: the request is proposed or handed over.
LEMMA StayArrivesKeeps ==
  ASSUME IInv, NEW t \in Turn, StayArrives(t)
  PROVE  IInv'
  <1>. DEFINE r == request[t]
              f == frame[t]
              p == [tool |-> "create_service_request", booking_id |-> f.booking_id,
                    description |-> f.description]
              u == [NoUpdate EXCEPT !.booking_id = f.booking_id]
              w == RequestUpdate(f.booking_id, f.description, {})
              clear == {"active_intent", "request_description", "missing_fields"}
  <1>1. /\ Ready(t, r, Live(t)) /\ Live(t) \in State /\ IsAboutAStay(Live(t))
        /\ f.booking_id \in Bookings /\ f.description \in Texts
    BY TurnReady DEF StayArrives, FrameFits
  <1>2. Sound(request[t], Live(t), Handover(w))
    <2>1. KeepsVerdict(Live(t), w)
      BY <1>1, RequestUpdateType, OptionalHas
    <2>. QED BY <1>1, <2>1, KeptIsSound
  <1>3. ASSUME ToolAllowed(r, "create_service_request")
        PROVE  Sound(request[t], Live(t), Propose(p, u, clear))
    <2>1. p \in Proposal /\ Allowed(r, p)
      BY <1>1, <1>3 DEF Proposal, Allowed
    <2>2. KeepsVerdict(Live(t), u)
      BY <1>1, NoUpdateType, OptionalHas DEF KeepsVerdict, Update, SlotNames
    <2>3. clear \cap (StaySlots \cup {"availability_status", "retry_count"}) = {}
      BY DEF StaySlots
    <2>. QED BY <1>1, <2>1, <2>2, <2>3, KeptIsSound
  <1>4. \/ Respond(t, r, Live(t), Handover(w))
        \/ /\ ToolAllowed(r, "create_service_request")
           /\ Respond(t, r, Live(t), Propose(p, u, clear))
    BY DEF StayArrives
  <1>. QED BY <1>1, <1>2, <1>3, <1>4, RespondKeeps

\* GuestReceptionAgent asks for the booking or for its readiness.
LEMMA CheckInKeeps ==
  ASSUME NEW t, NEW r, NEW live, Ready(t, r, live), HandleCheckIn(t, r, live)
  PROVE  IInv'
  <1>1. CASE Respond(t, r, live, Ask(NoUpdate))
    BY <1>1, NothingIsSound, RespondKeeps DEF Ready
  <1>2. CASE r.ctx.booking_id # NULL /\ Await(t, r, live, NoFrame, "readiness")
    <2>1. FrameFits("readiness", NoFrame, r)
      BY <1>2, RequestFields, OptionalHas DEF FrameFits, Ready
    <2>. QED BY <1>2, <2>1, NoFrameType, AwaitKeeps DEF Awaits
  <1>. QED BY <1>1, <1>2 DEF HandleCheckIn

\* The readiness is known: staff may get a check-in proposal.
LEMMA ReadinessArrivesKeeps ==
  ASSUME IInv, NEW t \in Turn, NEW eligible \in BOOLEAN, ReadinessArrives(t, eligible)
  PROVE  IInv'
  <1>. DEFINE p == [tool |-> "validate_guest_check_in",
                    booking_id |-> request[t].ctx.booking_id]
  <1>1. /\ Ready(t, request[t], Live(t)) /\ Live(t) \in State /\ IsAboutAStay(Live(t))
        /\ request[t].ctx.booking_id \in Bookings
    BY TurnReady DEF ReadinessArrives, FrameFits
  <1>2. p \in Proposal
    BY <1>1 DEF Proposal
  <1>3. /\ Sound(request[t], Live(t), Tell(NoUpdate, {}))
        /\ Allowed(request[t], p) => Sound(request[t], Live(t), Propose(p, NoUpdate, {}))
    BY <1>1, <1>2, NothingIsSound
  <1>4. \/ Respond(t, request[t], Live(t), Tell(NoUpdate, {}))
        \/ Allowed(request[t], p) /\ Respond(t, request[t], Live(t), Propose(p, NoUpdate, {}))
    BY DEF ReadinessArrives, Allowed
  <1>. QED BY <1>1, <1>3, <1>4, RespondKeeps

\* The branches are listed, or not.
LEMMA WelcomeArrivesKeeps ==
  ASSUME IInv, NEW t \in Turn, WelcomeArrives(t)
  PROVE  IInv'
  <1>. DEFINE u == [NoUpdate EXCEPT !.active_intent  = "branch_selection",
                                    !.missing_fields = {"resort_id"}]
  <1>1. Ready(t, request[t], Live(t)) /\ Live(t) \in State /\ IsAboutAStay(Live(t))
    BY TurnReady DEF WelcomeArrives
  <1>2. KeepsVerdict(Live(t), u)
    <2>1. WithMissing([NoUpdate EXCEPT !.active_intent  = "branch_selection"], {"resort_id"}) = u
      BY NoUpdateType DEF WithMissing, Update
    <2>2. KeepsVerdict(Live(t), [NoUpdate EXCEPT !.active_intent  = "branch_selection"])
      BY NoUpdateType, OptionalHas DEF KeepsVerdict, Update, SlotNames, Intents
    <2>3. [NoUpdate EXCEPT !.active_intent  = "branch_selection"] \in Update
      BY <2>2 DEF KeepsVerdict
    <2>. QED BY <2>1, <2>2, <2>3, MissingKeeps DEF Askable
  <1>3. Respond(t, request[t], Live(t), Tell(u, {}))
    BY DEF WelcomeArrives
  <1>. HIDE DEF u
  <1>. QED BY <1>1, <1>2, <1>3, KeptIsSound, RespondKeeps

\* Small talk, and the reset: it drops the verdict with its stay.
LEMMA InteractionKeeps ==
  ASSUME NEW t, NEW r, NEW live, NEW intent, Ready(t, r, live),
         HandleInteraction(t, r, live, intent)
  PROVE  IInv'
  <1>. DEFINE u == [NoUpdate EXCEPT !.active_intent = "general_support"]
              clear == IF intent = "hostile_repair" THEN SoftResetClears ELSE {}
  <1>1. live \in State /\ IsAboutAStay(live)
    BY DEF Ready
  <1>2. KeepsVerdict(live, u)
    BY NoUpdateType, OptionalHas DEF KeepsVerdict, Update, SlotNames, Intents
  <1>3. u \in Update /\ u.availability_status = NULL
    BY <1>2, NoUpdateType DEF KeepsVerdict, SlotNames
  <1>4. RespondUnpolished(t, r, live, Tell(u, clear))
    BY DEF HandleInteraction
  <1>. HIDE DEF u
  <1>5. Sound(r, live, Tell(u, {}))
    BY <1>1, <1>2, KeptIsSound
  <1>6. Sound(r, live, Tell(u, SoftResetClears))
    BY <1>1, <1>3, VerdictDropped, SoundResponses DEF SoftResetClears
  <1>. QED BY <1>4, <1>5, <1>6, RespondKeeps

\* A question is answered.
LEMMA KnowledgeArrivesKeeps ==
  ASSUME IInv, NEW t \in Turn, KnowledgeArrives(t)
  PROVE  IInv'
  <1>1. Ready(t, request[t], Live(t)) /\ Live(t) \in State /\ IsAboutAStay(Live(t))
    BY TurnReady DEF KnowledgeArrives
  <1>. QED
    BY <1>1, NothingIsSound, RespondKeeps DEF KnowledgeArrives


-----------------------------------------------------------------------------
(***************************************************************************)
(* Add-on services.                                                        *)
(***************************************************************************)
\* Slots other than the verdict and its counter may change freely.
LEMMA ChangedKeepsVerdict ==
  ASSUME NEW live, NEW u, KeepsVerdict(live, u), NEW v,
         NEW changed \in SUBSET (SlotNames \ {"availability_status", "retry_count"}),
         v = [slot \in SlotNames |-> v[slot]],
         \A slot \in changed : v[slot] \in SlotType[slot],
         \A slot \in SlotNames \ changed : v[slot] = u[slot]
  PROVE  KeepsVerdict(live, v)
  <1>1. v \in Update
    BY ChangedUpdate DEF KeepsVerdict
  <1>2. v.availability_status = u.availability_status /\ v.retry_count = u.retry_count
    BY DEF SlotNames
  <1>. QED BY <1>1, <1>2 DEF KeepsVerdict

\* Writing back the stay that is stored keeps the verdict.
LEMMA KeepStayType ==
  ASSUME NEW live \in State
  PROVE  KeepsVerdict(live, KeepStay(live))
  <1>. DEFINE v == KeepStay(live)
              changed == StaySlots \cup {"active_intent", "availability_status", "room_id",
                                         "missing_fields"}
  <1>1. /\ v = [slot \in SlotNames |-> v[slot]]
        /\ \A slot \in SlotNames \ changed : v[slot] = NoUpdate[slot]
    BY NoUpdateType DEF KeepStay, SlotNames, StaySlots
  <1>2. /\ v.active_intent = "booking_search" /\ v.missing_fields = {}
        /\ v.availability_status = live.availability_status
        /\ v.resort_id = live.resort_id /\ v.room_id = live.room_id
        /\ v.check_in_date = live.check_in_date /\ v.check_out_date = live.check_out_date
        /\ v.adults = live.adults /\ v.children = live.children
    BY NoUpdateType DEF KeepStay, SlotNames
  <1>. HIDE DEF v
  <1>3. "booking_search" \in Optional(Intents) /\ {} \in Optional(SUBSET Askable)
    BY OptionalHas DEF Intents
  <1>4. \A slot \in changed : v[slot] \in SlotType[slot]
    <2>1. /\ v.active_intent \in SlotType.active_intent
          /\ v.availability_status \in SlotType.availability_status
          /\ v.missing_fields \in SlotType.missing_fields
          /\ v.resort_id \in SlotType.resort_id /\ v.room_id \in SlotType.room_id
      BY <1>2, <1>3, StateSlots DEF SlotType
    <2>2. /\ v.check_in_date \in SlotType.check_in_date
          /\ v.check_out_date \in SlotType.check_out_date
          /\ v.adults \in SlotType.adults /\ v.children \in SlotType.children
      BY <1>2, StateSlots DEF SlotType
    <2>. QED BY <2>1, <2>2 DEF StaySlots
  <1>5. changed \in SUBSET SlotNames /\ v.retry_count = NULL
    BY <1>1, NoUpdateType DEF SlotNames, StaySlots
  <1>. HIDE DEF changed
  <1>6. v \in Update
    BY <1>1, <1>4, <1>5, NoUpdateType, ChangedUpdate
  <1>. QED BY <1>2, <1>5, <1>6 DEF v, KeepsVerdict

\* Remembering which services were shown keeps the verdict.
LEMMA ShownKeeps ==
  ASSUME NEW live, NEW u, KeepsVerdict(live, u), NEW items \in SUBSET Services
  PROVE  KeepsVerdict(live, [u EXCEPT !.known_services = items])
  <1>. DEFINE v == [u EXCEPT !.known_services = items]
  <1>1. v \in Update
    BY OptionalHas DEF Update, KeepsVerdict
  <1>2. v.availability_status = u.availability_status /\ v.retry_count = u.retry_count
    BY DEF Update, KeepsVerdict
  <1>. QED BY <1>1, <1>2 DEF KeepsVerdict

\* So does selecting one of them.
LEMMA SelectedKeeps ==
  ASSUME NEW live, NEW u, KeepsVerdict(live, u), NEW items \in SUBSET Services,
         NEW selected \in Services
  PROVE  KeepsVerdict(live, [u EXCEPT !.selected_service = selected,
                                      !.known_services   = items])
  <1>. DEFINE v == [u EXCEPT !.selected_service = selected, !.known_services = items]
              changed == {"selected_service", "known_services"}
  <1>1. /\ v = [slot \in SlotNames |-> v[slot]]
        /\ \A slot \in SlotNames \ changed : v[slot] = u[slot]
        /\ v.selected_service = selected /\ v.known_services = items
    BY DEF KeepsVerdict, Update, SlotNames
  <1>. HIDE DEF v
  <1>2. \A slot \in changed : v[slot] \in SlotType[slot]
    BY <1>1, OptionalHas DEF SlotType
  <1>3. changed \in SUBSET (SlotNames \ {"availability_status", "retry_count"})
    BY DEF SlotNames
  <1>. HIDE DEF changed
  <1>4. KeepsVerdict(live, v)
    BY <1>1, <1>2, <1>3, ChangedKeepsVerdict
  <1>. QED BY <1>4 DEF v

\* Naming the task keeps the verdict.
LEMMA IntentKeeps ==
  ASSUME NEW live, NEW u, KeepsVerdict(live, u), NEW intent \in Intents
  PROVE  KeepsVerdict(live, [u EXCEPT !.active_intent = intent])
  <1>. DEFINE v == [u EXCEPT !.active_intent = intent]
  <1>1. v \in Update
    BY OptionalHas DEF Update, KeepsVerdict
  <1>2. v.availability_status = u.availability_status /\ v.retry_count = u.retry_count
    BY DEF Update, KeepsVerdict
  <1>. QED BY <1>1, <1>2 DEF KeepsVerdict

\* What the flow still needs to know keeps the verdict.
LEMMA ServiceSlotsKeep ==
  ASSUME NEW live, NEW u, KeepsVerdict(live, u),
         NEW booking \in Optional(Bookings), NEW date \in Optional(Nat),
         NEW item \in Services, NEW missing \in SUBSET Askable
  PROVE  KeepsVerdict(live, [u EXCEPT !.active_intent    = "service_booking",
                                      !.booking_id       = booking,
                                      !.scheduled_date   = date,
                                      !.selected_service = item,
                                      !.missing_fields   = missing])
  <1>. DEFINE v == [u EXCEPT !.active_intent    = "service_booking",
                             !.booking_id       = booking,
                             !.scheduled_date   = date,
                             !.selected_service = item,
                             !.missing_fields   = missing]
              changed == {"active_intent", "booking_id", "scheduled_date",
                          "selected_service", "missing_fields"}
  <1>1. /\ v = [slot \in SlotNames |-> v[slot]]
        /\ \A slot \in SlotNames \ changed : v[slot] = u[slot]
    BY DEF KeepsVerdict, Update, SlotNames
  <1>2. /\ v.active_intent = "service_booking" /\ v.booking_id = booking
        /\ v.scheduled_date = date /\ v.selected_service = item
        /\ v.missing_fields = missing
    BY DEF KeepsVerdict, Update
  <1>. HIDE DEF v
  <1>3. "service_booking" \in Optional(Intents) /\ item \in Optional(Services)
        /\ missing \in Optional(SUBSET Askable)
    BY OptionalHas DEF Intents
  <1>4. \A slot \in changed : v[slot] \in SlotType[slot]
    BY <1>2, <1>3 DEF SlotType
  <1>5. changed \in SUBSET (SlotNames \ {"availability_status", "retry_count"})
    BY DEF SlotNames
  <1>. HIDE DEF changed
  <1>6. KeepsVerdict(live, v)
    BY <1>1, <1>4, <1>5, ChangedKeepsVerdict
  <1>. QED BY <1>6 DEF v

\* Arranging an item for a booking.
LEMMA ServiceBookingFlowKeeps ==
  ASSUME NEW t, NEW r, NEW live, Ready(t, r, live),
         NEW items \in SUBSET Services, NEW selected \in Optional(Services),
         ServiceBookingFlow(t, r, live, items, selected)
  PROVE  IInv'
  <1>. DEFINE item    == Or(selected, live.selected_service)
              booking == Or(Or(r.ctx.booking_id, r.msg.booking_id), live.booking_id)
              date    == IF r.msg.dates # <<>> THEN r.msg.dates[1] ELSE live.scheduled_date
              slot    == [booking_id |-> booking, scheduled_date |-> date]
              missing == {field \in DOMAIN slot : slot[field] = NULL}
              shown   == [NoUpdate EXCEPT !.known_services = items]
              askItem == [shown EXCEPT !.active_intent  = "service_booking",
                                       !.missing_fields = {"selected_service"}]
              askRest == [shown EXCEPT !.active_intent    = "service_booking",
                                       !.booking_id       = booking,
                                       !.scheduled_date   = date,
                                       !.selected_service = item,
                                       !.missing_fields   = missing]
              p       == [tool |-> "create_service_booking", booking_id |-> booking,
                          service |-> item, scheduled_date |-> date]
              clear   == {"active_intent", "selected_service", "scheduled_date",
                          "missing_fields"}
  <1>1. live \in State /\ IsAboutAStay(live) /\ r \in Request
    BY DEF Ready
  <1>2. item \in Optional(Services) /\ booking \in Optional(Bookings)
    BY <1>1, StateSlots, RequestFields, OrType
  <1>3. date \in Optional(Nat)
    BY <1>1, StateSlots, RequestFields, MessageDates, OptionalHas DEF AtMostTwo
  <1>4. missing \in SUBSET Askable
    BY DEF Askable
  <1>5. missing = {} => booking # NULL /\ date # NULL
    BY SMT
  <1>6. KeepsVerdict(live, shown)
    BY <1>1, NothingIsSound, ShownKeeps
  <1>7. \/ item = NULL /\ Respond(t, r, live, Ask(askItem))
        \/ item # NULL /\ missing # {} /\ Respond(t, r, live, Ask(askRest))
        \/ item # NULL /\ missing = {} /\ Respond(t, r, live, Tell(NoUpdate, {}))
        \/ /\ item # NULL /\ missing = {} /\ ToolAllowed(r, "create_service_booking")
           /\ Respond(t, r, live, Propose(p, shown, clear))
    BY DEF ServiceBookingFlow
  <1>. HIDE DEF item, booking, date, missing, shown
  <1>8. CASE Respond(t, r, live, Ask(askItem))
    <2>1. KeepsVerdict(live, [shown EXCEPT !.active_intent = "service_booking"])
      BY <1>6, IntentKeeps DEF Intents
    <2>2. askItem = WithMissing([shown EXCEPT !.active_intent = "service_booking"],
                                {"selected_service"})
      BY DEF WithMissing
    <2>3. KeepsVerdict(live, askItem)
      BY <2>1, <2>2, MissingKeeps DEF KeepsVerdict, Askable
    <2>. HIDE DEF askItem
    <2>. QED BY <1>1, <1>8, <2>3, KeptIsSound, RespondKeeps
  <1>9. CASE item # NULL /\ Respond(t, r, live, Ask(askRest))
    <2>1. item \in Services
      BY <1>2, <1>9, OptionalHas
    <2>2. KeepsVerdict(live, askRest)
      BY <1>2, <1>3, <1>4, <1>6, <2>1, ServiceSlotsKeep
    <2>. HIDE DEF askRest
    <2>. QED BY <1>1, <1>9, <2>2, KeptIsSound, RespondKeeps
  <1>10. CASE Respond(t, r, live, Tell(NoUpdate, {}))
    BY <1>1, <1>10, NothingIsSound, RespondKeeps
  <1>11. CASE /\ item # NULL /\ missing = {} /\ ToolAllowed(r, "create_service_booking")
              /\ Respond(t, r, live, Propose(p, shown, clear))
    <2>1. p \in Proposal /\ Allowed(r, p)
      BY <1>2, <1>3, <1>5, <1>11, OptionalHas DEF Proposal, Allowed
    <2>2. clear \cap (StaySlots \cup {"availability_status", "retry_count"}) = {}
      BY DEF StaySlots
    <2>. HIDE DEF p, clear
    <2>3. Sound(r, live, Propose(p, shown, clear))
      BY <1>1, <1>6, <2>1, <2>2, KeptIsSound
    <2>. QED BY <1>11, <2>3, RespondKeeps
  <1>. QED BY <1>7, <1>8, <1>9, <1>10, <1>11

\* The services are ranked.
LEMMA RankingArrivesKeeps ==
  ASSUME IInv, NEW t \in Turn, NEW items \in SUBSET Services, RankingArrives(t, items)
  PROVE  IInv'
  <1>. DEFINE r        == request[t]
              live     == Live(t)
              selected == MatchSelectedService(r.msg, items)
              added    == [KeepStay(live) EXCEPT !.selected_service = selected,
                                                 !.known_services   = items]
              offered  == [KeepStay(live) EXCEPT !.known_services = items]
              listed   == [NoUpdate EXCEPT !.active_intent  = "service_catalog",
                                           !.known_services = items]
              clear    == {"selected_service", "scheduled_date"}
  <1>1. Ready(t, r, live) /\ live \in State /\ IsAboutAStay(live)
    BY TurnReady DEF RankingArrives
  <1>2. selected \in Optional(Services)
    BY OptionalHas DEF MatchSelectedService
  <1>3. \/ Respond(t, r, live, Tell(NoUpdate, {}))
        \/ selected # NULL /\ Respond(t, r, live, Tell(added, {}))
        \/ ServiceBookingFlow(t, r, live, items, selected)
        \/ Respond(t, r, live, Tell(offered, clear))
        \/ Respond(t, r, live, Tell(listed, clear))
    BY DEF RankingArrives
  <1>4. /\ clear \cap (StaySlots \cup {"availability_status", "retry_count"}) = {}
        /\ {} \cap (StaySlots \cup {"availability_status", "retry_count"}) = {}
    BY DEF StaySlots
  <1>. HIDE DEF r, live, selected, clear
  <1>5. CASE Respond(t, r, live, Tell(NoUpdate, {}))
    BY <1>1, <1>5, NothingIsSound, RespondKeeps
  <1>6. CASE selected # NULL /\ Respond(t, r, live, Tell(added, {}))
    <2>1. KeepsVerdict(live, added)
      BY <1>1, <1>2, <1>6, OptionalHas, KeepStayType, SelectedKeeps
    <2>. HIDE DEF added
    <2>. QED BY <1>1, <1>4, <1>6, <2>1, KeptIsSound, RespondKeeps
  <1>7. CASE ServiceBookingFlow(t, r, live, items, selected)
    BY <1>1, <1>2, <1>7, ServiceBookingFlowKeeps
  <1>8. CASE Respond(t, r, live, Tell(offered, clear))
    <2>1. KeepsVerdict(live, offered)
      BY <1>1, KeepStayType, ShownKeeps
    <2>. HIDE DEF offered
    <2>. QED BY <1>1, <1>4, <1>8, <2>1, KeptIsSound, RespondKeeps
  <1>9. CASE Respond(t, r, live, Tell(listed, clear))
    <2>1. KeepsVerdict(live, [NoUpdate EXCEPT !.active_intent = "service_catalog"])
      BY <1>1, NothingIsSound, IntentKeeps DEF Intents
    <2>2. listed = [[NoUpdate EXCEPT !.active_intent = "service_catalog"]
                        EXCEPT !.known_services = items]
      OBVIOUS
    <2>3. KeepsVerdict(live, listed)
      BY <2>1, <2>2, ShownKeeps
    <2>. HIDE DEF listed
    <2>. QED BY <1>1, <1>4, <1>9, <2>3, KeptIsSound, RespondKeeps
  <1>. QED BY <1>3, <1>5, <1>6, <1>7, <1>8, <1>9


-----------------------------------------------------------------------------
(***************************************************************************)
(* The booking dialogue up to its searches.                                *)
(***************************************************************************)
\* The dates of a message, completed from the memory, are days as well.
LEMMA ResolveDatesType ==
  ASSUME NEW m \in Message, NEW live \in State
  PROVE  AtMostTwo(ResolveDates(m, live))
  <1>. DEFINE active == live.active_intent = "booking_search"
              in     == live.check_in_date
              out    == live.check_out_date
              long   == m.dates = <<>> /\ m.duration_days \notin {NULL, 0}
              one    == Len(m.dates) = 1
  <1>1. /\ in \in Optional(Nat) /\ out \in Optional(Nat)
        /\ m.duration_days \in Optional(Nat)
        /\ AtMostTwo(m.dates)
    BY StateSlots, MessageDates DEF Message
  <1>2. \A a, b \in Nat : AtMostTwo(<<a, b>>)
    BY DEF AtMostTwo
  <1>3. ~(long /\ one)
    BY <1>1 DEF AtMostTwo
  <1>4. CASE active /\ long /\ in # NULL /\ out = NULL
    <2>1. ResolveDates(m, live) = <<in, in + m.duration_days>>
      BY <1>3, <1>4 DEF ResolveDates, CompletesStay
    <2>2. in \in Nat /\ in + m.duration_days \in Nat
      BY <1>1, <1>4 DEF Optional
    <2>. QED BY <1>2, <2>1, <2>2
  <1>5. CASE active /\ one /\ in # NULL /\ out = NULL
    <2>1. ResolveDates(m, live) = <<in, m.dates[1]>>
      BY <1>3, <1>5 DEF ResolveDates, CompletesStay
    <2>2. in \in Nat /\ m.dates[1] \in Nat
      BY <1>1, <1>5 DEF Optional, AtMostTwo
    <2>. QED BY <1>2, <2>1, <2>2
  <1>6. CASE active /\ one /\ out # NULL /\ in = NULL
    <2>1. ResolveDates(m, live) = <<m.dates[1], out>>
      BY <1>3, <1>6 DEF ResolveDates, CompletesStay
    <2>2. out \in Nat /\ m.dates[1] \in Nat
      BY <1>1, <1>6 DEF Optional, AtMostTwo
    <2>. QED BY <1>2, <2>1, <2>2
  <1>7. CASE /\ ~(active /\ long /\ in # NULL /\ out = NULL)
             /\ ~(active /\ one /\ in # NULL /\ out = NULL)
             /\ ~(active /\ one /\ out # NULL /\ in = NULL)
    <2>1. ResolveDates(m, live) = m.dates
      BY <1>7 DEF ResolveDates, CompletesStay
    <2>. QED BY <1>1, <2>1
  <1>. QED BY <1>4, <1>5, <1>6, <1>7

\* A default makes any count a number.
LEMMA OrElseType ==
  ASSUME NEW count \in Optional(Nat), NEW default \in Nat
  PROVE  OrElse(count, default) \in Nat
  BY DEF OrElse, Optional

\* Asking about a search keeps the verdict.
LEMMA AskSearchIsSound ==
  ASSUME NEW live \in State, IsAboutAStay(live), NEW r, NEW s \in State,
         NEW checkIn \in Optional(Nat), NEW checkOut \in Optional(Nat),
         NEW adults \in Optional(Nat), NEW children \in Optional(Nat),
         NEW fields \in SUBSET Askable
  PROVE  Sound(r, live,
               Ask(WithMissing(SearchUpdate(s, checkIn, checkOut, adults, children), fields)))
  <1>. DEFINE u == SearchUpdate(s, checkIn, checkOut, adults, children)
  <1>1. u \in Update /\ KeepsVerdict(live, u)
    BY SearchUpdateType
  <1>. HIDE DEF u
  <1>2. KeepsVerdict(live, WithMissing(u, fields))
    BY <1>1, MissingKeeps
  <1>3. Sound(r, live, Ask(WithMissing(u, fields)))
    BY <1>2, KeptIsSound
  <1>. QED BY <1>3 DEF u

\* The question for the guest counts is sound.
LEMMA GuestCountsAreSound ==
  ASSUME NEW live \in State, IsAboutAStay(live), NEW r, NEW s \in State,
         NEW checkIn \in Optional(Nat), NEW checkOut \in Optional(Nat),
         NEW adults \in Optional(Nat), NEW children \in Optional(Nat)
  PROVE  Sound(r, live, AskGuestCounts(s, checkIn, checkOut, adults, children))
  <1>. DEFINE count == [adults |-> adults, children |-> children]
              counts == {field \in {"adults", "children"} : count[field] = NULL}
  <1>1. counts \in SUBSET Askable
    BY DEF Askable
  <1>2. AskGuestCounts(s, checkIn, checkOut, adults, children) =
            Ask(WithMissing(SearchUpdate(s, checkIn, checkOut, adults, children), counts))
    BY DEF AskGuestCounts
  <1>. HIDE DEF counts
  <1>. QED BY <1>1, <1>2, AskSearchIsSound

\* Likewise the question for the other date.
LEMMA OtherDateIsSound ==
  ASSUME NEW live \in State, IsAboutAStay(live), NEW r, NEW s \in State,
         NEW date \in Optional(Nat),
         NEW adults \in Optional(Nat), NEW children \in Optional(Nat)
  PROVE  Sound(r, live, AskOtherDate(s, date, adults, children))
  <1>. DEFINE missing == FirstMissingDateField(s)
              in  == IF missing = "check_out_date" THEN date ELSE s.check_in_date
              out == IF missing = "check_in_date" THEN date ELSE s.check_out_date
  <1>1. {missing} \in SUBSET Askable
    BY DEF Askable, FirstMissingDateField
  <1>2. in \in Optional(Nat) /\ out \in Optional(Nat)
    BY StateSlots
  <1>3. AskOtherDate(s, date, adults, children) =
            Ask(WithMissing(SearchUpdate(s, in, out, adults, children), {missing}))
    BY DEF AskOtherDate
  <1>. HIDE DEF missing, in, out
  <1>. QED BY <1>1, <1>2, <1>3, AskSearchIsSound

\* Likewise the question for the dates.
LEMMA DatesAreSound ==
  ASSUME NEW live \in State, IsAboutAStay(live), NEW r, NEW s \in State,
         NEW adults \in Optional(Nat), NEW children \in Optional(Nat)
  PROVE  Sound(r, live, AskDates(s, adults, children))
  <1>. DEFINE missing == FirstMissingDateField(s)
              other == IF missing = "check_out_date" THEN s.check_in_date
                                                     ELSE s.check_out_date
              fields == IF other # NULL THEN {missing}
                                        ELSE {"check_in_date", "check_out_date"}
  <1>1. fields \in SUBSET Askable
    BY DEF Askable, FirstMissingDateField
  <1>2. s.check_in_date \in Optional(Nat) /\ s.check_out_date \in Optional(Nat)
    BY StateSlots
  <1>3. AskDates(s, adults, children) =
            Ask(WithMissing(SearchUpdate(s, s.check_in_date, s.check_out_date,
                                         adults, children), fields))
    BY DEF AskDates
  <1>. HIDE DEF fields
  <1>. QED BY <1>1, <1>2, <1>3, AskSearchIsSound

\* Searching rooms with branch, dates and party known.
LEMMA SearchRoomsKeeps ==
  ASSUME NEW t, NEW r, NEW live, Ready(t, r, live),
         NEW s \in State, s.resort_id # NULL,
         NEW checkIn \in Nat, NEW checkOut \in Nat, NEW adults \in Nat, NEW children \in Nat,
         SearchRooms(t, r, live, s, checkIn, checkOut, adults, children)
  PROVE  IInv'
  <1>. DEFINE f == [NoFrame EXCEPT !.state = s, !.check_in = checkIn,
                                   !.check_out = checkOut, !.adults = adults,
                                   !.children = children]
  <1>1. /\ f = [field \in FrameFields |-> f[field]]
        /\ f.state = s /\ f.check_in = checkIn /\ f.check_out = checkOut
        /\ f.adults = adults /\ f.children = children
        /\ \A field \in {"room", "available", "booking_id", "description"} :
              f[field] = NoFrame[field]
    BY NoFrameType DEF FrameFields
  <1>2. Await(t, r, live, f, "inventory")
    BY DEF SearchRooms
  <1>. HIDE DEF f
  <1>3. f \in Frame
    BY <1>1, NoFrameType, FrameByFields, OptionalHas
  <1>4. FrameFits("inventory", f, r)
    BY <1>1 DEF FrameFits
  <1>. QED BY <1>2, <1>3, <1>4, AwaitKeeps DEF Awaits

\* Searching other dates for a stay that is known.
LEMMA SearchAlternativesKeeps ==
  ASSUME NEW t, NEW r, NEW live, Ready(t, r, live),
         NEW s \in State, s.resort_id # NULL, HasDates(s),
         NEW adults \in Optional(Nat), NEW children \in Optional(Nat),
         SearchAlternatives(t, r, live, s, adults, children)
  PROVE  IInv'
  <1>. DEFINE party == OrElse(adults, 1)
              kids  == OrElse(children, 0)
              f == [NoFrame EXCEPT !.state = s, !.adults = party, !.children = kids]
  <1>1. /\ f = [field \in FrameFields |-> f[field]]
        /\ f.state = s /\ f.adults = party /\ f.children = kids
        /\ \A field \in FrameFields \ {"state", "adults", "children"} :
              f[field] = NoFrame[field]
    BY NoFrameType DEF FrameFields
  <1>2. \/ RespondUnpolished(t, r, live, ServerError)
        \/ Await(t, r, live, f, "alternatives")
    BY DEF SearchAlternatives
  <1>3. party \in Nat /\ kids \in Nat
    BY OrElseType
  <1>. HIDE DEF f, party, kids
  <1>4. f \in Frame
    <2>1. /\ f.check_in = NULL /\ f.check_out = NULL /\ f.room = NULL
          /\ f.available = {} /\ f.booking_id = NULL /\ f.description = NULL
      BY <1>1, NoFrameType DEF FrameFields
    <2>. QED BY <1>1, <1>3, <2>1, FrameByFields, OptionalHas
  <1>5. FrameFits("alternatives", f, r)
    BY <1>1, <1>3 DEF FrameFits
  <1>6. CASE Await(t, r, live, f, "alternatives")
    BY <1>4, <1>5, <1>6, AwaitKeeps DEF Awaits
  <1>7. CASE RespondUnpolished(t, r, live, ServerError)
    BY <1>7, NothingIsSound, RespondKeeps DEF Ready
  <1>. QED BY <1>2, <1>6, <1>7

\* Looking up a booking, or asking which.
LEMMA LookupKeeps ==
  ASSUME NEW t, NEW r, NEW live, Ready(t, r, live), Lookup(t, r, live)
  PROVE  IInv'
  <1>1. CASE Respond(t, r, live, Ask(NoUpdate))
    BY <1>1, NothingIsSound, RespondKeeps DEF Ready
  <1>2. CASE Await(t, r, live, NoFrame, "record")
    BY <1>2, EmptyAwaitKeeps
  <1>. QED BY <1>1, <1>2 DEF Lookup

\* Whatever the dialogue does once the branch is known.
LEMMA SearchDialogueKeeps ==
  ASSUME NEW t, NEW r, NEW live, Ready(t, r, live),
         NEW entry \in State, NEW resort \in Resorts,
         SearchDialogue(t, r, live, entry, resort)
  PROVE  IInv'
  <1>. DEFINE s        == [entry EXCEPT !.resort_id = resort]
              adults   == Or(r.msg.adults, s.adults)
              children == Or(r.msg.children, s.children)
              dates    == ResolveDates(r.msg, live)
  <1>1. live \in State /\ IsAboutAStay(live) /\ r \in Request
    BY DEF Ready
  <1>2. s \in State /\ s.resort_id # NULL
    BY NullIsFresh, OptionalHas DEF State
  <1>3. \/ Len(dates) = 2 /\ Respond(t, r, live,
               AskGuestCounts(s, dates[1], dates[2], adults, children))
        \/ /\ Len(dates) = 2 /\ Known(adults, children)
           /\ SearchRooms(t, r, live, s, dates[1], dates[2], adults, children)
        \/ Len(dates) = 1 /\ Respond(t, r, live,
               AskOtherDate(s, dates[1], adults, children))
        \/ Respond(t, r, live,
               AskGuestCounts(s, s.check_in_date, s.check_out_date, adults, children))
        \/ /\ HasDates(s) /\ Known(adults, children)
           /\ SearchRooms(t, r, live, s, s.check_in_date, s.check_out_date,
                          adults, children)
        \/ HasDates(s) /\ SearchAlternatives(t, r, live, s, adults, children)
        \/ Respond(t, r, live, AskDates(s, OrElse(adults, 1), OrElse(children, 0)))
        \/ Respond(t, r, live, AskDates(s, adults, children))
        \/ Lookup(t, r, live)
    BY DEF SearchDialogue
  <1>4. adults \in Optional(Nat) /\ children \in Optional(Nat)
    BY <1>1, <1>2, StateSlots, RequestFields, OrType
  <1>5. /\ OrElse(adults, 1) \in Optional(Nat) /\ OrElse(children, 0) \in Optional(Nat)
        /\ Known(adults, children) => adults \in Nat /\ children \in Nat
    BY <1>4, OrElseType, OptionalHas DEF Known
  <1>6. AtMostTwo(dates)
    BY <1>1, RequestFields, ResolveDatesType
  <1>7. /\ s.check_in_date \in Optional(Nat) /\ s.check_out_date \in Optional(Nat)
        /\ HasDates(s) => s.check_in_date \in Nat /\ s.check_out_date \in Nat
    BY <1>2, StateSlots, OptionalHas DEF HasDates
  <1>. HIDE DEF s, adults, children, dates
  <1>8. /\ Len(dates) = 2 => /\ dates[1] \in Nat /\ dates[2] \in Nat
                             /\ dates[1] \in Optional(Nat) /\ dates[2] \in Optional(Nat)
        /\ Len(dates) = 1 => dates[1] \in Optional(Nat)
    BY <1>6, OptionalHas DEF AtMostTwo
  <1>9. CASE Len(dates) = 2 /\ Respond(t, r, live,
               AskGuestCounts(s, dates[1], dates[2], adults, children))
    BY <1>1, <1>2, <1>4, <1>8, <1>9, GuestCountsAreSound, RespondKeeps
  <1>10. CASE /\ Len(dates) = 2 /\ Known(adults, children)
              /\ SearchRooms(t, r, live, s, dates[1], dates[2], adults, children)
    BY <1>2, <1>5, <1>8, <1>10, SearchRoomsKeeps
  <1>11. CASE Len(dates) = 1 /\ Respond(t, r, live,
               AskOtherDate(s, dates[1], adults, children))
    BY <1>1, <1>2, <1>4, <1>8, <1>11, OtherDateIsSound, RespondKeeps
  <1>12. CASE Respond(t, r, live,
               AskGuestCounts(s, s.check_in_date, s.check_out_date, adults, children))
    BY <1>1, <1>2, <1>4, <1>7, <1>12, GuestCountsAreSound, RespondKeeps
  <1>13. CASE /\ HasDates(s) /\ Known(adults, children)
              /\ SearchRooms(t, r, live, s, s.check_in_date, s.check_out_date,
                             adults, children)
    BY <1>2, <1>5, <1>7, <1>13, SearchRoomsKeeps
  <1>14. CASE HasDates(s) /\ SearchAlternatives(t, r, live, s, adults, children)
    BY <1>2, <1>4, <1>14, SearchAlternativesKeeps
  <1>15. CASE Respond(t, r, live, AskDates(s, OrElse(adults, 1), OrElse(children, 0)))
    BY <1>1, <1>2, <1>5, <1>7, <1>15, DatesAreSound, RespondKeeps
  <1>16. CASE Respond(t, r, live, AskDates(s, adults, children))
    BY <1>1, <1>2, <1>4, <1>7, <1>16, DatesAreSound, RespondKeeps
  <1>17. CASE Lookup(t, r, live)
    BY <1>17, LookupKeeps
  <1>. QED
    BY <1>3, <1>9, <1>10, <1>11, <1>12, <1>13, <1>14, <1>15, <1>16, <1>17

\* Or the check-out cannot be computed.
LEMMA WithResortKeeps ==
  ASSUME NEW t, NEW r, NEW live, Ready(t, r, live),
         NEW entry \in State, NEW resort \in Resorts,
         WithResort(t, r, live, entry, resort)
  PROVE  IInv'
  <1>1. CASE RespondUnpolished(t, r, live, ServerError)
    BY <1>1, NothingIsSound, RespondKeeps DEF Ready
  <1>2. CASE SearchDialogue(t, r, live, entry, resort)
    BY <1>2, SearchDialogueKeeps
  <1>. QED BY <1>1, <1>2 DEF WithResort

\* BookingAgent.handle up to its first await.
LEMMA BookingKeeps ==
  ASSUME NEW t, NEW r, NEW live, Ready(t, r, live), HandleBooking(t, r, live)
  PROVE  IInv'
  <1>. DEFINE entry  == EntryState(r.msg, live)
              resort == Or(r.ctx.resort_id, entry.resort_id)
              kept   == IF SuggestsBookingSearch(r.msg) THEN entry ELSE NULL
              f      == [NoFrame EXCEPT !.state = kept]
  <1>1. live \in State /\ r \in Request
    BY DEF Ready
  <1>2. entry \in State
    <2>1. "booking_search" \in Optional(Intents)
      BY OptionalHas DEF Intents
    <2>2. [live EXCEPT !.active_intent = "booking_search"] \in State
      BY <1>1, <2>1 DEF State
    <2>. QED BY <1>1, <2>2 DEF EntryState
  <1>3. \/ Lookup(t, r, live)
        \/ resort # NULL /\ WithResort(t, r, live, entry, resort)
        \/ Await(t, r, live, f, "resorts")
    BY DEF HandleBooking
  <1>. HIDE DEF entry
  <1>4. resort \in Optional(Resorts)
    BY <1>1, <1>2, StateSlots, RequestFields, OrType
  <1>5. f \in Frame /\ FrameFits("resorts", f, r)
    BY <1>2, NoFrameType, OptionalHas DEF Frame, FrameFits
  <1>. HIDE DEF resort, f
  <1>6. CASE Lookup(t, r, live)
    BY <1>6, LookupKeeps
  <1>7. CASE resort # NULL /\ WithResort(t, r, live, entry, resort)
    BY <1>2, <1>4, <1>7, OptionalHas, WithResortKeeps
  <1>8. CASE Await(t, r, live, f, "resorts")
    BY <1>5, <1>8, AwaitKeeps DEF Awaits
  <1>. QED BY <1>3, <1>6, <1>7, <1>8

\* The branch catalog arrives.
LEMMA ResortsArriveKeeps ==
  ASSUME IInv, NEW t \in Turn, NEW catalog \in SUBSET Resorts, ResortsArrive(t, catalog)
  PROVE  IInv'
  <1>. DEFINE r     == request[t]
              live  == Live(t)
              entry == Or(frame[t].state, live)
              u     == [NoUpdate EXCEPT !.active_intent = "booking_search"]
  <1>1. /\ Ready(t, r, live) /\ live \in State /\ IsAboutAStay(live)
        /\ frame[t] \in Frame
    BY TurnReady DEF ResortsArrive
  <1>2. entry \in State
    BY <1>1, OptionalHas DEF Frame, Or
  <1>3. \/ r.msg.resort \in Resorts /\ WithResort(t, r, live, entry, r.msg.resort)
        \/ Respond(t, r, live, Ask(WithMissing(u, {"resort_id"})))
    BY DEF ResortsArrive, AskBranch
  <1>4. KeepsVerdict(live, u) /\ u \in Update
    BY <1>1, NothingIsSound, IntentKeeps DEF Intents, KeepsVerdict
  <1>. HIDE DEF r, live, entry, u
  <1>5. Sound(r, live, Ask(WithMissing(u, {"resort_id"})))
    BY <1>1, <1>4, MissingKeeps, KeptIsSound DEF Askable
  <1>. QED BY <1>1, <1>2, <1>3, <1>5, WithResortKeeps, RespondKeeps

-----------------------------------------------------------------------------
(***************************************************************************)
(* What the searches answer.                                               *)
(***************************************************************************)
\* A room is only selected from the free ones.
LEMMA SelectRoomType ==
  ASSUME NEW r, NEW available, NEW selected \in SelectRoom(r, available),
         selected # NULL
  PROVE  selected \in available
  BY Zenon DEF SelectRoom, MatchRoomChoice

\* What is said of the searched stay is said of the whole of it.
LEMMA ClaimsType ==
  ASSUME NEW s \in State, NEW f,
         f.check_in \in Nat, f.check_out \in Nat, f.adults \in Nat, f.children \in Nat
  PROVE  LET u == ClaimsOf(s, f) IN
         /\ u \in Update
         /\ u.check_in_date = f.check_in /\ u.check_out_date = f.check_out
         /\ u.adults = f.adults /\ u.children = f.children
         /\ u.resort_id = s.resort_id /\ u.availability_status = NULL
  <1>1. ASSUME NEW in \in Optional(Nat), NEW out \in Optional(Nat),
               NEW adults \in Optional(Nat), NEW children \in Optional(Nat)
        PROVE  LET u == SearchUpdate(s, in, out, adults, children) IN
               /\ u \in Update
               /\ u.check_in_date = in /\ u.check_out_date = out
               /\ u.adults = adults /\ u.children = children
               /\ u.resort_id = s.resort_id /\ u.availability_status = NULL
    <2>. DEFINE u == SearchUpdate(s, in, out, adults, children)
    <2>1. /\ u \in Update
          /\ u.check_in_date = in /\ u.check_out_date = out
          /\ u.adults = adults /\ u.children = children
          /\ u.resort_id = s.resort_id
          /\ KeepsVerdict([availability_status |-> NULL], u)
      BY SearchUpdateType
    <2>. HIDE DEF u
    <2>2. u.availability_status = NULL
      BY <2>1 DEF KeepsVerdict
    <2>. QED BY <2>1, <2>2 DEF u
  <1>2. /\ f.check_in \in Optional(Nat) /\ f.check_out \in Optional(Nat)
        /\ f.adults \in Optional(Nat) /\ f.children \in Optional(Nat)
    BY OptionalHas
  <1>3. PICK in \in Optional(Nat), out \in Optional(Nat),
             adults \in Optional(Nat), children \in Optional(Nat) :
          /\ in = f.check_in /\ out = f.check_out
          /\ adults = f.adults /\ children = f.children
    BY <1>2
  <1>4. ClaimsOf(s, f) = SearchUpdate(s, in, out, adults, children)
    BY <1>3 DEF ClaimsOf
  <1>. QED BY <1>1, <1>3, <1>4

\* A booking is proposed for a free room and the searched stay.
LEMMA BookingProposed ==
  ASSUME NEW t, NEW r, NEW live, Ready(t, r, live),
         NEW f \in Frame, FrameFits("inventory", f, r),
         f.available \subseteq RoomsOf(f.state.resort_id),
         NEW room \in f.available, ToolAllowed(r, "create_booking"),
         Finish(t, r, live, [f EXCEPT !.state = NULL], "polish",
                Propose(BookingProposal(f.state, f, room),
                        [ClaimsOf(f.state, f) EXCEPT !.active_intent = NULL,
                                                     !.room_id       = room],
                        ClearedByBooking))
  PROVE  IInv'
  <1>. DEFINE s == f.state
              p == BookingProposal(s, f, room)
              u == ClaimsOf(s, f)
              v == [u EXCEPT !.active_intent = NULL, !.room_id = room]
              g == [f EXCEPT !.state = NULL]
              response == Propose(p, v, ClearedByBooking)
              changed == {"active_intent", "room_id"}
  <1>1. /\ s \in State /\ s.resort_id \in Resorts
        /\ f.check_in \in Nat /\ f.check_out \in Nat
        /\ f.adults \in Nat /\ f.children \in Nat
        /\ live \in State
    BY StateSlots, OptionalHas DEF FrameFits, Ready
  <1>2. room \in Rooms /\ ResortOf[room] = s.resort_id
    BY DEF RoomsOf
  <1>3. u \in Update /\ u.availability_status = NULL
    BY <1>1, ClaimsType
  <1>4. /\ g \in Frame /\ g.available = f.available
        /\ g.check_in = f.check_in /\ g.check_out = f.check_out
        /\ g.adults = f.adults /\ g.children = f.children
    BY OptionalHas DEF Frame
  <1>5. Finish(t, r, live, g, "polish", response)
    OBVIOUS
  <1>. HIDE DEF u, g
  <1>6. /\ v = [slot \in SlotNames |-> v[slot]]
        /\ \A slot \in SlotNames \ changed : v[slot] = u[slot]
        /\ v.active_intent = NULL /\ v.room_id = room
    BY <1>3 DEF Update, SlotNames
  <1>. HIDE DEF v
  <1>7. v \in Update
    <2>1. \A slot \in changed : v[slot] \in SlotType[slot]
      BY <1>2, <1>6, OptionalHas DEF SlotType
    <2>2. changed \in SUBSET SlotNames
      BY DEF SlotNames
    <2>. HIDE DEF changed
    <2>. QED BY <1>3, <1>6, <2>1, <2>2, ChangedUpdate
  <1>8. v.availability_status = NULL
    BY <1>3, <1>6 DEF SlotNames
  <1>9. IsAboutAStay(ApplyUpdate(live, v, ClearedByBooking))
    BY <1>1, <1>7, <1>8, VerdictDropped DEF ClearedByBooking
  <1>10. /\ p.tool = "create_booking" /\ p.room_id = room /\ p.resort_id = s.resort_id
         /\ p.check_in_date = f.check_in /\ p.check_out_date = f.check_out
         /\ p.adults = f.adults /\ p.children = f.children
         /\ p \in Proposal
    BY <1>1, <1>2, StateSlots DEF BookingProposal, Proposal
  <1>. HIDE DEF p
  <1>11. /\ response.reply = [type |-> "assistant_message_with_proposals", proposal |-> p]
         /\ response.update = v /\ response.clear = ClearedByBooking
    BY DEF Propose, DomainResponse
  <1>. HIDE DEF response
  <1>12. ReplyFits(response.reply, g, r)
    <2>1. response.reply \in Reply /\ response.reply.proposal = p
      <3>1. p \in Proposal
        BY <1>10
      <3>2. [type |-> "assistant_message_with_proposals", proposal |-> p] \in Reply
        BY <3>1, ReplyTypes
      <3>. QED BY <1>11, <3>2
    <2>2. p.tool = "create_booking" /\ p.tool # "validate_guest_check_in"
      BY <1>10
    <2>3. ToolAllowed(r, p.tool)
      BY <1>10
    <2>4. /\ p.room_id \in g.available /\ p.resort_id = ResortOf[p.room_id]
          /\ p.check_in_date = g.check_in /\ p.check_out_date = g.check_out
      BY <1>2, <1>4, <1>10
    <2>5. p.adults = g.adults /\ p.children = g.children
      BY <1>4, <1>10
    <2>. QED BY <2>1, <2>2, <2>3, <2>4, <2>5 DEF ReplyFits
  <1>. QED BY <1>4, <1>5, <1>7, <1>9, <1>11, <1>12, FinishKeeps

\* The rooms free for the stay arrive.
LEMMA InventoryArrivesKeeps ==
  ASSUME IInv, NEW t \in Turn, NEW available \in SUBSET Rooms,
         InventoryArrives(t, available)
  PROVE  IInv'
  <1>0. PICK selected \in SelectRoom(request[t], available) :
           WithRooms(t, available, selected)
    BY DEF InventoryArrives
  <1>. DEFINE r        == request[t]
              live     == Live(t)
              s        == frame[t].state
              f        == [frame[t] EXCEPT !.available = available]
              settled  == selected # NULL \/ Cardinality(available) = 1
              room     == IF selected # NULL THEN selected
                                             ELSE CHOOSE free \in available : TRUE
              claims   == ClaimsOf(s, f)
              failed   == WithStatus(claims, "unavailable", 1)
              offered  == WithStatus(claims, "available_options", 0)
              chosen   == [WithMissing(offered, {}) EXCEPT !.room_id = room]
              g        == [f EXCEPT !.room = selected]
              booking  == Propose(BookingProposal(s, f, room),
                                  [claims EXCEPT !.active_intent = NULL, !.room_id = room],
                                  ClearedByBooking)
  <1>1. /\ Ready(t, r, live) /\ live \in State /\ IsAboutAStay(live)
        /\ frame[t] \in Frame /\ FrameFits("inventory", frame[t], r)
        /\ available \subseteq RoomsOf(s.resort_id)
    BY TurnReady DEF InventoryArrives
  <1>2. /\ s \in State /\ s.resort_id # NULL
        /\ f.state = s /\ f.available = available /\ f \in Frame
        /\ f.check_in \in Nat /\ f.check_out \in Nat
        /\ f.adults \in Nat /\ f.children \in Nat
        /\ FrameFits("inventory", f, r)
    BY <1>1 DEF FrameFits, Frame
  <1>3. \/ Respond(t, r, live, Tell(WithMissing(failed, {}), {}))
        \/ Respond(t, r, live, Tell(WithMissing(offered, {"room_id"}), {}))
        \/ Respond(t, r, live, Ask(WithMissing(offered, {"room_id"})))
        \/ selected # NULL /\ Await(t, r, live, g, "services")
        \/ settled /\ Respond(t, r, live, Tell(chosen, {}))
        \/ /\ settled /\ ToolAllowed(r, "create_booking")
           /\ Finish(t, r, live, [f EXCEPT !.state = NULL], "polish", booking)
    BY <1>0 DEF WithRooms
  <1>4. selected # NULL => selected \in available
    BY SelectRoomType
  <1>. HIDE DEF r, live, f
  <1>5. settled => room \in available
    BY <1>4, FS_EmptySet
  <1>6. BringsVerdict(failed) /\ BringsVerdict(offered)
    BY <1>2, StatusUpdateType DEF ClaimsOf, Statuses
  <1>. HIDE DEF room, settled, claims, failed, offered
  <1>7. /\ BringsVerdict(WithMissing(failed, {}))
        /\ BringsVerdict(WithMissing(offered, {}))
        /\ BringsVerdict(WithMissing(offered, {"room_id"}))
    BY <1>6, MissingKeeps DEF BringsVerdict, Askable
  <1>8. CASE Respond(t, r, live, Tell(WithMissing(failed, {}), {}))
    BY <1>1, <1>7, <1>8, BroughtIsSound, RespondKeeps
  <1>9. CASE Respond(t, r, live, Tell(WithMissing(offered, {"room_id"}), {}))
    BY <1>1, <1>7, <1>9, BroughtIsSound, RespondKeeps
  <1>10. CASE Respond(t, r, live, Ask(WithMissing(offered, {"room_id"})))
    BY <1>1, <1>7, <1>10, BroughtIsSound, RespondKeeps
  <1>11. CASE selected # NULL /\ Await(t, r, live, g, "services")
    <2>1. selected \in Rooms
      BY <1>4, <1>11
    <2>2. g \in Frame
      BY <1>2, <2>1, OptionalHas DEF Frame
    <2>3. g.room = selected /\ \A field \in FrameFields \ {"room"} : g[field] = f[field]
      BY <1>2 DEF Frame, FrameFields
    <2>4. FrameFits("services", g, r)
      BY <1>2, <2>1, <2>3 DEF FrameFields, FrameFits
    <2>. HIDE DEF g
    <2>. QED BY <1>1, <1>11, <2>2, <2>4, AwaitKeeps DEF Awaits
  <1>12. CASE settled /\ Respond(t, r, live, Tell(chosen, {}))
    <2>1. BringsVerdict(chosen)
      BY <1>5, <1>7, <1>12, RoomKeeps
    <2>. HIDE DEF chosen
    <2>. QED BY <1>1, <1>12, <2>1, BroughtIsSound, RespondKeeps
  <1>13. CASE /\ settled /\ ToolAllowed(r, "create_booking")
              /\ Finish(t, r, live, [f EXCEPT !.state = NULL], "polish", booking)
    BY <1>1, <1>2, <1>5, <1>13, BookingProposed DEF claims
  <1>. QED BY <1>3, <1>8, <1>9, <1>10, <1>11, <1>12, <1>13


\* The add-on catalog arrives.
LEMMA ServicesArriveKeeps ==
  ASSUME IInv, NEW t \in Turn, NEW catalog \in SUBSET Services, ServicesArrive(t, catalog)
  PROVE  IInv'
  <1>. DEFINE r    == request[t]
              live == Live(t)
              f    == frame[t]
              s    == f.state
              u    == WithMissing(ClaimsOf(s, f), {})
              v    == [u EXCEPT !.availability_status = "available_options",
                                !.room_id             = f.room,
                                !.selected_service    = s.selected_service,
                                !.known_services      = catalog]
              changed == {"availability_status", "room_id", "selected_service",
                          "known_services"}
  <1>1. /\ Ready(t, r, live) /\ live \in State /\ IsAboutAStay(live)
        /\ f \in Frame /\ FrameFits("services", f, r)
        /\ Respond(t, r, live, Tell(v, {}))
    BY TurnReady DEF ServicesArrive
  <1>2. /\ s \in State /\ s.resort_id # NULL /\ s.selected_service \in Optional(Services)
        /\ f.check_in \in Nat /\ f.check_out \in Nat
        /\ f.adults \in Nat /\ f.children \in Nat /\ f.room \in Rooms
    BY <1>1, StateSlots DEF FrameFits
  <1>. HIDE DEF f, s
  <1>3. /\ u \in Update
        /\ u.check_in_date = f.check_in /\ u.check_out_date = f.check_out
        /\ u.adults = f.adults /\ u.children = f.children /\ u.resort_id = s.resort_id
    <2>. DEFINE w == ClaimsOf(s, f)
    <2>1. /\ w \in Update
          /\ w.check_in_date = f.check_in /\ w.check_out_date = f.check_out
          /\ w.adults = f.adults /\ w.children = f.children /\ w.resort_id = s.resort_id
      BY <1>2, ClaimsType
    <2>. HIDE DEF w
    <2>2. WithMissing(w, {}) \in Update
      BY <2>1, MissingKeeps
    <2>3. \A slot \in StaySlots : WithMissing(w, {})[slot] = w[slot]
      BY <2>1 DEF WithMissing, Update, StaySlots
    <2>. QED BY <2>1, <2>2, <2>3 DEF w, StaySlots
  <1>. HIDE DEF u
  <1>4. /\ v = [slot \in SlotNames |-> v[slot]]
        /\ \A slot \in SlotNames \ changed : v[slot] = u[slot]
        /\ v.availability_status = "available_options" /\ v.room_id = f.room
        /\ v.selected_service = s.selected_service /\ v.known_services = catalog
    BY <1>3 DEF Update, SlotNames
  <1>. HIDE DEF v
  <1>5. "available_options" \in Statuses /\ "available_options" # "unavailable"
    BY DEF Statuses
  <1>6. v \in Update
    <2>1. \A slot \in changed : v[slot] \in SlotType[slot]
      BY <1>2, <1>4, <1>5, OptionalHas DEF SlotType
    <2>2. changed \in SUBSET SlotNames
      BY DEF SlotNames
    <2>. HIDE DEF changed
    <2>. QED BY <1>3, <1>4, <2>1, <2>2, ChangedUpdate
  <1>7. \A slot \in StaySlots : v[slot] # NULL
    BY <1>2, <1>3, <1>4, NullIsFresh DEF StaySlots, SlotNames
  <1>8. "available_options" # NULL
    BY <1>5, NullIsFresh
  <1>9. BringsVerdict(v)
    BY <1>4, <1>5, <1>6, <1>7, <1>8 DEF BringsVerdict
  <1>. HIDE DEF r, live
  <1>. QED BY <1>1, <1>9, BroughtIsSound, RespondKeeps

\* The searches of other dates end.
LEMMA AlternativesArriveKeeps ==
  ASSUME IInv, NEW t \in Turn, AlternativesArrive(t)
  PROVE  IInv'
  <1>. DEFINE r      == request[t]
              live   == Live(t)
              f      == frame[t]
              s      == f.state
              claims == SearchUpdate(s, s.check_in_date, s.check_out_date,
                                     f.adults, f.children)
              found  == WithStatus(claims, "alternative_options", 0)
              failed == WithStatus(claims, "unavailable", s.retry_count + 1)
  <1>1. /\ Ready(t, r, live) /\ live \in State
        /\ FrameFits("alternatives", f, r)
    BY TurnReady DEF AlternativesArrive
  <1>2. /\ s \in State /\ s.resort_id # NULL
        /\ s.check_in_date \in Nat /\ s.check_out_date \in Nat
        /\ f.adults \in Nat /\ f.children \in Nat
    BY <1>1, StateSlots, OptionalHas DEF FrameFits, HasDates
  <1>3. s.retry_count + 1 \in Nat /\ s.retry_count + 1 # 0
    <2>1. s.retry_count \in Nat
      BY <1>2, StateSlots
    <2>. QED BY <2>1
  <1>4. BringsVerdict(found)
    BY <1>2, StatusUpdateType DEF Statuses
  <1>5. BringsVerdict(failed)
    BY <1>2, <1>3, StatusUpdateType DEF Statuses
  <1>6. \/ Respond(t, r, live, Tell(found, {}))
        \/ Respond(t, r, live, Tell(failed, {}))
    BY DEF AlternativesArrive
  <1>. HIDE DEF r, live, found, failed
  <1>. QED BY <1>1, <1>4, <1>5, <1>6, BroughtIsSound, RespondKeeps

\* The booking record arrives.
LEMMA RecordArrivesKeeps ==
  ASSUME IInv, NEW t \in Turn, RecordArrives(t)
  PROVE  IInv'
  <1>1. Ready(t, request[t], Live(t)) /\ Live(t) \in State /\ IsAboutAStay(Live(t))
    BY TurnReady DEF RecordArrives
  <1>. QED
    BY <1>1, NothingIsSound, RespondKeeps DEF RecordArrives

-----------------------------------------------------------------------------
(***************************************************************************)
(* The service.                                                            *)
(***************************************************************************)
\* Whichever agent the planner chooses.
LEMMA DispatchKeeps ==
  ASSUME NEW t, NEW r, NEW live, Ready(t, r, live), Dispatch(t, r, live)
  PROVE  IInv'
  <1>1. CASE HandleBooking(t, r, live)
    BY <1>1, BookingKeeps
  <1>2. CASE HandleRecommendation(t, r, live)
    BY <1>2, EmptyAwaitKeeps DEF HandleRecommendation
  <1>3. CASE HandleServiceRequest(t, r, live)
    BY <1>3, ServiceRequestKeeps
  <1>4. CASE HandleCheckIn(t, r, live)
    BY <1>4, CheckInKeeps
  <1>5. CASE HandleWelcome(t, r, live)
    BY <1>5, EmptyAwaitKeeps DEF HandleWelcome
  <1>6. ASSUME NEW intent, HandleInteraction(t, r, live, intent) PROVE IInv'
    BY <1>6, InteractionKeeps
  <1>7. CASE HandleKnowledge(t, r, live)
    BY <1>7, EmptyAwaitKeeps DEF HandleKnowledge
  <1>8. \/ HandleBooking(t, r, live) \/ HandleRecommendation(t, r, live)
        \/ HandleServiceRequest(t, r, live) \/ HandleCheckIn(t, r, live)
        \/ HandleWelcome(t, r, live) \/ HandleKnowledge(t, r, live)
        \/ HandleInteraction(t, r, live, PlanFor(r.msg, r.ctx, live).intent)
    BY DEF Dispatch
  <1>. QED BY <1>1, <1>2, <1>3, <1>4, <1>5, <1>6, <1>7, <1>8

\* A turn begins.
LEMMA BeginKeeps ==
  ASSUME IInv, NEW t \in Turn, NEW received \in Request, Begin(t, received)
  PROVE  IInv'
  <1>. DEFINE live == ApplyRequestContext(store[received.conv], received.ctx)
              r    == [received EXCEPT !.ctx = MergeBookingContext(live, @)]
  <1>2. received.conv \in Conversations /\ received.ctx \in Context
    BY DEF Request
  <1>3. store[received.conv] \in State /\ IsAboutAStay(store[received.conv])
    BY <1>2 DEF IInv, TypeOK, VerdictIsComplete
  <1>4. live \in State /\ IsAboutAStay(live)
    BY <1>2, <1>3, ContextTypes
  <1>5. \/ RespondUnpolished(t, r, live, Handover(NoUpdate))
        \/ RespondUnpolished(t, r, live, ServerError)
        \/ Dispatch(t, r, live)
    BY DEF Begin
  <1>. HIDE DEF live
  <1>6. r \in Request
    <2>1. MergeBookingContext(live, received.ctx) \in Context
      BY <1>2, <1>4, ContextTypes
    <2>. QED BY <2>1 DEF Request
  <1>. HIDE DEF r
  <1>7. Ready(t, r, live)
    BY <1>4, <1>6 DEF Ready
  <1>. QED BY <1>4, <1>5, <1>7, DispatchKeeps, NothingIsSound, RespondKeeps

\* The invariant holds when the service starts.
LEMMA InitIsInvariant == Init => IInv
  <1>. SUFFICES ASSUME Init PROVE IInv
    OBVIOUS
  <1>. USE DEF Init, InitTurns
  <1>1. TypeOK
    BY FreshStateType, NoFrameType, OptionalHas DEF TypeOK, Steps
  <1>2. VerdictIsComplete
    BY NullIsFresh DEF VerdictIsComplete, IsAboutAStay, FreshState, Statuses
  <1>3. \A t \in Turn : FrameFits(pc[t], frame[t], request[t]) /\ ~Answered(t)
    BY DEF FrameFits, Answered
  <1>. QED BY <1>1, <1>2, <1>3 DEF IInv

\* Every step keeps it.
LEMMA NextKeeps == IInv /\ [Next]_vars => IInv'
  <1>. SUFFICES ASSUME IInv, [Next]_vars PROVE IInv'
    OBVIOUS
  <1>1. CASE UNCHANGED vars
    BY <1>1 DEF vars, IInv, TypeOK, VerdictIsComplete, Answered
  <1>2. ASSUME NEW t \in Turn, NEW r \in Requests, Begin(t, r) PROVE IInv'
    BY <1>2, RequestsAreWellFormed, BeginKeeps
  <1>3. ASSUME NEW t \in Turn, ServerAnswers(t) PROVE IInv'
    BY <1>3, ResortsArriveKeeps, InventoryArrivesKeeps, ServicesArriveKeeps,
       RankingArrivesKeeps, ReadinessArrivesKeeps, AlternativesArriveKeeps,
       RecordArrivesKeeps, StayArrivesKeeps, WelcomeArrivesKeeps,
       KnowledgeArrivesKeeps, PolishedKeeps DEF ServerAnswers
  <1>4. ASSUME NEW t \in Turn, ServerFails(t) PROVE IInv'
    BY <1>4, FailureKeeps
  <1>5. ASSUME NEW t \in Turn, Deliver(t) PROVE IInv'
    BY <1>5, DeliverKeeps
  <1>. QED BY <1>1, <1>2, <1>3, <1>4, <1>5 DEF Next, Advance

\* So it holds for ever.
LEMMA Invariance == Spec => []IInv
  BY InitIsInvariant, NextKeeps, PTL DEF Spec

\* What the invariant says of the properties.
LEMMA InvariantImplies ==
  IInv => TypeOK /\ VerdictIsComplete /\ BookingIsGrounded /\ ProposalIsAllowed
  <1>. SUFFICES ASSUME IInv
                PROVE  TypeOK /\ VerdictIsComplete /\ BookingIsGrounded /\ ProposalIsAllowed
    OBVIOUS
  <1>1. TypeOK /\ VerdictIsComplete
    BY DEF IInv
  <1>2. BookingIsGrounded
    BY DEF IInv, BookingIsGrounded, Proposes, ReplyFits
  <1>3. ProposalIsAllowed
    BY DEF IInv, ProposalIsAllowed, ReplyFits, ToolAllowed
  <1>. QED BY <1>1, <1>2, <1>3

\* Memory, suspended coroutines and answers are well-formed at every moment.
THEOREM TypeCorrect == Spec => []TypeOK
  BY Invariance, InvariantImplies, PTL

\* However turns overlap, fail or answer late, a stored availability verdict is
\* about one whole stay.
THEOREM VerdictIsAlwaysComplete == Spec => []VerdictIsComplete
  BY Invariance, InvariantImplies, PTL

\* However turns overlap, a proposed booking is for a room the backend
\* reported free in that very turn, for the proposed stay.
THEOREM BookingsAreGrounded == Spec => []BookingIsGrounded
  BY Invariance, InvariantImplies, PTL

\* No agent proposes a write its request does not allow, nor a check-in to
\* anyone but staff.
THEOREM ProposalsAreAllowed == Spec => []ProposalIsAllowed
  BY Invariance, InvariantImplies, PTL

=============================================================================
