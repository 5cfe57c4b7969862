---------------------- MODULE ProposalExecution_proofs ----------------------
(***************************************************************************)
(* Theorems about the terminal chat: for any number of proposals, POSTs    *)
(* and bookings, what it prints is so and it implements the life cycle of  *)
(* a proposal.                                                             *)
(***************************************************************************)
EXTENDS ProposalExecution, TLAPS

\* An execution is of the proposal on offer, and its POST is its own.
ExecutionFits ==
    execution # NULL =>
        /\ pending # NULL /\ pending.id = execution.id
        /\ execution.id \in tried
        /\ execution.post.by = execution.id
        /\ execution.post.kind = "create_booking" =>
              execution.proposal.tool = "create_booking"
        /\ execution.post.kind = "add_on" =>
              /\ execution.booking \in Booking
              /\ Denotes(execution.booking.id, execution.id)
              /\ execution.id \in WrittenFor

\* A favourable reply is about the POST being awaited, which was accepted.
AnswerFits ==
    execution # NULL /\ answer # NULL /\ answer.ok = "yes" =>
        /\ execution.post \in written
        /\ execution.post.kind = "create_booking" =>
              /\ answer.booking \in Booking
              /\ Denotes(answer.booking.id, execution.id)

\* Proposals are pending or done, not both, and POSTs were asked for.
RecordsFit ==
    /\ pending # NULL => pending.id \in seen \ done
    /\ done \subseteq seen
    /\ tried \subseteq seen
    /\ \A post \in wire \cup written : post.by \in tried
    /\ \A post \in wire : post.kind = "create_booking" =>
          post.proposal.tool = "create_booking"

IInv == TypeOK /\ ExecutionFits /\ AnswerFits /\ RecordsFit /\ ToldIsTrue

USE DEF chatVars, backendVars, historyVars

-----------------------------------------------------------------------------
(***************************************************************************)
(* The inductive invariant.                                                *)
(***************************************************************************)

\* The fields of well-formed records.
LEMMA Fields ==
  ASSUME TypeOK
  PROVE  /\ execution # NULL =>
               /\ execution \in Execution
               /\ execution.id \in Ids /\ execution.proposal \in Proposals
               /\ execution.post \in Post /\ execution.post.by \in Ids
               /\ execution.post.kind \in PostKinds
               /\ execution.booking # NULL => execution.booking \in Booking
         /\ pending # NULL =>
               pending \in Offered /\ pending.id \in Ids /\ pending.proposal \in Proposals
         /\ answer # NULL =>
               /\ answer \in Answer
               /\ answer.booking # NULL => answer.booking \in Booking
  BY DEF TypeOK, Optional, Execution, Offered, Answer, Post

\* What a POST of a pending proposal looks like.
LEMMA NewPostFits ==
  ASSUME TypeOK, NEW id \in Ids, NEW proposal \in Proposals, NEW kind \in PostKinds
  PROVE  /\ NewPost(id, kind, proposal) \in Post
         /\ NewPost(id, kind, proposal).by = id
         /\ NewPost(id, kind, proposal).kind = kind
         /\ NewPost(id, kind, proposal).proposal = proposal
  BY DEF TypeOK, NewPost, Post

\* Accepting more POSTs never undoes what was accepted.
LEMMA WrittenForGrows ==
  ASSUME written \subseteq written'
  PROVE  WrittenFor \subseteq WrittenFor'
  BY DEF WrittenFor

\* Starting an execution of a proposal that is on offer.
LEMMA ExecuteKeeps ==
  ASSUME IInv, NEW id \in Ids, NEW proposal \in Proposals,
         Execute(id, proposal), pending' = [id |-> id, proposal |-> proposal],
         seen' \subseteq Ids, seen \subseteq seen', id \in seen' \ done, done' = done
  PROVE  IInv'
  <1>. DEFINE post == NewPost(id, proposal.tool, proposal)
  <1>1. proposal.tool \in PostKinds /\ proposal.tool # "add_on"
    BY ExecutionAssumption DEF Execute, PostKinds
  <1>2. /\ post \in Post /\ post.by = id /\ post.kind = proposal.tool
        /\ post.proposal = proposal
    BY <1>1, NewPostFits DEF IInv
  <1>. HIDE DEF post
  <1>3. /\ wire' = wire \cup {post} /\ posts' = post.n /\ tried' = tried \cup {id}
        /\ answer' = NULL /\ bookings' = bookings /\ written' = written
        /\ execution' = [id |-> id, proposal |-> proposal, post |-> post,
                         booking |-> NULL]
        /\ outcome' = NULL /\ context' = context
    BY <1>2 DEF Execute, Sends, post
  <1>4. TypeOK'
    <2>1. execution' \in Optional(Execution)
      BY <1>2, <1>3 DEF Execution, Optional
    <2>2. pending' \in Optional(Offered)
      BY DEF Offered, Optional
    <2>3. posts' \in Nat
      BY <1>2, <1>3 DEF Post
    <2>4. /\ context' \in ChatContext /\ outcome' \in Optional(Outcome)
          /\ wire' \subseteq Post /\ answer' \in Optional(Answer)
          /\ bookings' \subseteq Reservation /\ written' \subseteq Post
          /\ tried' \subseteq Ids /\ seen' \subseteq Ids /\ done' \subseteq Ids
      BY <1>2, <1>3 DEF IInv, TypeOK, Optional
    <2>. QED BY <2>1, <2>2, <2>3, <2>4 DEF TypeOK
  <1>5. ExecutionFits'
    <2>1. pending' # NULL
      BY RecordsAreNotNull DEF Offered
    <2>. QED BY <1>1, <1>2, <1>3, <2>1 DEF ExecutionFits
  <1>6. AnswerFits' /\ ToldIsTrue'
    BY <1>3 DEF AnswerFits, ToldIsTrue
  <1>7. RecordsFit'
    <2>1. pending'.id = id
      OBVIOUS
    <2>. QED BY <1>2, <1>3, <2>1 DEF IInv, RecordsFit
  <1>. QED BY <1>4, <1>5, <1>6, <1>7 DEF IInv

\* A failed execution leaves everything but itself as it was.
LEMMA FailureKeeps ==
  ASSUME IInv, execution # NULL, ExecutionFails
  PROVE  IInv'
  <1>1. TypeOK'
    <2>1. outcome' \in Optional(Outcome)
      BY Fields DEF IInv, ExecutionFails, Prints, Outcome, Optional, Lines
    <2>. QED BY <2>1 DEF IInv, TypeOK, ExecutionFails, Optional
  <1>2. ExecutionFits' /\ AnswerFits' /\ RecordsFit'
    BY DEF IInv, ExecutionFits, AnswerFits, RecordsFit, ExecutionFails
  <1>3. ToldIsTrue'
    BY DEF ExecutionFails, Prints, ToldIsTrue
  <1>. QED BY <1>1, <1>2, <1>3 DEF IInv

\* A booking that was made may be reported.
LEMMA BookingKeeps ==
  ASSUME IInv, execution # NULL, NEW b \in Booking, Denotes(b.id, execution.id),
         NEW line \in {"booked", "service booked", "service requested"},
         line = "service booked" =>
             \E post \in written : post.by = execution.id /\ post.kind = "add_on",
         BookingSucceeds(b, line)
  PROVE  IInv'
  <1>. USE DEF BookingSucceeds, Succeeds, Prints
  <1>1. b \in Booking /\ b.id \in Bookings /\ b.room \in Optional(Rooms)
        /\ b.resort \in Optional(Resorts) /\ b.status \in Optional(BookingStates)
    BY DEF Booking
  <1>2. execution.id \in Ids /\ execution.id \in seen
    BY Fields DEF IInv, ExecutionFits, RecordsFit
  <1>3. context' \in ChatContext
    <2>1. context \in ChatContext
      BY DEF IInv, TypeOK
    <2>. QED BY <1>1, <2>1 DEF ChatContext, Or, Optional
  <1>4. outcome' \in Optional(Outcome)
    BY <1>1, <1>2 DEF Outcome, Optional, Lines
  <1>5. TypeOK'
    BY <1>2, <1>3, <1>4 DEF IInv, TypeOK, Optional
  <1>6. ExecutionFits' /\ AnswerFits' /\ RecordsFit'
    BY <1>2 DEF IInv, ExecutionFits, AnswerFits, RecordsFit
  <1>7. ToldIsTrue'
    <2>1. outcome'.id = execution.id /\ outcome'.line = line /\ outcome'.booking = b.id
      OBVIOUS
    <2>2. b.id # NULL
      BY <1>1, NullIsFresh
    <2>3. line # "executed"
      OBVIOUS
    <2>4. Denotes(outcome.booking, outcome.id)'
      BY <2>1 DEF Denotes
    <2>. QED BY <2>1, <2>2, <2>3, <2>4 DEF ToldIsTrue
  <1>. QED BY <1>5, <1>6, <1>7 DEF IInv

\* Any line about the add-on or the booking ends the execution soundly.
LEMMA AddOnKeeps ==
  ASSUME IInv, AwaitsAddOn, NEW line \in {"service booked", "service requested"},
         line = "service booked" => execution.post \in written,
         BookingSucceeds(execution.booking, line)
  PROVE  IInv'
  <1>1. execution.booking \in Booking /\ Denotes(execution.booking.id, execution.id)
        /\ execution.post.by = execution.id /\ execution.post.kind = "add_on"
    BY DEF IInv, ExecutionFits, AwaitsAddOn
  <1>. QED BY <1>1, BookingKeeps DEF AwaitsAddOn

\* Resuming a suspended execution.
LEMMA ResumesKeeps ==
  ASSUME IInv, Resumes
  PROVE  IInv'
  <1>1. CASE BookingMade
    <2>. DEFINE b == answer.booking
                post == NewPost(execution.id, "add_on", execution.proposal)
    <2>1. /\ execution # NULL /\ answer # NULL /\ answer.ok = "yes"
          /\ execution.post.kind = "create_booking"
          /\ b \in Booking /\ Denotes(b.id, execution.id)
          /\ execution.post \in written /\ execution.post.by = execution.id
      BY <1>1 DEF BookingMade, AwaitsBooking, IInv, AnswerFits, ExecutionFits
    <2>2. CASE /\ Sends(post)
               /\ execution' = [execution EXCEPT !.post = post, !.booking = b]
               /\ UNCHANGED <<context, pending, outcome, seen, done>>
      <3>1. /\ execution \in Execution /\ execution.id \in Ids
            /\ execution.proposal \in Proposals /\ b \in Booking
        BY <2>1, Fields DEF IInv
      <3>2. /\ post \in Post /\ post.by = execution.id /\ post.kind = "add_on"
            /\ post.n \in Nat
        <4>1. "add_on" \in PostKinds
          BY DEF PostKinds
        <4>. QED BY <3>1, <4>1, NewPostFits DEF IInv, Post
      <3>. HIDE DEF post, b
      <3>3. /\ wire' = wire \cup {post} /\ posts' = post.n
            /\ tried' = tried \cup {execution.id} /\ answer' = NULL
            /\ bookings' = bookings /\ written' = written
        BY <2>2, <3>2 DEF Sends
      <3>4. /\ execution' \in Execution /\ execution'.id = execution.id
            /\ execution'.post = post /\ execution'.booking = b
            /\ execution'.proposal = execution.proposal
        BY <2>2, <3>1, <3>2 DEF Execution, Optional
      <3>5. execution.id \in WrittenFor /\ WrittenFor' = WrittenFor
        BY <2>1, <3>1, <3>3 DEF WrittenFor
      <3>6. TypeOK'
        BY <2>2, <3>1, <3>2, <3>3, <3>4 DEF IInv, TypeOK, Optional
      <3>7. ExecutionFits'
        <4>1. Denotes(execution.booking.id, execution.id)'
          BY <2>1, <3>3, <3>4 DEF Denotes
        <4>. QED BY <2>1, <2>2, <3>2, <3>3, <3>4, <3>5, <4>1 DEF IInv, ExecutionFits
      <3>8. AnswerFits' /\ ToldIsTrue'
        BY <2>2, <3>3 DEF AnswerFits, ToldIsTrue, IInv, Denotes
      <3>9. RecordsFit'
        <4>1. execution.id \in tried
          BY <2>1 DEF IInv, ExecutionFits
        <4>. QED BY <2>2, <3>2, <3>3, <4>1 DEF IInv, RecordsFit
      <3>. QED BY <3>6, <3>7, <3>8, <3>9 DEF IInv
    <2>3. CASE BookingSucceeds(b, "service requested") \/ BookingSucceeds(b, "booked")
      BY <2>1, <2>3, BookingKeeps
    <2>. QED BY <1>1, <2>2, <2>3 DEF BookingMade
  <1>2. CASE AddOnMade
    <2>1. AwaitsAddOn /\ execution.post \in written
      BY <1>2 DEF AddOnMade, AwaitsAddOn, IInv, AnswerFits
    <2>2. CASE answer.priced
      BY <1>2, <2>1, <2>2, AddOnKeeps DEF AddOnMade
    <2>3. CASE ~answer.priced
      BY <1>2, <2>1, <2>3, AddOnKeeps DEF AddOnMade
    <2>. QED BY <2>2, <2>3
  <1>3. CASE ServiceMade
    <2>. USE DEF ServiceMade, Succeeds, Prints
    <2>1. /\ execution.id \in Ids /\ execution.id \in seen /\ execution # NULL
          /\ execution.post \in written /\ execution.post.by = execution.id
          /\ execution.post.kind \in PostKinds
      BY <1>3, Fields DEF IInv, ExecutionFits, RecordsFit, AnswerFits
    <2>2. outcome' \in Optional(Outcome)
      BY <1>3, <2>1 DEF Outcome, Optional, Lines
    <2>3. TypeOK'
      BY <1>3, <2>1, <2>2 DEF IInv, TypeOK, Optional
    <2>4. ExecutionFits' /\ AnswerFits' /\ RecordsFit'
      BY <1>3, <2>1 DEF IInv, ExecutionFits, AnswerFits, RecordsFit
    <2>5. ToldIsTrue'
      <3>1. /\ outcome'.id = execution.id /\ outcome'.line = "executed"
            /\ outcome'.booking = NULL /\ written' = written
        BY <1>3
      <3>2. execution.post \in {q \in written' : q.by = outcome'.id}
        BY <2>1, <3>1
      <3>. QED BY <3>1, <3>2 DEF ToldIsTrue
    <2>. QED BY <2>3, <2>4, <2>5 DEF IInv
  <1>4. CASE Refused
    BY <1>4, FailureKeeps, AddOnKeeps DEF Refused, AddOnMissed
  <1>5. CASE Unreadable
    BY <1>5, FailureKeeps DEF Unreadable
  <1>6. CASE GivesUp
    BY <1>6, FailureKeeps, AddOnKeeps DEF GivesUp, AddOnMissed
  <1>. QED BY <1>1, <1>2, <1>3, <1>4, <1>5, <1>6 DEF Resumes

\* How a suspended execution goes on or ends: the chat adopts a booking exactly
\* when it tells the guest of it.
LEMMA ResumeEnds ==
  ASSUME IInv, Resumes
  PROVE  \/ execution' # NULL /\ UNCHANGED context
         \/ execution' = NULL /\ outcome'.booking = NULL /\ UNCHANGED context
         \/ /\ execution' = NULL /\ outcome'.booking # NULL
            /\ context'.booking_id = outcome'.booking
  <1>1. ASSUME NEW b \in Booking, NEW line, BookingSucceeds(b, line)
        PROVE  /\ execution' = NULL /\ outcome'.booking # NULL
               /\ context'.booking_id = outcome'.booking
    <2>1. b.id \in Bookings
      BY DEF Booking
    <2>2. b.id # NULL
      BY <2>1, NullIsFresh
    <2>. QED BY <1>1, <2>2 DEF BookingSucceeds, Succeeds, Prints
  <1>2. ASSUME ExecutionFails
        PROVE  execution' = NULL /\ outcome'.booking = NULL /\ UNCHANGED context
    BY <1>2 DEF ExecutionFails, Prints
  <1>3. ASSUME AwaitsAddOn, NEW line, BookingSucceeds(execution.booking, line)
        PROVE  /\ execution' = NULL /\ outcome'.booking # NULL
               /\ context'.booking_id = outcome'.booking
    BY <1>1, <1>3 DEF AwaitsAddOn, IInv, ExecutionFits
  <1>4. CASE BookingMade
    <2>. DEFINE b == answer.booking
                post == NewPost(execution.id, "add_on", execution.proposal)
    <2>1. execution # NULL /\ b \in Booking
      BY <1>4 DEF BookingMade, AwaitsBooking, IInv, AnswerFits
    <2>2. CASE /\ execution' = [execution EXCEPT !.post = post, !.booking = b]
               /\ UNCHANGED context
      <3>1. execution \in Execution /\ post \in Post /\ b \in Booking
        <4>1. "add_on" \in PostKinds /\ execution.id \in Ids /\ execution.proposal \in Proposals
          BY <2>1, Fields DEF IInv, PostKinds
        <4>. QED BY <2>1, <4>1, Fields, NewPostFits DEF IInv, TypeOK
      <3>. HIDE DEF post, b
      <3>2. execution' \in Execution
        BY <2>2, <3>1 DEF Execution, Optional
      <3>. QED BY <2>2, <3>2, RecordsAreNotNull
    <2>3. CASE BookingSucceeds(b, "service requested") \/ BookingSucceeds(b, "booked")
      BY <1>1, <2>1, <2>3
    <2>. QED BY <1>4, <2>2, <2>3 DEF BookingMade
  <1>5. CASE AddOnMade
    <2>1. \E line : BookingSucceeds(execution.booking, line)
      BY <1>5 DEF AddOnMade
    <2>. QED BY <1>3, <1>5, <2>1 DEF AddOnMade
  <1>6. CASE ServiceMade
    BY <1>6 DEF ServiceMade, Succeeds, Prints
  <1>7. CASE Refused \/ Unreadable \/ GivesUp
    BY <1>2, <1>3, <1>7 DEF Refused, Unreadable, GivesUp, AddOnMissed
  <1>. QED BY <1>4, <1>5, <1>6, <1>7 DEF Resumes

\* A POST reaches the backend: late, awaited or not, once.
LEMMA BackendKeeps ==
  ASSUME IInv, Backend
  PROVE  IInv'
  <1>1. PICK post \in wire : BackendAccepts(post) \/ BackendRefuses(post)
    BY DEF Backend
  <1>2. post \in Post /\ post.by \in Ids /\ post.by \in tried /\ post.proposal \in Proposals
    BY DEF IInv, TypeOK, Post, RecordsFit
  <1>3. CASE BackendRefuses(post)
    <2>. USE DEF BackendRefuses, Replies, Awaited
    <2>1. answer' \in Optional(Answer)
      BY <1>3 DEF IInv, TypeOK, Answer, Optional
    <2>2. TypeOK'
      BY <1>3, <2>1 DEF IInv, TypeOK
    <2>3. ExecutionFits' /\ RecordsFit' /\ ToldIsTrue'
      BY <1>3 DEF IInv, ExecutionFits, RecordsFit, ToldIsTrue, WrittenFor, Denotes
    <2>4. AnswerFits'
      BY <1>3 DEF IInv, AnswerFits, Denotes
    <2>. QED BY <2>2, <2>3, <2>4 DEF IInv
  <1>4. CASE BackendAccepts(post)
    <2>. USE DEF BackendAccepts, Replies, Awaited
    <2>1. /\ wire' = wire \ {post} /\ written' = written \cup {post}
          /\ UNCHANGED <<context, pending, execution, outcome, posts, tried, seen, done>>
      BY <1>4
    <2>2. /\ bookings \subseteq bookings' /\ bookings' \subseteq Reservation
          /\ answer' \in Optional(Answer)
          /\ (answer' = answer \/ (execution = NULL \/ execution.post = post))
          /\ execution # NULL /\ execution.post = post /\ answer'.ok = "yes"
                /\ post.kind = "create_booking"
             => /\ answer'.booking \in Booking
                /\ \E made \in bookings' : /\ made.by = post.by
                                          /\ answer'.booking.id \in {made.id, NoneText}
      <3>1. CASE MakesBooking(post)
        <4>1. PICK id \in Bookings \ {NoneText} :
                 /\ bookings' = bookings \cup {[id |-> id, by |-> post.by]}
                 /\ \E b \in RepliesTo(post, id), ok \in {"yes", "unreadable"} :
                       Replies(post, [ok |-> ok, booking |-> b, priced |-> FALSE])
          BY <3>1 DEF MakesBooking
        <4>2. post.kind = "create_booking"
          BY <3>1 DEF MakesBooking
        <4>3. post.proposal.tool = "create_booking"
          BY <4>2 DEF IInv, RecordsFit
        <4>4. post.proposal.room_id \in Rooms /\ post.proposal.resort_id \in Resorts
          BY <1>2, <4>3, ExecutionAssumption
        <4>5. PICK b \in RepliesTo(post, id), ok \in {"yes", "unreadable"} :
                 Replies(post, [ok |-> ok, booking |-> b, priced |-> FALSE])
          BY <4>1
        <4>6. b \in Booking /\ b.id \in {id, NoneText}
          <5>1. id \in Bookings /\ NoneText \in Bookings
            BY ExecutionAssumption
          <5>. QED BY <4>4, <5>1 DEF RepliesTo, Booking, Optional
        <4>7. [ok |-> ok, booking |-> b, priced |-> FALSE] \in Answer
          BY <4>6 DEF Answer, Optional
        <4>8. bookings \subseteq bookings' /\ bookings' \subseteq Reservation
          BY <1>2, <4>1 DEF IInv, TypeOK, Reservation
        <4>9. \E made \in bookings' : made.by = post.by /\ b.id \in {made.id, NoneText}
          <5>. DEFINE made == [id |-> id, by |-> post.by]
          <5>1. made \in bookings' /\ made.by = post.by /\ b.id \in {made.id, NoneText}
            BY <4>1, <4>6
          <5>. QED BY <5>1
        <4>. QED BY <4>5, <4>6, <4>7, <4>8, <4>9 DEF IInv, TypeOK, Optional
      <3>2. CASE AddsService(post)
        <4>1. \E ok \in {"yes", "unreadable"}, priced \in BOOLEAN :
                 Replies(post, [ok |-> ok, booking |-> NULL, priced |-> priced])
          BY <3>2 DEF AddsService
        <4>2. post.kind # "create_booking" /\ bookings' = bookings
          BY <3>2 DEF AddsService
        <4>3. answer' \in Optional(Answer)
          BY <4>1 DEF Answer, Optional, IInv, TypeOK
        <4>. QED BY <4>1, <4>2, <4>3 DEF IInv, TypeOK
      <3>. QED BY <1>4, <3>1, <3>2
    <2>3. TypeOK'
      BY <1>2, <2>1, <2>2 DEF IInv, TypeOK
    <2>4. ExecutionFits'
      <3>1. WrittenFor \subseteq WrittenFor'
        BY <2>1, WrittenForGrows
      <3>. QED BY <2>1, <2>2, <3>1 DEF IInv, ExecutionFits, Denotes
    <2>5. AnswerFits'
      <3>1. CASE execution # NULL /\ execution.post = post
        <4>1. post.by = execution.id
          BY <3>1 DEF IInv, ExecutionFits
        <4>. QED BY <2>1, <2>2, <3>1, <4>1 DEF AnswerFits, Denotes
      <3>2. CASE ~(execution # NULL /\ execution.post = post)
        BY <2>1, <2>2, <3>2 DEF IInv, AnswerFits, Denotes
      <3>. QED BY <3>1, <3>2
    <2>6. RecordsFit'
      BY <1>2, <2>1 DEF IInv, RecordsFit
    <2>7. ToldIsTrue'
      BY <2>1, <2>2 DEF IInv, ToldIsTrue, Denotes
    <2>. QED BY <2>3, <2>4, <2>5, <2>6, <2>7 DEF IInv
  <1>. QED BY <1>1, <1>3, <1>4

\* What the service and the guest may do.
LEMMA ChatKeeps ==
  ASSUME IInv,
         \/ ResponseWithout
         \/ \E p \in Proposals, confirms \in BOOLEAN : ResponseWith(p, confirms)
         \/ Guest
  PROVE  IInv'
  <1>. USE DEF IInv
  <1>1. CASE ResponseWithout
    <2>1. TypeOK'
      BY <1>1 DEF ResponseWithout, TypeOK, Optional
    <2>. QED
      BY <1>1, <2>1 DEF ResponseWithout, ExecutionFits, AnswerFits, RecordsFit, ToldIsTrue
  <1>2. ASSUME NEW p \in Proposals, NEW confirms \in BOOLEAN, ResponseWith(p, confirms)
        PROVE  IInv'
    <2>1. PICK id \in Ids \ seen :
             /\ pending' = [id |-> id, proposal |-> p]
             /\ seen' = seen \cup {id} /\ done' = done
             /\ \/ Execute(id, p)
                \/ outcome' = NULL /\ UNCHANGED <<context, execution, backendVars, posts, tried>>
      BY <1>2 DEF ResponseWith
    <2>2. seen' \subseteq Ids /\ id \in seen' \ done
      BY <2>1 DEF TypeOK, RecordsFit
    <2>3. CASE Execute(id, p)
      BY <2>1, <2>2, <2>3, ExecuteKeeps
    <2>4. CASE outcome' = NULL /\ UNCHANGED <<context, execution, backendVars, posts, tried>>
      <3>1. execution = NULL
        BY <1>2 DEF ResponseWith
      <3>2. pending' \in Offered /\ pending'.id = id
        BY <2>1 DEF Offered
      <3>3. TypeOK'
        BY <2>1, <2>2, <2>4, <3>2 DEF TypeOK, Optional
      <3>4. ExecutionFits' /\ AnswerFits' /\ ToldIsTrue'
        BY <2>4, <3>1 DEF ExecutionFits, AnswerFits, ToldIsTrue
      <3>5. RecordsFit'
        BY <2>1, <2>2, <2>4, <3>2 DEF RecordsFit
      <3>. QED BY <3>3, <3>4, <3>5
    <2>. QED BY <2>1, <2>3, <2>4
  <1>3. CASE RunPending
    <2>1. pending \in Offered /\ pending.id \in Ids /\ pending.proposal \in Proposals
      BY <1>3, Fields DEF RunPending
    <2>2. pending' = [id |-> pending.id, proposal |-> pending.proposal]
      BY <1>3, <2>1 DEF RunPending, Offered
    <2>. QED
      BY <1>3, <2>1, <2>2, ExecuteKeeps DEF RunPending, TypeOK, RecordsFit
  <1>4. CASE RunUnsupported
    <2>1. outcome' \in Optional(Outcome)
      BY <1>4, Fields DEF RunUnsupported, Outcome, Optional, Lines
    <2>2. TypeOK'
      BY <1>4, <2>1 DEF RunUnsupported, TypeOK
    <2>. QED
      BY <1>4, <2>2 DEF RunUnsupported, ExecutionFits, AnswerFits, RecordsFit,
                        ToldIsTrue, WrittenFor
  <1>5. CASE Reset \/ SetIdentifier
    <2>1. context' \in ChatContext
      BY <1>5 DEF Reset, SetIdentifier, TypeOK, ChatContext, Optional
    <2>2. TypeOK'
      BY <1>5, <2>1 DEF Reset, SetIdentifier, TypeOK, Optional
    <2>. QED
      BY <1>5, <2>2 DEF Reset, SetIdentifier, ExecutionFits, AnswerFits, RecordsFit,
                        ToldIsTrue, WrittenFor, Denotes
  <1>6. CASE Quit
    <2>1. TypeOK'
      BY <1>6 DEF Quit, TypeOK, Optional, ChatContext, FreshChat
    <2>. QED
      BY <1>6, <2>1 DEF Quit, ExecutionFits, AnswerFits, RecordsFit, ToldIsTrue
  <1>. QED BY <1>1, <1>2, <1>3, <1>4, <1>5, <1>6 DEF Guest

\* The invariant holds when the chat starts.
LEMMA InitIsInvariant == Init => IInv
  BY DEF Init, IInv, TypeOK, ExecutionFits, AnswerFits, RecordsFit, ToldIsTrue,
         Optional, ChatContext, FreshChat

\* Every step keeps it.
LEMMA NextKeeps == IInv /\ [Next]_executionVars => IInv'
  <1>1. ASSUME IInv, Next PROVE IInv'
    BY <1>1, ChatKeeps, ResumesKeeps, BackendKeeps DEF Next
  <1>2. ASSUME IInv, UNCHANGED executionVars PROVE IInv'
    BY <1>2 DEF executionVars, IInv, TypeOK, ExecutionFits, AnswerFits, RecordsFit,
                ToldIsTrue, WrittenFor, Denotes
  <1>. QED BY <1>1, <1>2

\* The invariant holds of every behaviour.
THEOREM Invariance == Spec => []IInv
  BY InitIsInvariant, NextKeeps, PTL DEF Spec

-----------------------------------------------------------------------------
(***************************************************************************)
(* What the invariant promises.                                            *)
(***************************************************************************)
\* Types, for any number of proposals and POSTs.
THEOREM TypeCorrect == Spec => []TypeOK
  BY Invariance, PTL DEF IInv

\* Whatever replies are late, lost or refused, what the chat has printed of a
\* booking, an add-on or a service is so.
THEOREM WhatIsToldIsTrue == Spec => []ToldIsTrue
  BY Invariance, PTL DEF IInv

-----------------------------------------------------------------------------
(***************************************************************************)
(* The chat implements ProposalLifecycle.                                  *)
(***************************************************************************)
Status == [id \in Ids |-> StatusOf(id)]

\* Where a proposal stands, case by case.
LEMMA StatusCases ==
  ASSUME IInv, NEW id \in Ids
  PROVE  /\ id \notin seen => StatusOf(id) = "none"
         /\ id \in seen /\ execution # NULL /\ execution.id = id =>
               StatusOf(id) = "running"
         /\ id \in done => StatusOf(id) = "done"
         /\ id \in seen \ done /\ execution = NULL /\ pending # NULL /\ pending.id = id =>
               StatusOf(id) = "offered"
         /\ id \in seen \ done /\ (pending = NULL \/ pending.id # id) =>
               StatusOf(id) = "dropped"
  BY DEF StatusOf, IInv, ExecutionFits, RecordsFit

\* The same of the next state.
LEMMA StatusCasesNext ==
  ASSUME IInv', NEW id \in Ids
  PROVE  /\ id \notin seen' => StatusOf(id)' = "none"
         /\ id \in seen' /\ execution' # NULL /\ execution'.id = id =>
               StatusOf(id)' = "running"
         /\ id \in done' => StatusOf(id)' = "done"
         /\ id \in seen' \ done' /\ execution' = NULL /\ pending' # NULL /\ pending'.id = id =>
               StatusOf(id)' = "offered"
         /\ id \in seen' \ done' /\ (pending' = NULL \/ pending'.id # id) =>
               StatusOf(id)' = "dropped"
  BY DEF StatusOf, IInv, ExecutionFits, RecordsFit

\* A step that keeps what the statuses depend on keeps them.
LEMMA SameStatus ==
  ASSUME UNCHANGED <<pending, seen, done>>,
         execution' = execution
         \/ (execution # NULL /\ execution' # NULL /\ execution'.id = execution.id)
  PROVE  Status' = Status
  <1>1. \A id \in Ids : StatusOf(id)' = StatusOf(id)
    BY DEF StatusOf
  <1>. QED BY <1>1 DEF Status

\* Proposals that were offered or running lapse when the guest moves on.
LEMMA EverythingLapses ==
  ASSUME IInv, IInv', pending' = NULL, execution' = NULL, UNCHANGED <<tried, seen, done>>,
         written' = written
  PROVE  Promise!Drop
  <1>1. ASSUME NEW id \in Ids
        PROVE  StatusOf(id)' = IF StatusOf(id) \in {"offered", "running"}
                               THEN "dropped" ELSE StatusOf(id)
    <2>1. CASE id \notin seen
      BY <2>1, StatusCases, StatusCasesNext
    <2>2. CASE id \in done
      BY <2>2, StatusCases, StatusCasesNext
    <2>3. CASE id \in seen \ done
      <3>1. StatusOf(id)' = "dropped"
        BY <2>3, StatusCasesNext
      <3>2. StatusOf(id) \in {"running", "offered", "dropped"}
        BY <2>3, StatusCases DEF IInv, ExecutionFits
      <3>. QED BY <3>1, <3>2
    <2>. QED BY <2>1, <2>2, <2>3
  <1>2. WrittenFor' = WrittenFor
    BY DEF WrittenFor
  <1>3. Status' = [id \in Ids |-> IF Status[id] \in {"offered", "running"}
                                  THEN "dropped" ELSE Status[id]]
    BY <1>1 DEF Status
  <1>. QED BY <1>2, <1>3 DEF Promise!Drop, Promise!Lapsed, Promise!Live, Status

\* A new proposal takes the place of the old one, on offer or at once running.
LEMMA NewProposal ==
  ASSUME IInv, IInv', NEW id \in Ids \ seen, NEW proposal, execution = NULL,
         pending' = [id |-> id, proposal |-> proposal], pending' # NULL,
         seen' = seen \cup {id}, done' = done, written' = written,
         \/ execution' = NULL /\ tried' = tried
         \/ execution' # NULL /\ execution'.id = id /\ tried' = tried \cup {id}
  PROVE  Promise!Offer(id) \/ Promise!OfferAndStart(id)
  <1>1. StatusOf(id) = "none" /\ id \in seen' \ done'
    BY StatusCases DEF IInv, RecordsFit
  <1>2. ASSUME NEW other \in Ids, other # id
        PROVE  StatusOf(other)' = IF StatusOf(other) \in {"offered", "running"}
                                  THEN "dropped" ELSE StatusOf(other)
    <2>1. CASE other \notin seen
      BY <1>2, <2>1, StatusCases, StatusCasesNext
    <2>2. CASE other \in done
      BY <1>2, <2>2, StatusCases, StatusCasesNext
    <2>3. CASE other \in seen \ done
      <3>1. StatusOf(other)' = "dropped"
        BY <1>2, <2>3, StatusCasesNext
      <3>2. StatusOf(other) \in {"offered", "dropped"}
        BY <2>3, StatusCases
      <3>. QED BY <3>1, <3>2
    <2>. QED BY <2>1, <2>2, <2>3
  <1>3. WrittenFor' = WrittenFor
    BY DEF WrittenFor
  <1>. DEFINE Lapsed == [p \in Ids |-> IF Status[p] \in {"offered", "running"}
                                       THEN "dropped" ELSE Status[p]]
  <1>4. CASE execution' = NULL /\ tried' = tried
    <2>1. StatusOf(id)' = "offered"
      BY <1>1, <1>4, StatusCasesNext
    <2>2. Status' = [Lapsed EXCEPT ![id] = "offered"]
      BY <1>2, <2>1 DEF Status
    <2>. QED
      BY <1>1, <1>3, <1>4, <2>2 DEF Promise!Offer, Promise!Lapsed, Promise!Live, Status
  <1>5. CASE execution' # NULL /\ execution'.id = id /\ tried' = tried \cup {id}
    <2>1. StatusOf(id)' = "running"
      BY <1>1, <1>5, StatusCasesNext
    <2>2. Status' = [Lapsed EXCEPT ![id] = "running"]
      BY <1>2, <2>1 DEF Status
    <2>. QED
      BY <1>1, <1>3, <1>5, <2>2
      DEF Promise!OfferAndStart, Promise!Lapsed, Promise!Live, Status
  <1>. QED BY <1>4, <1>5

\* Only one status changes when the pending proposal is run, or its run ends.
LEMMA OneChanges ==
  ASSUME IInv, IInv', pending # NULL, NEW id \in Ids, id = pending.id, seen' = seen,
         \/ UNCHANGED <<pending, done>>
         \/ pending' = NULL /\ done' = done \cup {id}
  PROVE  Status' = [Status EXCEPT ![id] = StatusOf(id)']
  <1>1. ASSUME NEW other \in Ids, other # id
        PROVE  StatusOf(other)' = StatusOf(other)
    <2>1. CASE other \notin seen
      BY <2>1, StatusCases, StatusCasesNext
    <2>2. CASE other \in done
      BY <1>1, <2>2, StatusCases, StatusCasesNext
    <2>3. CASE other \in seen \ done
      BY <1>1, <2>3, StatusCases, StatusCasesNext
    <2>. QED BY <2>1, <2>2, <2>3
  <1>. QED BY <1>1 DEF Status

\* The guest runs the proposal on offer.
LEMMA RunIsStart ==
  ASSUME IInv, IInv', RunPending
  PROVE  \E id \in Ids : Promise!Start(id)
  <1>. DEFINE post == NewPost(pending.id, pending.proposal.tool, pending.proposal)
  <1>1. PICK id \in Ids : id = pending.id
    BY Fields DEF RunPending, IInv
  <1>2. /\ pending # NULL /\ execution = NULL /\ UNCHANGED <<pending, seen, done>>
        /\ pending.proposal \in Proposals /\ id \in seen \ done
    BY <1>1, Fields DEF RunPending, IInv, RecordsFit
  <1>3. execution' # NULL /\ execution'.id = id
    <2>1. execution' = [id |-> pending.id, proposal |-> pending.proposal,
                        post |-> post, booking |-> NULL]
      BY DEF RunPending, Execute
    <2>2. pending.proposal.tool \in PostKinds
      BY <1>2, ExecutionAssumption DEF RunPending, Execute, PostKinds
    <2>3. post \in Post
      BY <1>1, <1>2, <2>2, NewPostFits DEF IInv
    <2>. HIDE DEF post
    <2>4. execution' \in Execution
      BY <1>1, <1>2, <2>1, <2>3 DEF Execution, Optional
    <2>. QED BY <1>1, <2>1, <2>4, RecordsAreNotNull
  <1>4. tried' = tried \cup {id} /\ written' = written
    BY <1>1 DEF RunPending, Execute, Sends, NewPost
  <1>5. StatusOf(id) = "offered" /\ StatusOf(id)' = "running"
    BY <1>1, <1>2, <1>3, StatusCases, StatusCasesNext
  <1>6. Status' = [Status EXCEPT ![id] = "running"]
    BY <1>1, <1>2, <1>5, OneChanges
  <1>. QED BY <1>4, <1>5, <1>6 DEF Promise!Start, Status, WrittenFor

\* A run that failed leaves the proposal on offer.
LEMMA FailureIsFail ==
  ASSUME IInv, IInv', execution # NULL, ExecutionFails
  PROVE  \E id \in Ids : Promise!Fail(id)
  <1>1. PICK id \in Ids : id = execution.id
    BY Fields DEF IInv
  <1>2. /\ pending # NULL /\ pending.id = id /\ id \in seen \ done
        /\ execution' = NULL /\ UNCHANGED <<pending, tried, seen, done, written>>
    BY <1>1 DEF IInv, ExecutionFits, RecordsFit, ExecutionFails
  <1>3. StatusOf(id) = "running"
    BY <1>1, <1>2, StatusCases
  <1>4. StatusOf(id)' = "offered"
    BY <1>2, StatusCasesNext
  <1>5. Status' = [Status EXCEPT ![id] = "offered"]
    BY <1>2, <1>4, OneChanges
  <1>. QED BY <1>2, <1>3, <1>5 DEF Promise!Fail, Status, WrittenFor

\* A run that is reported as carried out was.
LEMMA SuccessIsSucceed ==
  ASSUME IInv, IInv', execution # NULL, execution.id \in WrittenFor, Succeeds
  PROVE  \E id \in Ids : Promise!Succeed(id)
  <1>1. PICK id \in Ids : id = execution.id
    BY Fields DEF IInv
  <1>2. /\ pending # NULL /\ pending.id = id /\ id \in seen \ done
        /\ execution' = NULL /\ pending' = NULL /\ done' = done \cup {id}
        /\ UNCHANGED <<tried, seen, written>>
    BY <1>1 DEF IInv, ExecutionFits, RecordsFit, Succeeds
  <1>3. StatusOf(id) = "running"
    BY <1>1, <1>2, StatusCases
  <1>4. StatusOf(id)' = "done"
    BY <1>2, StatusCasesNext
  <1>5. Status' = [Status EXCEPT ![id] = "done"]
    BY <1>2, <1>4, OneChanges
  <1>. QED BY <1>1, <1>2, <1>3, <1>5 DEF Promise!Succeed, Status, WrittenFor

\* The awaited POST having been accepted, the proposal was performed.
LEMMA AcceptedIsWritten ==
  ASSUME IInv, execution # NULL, answer # NULL, answer.ok = "yes"
  PROVE  execution.id \in WrittenFor
  <1>1. execution.post \in written /\ execution.post.by = execution.id /\ execution.id \in Ids
    BY Fields DEF IInv, AnswerFits, ExecutionFits
  <1>. QED BY <1>1 DEF WrittenFor, IInv, ExecutionFits

\* What a resumed execution amounts to.
LEMMA ResumesImplements ==
  ASSUME IInv, IInv', Resumes
  PROVE  \/ (\E id \in Ids : Promise!Fail(id)) \/ (\E id \in Ids : Promise!Succeed(id))
         \/ UNCHANGED <<Status, tried, WrittenFor>>
  <1>1. ASSUME AwaitsAddOn, Succeeds
        PROVE  \E id \in Ids : Promise!Succeed(id)
    <2>1. execution # NULL /\ execution.id \in WrittenFor
      BY <1>1 DEF AwaitsAddOn, IInv, ExecutionFits
    <2>. QED BY <1>1, <2>1, SuccessIsSucceed
  <1>2. CASE BookingMade
    <2>. DEFINE post == NewPost(execution.id, "add_on", execution.proposal)
    <2>1. execution # NULL /\ answer # NULL /\ answer.ok = "yes"
      BY <1>2 DEF BookingMade, AwaitsBooking
    <2>2. CASE Succeeds
      BY <2>1, <2>2, AcceptedIsWritten, SuccessIsSucceed
    <2>3. CASE /\ Sends(post)
               /\ execution' = [execution EXCEPT !.post = post, !.booking = answer.booking]
               /\ UNCHANGED <<context, pending, outcome, seen, done>>
      <3>1. execution \in Execution
        BY <2>1, Fields DEF IInv
      <3>2. execution'.id = execution.id /\ execution' # NULL
        <4>1. post \in Post /\ answer.booking \in Booking
          <5>1. answer.booking \in Booking
            BY <1>2, <2>1 DEF BookingMade, AwaitsBooking, IInv, AnswerFits
          <5>2. "add_on" \in PostKinds /\ execution.id \in Ids /\ execution.proposal \in Proposals
            BY <2>1, Fields DEF IInv, PostKinds
          <5>. QED BY <5>1, <5>2, NewPostFits DEF IInv, TypeOK
        <4>. HIDE DEF post
        <4>2. execution' \in Execution
          BY <2>3, <3>1, <4>1 DEF Execution, Optional
        <4>3. execution' # NULL
          BY <4>2, RecordsAreNotNull
        <4>4. execution'.id = execution.id
          BY <2>3, <3>1 DEF Execution
        <4>. QED BY <4>3, <4>4
      <3>3. Status' = Status
        BY <2>1, <2>3, <3>2, SameStatus
      <3>4. tried' = tried /\ written' = written
        <4>1. post.by = execution.id /\ execution.id \in tried
          BY <2>1 DEF NewPost, IInv, ExecutionFits
        <4>. QED BY <2>3, <4>1 DEF Sends
      <3>. QED BY <3>3, <3>4 DEF WrittenFor
    <2>. QED BY <1>2, <2>2, <2>3 DEF BookingMade, BookingSucceeds
  <1>3. CASE AddOnMade
    BY <1>1, <1>3 DEF AddOnMade, BookingSucceeds
  <1>4. CASE ServiceMade
    BY <1>4, AcceptedIsWritten, SuccessIsSucceed DEF ServiceMade
  <1>5. CASE Refused
    BY <1>1, <1>5, FailureIsFail DEF Refused, AddOnMissed, BookingSucceeds
  <1>6. CASE Unreadable
    BY <1>6, FailureIsFail DEF Unreadable
  <1>7. CASE GivesUp
    BY <1>1, <1>7, FailureIsFail DEF GivesUp, AddOnMissed, BookingSucceeds
  <1>. QED BY <1>2, <1>3, <1>4, <1>5, <1>6, <1>7 DEF Resumes

\* What the backend does is to perform a proposal, again, or nothing to it.
LEMMA BackendImplements ==
  ASSUME IInv, IInv', Backend
  PROVE  (\E id \in Ids : Promise!Perform(id)) \/ UNCHANGED <<Status, tried, WrittenFor>>
  <1>1. PICK post \in wire : BackendAccepts(post) \/ BackendRefuses(post)
    BY DEF Backend
  <1>2. post.by \in Ids /\ post.by \in tried
    BY DEF IInv, TypeOK, Post, RecordsFit
  <1>3. UNCHANGED <<pending, execution, seen, done, tried>>
    BY <1>1 DEF BackendAccepts, BackendRefuses
  <1>4. Status' = Status
    BY <1>3, SameStatus
  <1>5. CASE written' = written
    BY <1>3, <1>4, <1>5 DEF WrittenFor
  <1>6. CASE written' = written \cup {post} /\ post.kind = "add_on"
    BY <1>3, <1>4, <1>6 DEF WrittenFor
  <1>7. CASE written' = written \cup {post} /\ post.kind # "add_on"
    <2>1. WrittenFor' = WrittenFor \cup {post.by}
      BY <1>2, <1>7 DEF WrittenFor
    <2>. QED BY <1>2, <1>3, <1>4, <2>1 DEF Promise!Perform, Status
  <1>. QED BY <1>1, <1>5, <1>6, <1>7 DEF BackendAccepts, BackendRefuses

\* What the service and the guest do to proposals.
LEMMA ChatImplements ==
  ASSUME IInv, IInv',
         \/ ResponseWithout
         \/ \E p \in Proposals, confirms \in BOOLEAN : ResponseWith(p, confirms)
         \/ Guest
  PROVE  \/ Promise!Drop
         \/ \E id \in Ids : \/ Promise!Offer(id) \/ Promise!OfferAndStart(id)
                            \/ Promise!Start(id)
         \/ UNCHANGED <<Status, tried, WrittenFor>>
  <1>1. CASE ResponseWithout \/ Reset \/ Quit
    <2>1. /\ pending' = NULL /\ execution' = NULL
          /\ UNCHANGED <<tried, seen, done, written>>
      BY <1>1 DEF ResponseWithout, Reset, Quit
    <2>. QED BY <2>1, EverythingLapses
  <1>2. ASSUME NEW p \in Proposals, NEW confirms \in BOOLEAN, ResponseWith(p, confirms)
        PROVE  \E id \in Ids : Promise!Offer(id) \/ Promise!OfferAndStart(id)
    <2>1. PICK id \in Ids \ seen :
             /\ pending' = [id |-> id, proposal |-> p]
             /\ seen' = seen \cup {id} /\ done' = done
             /\ \/ Execute(id, p)
                \/ UNCHANGED <<execution, backendVars, tried>>
      BY <1>2 DEF ResponseWith
    <2>2. pending' # NULL
      BY <2>1, RecordsAreNotNull DEF Offered
    <2>3. execution = NULL
      BY <1>2 DEF ResponseWith
    <2>4. CASE Execute(id, p)
      <3>1. tried' = tried \cup {id} /\ written' = written
        BY <2>4 DEF Execute, Sends, NewPost
      <3>2. execution' # NULL /\ execution'.id = id
        <4>1. p.tool \in PostKinds
          BY <2>4, ExecutionAssumption DEF Execute, PostKinds
        <4>2. NewPost(id, p.tool, p) \in Post
          BY <4>1, NewPostFits DEF IInv
        <4>3. execution' = [id |-> id, proposal |-> p, post |-> NewPost(id, p.tool, p),
                            booking |-> NULL]
          BY <2>4 DEF Execute
        <4>4. execution' \in Execution
          BY <4>2, <4>3 DEF Execution, Optional
        <4>. QED BY <4>3, <4>4, RecordsAreNotNull
      <3>. QED BY <2>1, <2>2, <2>3, <3>1, <3>2, NewProposal
    <2>5. CASE UNCHANGED <<execution, backendVars, tried>>
      BY <2>1, <2>2, <2>3, <2>5, NewProposal
    <2>. QED BY <2>1, <2>4, <2>5
  <1>3. CASE RunPending
    BY <1>3, RunIsStart
  <1>4. CASE RunUnsupported \/ SetIdentifier
    <2>1. UNCHANGED <<pending, execution, tried, seen, done, written>>
      BY <1>4 DEF RunUnsupported, SetIdentifier
    <2>2. Status' = Status
      BY <2>1, SameStatus
    <2>. QED BY <2>1, <2>2 DEF WrittenFor
  <1>. QED BY <1>1, <1>2, <1>3, <1>4 DEF Guest

\* Every step of the chat, and of the backend, is a step of some proposal's
\* life, or none.
LEMMA StepImplements ==
  IInv /\ IInv' /\ [Next]_executionVars => [Promise!Next]_(Promise!lifecycleVars)
  <1>. SUFFICES ASSUME IInv, IInv', [Next]_executionVars
                PROVE  [Promise!Next]_(Promise!lifecycleVars)
    OBVIOUS
  <1>1. UNCHANGED <<Status, tried, WrittenFor>> => UNCHANGED Promise!lifecycleVars
    BY DEF Promise!lifecycleVars, Status
  <1>2. CASE Resumes
    BY <1>1, <1>2, ResumesImplements DEF Promise!Next
  <1>3. CASE Backend
    BY <1>1, <1>3, BackendImplements DEF Promise!Next
  <1>4. CASE \/ ResponseWithout
             \/ \E p \in Proposals, confirms \in BOOLEAN : ResponseWith(p, confirms)
             \/ Guest
    BY <1>1, <1>4, ChatImplements DEF Promise!Next
  <1>5. CASE UNCHANGED executionVars
    <2>1. UNCHANGED <<pending, execution, tried, seen, done, written>>
      BY <1>5 DEF executionVars
    <2>2. Status' = Status
      BY <2>1, SameStatus
    <2>. QED BY <1>1, <2>1, <2>2 DEF WrittenFor
  <1>. QED BY <1>2, <1>3, <1>4, <1>5 DEF Next

\* The chat keeps the promise of a proposal's life cycle: whatever reaches
\* the backend late or twice, what is reported as carried out was, and a
\* proposal that was carried out or replaced is never run again.
THEOREM Implements == Spec => KeepsPromise
  <1>1. Init => Promise!Init
    BY DEF Init, Promise!Init, StatusOf, WrittenFor
  <1>. QED BY <1>1, StepImplements, Invariance, PTL DEF Spec, KeepsPromise, Promise!Spec
=============================================================================
