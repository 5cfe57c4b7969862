---------------------------- MODULE TerminalChat ----------------------------
(***************************************************************************)
(* The terminal chat and the conversational service in one process         *)
(* (cli/chat.py, api/dependencies.py).                                     *)
(*                                                                         *)
(* run_chat is one coroutine: it awaits the answer to one message, or the  *)
(* execution of one proposal, before it reads the next line.  The service  *)
(* is Responder with a single turn, the execution is ProposalExecution;    *)
(* what joins them are the identifiers of ChatState, sent along with each  *)
(* message, and the proposals of each response.                            *)
(***************************************************************************)
EXTENDS Responder

CONSTANTS
    Window,      \* the one turn slot
    Ids,         \* names for the proposals the chat receives
    NoneText,    \* the identifier of a booking whose reply has none
    MaxPosts,    \* bound on the POSTs sent
    Confirming   \* messages with one of the phrases that confirm a booking

ASSUME OneWindow == Turn = {Window}

VARIABLES
    context, pending, execution, outcome,
    wire, answer, bookings, written,
    posts, tried, seen, done,
    stay       \* history: the booking the chat was last told of, or given

Execution == INSTANCE ProposalExecution WITH Proposals <- Proposal

ASSUME TerminalAssumption ==
    /\ MaxPosts \in Nat
    /\ NoneText \in Bookings
    /\ NULL \notin Execution!BookingStates
    /\ NULL \notin Execution!Offered /\ NULL \notin Execution!Execution

clientVars ==
    <<context, pending, execution, outcome, wire, answer, bookings, written,
      posts, tried, seen, done>>

terminalVars == <<vars, clientVars, stay>>

\* The chat reads a line only when it awaits nothing.
AtPrompt == pc[Window] = "idle" /\ execution = NULL

\* What ChatState.build_request sends along.
Identifiers ==
    [booking_id |-> context.booking_id, room_id |-> context.room_id,
     resort_id |-> context.resort_id]

\* Bounds: a message is sent as long as there is a name for its proposal, one
\* that may be executed at once as long as a POST is left for it.
Say ==
    /\ AtPrompt /\ seen # Ids
    /\ \E r \in Requests :
          /\ r.msg \in Confirming => posts < MaxPosts
          /\ Begin(Window, [r EXCEPT !.ctx = Identifiers])
    /\ UNCHANGED <<clientVars, stay>>

Serve ==
    /\ ServerAnswers(Window) \/ ServerFails(Window)
    /\ UNCHANGED <<clientVars, stay>>

\* A response, with at most one proposal.
Receive ==
    LET answered == reply[Window] IN
    /\ pc[Window] = "reply" /\ answered.type # "server_error"
    /\ Deliver(Window)
    /\ \/ answered.proposal = NULL /\ Execution!ResponseWithout
       \/ /\ answered.proposal # NULL
          /\ Execution!ResponseWith(answered.proposal, request[Window].msg \in Confirming)
    /\ UNCHANGED stay

\* An uncaught exception, /quit or Ctrl-C ends the process, the in-memory
\* store with it; a new one starts.
Restart ==
    /\ store'   = [c \in Conversations |-> FreshState]
    /\ pc'      = [t \in Turn |-> "idle"]
    /\ request' = [t \in Turn |-> NULL]
    /\ frame'   = [t \in Turn |-> NoFrame]
    /\ reply'   = [t \in Turn |-> NULL]
    /\ Execution!Quit
    /\ stay' = NULL

Crash ==
    /\ pc[Window] = "reply" /\ reply[Window].type = "server_error"
    /\ Restart

Run ==
    /\ AtPrompt
    /\ Execution!RunPending \/ Execution!RunUnsupported
    /\ UNCHANGED <<vars, stay>>

ResetCommand ==
    /\ AtPrompt
    /\ Execution!Reset
    /\ stay' = NULL
    /\ UNCHANGED vars

Command ==
    /\ AtPrompt
    /\ Execution!SetIdentifier
    /\ stay' = IF context'.booking_id = context.booking_id THEN stay
               ELSE context'.booking_id
    /\ UNCHANGED vars

\* An execution goes on or ends; the guest may be told of a booking.
Resume ==
    /\ Execution!Resumes
    /\ stay' = IF execution' = NULL /\ outcome'.booking # NULL
               THEN outcome'.booking ELSE stay
    /\ UNCHANGED vars

Backend ==
    /\ Execution!Backend
    /\ UNCHANGED <<vars, stay>>

TerminalInit ==
    /\ InitTurns
    /\ Execution!Init
    /\ stay = NULL

TerminalNext ==
    \/ Say \/ Serve \/ Receive \/ Crash \/ Run \/ ResetCommand \/ Command
    \/ Resume \/ Backend \/ Restart

TerminalSpec == TerminalInit /\ [][TerminalNext]_terminalVars

\* The event loop resumes what the chat awaits, and the HTTP client gives up
\* on a call after a timeout.
FairTerminalSpec ==
    /\ TerminalSpec
    /\ WF_terminalVars(Serve) /\ WF_terminalVars(Receive \/ Crash)
    /\ WF_terminalVars(Resume)

-----------------------------------------------------------------------------
(***************************************************************************)
(* Properties.                                                             *)
(***************************************************************************)
\* "You have booked ... Your booking ID is ...": what the guest asks for
\* from then on -- an in-stay request, an add-on -- is proposed for that
\* booking, not for one the conversation knew before, until she names
\* another one with /booking, or leaves.
ProposalsAreForTheStay ==
    [][LET answered == reply[Window] IN
       /\ Receive
       /\ stay # NULL
       /\ answered.proposal # NULL
       /\ answered.proposal.tool \in {"create_service_booking", "create_service_request"}
       => answered.proposal.booking_id = stay]_terminalVars

\* Whatever call fails, refuses or never answers, the chat comes back to the
\* prompt.
PromptReturns == []<>AtPrompt
=============================================================================
