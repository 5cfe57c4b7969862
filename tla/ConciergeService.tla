-------------------------- MODULE ConciergeService --------------------------
(***************************************************************************)
(* What a guest may expect of the conversational service, whichever agent  *)
(* answers, whatever fails and however many messages are answered at once. *)
(* A turn serves one conversation from its first step to its answer and    *)
(* touches no other.  What a conversation is known to have said only grows, *)
(* but for the stay at the reset that follows a hostile message.  A task   *)
(* is given up only in the step that proposes a write, and a proposal is   *)
(* not made twice.                                                         *)
(***************************************************************************)
CONSTANTS
    Conversations,  \* conversation identifiers
    Turn,           \* slots for turns in flight
    Nobody,         \* what a free slot serves
    Identifiers,    \* names of what a guest has booked or chosen
    Stay            \* names of what a guest has said about the stay

VARIABLES
    serves,    \* the conversation each turn is about
    offering,  \* turns whose answer proposes a write
    known,     \* what each conversation is known to have said
    busy       \* conversations that have a task

serviceVars == <<serves, offering, known, busy>>

Init ==
    /\ serves   = [t \in Turn |-> Nobody]
    /\ offering = {}
    /\ known    = [c \in Conversations |-> {}]
    /\ busy     = {}

\* Turn t is about conversation c, from its first step on.
Serve(t, c) ==
    /\ serves[t] \in {Nobody, c}
    /\ serves' = [serves EXCEPT ![t] = c]

\* Conversation c has not forgotten what it kept, and may have learnt more.
Learn(c, kept) ==
    \E told \in SUBSET (Identifiers \cup Stay) :
        known' = [known EXCEPT ![c] = (@ \cap kept) \cup told]

\* Everything but the outcome of a task.
Talk(t, c) ==
    /\ Serve(t, c)
    /\ Learn(c, Identifiers \cup Stay)
    /\ busy' \in {busy, busy \cup {c}}
    /\ offering' = offering \ {t}

\* A write is proposed, as the outcome of a task or on the staff's request.
Offer(t, c) ==
    /\ Serve(t, c)
    /\ Learn(c, Identifiers \cup Stay)
    /\ busy' \in {busy, busy \ {c}}
    /\ t \notin offering
    /\ offering' = offering \cup {t}

\* "Let's drop the previous thread": the stay is forgotten at once.
Reset(t, c) ==
    /\ serves[t] = Nobody
    /\ Serve(t, c)
    /\ Learn(c, Identifiers)
    /\ busy' = busy \cup {c}
    /\ UNCHANGED offering

\* The answer is sent.
Answer(t) ==
    /\ serves[t] # Nobody
    /\ serves' = [serves EXCEPT ![t] = Nobody]
    /\ offering' = offering \ {t}
    /\ UNCHANGED <<known, busy>>

Next ==
    \E t \in Turn :
        \/ Answer(t)
        \/ \E c \in Conversations : Talk(t, c) \/ Offer(t, c) \/ Reset(t, c)

Spec == Init /\ [][Next]_serviceVars
=============================================================================
