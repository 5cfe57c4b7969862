--------------------------- MODULE MCTerminalChat ---------------------------
(***************************************************************************)
(* Messages for model checking TerminalChat.                               *)
(***************************************************************************)
EXTENDS MCResponder, TerminalChat

CONSTANT now

\* "please book the room 101 from 2026-05-01 to 2026-05-03 for 2 guests":
\* one of the phrases the chat takes for a confirmation.
BookNow == [BookAll EXCEPT !.text = now]

Confirmations == {BookNow}

\* A confirmed booking and what may be asked for it.
TerminalRequests == {Send(m) : m \in {BookNow, Towels, Massage}}
=============================================================================
