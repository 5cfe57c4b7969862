-------------------------- MODULE ProposalLifecycle --------------------------
(***************************************************************************)
(* What a guest may expect of a proposed write, whatever the client, the   *)
(* network and the backend do: at most one proposal is on offer, nothing   *)
(* is carried out that nobody asked for, a proposal reported as carried    *)
(* out really was, and one that was carried out or replaced is never run   *)
(* again.  A run may fail and be repeated, and its effect may appear while *)
(* it runs, after it failed or after the proposal was dropped.             *)
(***************************************************************************)
CONSTANT Ids   \* names for the proposals ever made

VARIABLES
    status,    \* where each proposal stands
    tried,     \* proposals whose write was requested at least once
    performed  \* proposals whose write took effect at least once

lifecycleVars == <<status, tried, performed>>

Standing == {"none", "offered", "running", "done", "dropped"}

Live(p) == status[p] \in {"offered", "running"}

\* A proposal that is on offer or running lapses.
Lapsed == [p \in Ids |-> IF Live(p) THEN "dropped" ELSE status[p]]

Init ==
    /\ status = [p \in Ids |-> "none"]
    /\ tried = {}
    /\ performed = {}

\* A new proposal takes the place of the one on offer.
Offer(p) ==
    /\ status[p] = "none"
    /\ status' = [Lapsed EXCEPT ![p] = "offered"]
    /\ UNCHANGED <<tried, performed>>

\* The guest moves on, or leaves while something is running.
Drop ==
    /\ status' = Lapsed
    /\ UNCHANGED <<tried, performed>>

Start(p) ==
    /\ status[p] = "offered"
    /\ status' = [status EXCEPT ![p] = "running"]
    /\ tried' = tried \cup {p}
    /\ UNCHANGED performed

\* A proposal may be accepted at sight.
OfferAndStart(p) ==
    /\ status[p] = "none"
    /\ status' = [Lapsed EXCEPT ![p] = "running"]
    /\ tried' = tried \cup {p}
    /\ UNCHANGED performed

Perform(p) ==
    /\ p \in tried
    /\ performed' = performed \cup {p}
    /\ UNCHANGED <<status, tried>>

Fail(p) ==
    /\ status[p] = "running"
    /\ status' = [status EXCEPT ![p] = "offered"]
    /\ UNCHANGED <<tried, performed>>

Succeed(p) ==
    /\ status[p] = "running"
    /\ p \in performed
    /\ status' = [status EXCEPT ![p] = "done"]
    /\ UNCHANGED <<tried, performed>>

Next ==
    \/ Drop
    \/ \E p \in Ids :
          \/ Offer(p) \/ Start(p) \/ OfferAndStart(p)
          \/ Perform(p) \/ Fail(p) \/ Succeed(p)

Spec == Init /\ [][Next]_lifecycleVars
==============================================================================
