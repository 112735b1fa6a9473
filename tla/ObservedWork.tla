---------------------------- MODULE ObservedWork ----------------------------
(***************************************************************************)
(* What a piece of verification work promises, whoever executes it and     *)
(* however often: an append-only set of provider observations and one      *)
(* outcome.  Observations are only added while the outcome is open; the    *)
(* conclusive one is recorded in the step that resolves the work; work     *)
(* that is given up is given up without one.                               *)
(***************************************************************************)
CONSTANT Claims          \* the claims under which an observation may be made

VARIABLES outcome,       \* "open", "resolved" or "abandoned"
          observed       \* the claims that produced an observation

vars == <<outcome, observed>>

TypeOK ==
  /\ outcome \in {"open", "resolved", "abandoned"}
  /\ observed \subseteq Claims

Init ==
  /\ outcome = "open"
  /\ observed = {}

\* One more observation that settles nothing.
Observe(c) ==
  /\ outcome = "open"
  /\ c \in Claims \ observed
  /\ observed' = observed \cup {c}
  /\ UNCHANGED outcome

\* The observation that settles the work, and the settlement, in one step.
Resolve(c) ==
  /\ outcome = "open"
  /\ c \in Claims \ observed
  /\ observed' = observed \cup {c}
  /\ outcome' = "resolved"

\* The work is given up and handed to a person.
Abandon ==
  /\ outcome = "open"
  /\ outcome' = "abandoned"
  /\ UNCHANGED observed

Next ==
  \/ \E c \in Claims : Observe(c) \/ Resolve(c)
  \/ Abandon

Spec == Init /\ [][Next]_vars
=============================================================================
