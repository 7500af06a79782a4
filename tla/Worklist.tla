------------------------------- MODULE Worklist -------------------------------
(***************************************************************************)
(* What the factory promises an operator who only ever looks at the queue  *)
(* file and the packs (ADR-0006, ADR-0019): targets are decided one at a   *)
(* time and in rank order, a target is carded only when its card exists,   *)
(* and what is decided stays decided until an author says otherwise.       *)
(***************************************************************************)
EXTENDS Naturals

CONSTANTS
  Targets,  \* target ids, as numbers in rank order
  Lost      \* the board of a queue file that was truncated and not rewritten

VARIABLES
  board,  \* the status an operator reads for each target
  cards   \* the targets that have a whole card

Calls == {"open", "carded", "blocked", "parked"}

WLInit == board \in [Targets -> {"open", "parked"}] /\ cards = {}

\* The first target that is open: the only one worked on.
Head(t) ==
  /\ board # Lost
  /\ board[t] = "open"
  /\ \A u \in Targets : u < t => board[u] # "open"

Publish(t) == Head(t) /\ cards' = cards \cup {t} /\ UNCHANGED board

Withdraw(t) == Head(t) /\ cards' = cards \ {t} /\ UNCHANGED board

Decide(t) ==
  /\ Head(t)
  /\ \/ t \in cards /\ board' = [board EXCEPT ![t] = "carded"]
     \/ board' = [board EXCEPT ![t] = "blocked"]
  /\ UNCHANGED cards

\* An author moves a target; only the pipeline cards one.
Move(t) ==
  /\ board # Lost
  /\ \E s \in Calls \ {"carded"} : board' = [board EXCEPT ![t] = s]
  /\ UNCHANGED cards

Lose(t) == Head(t) /\ board' = Lost /\ UNCHANGED cards

WLNext ==
  \E t \in Targets :
    Publish(t) \/ Withdraw(t) \/ Decide(t) \/ Move(t) \/ Lose(t)

WLSpec == WLInit /\ [][WLNext]_<<board, cards>>
=============================================================================
