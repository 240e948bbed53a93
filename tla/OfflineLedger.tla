---------------------------- MODULE OfflineLedger ----------------------------
(***************************************************************************)
(* What the server promises of offline work, whatever path an event takes  *)
(* through the merge, the review list and its crashes: an action done      *)
(* offline is booked at most once, only after everything it refers to has  *)
(* a row on the server, and neither is ever taken back.                    *)
(***************************************************************************)
EXTENDS Naturals

CONSTANTS
    Events,   \* the offline events of one shop
    Deps      \* [Events -> SUBSET Events]: events whose rows an event refers to

VARIABLES
    count,    \* [Events -> Nat]: how often the event was booked
    settled   \* the events whose rows exist on the server, booked or linked

ledgerVars == <<count, settled>>

LedgerInit ==
    /\ count = [e \in Events |-> 0]
    /\ settled = {}

\* the event's rows are written, once, on top of the rows it refers to; an admin
\* may book an event that was taken for a row the server has
Book(e) ==
    /\ count[e] = 0
    /\ Deps[e] \subseteq settled
    /\ count' = [count EXCEPT ![e] = 1]
    /\ settled' = settled \cup {e}

\* the event is taken to be a row the server already has
Link(e) ==
    /\ settled' = settled \cup {e}
    /\ UNCHANGED count

LedgerNext == \E e \in Events : Book(e) \/ Link(e)

LedgerSpec == LedgerInit /\ [][LedgerNext]_ledgerVars
=============================================================================
