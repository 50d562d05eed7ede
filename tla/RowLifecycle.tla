----------------------------- MODULE RowLifecycle -----------------------------
(***************************************************************************)
(* What the commands together promise about the `installed` table, one row *)
(* per capability: only an installation creates a row, a row is never      *)
(* deleted, one row changes at a time, and what a row holds between        *)
(* commands is always one of the four states in which a capability may     *)
(* rest, never an intermediate state of the lifecycle.                     *)
(***************************************************************************)
CONSTANTS Caps,      \* the capabilities
          NoRow      \* stands for an absent row

VARIABLE row         \* row[c]: the state stored for c, or NoRow

Resting == {"INSTALLED", "ENABLED", "DISABLED", "ACTIVE"}

Init == row = [c \in Caps |-> NoRow]

Install(c) == row' = [row EXCEPT ![c] = "INSTALLED"]

Move(c) == /\ row[c] # NoRow
           /\ \E s \in Resting : row' = [row EXCEPT ![c] = s]

Next == \E c \in Caps : Install(c) \/ Move(c)

Spec == Init /\ [][Next]_row
=============================================================================
