--------------------------- MODULE SigningOracle ---------------------------
(***************************************************************************)
(* What a bunker promises about the private key, with no locks, goroutines *)
(* or listeners: a key is lent to one user at a time while the door is     *)
(* open; the door shuts only when the key is at home; and nobody is told   *)
(* that the bunker is closed before the door is shut.                      *)
(***************************************************************************)
CONSTANTS Users,      \* connection handlers that may use the key
          Callers     \* routines that may ask for the door to be shut

VARIABLES door,       \* "new", "open" or "shut"
          inUse,      \* the users the key is lent to
          told        \* the callers whose Close has returned

oracleVars == <<door, inUse, told>>

Init == /\ door \in {"new", "open"}
        /\ inUse = {}
        /\ told = {}

Open == /\ door = "new"
        /\ door' = "open"
        /\ UNCHANGED <<inUse, told>>

Begin(u) == /\ door = "open"
            /\ inUse = {}
            /\ inUse' = {u}
            /\ UNCHANGED <<door, told>>

End(u) == /\ u \in inUse
          /\ inUse' = {}
          /\ UNCHANGED <<door, told>>

Shut == /\ door = "open"
        /\ inUse = {}
        /\ door' = "shut"
        /\ UNCHANGED <<inUse, told>>

Tell(g) == /\ door = "shut"
           /\ told' = told \cup {g}
           /\ UNCHANGED <<door, inUse>>

Next == \/ Open
        \/ Shut
        \/ \E u \in Users : Begin(u) \/ End(u)
        \/ \E g \in Callers : Tell(g)

Spec == Init /\ [][Next]_oracleVars
=============================================================================
