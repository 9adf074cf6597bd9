----------------------------- MODULE SessionPool -----------------------------
(***************************************************************************)
(* What the LSP service promises about the places it gives to sessions: a  *)
(* session takes a place before anything is made for it, takes it once,    *)
(* and at no time are more places taken than any of the limits allows.     *)
(***************************************************************************)
EXTENDS Naturals, FiniteSets

CONSTANTS
    Items,
    Limits      \* records with the items a limit is for and how many it allows

VARIABLE place  \* of an item: not taken yet, taken for it, used by it, or given back

Held == {s \in Items : place[s] \in {"taken", "used"}}

PoolInit == place = [s \in Items |-> "free"]

Take(s) ==
    /\ place[s] = "free"
    /\ \A l \in Limits : s \in l.members => Cardinality(Held \cap l.members) < l.max
    /\ place' = [place EXCEPT ![s] = "taken"]

Use(s) == place[s] = "taken" /\ place' = [place EXCEPT ![s] = "used"]

\* Several places are given back at once when the service shuts down.
GiveBack(S) ==
    /\ S \subseteq Held
    /\ place' = [s \in Items |-> IF s \in S THEN "given_back" ELSE place[s]]

\* A session may be refused, with places left or without.
Refuse(s) == place[s] = "free" /\ place' = [place EXCEPT ![s] = "given_back"]

PoolNext ==
    \/ \E s \in Items : Take(s) \/ Use(s) \/ Refuse(s)
    \/ \E S \in SUBSET Items : GiveBack(S)

PoolSpec == PoolInit /\ [][PoolNext]_place

=============================================================================
