------------------------------ MODULE Registry ------------------------------
(***************************************************************************)
(* What the registries of the insurance fund (virtual AMMs) and of the fee *)
(* pool (tokens) promise: a set of bounded size, to which entries are      *)
(* added and from which they are removed one at a time.  The contracts     *)
(* keep a list; InsuranceFund and FeePool are shown to implement this.     *)
(***************************************************************************)
EXTENDS Naturals, FiniteSets

CONSTANTS Entries, Limit

VARIABLE registered

Init == registered = {}

Add(entry) ==
    /\ entry \notin registered
    /\ Cardinality(registered) < Limit
    /\ registered' = registered \union {entry}

Remove(entry) ==
    /\ entry \in registered
    /\ registered' = registered \ {entry}

Next == \E entry \in Entries : Add(entry) \/ Remove(entry)

Spec == Init /\ [][Next]_registered

=============================================================================
