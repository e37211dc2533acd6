----------------------------- MODULE MCPriceFeed -----------------------------
(* Small instances of PriceFeed for TLC: an owner, a heir, one pair or two. *)
EXTENDS PriceFeed

CONSTANTS Owner, Heir       \* model values

\* The owner is not moved about in the runs that explore the rounds.
OwnerStays == owner = Owner

=============================================================================
