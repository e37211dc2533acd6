------------------------------ MODULE EntryList ------------------------------
(***************************************************************************)
(* The vector in which the insurance fund keeps its virtual AMMs and the   *)
(* fee pool its tokens.                                                    *)
(***************************************************************************)
EXTENDS Naturals, Sequences

Listed(list) == {list[i] : i \in DOMAIN list}

\* Mutant: the entry is overwritten by the last one, which stays at the end too.
SwapKeepingLast(list, entry) ==
    LET index == CHOOSE i \in DOMAIN list : list[i] = entry
    IN  [list EXCEPT ![index] = list[Len(list)]]

\* Vec::swap_remove at the place of `entry': the last entry takes that place.
SwapRemove(list, entry) ==
    LET index == CHOOSE i \in DOMAIN list : list[i] = entry
    IN  [i \in 1 .. Len(list) - 1 |-> IF i = index THEN list[Len(list)] ELSE list[i]]

\* What is stored once `entry' is pushed or removed.
Pushed(list, entry) == Append(list, entry)

\* The first `limit' entries, as the contracts read the list.
Taken(list, limit) == SubSeq(list, 1, IF limit < Len(list) THEN limit ELSE Len(list))

NoDuplicates(list) == \A i, j \in DOMAIN list : list[i] = list[j] => i = j

=============================================================================
