---------------------------- MODULE AbstractMap ----------------------------
(***************************************************************************)
(* What a hash table, a skip list and an integer set promise: a function   *)
(* that is extended, changed and restricted, and a reply that says whether *)
(* there was such a key.                                                   *)
(***************************************************************************)
CONSTANTS Keys, Items

VARIABLES map,   \* from some of Keys to Items
          reply  \* of the last operation

Init == map = <<>> /\ reply = FALSE

Put(m, k, x) == [j \in DOMAIN m \cup {k} |-> IF j = k THEN x ELSE m[j]]
Delete(m, gone) == [j \in DOMAIN m \ gone |-> m[j]]

(* An addition that finds the key may leave its item alone.  Both maps are   *)
(* bound by quantifiers so that TLC evaluates them once.                     *)
Next ==
  \E m \in {map}, n \in {map'} :
    LET known == {k \in Keys : (k \in DOMAIN m) = reply'}
    IN  \/ \E k \in DOMAIN n, x \in Items : k \in known /\ n = Put(m, k, x)
        \/ \E gone \in SUBSET (DOMAIN m \ DOMAIN n) : n = Delete(m, gone) /\ reply' = (gone # {})
        \/ known # {} /\ n = m

Spec == Init /\ [][Next]_<<map, reply>>
=============================================================================
