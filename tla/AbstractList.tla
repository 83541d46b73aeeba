---------------------------- MODULE AbstractList ----------------------------
(***************************************************************************)
(* What a ziplist promises: a sequence that takes entries anywhere and     *)
(* loses ranges.                                                           *)
(***************************************************************************)
EXTENDS Integers, Sequences, SequencesExt

CONSTANTS Vals, MaxEntries

VARIABLE list

Init == list = <<>>

Next ==
  \E old \in {list}, new \in {list'} :
    \/ \E i \in DOMAIN new, v \in Vals :
         Len(old) < MaxEntries /\ new[i] = v /\ new = InsertAt(old, i, v)
    \/ \E i, j \in DOMAIN old :
         i <= j /\ new = SubSeq(old, 1, i - 1) \o SubSeq(old, j + 1, Len(old))

Spec == Init /\ [][Next]_list
=============================================================================
