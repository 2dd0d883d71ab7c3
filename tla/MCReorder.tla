----------------------------- MODULE MCReorder -----------------------------
(***************************************************************************)
(* A CONFIG.SYS of four lines and two batch files, of two lines and one.   *)
(***************************************************************************)
EXTENDS Reorder

Bats == <<8, 9>>
Lengths == (0 :> 4 @@ 8 :> 2 @@ 9 :> 1)

\* The second and the fourth line of CONFIG.SYS are the same.
Text == [l \in Lines |-> IF l = <<0, 4>> THEN "2" ELSE ToString(l[1] + l[2])]

C(is) == {<<0, i>> : i \in is}
B(is) == {<<8, i>> : i \in is}
Programs == {C({1, 3, 4}), C({2, 4}) \cup B({2}), C({1}) \cup B({1, 2}),
             B({2}), B({1}) \cup {<<9, 1>>}}

\* The one value with which the search for a group number goes too far.
BehindFree == Free

NoVendorEntries == <<>>
VendorEntries ==
    <<[id |-> "SHELL", sub |-> 1, text |-> Text[<<0, 2>>], astext |-> FALSE],
      [id |-> "SHELL", sub |-> 2, text |-> Text[<<0, 3>>], astext |-> TRUE]>>
=============================================================================
