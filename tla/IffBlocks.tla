----------------------------- MODULE IffBlocks -----------------------------
(***************************************************************************)
(* What IFF / ELSE / ELSEIFF / ENDIFF promise to the author of a batch     *)
(* file: blocks that nest, of which a command belongs to all that are open *)
(* and is carried out when each of them has its branch taken.  A batch     *)
(* file that is called sees none of its caller's blocks, and the caller    *)
(* finds its own again; a GOTO, or another batch file run in place of this *)
(* one, leaves all blocks of this file.                                    *)
(***************************************************************************)
EXTENDS Sequences, SequencesExt

VARIABLE levels     \* per running batch file the open blocks, outermost first

\* A block was entered by its IFF or ELSE ("taken"), waits for an ELSE
\* ("waiting"), has had its branch ("over"), or is inside one not carried out.
BlockState == {"taken", "waiting", "over", "ignored"}

blocks == Last(levels)

\* Whether the command read next is carried out.
Runs(b) == \A i \in DOMAIN b : b[i] = "taken"

Become(b) == levels' = Append(Front(levels), b)

Init == levels = << <<>> >>

Iff ==
    IF Runs(blocks)
      THEN \E s \in {"taken", "waiting"} : Become(Append(blocks, s))
      ELSE Become(Append(blocks, "ignored"))

Else ==
    /\ blocks # <<>>
    /\ \/ Last(blocks) = "waiting" /\ Become(Append(Front(blocks), "taken"))
       \/ Last(blocks) = "taken" /\ Become(Append(Front(blocks), "over"))

ElseIff ==
    /\ blocks # <<>>
    /\ Last(blocks) = "waiting"
    /\ \E s \in {"taken", "waiting"} : Become(Append(Front(blocks), s))

EndIff == blocks # <<>> /\ Become(Front(blocks))

LeaveAll == Become(<<>>)

Enter == levels' = Append(levels, <<>>)
Exit == Len(levels) > 1 /\ levels' = Front(levels)

Next == Iff \/ Else \/ ElseIff \/ EndIff \/ LeaveAll \/ Enter \/ Exit

Spec == Init /\ [][Next]_levels
=============================================================================
