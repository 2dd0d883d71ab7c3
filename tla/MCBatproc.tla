----------------------------- MODULE MCBatproc -----------------------------
(***************************************************************************)
(* Small batch files for BATPROC: every sequence of a few lines, in        *)
(* families that each bring some commands together.                        *)
(***************************************************************************)
EXTENDS Batproc, TLC

\* What each command does, the file or label it names, the command it runs.
Command3 ==
    [prog      |-> <<"prog", "", "prog">>,
     insert    |-> <<"insert", "", "prog">>,
     kill      |-> <<"kill", "", "prog">>,
     label     |-> <<"label", "L", "prog">>,
     goto      |-> <<"goto", "L", "prog">>,
     gosub     |-> <<"gosub", "L", "prog">>,
     return    |-> <<"return", "", "prog">>,
     quit      |-> <<"quit", "", "prog">>,
     cancel    |-> <<"cancel", "", "prog">>,
     main      |-> <<"batch", "A", "prog">>,
     runB      |-> <<"batch", "B", "prog">>,
     runIns    |-> <<"batch", "I", "prog">>,
     callB     |-> <<"call", "", "runB">>,
     callIns   |-> <<"call", "", "runIns">>,
     ifProg    |-> <<"if", "", "prog">>,
     ifGoto    |-> <<"if", "", "goto">>,
     ifCancel  |-> <<"if", "", "cancel">>,
     ifReturn  |-> <<"if", "", "return">>,
     forProg   |-> <<"for", "", "prog">>,
     forInsert |-> <<"for", "", "insert">>,
     forCallB  |-> <<"for", "", "callB">>,
     forReturn |-> <<"for", "", "return">>,
     iff       |-> <<"iff", "", "prog">>,
     else      |-> <<"else", "", "prog">>,
     elseiff   |-> <<"elseiff", "", "prog">>,
     endiff    |-> <<"endiff", "", "prog">>]

AllCmds == DOMAIN Command3
OpOf == [c \in AllCmds |-> Command3[c][1]]
TargetOf == [c \in AllCmds |-> Command3[c][2]]
BodyOf == [c \in AllCmds |-> Command3[c][3]]

BodiesOf(S) == {BodyOf[c] : c \in {d \in S : OpOf[d] \in {"call", "if", "for"}}}
WithinOf == [c \in AllCmds |-> {c} \cup BodiesOf({c}) \cup BodiesOf(BodiesOf({c}))]

One(c) == Line(<<c>>)
LinesOf(cmds) == {One(c) : c \in cmds}
Files3(a, b) ==
    [f \in {"A", "B", "I"} |->
        IF f = "A" THEN a ELSE IF f = "B" THEN b ELSE <<One("insert")>>]

\* CALL, chaining, FOR, GOTO back and forth and after a CALL, and insertion,
\* two levels deep.
CallLines ==
    LinesOf({"insert", "ifGoto", "runB", "forCallB"}) \cup {Line(<<"callB", "prog">>)}
CallTexts ==
    {Files3(<<x, One("label"), y, z>>, b) :
        x \in LinesOf({"insert", "ifGoto"}), y \in CallLines,
        z \in CallLines \cup {Line(<<"callB", "goto">>)},
        b \in {<<One("insert"), One("cancel")>>, <<One("forProg")>>,
               <<One("runIns")>>, <<One("ifCancel"), One("kill")>>}}

\* GOSUB and RETURN, and what may be done between them.
GosubTexts ==
    {Files3(a, <<One("cancel")>>) :
        a \in {t \in [1..4 -> LinesOf({"prog", "gosub", "label", "return", "forReturn",
                                       "callB", "runB"})] :
                 \E k, l \in 1..4 : t[k] = One("gosub") /\ t[l] = One("label")}}

\* IFF blocks, in a batch file and across a CALL.
IffTexts ==
    {Files3(<<One("iff")>> \o a, <<One("iff"), One("quit"), One("else")>>) :
        a \in [1..4 -> LinesOf({"iff", "else", "elseiff", "endiff", "callB"})]}

AllTexts == CallTexts \cup GosubTexts \cup IffTexts
=============================================================================
