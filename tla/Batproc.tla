------------------------------ MODULE Batproc ------------------------------
(***************************************************************************)
(* BATPROC, the batch file processor that MAXIMIZE runs the startup batch  *)
(* files with (BATPROC/BATCH.C and PARSER.C), and what MAXIMIZE makes of   *)
(* the file it leaves behind (MAXIMIZE/READMXMZ.C).                        *)
(*                                                                         *)
(* BATPROC is one thread of functions that call each other recursively:    *)
(* batchcli reads a line, command runs it, and batch, gosub, forcmd, ifcmd *)
(* and call come back to command or batchcli.  The variable stack holds    *)
(* the activations, innermost last; rv is the result on its way to the     *)
(* innermost one, or "run" when that one is to go on.  A file is reopened  *)
(* for every line, so what a frame knows of its place in it is an offset   *)
(* and a line number, and both can be wrong.                               *)
(*                                                                         *)
(* A file is a sequence of units of the same length, each a line or a text *)
(* put in front of one; an offset counts units.                            *)
(***************************************************************************)
EXTENDS Naturals, Integers, Sequences, SequencesExt, FiniteSets

CONSTANTS
    Files,          \* batch files
    InsFile,        \* the batch file an INSERT_CMD entry names
    Texts,          \* what the files may contain at first
    Cmds,           \* commands
    Op,             \* [Cmds -> what the command does]
    Target,         \* the file or label that the command names, if any
    Body,           \* the command run by CALL, IF and FOR
    Within,         \* [Cmds -> the command and those it runs in this way]
    Start,          \* the command that names the input file
    InsCall,        \* CALL of InsFile, as inserted into a file
    MaxBatch,       \* MAXBATCH
    ForItems,       \* bound: items in the set of a FOR
    MaxStack        \* bound: activations; the code has its stack

VARIABLES
    text,           \* the files
    frame,          \* bframe[0..bn]: Len(frame) = bn + 1
    flags,          \* iff_flag, endiff_flag, else_flag
    call_flag,      \* the next batch file nests
    for_flag,       \* inside a FOR
    stack,          \* activations of command, batchcli, batch, gosub, ...
    rv,             \* result being returned, or "run"
    out,            \* MAXIMIZE.OUT
    ran             \* history: the lines carried out and the programs run

vars == <<text, frame, flags, call_flag, for_flag, stack, rv, out, ran>>

ASSUME BatchAssumption ==
    /\ Texts \subseteq [Files -> Seq([ins : {FALSE}, cmds : Seq(Cmds)])]
    /\ Op \in [Cmds -> STRING] /\ Body \in [Cmds -> Cmds]
    /\ Within \in [Cmds -> SUBSET Cmds]
    /\ \A c \in Cmds :
          /\ Op[c] = "batch" => Target[c] \in Files
          /\ Within[c] = {c} \cup (IF Op[c] \in {"call", "if", "for"}
                                     THEN Within[Body[c]] ELSE {})
          /\ \A d \in Within[c] : Within[d] \subseteq Within[c]
    /\ Start \in Cmds /\ Op[Start] = "batch"
    /\ InsCall \in Cmds /\ Op[InsCall] = "call"
    /\ Op[Body[InsCall]] = "batch" /\ Target[Body[InsCall]] = InsFile
    /\ MaxBatch \in Nat \ {0} /\ ForItems \in Nat \ {0} /\ MaxStack \in Nat

NoLine == -1        \* start_line of a frame without a range: 0xffff
Ended == -1         \* read_offset after QUIT and CANCEL
NoFlags == [iff |-> 0, endiff |-> 0, else |-> 0]
WaitEndIff == 128   \* else_flag once the branch taken is over

Top == Last(stack)
Below == Front(stack)
bframe == Last(frame)
WithFrame(fr) == Append(Front(frame), fr)

----------------------------------------------------------------------------
(* Text. *)

Unit == [ins : BOOLEAN, cmds : Seq(Cmds)]
Line(cmds) == [ins |-> FALSE, cmds |-> cmds]
Inserted == [ins |-> TRUE, cmds |-> <<InsCall>>]

\* Complete lines before an offset: the number of the line that starts there.
LineAt(f, offset) ==
    Cardinality({k \in 1..offset : k <= Len(text[f]) /\ ~text[f][k].ins})

\* Mutant of NextLine: what is inserted is a line of its own.
NextLine_InsertIsLine(f, offset) == offset + 1

\* getline: the offset of the next line or of the end of the file, and the
\* commands of this line.  What follows an insertion on its line is the
\* arguments of the command inserted.
NextLine(f, offset) ==
    LET ends == {k \in (offset + 1)..Len(text[f]) : ~text[f][k].ins}
    IN  IF ends = {} THEN Len(text[f])
                     ELSE CHOOSE k \in ends : \A j \in ends : k <= j
Commands(f, offset) == text[f][offset + 1].cmds

GetLine(fr) ==
    [fr EXCEPT !.write_offset = fr.read_offset,
               !.read_offset = NextLine(fr.name, fr.read_offset),
               !.line_number = @ + 1]

Labels(f, l) ==
    {k \in 1..Len(text[f]) :
        /\ ~text[f][k].ins
        /\ k > 1 => ~text[f][k - 1].ins
        /\ Op[text[f][k].cmds[1]] = "label"
        /\ Target[text[f][k].cmds[1]] = l}

\* goto_label: reads from the top until it has passed the label, or all.
GotoLabel(fr, l) ==
    LET f == fr.name
        found == Labels(f, l)
        at == IF found # {} THEN CHOOSE k \in found : \A j \in found : k <= j
                            ELSE Len(text[f])
    IN  [fr EXCEPT !.read_offset = at,
                   !.write_offset = IF found # {} THEN at - 1 ELSE at,
                   !.line_number = LineAt(f, at)]

----------------------------------------------------------------------------
(* MAXIMIZE.OUT: ranges of lines carried out, and programs of note. *)

\* Mutant of ThisLine: lines are numbered from 1.
ThisLine_FromOne(fr) == fr.line_number

\* dump_cmdinfo(0): the frame's range with the current line in it, and the
\* range to write out first if the line does not continue it.
ThisLine(fr) == fr.line_number - 1
Outside(fr) ==
    fr.start_line # NoLine
        /\ (ThisLine(fr) > fr.end_line + 1 \/ ThisLine(fr) < fr.start_line)
CountLine(fr) ==
    IF fr.start_line = NoLine \/ Outside(fr)
      THEN [fr EXCEPT !.start_line = ThisLine(fr), !.end_line = ThisLine(fr)]
      ELSE IF ThisLine(fr) = fr.end_line + 1
             THEN [fr EXCEPT !.end_line = ThisLine(fr)]
             ELSE fr

RangeOf(fr) ==
    [name |-> fr.name, from |-> fr.start_line, to |-> fr.end_line]
DumpIf(cond, fr) ==
    [out EXCEPT !.ranges = @ \cup (IF cond THEN {RangeOf(fr)} ELSE {})]

\* Entering command(): the line is counted, in the frame as it is now.
EnterCommand(fr, below, cmds) ==
    /\ stack' = Append(below, [kind |-> "command", rest |-> cmds])
    /\ rv' = "run"
    /\ out' = DumpIf(Outside(fr), fr)
    /\ frame' = WithFrame(CountLine(fr))
    /\ ran' = [ran EXCEPT !.lines = @ \cup
                    {[name |-> fr.name, line |-> LineAt(fr.name, fr.write_offset)]}]

\* exit_bat: what is left of the range is written out.
ExitDump == out' = DumpIf(bframe.start_line # NoLine, bframe)

Return(result) == stack' = Below /\ rv' = result

----------------------------------------------------------------------------
(* batchcli: the lines of the innermost batch file. *)

InBatchcli == stack # <<>> /\ Top.kind = "batchcli"
AtEnd == bframe.read_offset >= Len(text[bframe.name])

ReadLine ==
    /\ InBatchcli /\ rv = "run"
    /\ bframe.read_offset # Ended /\ ~AtEnd
    /\ EnterCommand(GetLine(bframe), stack,
                    Commands(bframe.name, bframe.read_offset))
    /\ UNCHANGED <<text, flags, call_flag, for_flag>>

\* No more lines, or QUIT or CANCEL has ended the file.
EndOfFile ==
    /\ InBatchcli /\ rv = "run"
    /\ bframe.read_offset = Ended \/ AtEnd
    /\ Return("ok")
    /\ UNCHANGED <<text, frame, flags, call_flag, for_flag, out, ran>>

\* The user has pressed Ctrl-C and says what is to be cancelled: this batch
\* file, or all of them.  (The answer no changes nothing.)
CtrlC ==
    /\ InBatchcli /\ rv = "run"
    /\ bframe.read_offset # Ended
    /\ \E all \in BOOLEAN :
         frame' = IF all THEN [i \in DOMAIN frame |->
                                  [frame[i] EXCEPT !.read_offset = Ended]]
                         ELSE frame
    /\ Return("ctrlc")
    /\ UNCHANGED <<text, flags, call_flag, for_flag, out, ran>>

\* A line is done: RETURN ends this activation, all else goes on reading.
LineDone ==
    /\ InBatchcli /\ rv # "run"
    /\ IF rv = "return" THEN Return("ok") ELSE stack' = stack /\ rv' = "run"
    /\ UNCHANGED <<text, frame, flags, call_flag, for_flag, out, ran>>

----------------------------------------------------------------------------
(* command: the commands of one line, in turn. *)

InCommand == stack # <<>> /\ Top.kind = "command"
Cur == Head(Top.rest)
AtCommand == InCommand /\ rv = "run" /\ Top.rest # <<>>

\* What the caller of the current command goes back to.
Rest == Append(Below, [Top EXCEPT !.rest = Tail(@)])
Finish(result) == stack' = Rest /\ rv' = result

\* A command has returned: ABORT_LINE and BATCH_RETURN end the line, other
\* results do not.
CommandDone ==
    /\ InCommand
    /\ \/ rv \in {"abort", "return"} /\ Return(rv)
       \/ rv \notin {"run", "abort", "return"} /\ Top.rest # <<>>
          /\ stack' = stack /\ rv' = "run"
       \/ rv \notin {"abort", "return"} /\ Top.rest = <<>>
          /\ Return(IF rv = "run" THEN "ok" ELSE rv)
    /\ UNCHANGED <<text, frame, flags, call_flag, for_flag, out, ran>>

\* A label ends the line.
Label ==
    /\ AtCommand /\ Op[Cur] = "label"
    /\ Return("ok")
    /\ UNCHANGED <<text, frame, flags, call_flag, for_flag, out, ran>>

\* iff_parsing: the flags after it, and whether the command is skipped.
IffParsing(op) ==
    LET after ==
            IF op = "endiff"
              THEN IF flags.endiff = 0
                     THEN [iff |-> flags.iff - 1, endiff |-> 0, else |-> 0]
                     ELSE [flags EXCEPT !.endiff = @ - 1]
            ELSE IF op = "iff" /\ flags.else # 0
              THEN [flags EXCEPT !.endiff = @ + 1]
            ELSE IF op \in {"else", "elseiff"} /\ flags.endiff = 0
              THEN IF flags.else = 1
                     THEN [iff |-> IF op = "elseiff" THEN flags.iff - 1 ELSE flags.iff,
                           endiff |-> 0, else |-> 0]
                     ELSE [flags EXCEPT !.else = WaitEndIff]
            ELSE flags
    IN  IF flags.iff = 0
          THEN [flags |-> flags, skip |-> FALSE]
          ELSE [flags |-> after,
                skip |-> op = "endiff" \/ after.else # 0 \/ after.endiff # 0]

Skip ==
    /\ AtCommand /\ Op[Cur] # "label"
    /\ IffParsing(Op[Cur]).skip
    /\ flags' = IffParsing(Op[Cur]).flags
    /\ stack' = Rest /\ rv' = "run"
    /\ UNCHANGED <<text, frame, call_flag, for_flag, out, ran>>

Carried(op) == AtCommand /\ Op[Cur] = op /\ ~IffParsing(op).skip

\* IFF with its condition, ELSEIFF where the branches before were not taken.
Iff ==
    /\ \/ Carried("iff")
       \/ Carried("elseiff") /\ flags.iff # 0
    /\ \E else \in {0, 1} :
         flags' = [IffParsing(Op[Cur]).flags EXCEPT !.iff = @ + 1, !.else = @ + else]
    /\ Finish("ok")
    /\ UNCHANGED <<text, frame, call_flag, for_flag, out, ran>>

\* ELSE of a branch to take; outside of any IFF these are unknown commands.
ElseOrUnknown ==
    /\ \/ Carried("else")
       \/ (Carried("elseiff") \/ Carried("endiff")) /\ flags.iff = 0
    /\ flags' = IffParsing(Op[Cur]).flags
    /\ Finish("ok")
    /\ UNCHANGED <<text, frame, call_flag, for_flag, out, ran>>

----------------------------------------------------------------------------
(* Programs (external). *)

Here == [name |-> bframe.name, line |-> LineAt(bframe.name, bframe.write_offset)]

\* A program runs.  Unless it leaves nothing behind, a record says under
\* which line of which file, and whether it stayed resident.
RunProgram ==
    \/ UNCHANGED <<out, ran>>
    \/ \E resident \in BOOLEAN :
         /\ out' = [out EXCEPT !.programs = @ \cup
                       {[name |-> bframe.name, line |-> ThisLine(bframe),
                         resident |-> resident, star |-> for_flag]}]
         /\ ran' = [ran EXCEPT !.programs = @ \cup
                       {[name |-> Here.name, line |-> Here.line,
                         resident |-> resident]}]

Program ==
    /\ Carried("prog")
    /\ RunProgram
    /\ Finish("ok")
    /\ UNCHANGED <<text, frame, flags, call_flag, for_flag>>

\* A program with an INSERT_CMD entry in the list: a CALL is put in front of
\* the line, which is read again; but not inside the file that is called.
InsertBatch ==
    /\ Carried("insert")
    /\ IF bframe.name = InsFile
         THEN RunProgram /\ Finish("ok") /\ UNCHANGED <<text, frame>>
         ELSE /\ text' = [text EXCEPT ![bframe.name] =
                             InsertAt(@, bframe.write_offset + 1, Inserted)]
              /\ frame' = WithFrame([bframe EXCEPT !.read_offset = bframe.write_offset,
                                                   !.line_number = @ - 1])
              /\ Finish("abort")
              /\ UNCHANGED <<out, ran>>
    /\ UNCHANGED <<flags, call_flag, for_flag>>

\* A program with a KILL_BATCH entry ends the batch file.
KillBatch ==
    /\ Carried("kill")
    /\ Finish("return")
    /\ UNCHANGED <<text, frame, flags, call_flag, for_flag, out, ran>>

----------------------------------------------------------------------------
(* GOTO, GOSUB, RETURN, QUIT, CANCEL. *)

Goto ==
    /\ Carried("goto")
    /\ frame' = WithFrame(GotoLabel(bframe, Target[Cur]))
    /\ flags' = IF Labels(bframe.name, Target[Cur]) # {} THEN NoFlags ELSE flags
    /\ Finish("abort")
    /\ UNCHANGED <<text, call_flag, for_flag, out, ran>>

Gosub ==
    /\ Carried("gosub")
    /\ Len(stack) < MaxStack
    /\ LET fr == GotoLabel(bframe, Target[Cur])
       IN  IF Labels(bframe.name, Target[Cur]) # {}
             THEN /\ frame' = WithFrame([fr EXCEPT !.gsoffset = @ + 1])
                  /\ stack' = Append(Append(Rest, [kind |-> "gosub", offset |-> bframe.read_offset]),
                                    [kind |-> "batchcli"])
                  /\ rv' = "run"
             ELSE frame' = WithFrame(fr) /\ Finish("ok")
    /\ UNCHANGED <<text, flags, call_flag, for_flag, out, ran>>

\* Mutant of GosubDone: the place is restored even if the file has been ended.
GosubDone_Restores ==
    /\ stack # <<>> /\ Top.kind = "gosub" /\ rv # "run"
    /\ frame' = WithFrame([bframe EXCEPT !.read_offset = Top.offset])
    /\ Return(rv)
    /\ UNCHANGED <<text, flags, call_flag, for_flag, out, ran>>

\* Back in gosub: the place to go on reading is restored, the line number not.
GosubDone ==
    /\ stack # <<>> /\ Top.kind = "gosub" /\ rv # "run"
    /\ frame' = WithFrame([bframe EXCEPT !.read_offset =
                    IF rv = "ctrlc" THEN Ended
                    ELSE IF @ # Ended THEN Top.offset ELSE @])
    /\ Return(rv)
    /\ UNCHANGED <<text, flags, call_flag, for_flag, out, ran>>

ReturnCmd ==
    /\ Carried("return")
    /\ IF bframe.gsoffset = 0
         THEN Finish("ok") /\ UNCHANGED frame
         ELSE /\ frame' = WithFrame([bframe EXCEPT !.gsoffset = @ - 1])
              /\ Finish("return")
    /\ UNCHANGED <<text, flags, call_flag, for_flag, out, ran>>

\* QUIT ends this batch file, CANCEL all that are nested.
Quit ==
    /\ \/ /\ Carried("quit")
          /\ frame' = WithFrame([bframe EXCEPT !.read_offset = Ended])
       \/ /\ Carried("cancel")
          /\ frame' = [i \in DOMAIN frame |-> [frame[i] EXCEPT !.read_offset = Ended]]
    /\ Finish("abort")
    /\ UNCHANGED <<text, flags, call_flag, for_flag, out, ran>>

----------------------------------------------------------------------------
(* CALL, and batch files named without it. *)

\* command() as it is entered from CALL, IF and FOR: same frame, same line.
RunBody(activation, body) ==
    EnterCommand(bframe, Append(Rest, activation), <<body>>)

Call ==
    /\ Carried("call")
    /\ Len(stack) < MaxStack
    /\ call_flag' = TRUE
    /\ RunBody([kind |-> "call"], Body[Cur])
    /\ UNCHANGED <<text, flags, for_flag>>

CallDone ==
    /\ stack # <<>> /\ Top.kind = "call" /\ rv # "run"
    /\ call_flag' = FALSE
    /\ Return(rv)
    /\ UNCHANGED <<text, frame, flags, for_flag, out, ran>>

NewFrame(f) ==
    [name |-> f, read_offset |-> 0, write_offset |-> 0, line_number |-> 0,
     gsoffset |-> 0, start_line |-> NoLine, end_line |-> 0]

\* Nesting is as deep as it may be: an error, even if nothing would nest.
TooDeep ==
    /\ Carried("batch")
    /\ Len(frame) >= MaxBatch
    /\ Finish("ok")
    /\ UNCHANGED <<text, frame, flags, call_flag, for_flag, out, ran>>

\* Mutant of Nested: nothing limits how deep.
Nested_Unlimited ==
    /\ Carried("batch")
    /\ call_flag \/ frame = <<>>
    /\ frame' = Append(frame, NewFrame(Target[Cur]))
    /\ stack' = Append(Append(Rest, [kind |-> "batch", save |-> flags]),
                       [kind |-> "batchcli"])
    /\ rv' = "run"
    /\ flags' = NoFlags
    /\ call_flag' = FALSE
    /\ UNCHANGED <<text, for_flag, out, ran>>

\* batch, of a CALL or of the first file: a frame more, and batchcli inside.
Nested ==
    /\ Carried("batch")
    /\ Len(frame) < MaxBatch
    /\ call_flag \/ frame = <<>>
    /\ frame' = Append(frame, NewFrame(Target[Cur]))
    /\ stack' = Append(Append(Rest, [kind |-> "batch", save |-> flags]),
                       [kind |-> "batchcli"])
    /\ rv' = "run"
    /\ flags' = NoFlags
    /\ call_flag' = FALSE
    /\ UNCHANGED <<text, for_flag, out, ran>>

\* Mutant of NestedDone: the IFF flags of the caller are not restored.
NestedDone_KeepsFlags ==
    /\ stack # <<>> /\ Top.kind = "batch" /\ rv # "run"
    /\ ExitDump
    /\ frame' = Front(frame)
    /\ Return(rv)
    /\ UNCHANGED <<text, flags, call_flag, for_flag, ran>>

NestedDone ==
    /\ stack # <<>> /\ Top.kind = "batch" /\ rv # "run"
    /\ ExitDump
    /\ frame' = Front(frame)
    /\ flags' = Top.save
    /\ Return(rv)
    /\ UNCHANGED <<text, call_flag, for_flag, ran>>

\* Mutant of Chain: the file gets a frame of its own.
Chain_Nests ==
    /\ Carried("batch")
    /\ Len(frame) < MaxBatch
    /\ ~call_flag /\ frame # <<>>
    /\ ExitDump
    /\ frame' = Append(frame, NewFrame(Target[Cur]))
    /\ flags' = NoFlags
    /\ Finish("abort")
    /\ UNCHANGED <<text, call_flag, for_flag, ran>>

\* batch, otherwise: the file takes the frame of the one that names it, and
\* is read by the batchcli that is there.
Chain ==
    /\ Carried("batch")
    /\ Len(frame) < MaxBatch
    /\ ~call_flag /\ frame # <<>>
    /\ ExitDump
    /\ frame' = WithFrame(NewFrame(Target[Cur]))
    /\ flags' = NoFlags
    /\ Finish("abort")
    /\ UNCHANGED <<text, call_flag, for_flag, ran>>

----------------------------------------------------------------------------
(* IF and FOR. *)

If ==
    /\ Carried("if")
    /\ \/ /\ Finish("ok")
          /\ UNCHANGED <<frame, out, ran>>
       \/ /\ Len(stack) < MaxStack
          /\ RunBody([kind |-> "if"], Body[Cur])
    /\ UNCHANGED <<text, flags, call_flag, for_flag>>

IfDone ==
    /\ stack # <<>> /\ Top.kind = "if" /\ rv # "run"
    /\ Return(rv)
    /\ UNCHANGED <<text, frame, flags, call_flag, for_flag, out, ran>>

For ==
    /\ Carried("for")
    /\ Len(stack) < MaxStack
    /\ for_flag' = TRUE
    /\ RunBody([kind |-> "for", left |-> ForItems - 1, body |-> Body[Cur]], Body[Cur])
    /\ UNCHANGED <<text, flags, call_flag>>

\* Back in forcmd: only ABORT_LINE or the end of the file ends the loop.
ForBack == stack # <<>> /\ Top.kind = "for" /\ rv # "run"
ForOver == Top.left = 0 \/ rv = "abort" \/ bframe.read_offset = Ended

ForNext ==
    /\ ForBack /\ ~ForOver
    /\ EnterCommand(bframe, Append(Below, [Top EXCEPT !.left = @ - 1]), <<Top.body>>)
    /\ UNCHANGED <<text, flags, call_flag, for_flag>>

ForDone ==
    /\ ForBack /\ ForOver
    /\ for_flag' = FALSE
    /\ Return(rv)
    /\ UNCHANGED <<text, frame, flags, call_flag, out, ran>>

----------------------------------------------------------------------------
Init ==
    /\ text \in Texts
    /\ frame = <<>>
    /\ flags = NoFlags
    /\ call_flag = FALSE
    /\ for_flag = FALSE
    /\ stack = <<[kind |-> "command", rest |-> <<Start>>]>>
    /\ rv = "run"
    /\ out = [ranges |-> {}, programs |-> {}]
    /\ ran = [lines |-> {}, programs |-> {}]

Batchcli == ReadLine \/ EndOfFile \/ LineDone
Command == CommandDone \/ Label \/ Skip
External == Program \/ InsertBatch \/ KillBatch
Internal ==
    \/ Iff \/ ElseOrUnknown \/ Goto \/ Gosub \/ ReturnCmd \/ Quit
    \/ Call \/ TooDeep \/ Nested \/ Chain \/ If \/ For
Returns == GosubDone \/ CallDone \/ NestedDone \/ IfDone \/ ForNext \/ ForDone

Step == Batchcli \/ Command \/ External \/ Internal \/ Returns

Next == Step \/ CtrlC

\* BATPROC is a single program that DOS runs until it ends.
Fairness == WF_vars(Step)

Spec == Init /\ [][Next]_vars /\ Fairness

Finished == stack = <<>>

----------------------------------------------------------------------------
(* MAXIMIZE reads MAXIMIZE.OUT (readmxmz). *)

\* The lines of a batch file that are shown, and may be moved: those in some
\* range, be it on file or still open in a frame.
OpenRanges == {RangeOf(fr) : fr \in {f \in ToSet(frame) : f.start_line # NoLine}}
Visible(ranges) ==
    UNION {{[name |-> r.name, line |-> l] : l \in r.from..r.to} : r \in ranges}

\* Mutant of ResProg: whether it stayed resident is not asked.
ResProg_Any(p) == ~p.star

\* resprog: the lines whose program will be loaded high.
ResProg(p) == p.resident /\ ~p.star
Marked(programs) == {[name |-> p.name, line |-> p.line] : p \in {q \in programs : ResProg(q)}}

----------------------------------------------------------------------------
(* Properties. *)

Activation ==
    [kind : {"command"}, rest : Seq(Cmds)] \cup [kind : {"batchcli", "call", "if"}]
        \cup [kind : {"gosub"}, offset : Int]
        \cup [kind : {"for"}, left : Nat, body : Cmds]
        \cup [kind : {"batch"}, save : [iff : Int, endiff : Int, else : Int]]

Frame ==
    [name : Files, read_offset : Int, write_offset : Nat, line_number : Int,
     gsoffset : Int, start_line : Int, end_line : Int]

Results == {"run", "ok", "abort", "return", "ctrlc"}

\* Types: every activation on the stack, every frame, and both flags.
TypeOK ==
    /\ text \in [Files -> Seq(Unit)]
    /\ frame \in Seq(Frame) /\ Len(frame) <= MaxBatch
    /\ flags \in [iff : Int, endiff : Int, else : {0, 1, WaitEndIff}]
    /\ call_flag \in BOOLEAN /\ for_flag \in BOOLEAN
    /\ stack \in Seq(Activation)
    /\ rv \in Results

\* Every batch file that was started is ended once: the frames are as many as
\* the activations of batch that wait for one to end, whatever GOSUB, FOR,
\* CALL and Ctrl-C have done between (bn++ and bn-- of BATCH.C).
OneFramePerBatch ==
    Len(frame) = Cardinality({i \in DOMAIN stack : stack[i].kind = "batch"})

\* The startup files never use GOSUB.
NoGosub ==
    \A f \in Files : \A k \in DOMAIN text[f] : \A i \in DOMAIN text[f][k].cmds :
        \A c \in Within[text[f][k].cmds[i]] : Op[c] # "gosub"

\* The ranges that BATPROC writes are exactly the lines it has carried out:
\* MAXIMIZE shows those lines and no others (dump_cmdinfo, line_number).
RangesExact == NoGosub => Visible(out.ranges \cup OpenRanges) = ran.lines

\* A line is marked for loading high only if its program stayed resident when
\* that line was run.
MarkedStayed ==
    NoGosub => \A m \in Marked(out.programs) :
                 \E p \in ran.programs :
                   p.resident /\ p.name = m.name /\ p.line = m.line

\* A CALL is put in front of a line once, at its beginning, however often the
\* line is read again (insert_batch).  After a GOSUB, what is left of the line is
\* taken to stand where the last line of the subroutine does.
InsertedOnce ==
    NoGosub => \A f \in Files : \A k \in DOMAIN text[f] :
                 text[f][k].ins => k < Len(text[f]) /\ ~text[f][k + 1].ins

\* No line goes on, after a command that may run other lines, with one that sets
\* the place of reading.  When the lines that were run cancel all, command does
\* not see it, and the GOTO makes the file that was ended go on.  (A CALL of a
\* batch file leaves the place to the new frame.)
RunsLines(c) == \E d \in Within[c] : Op[d] \in {"gosub", "batch"}
Moves(c) ==
    /\ ~(Op[c] = "call" /\ Op[Body[c]] = "batch")
    /\ \E d \in Within[c] : Op[d] \in {"goto", "gosub", "batch", "insert"}
NoGotoAfterCall ==
    \A f \in Files : \A k \in DOMAIN text[f] : \A i, j \in DOMAIN text[f][k].cmds :
       i < j /\ RunsLines(text[f][k].cmds[i]) => ~Moves(text[f][k].cmds[j])

\* Except for that, a batch file that QUIT, CANCEL or Ctrl-C has ended is not
\* read again, although GOSUB, FOR and IF move its read_offset.
EndedIsFinal ==
    [][NoGotoAfterCall =>
         \A i \in DOMAIN frame :
            frame[i].read_offset = Ended /\ i \in DOMAIN frame'
               => frame'[i].read_offset = Ended]_vars

\* Once all files are ended BATPROC comes to its end, whatever it is inside of
\* (QUIT, CANCEL and Ctrl-C; forcmd and gosub look at read_offset for that).
Cancelled == frame # <<>> /\ \A i \in DOMAIN frame : frame[i].read_offset = Ended
CancelEnds == (NoGotoAfterCall /\ Cancelled) ~> Finished

\* The three counters implement blocks that nest, per batch file.
Blocks(fl) ==
    [i \in 1..(fl.iff + fl.endiff) |->
        IF i < fl.iff THEN "taken"
        ELSE IF i > fl.iff THEN "ignored"
        ELSE IF fl.else = 0 THEN "taken"
        ELSE IF fl.else = 1 THEN "waiting" ELSE "over"]

\* The flags of a file are those saved by the activation of batch that runs the
\* next one.
Depth(k) == Cardinality({j \in 1..k : stack[j].kind = "batch"})
Saver(i) == CHOOSE k \in DOMAIN stack : stack[k].kind = "batch" /\ Depth(k) = i
IffLevels ==
    [i \in 1..(Len(frame) + 1) |->
        Blocks(IF i <= Len(frame) THEN stack[Saver(i)].save ELSE flags)]

IffRef == INSTANCE IffBlocks WITH levels <- IffLevels
IffNests == IffRef!Spec
=============================================================================
