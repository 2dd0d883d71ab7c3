------------------------------ MODULE Reorder ------------------------------
(***************************************************************************)
(* Reordering in the last phase of MAXIMIZE (MAXIMIZE/REORDER.C).  When    *)
(* not everything fits into high DOS memory the user may group lines of    *)
(* CONFIG.SYS and of one batch file, the optimizer looks for a better      *)
(* order, and the lines are moved: those of a group together, all others   *)
(* staying where they are.  The groups are kept in REORDER2.CFG, and are   *)
(* set again from there when MAXIMIZE is run the next time.                *)
(*                                                                         *)
(* Every file is a doubly linked list of lines (DSPTEXT).  A group number  *)
(* belongs to at most one file, the one in GroupVector.                    *)
(***************************************************************************)
EXTENDS Naturals, Integers, Sequences, SequencesExt, FiniteSets, FiniteSetsExt

CONSTANTS
    BatFiles,       \* the batch files, in the order of ActiveFiles
    Length,         \* [Files -> number of lines]
    TextOf,         \* what a line says: [Lines -> texts]
    Marks,          \* the sets of lines that can be programs in SUMFIT
    Vendor,         \* entries of REORDER.CFG
    MaxGroups,      \* MAXGROUPS
    Behind,         \* the int behind GroupVector, in this build
    MaxRuns,        \* bound: how often MAXIMIZE is run; the last ends with Done
    EditRuns        \* bound: in which runs the user changes groups

CONFIG == 0
Files == {CONFIG} \cup ToSet(BatFiles)
Lines == {<<f, i>> \in Files \X (1..Max({Length[f] : f \in Files})) : i <= Length[f]}
Nil == <<>>
FileOf(l) == l[1]

ASSUME FilesAssumption ==
    /\ BatFiles \in Seq(Nat) /\ \A f \in ToSet(BatFiles) : f > 1
    /\ Length \in [Files -> Nat \ {0}]
    /\ Marks \subseteq SUBSET Lines
    /\ MaxGroups \in Nat \ {0}

Free == -1          \* group number not in use
UNGROUP == 0
Low == 255          \* order of a program that is to be loaded low
MULTI == -1         \* thisone: marked lines in more than one batch file
Wild == -2          \* index of no file

VARIABLES
    HbatStrt,       \* first line of each file
    next, prev,     \* links of a line
    sumfit,         \* the lines that have an entry in SUMFIT
    ord,            \* order from the optimizer, 0 if none
    group,          \* group number of a line
    GroupVector,    \* file of each group number, and the ints on either side
    saved,          \* entries of REORDER2.CFG
    marked,         \* the files to be shown
    nmark,
    thisone,        \* the batch file with marked lines
    kk,             \* which of the files is shown
    ndx,            \* the file shown
    pc,
    runs            \* history: bound

lists == <<HbatStrt, next, prev>>
browse == <<marked, nmark, thisone, kk, ndx>>
vars == <<lists, sumfit, ord, group, GroupVector, saved, browse, pc, runs>>

----------------------------------------------------------------------------
(* Lists. *)

\* The lines from one of them along a link.
Walk(link, from) ==
    LET Step(walk, n) ==
            IF link[Last(walk)] = Nil THEN walk ELSE Append(walk, link[Last(walk)])
    IN  IF from = Nil THEN <<>>
        ELSE FoldLeft(Step, <<from>>, [n \in 1..Cardinality(Lines) |-> n])

Listed(f) == Walk(next, HbatStrt[f])
Place(s, l) == CHOOSE i \in DOMAIN s : s[i] = l

----------------------------------------------------------------------------
(* preset_group: the groups of a file, from entries [id, sub, line text,   *)
(* whether it is matched as text].  A groupspec is the name of the file    *)
(* that the line runs, the id of a group, or empty.                        *)

FileName == "file"
Empty == ""
IsId(spec) == spec \notin {FileName, Empty}
NewSpec == [l \in Lines |-> FileName]

\* Mutant of MatchGroup: no matter where the rest of the group is.
MatchGroup_First(f, spec, entry) ==
    LET list == Listed(f)
        same == {i \in DOMAIN list :
                   /\ ~IsId(spec[list[i]])
                   /\ TextOf[list[i]] = entry.text
                   /\ entry.astext \/ spec[list[i]] = FileName}
    IN  IF same # {} THEN list[Min(same)] ELSE Nil

\* match_group: the first line that says the same, but one after a line of
\* the group where there is one.  Lines with an id are passed over.
MatchGroup(f, spec, entry) ==
    LET list == Listed(f)
        ingroup == {i \in DOMAIN list : spec[list[i]] = entry.id}
        same == {i \in DOMAIN list :
                   /\ ~IsId(spec[list[i]])
                   /\ TextOf[list[i]] = entry.text
                   /\ entry.astext \/ spec[list[i]] = FileName}
        after == {i \in same : \E j \in ingroup : j < i}
    IN  IF after # {} THEN list[Min(after)]
        ELSE IF same # {} THEN list[Min(same)] ELSE Nil

\* remove_group, unless the first line of the group was found.
EndOfGroup(f, acc) ==
    IF acc.gotany /\ ~acc.gotone
      THEN [l \in {m \in Lines : FileOf(m) = f /\ acc.spec[m] = acc.lastid}
               |-> FileName] @@ acc.spec
      ELSE acc.spec

\* Phase I: group ids.
SetIds(f, spec0, entries) ==
    LET Entry(acc, e) ==
            LET new == e.id # acc.lastid
                spec == IF new THEN EndOfGroup(f, acc) ELSE acc.spec
                l == MatchGroup(f, spec, e)
            IN  [spec |-> IF l = Nil THEN spec ELSE [spec EXCEPT ![l] = e.id],
                 lastid |-> e.id,
                 gotany |-> l # Nil \/ (~new /\ acc.gotany),
                 gotone |-> (l # Nil /\ e.sub = 1) \/ (~new /\ acc.gotone)]
        start == [spec |-> spec0, lastid |-> Empty, gotany |-> FALSE, gotone |-> FALSE]
    IN  EndOfGroup(f, FoldLeft(Entry, start, entries))

\* Mutant of NewGroup: the number at which the search gave up.
NewGroup_GivenUp(vec) ==
    LET free == {g \in 0..MaxGroups : vec[g] = Free}
    IN  IF free = {} THEN MaxGroups + 2 ELSE Min(free) + 1

\* The group number a new group gets: the first that is free.  The search
\* goes one too far, and finds what is behind the vector.
NewGroup(vec) ==
    LET free == {g \in 0..MaxGroups : vec[g] = Free}
    IN  IF free = {} THEN UNGROUP ELSE Min(free) + 1

\* Phase II: first the lines that are in a group already take the others of
\* the same id along, then each id that is left gets a group of its own.
SetNumbers(f, acc0) ==
    LET Same(acc, l) == {m \in Lines : FileOf(m) = f /\ acc.spec[m] = acc.spec[l]}
        Join(acc, l) ==
            IF IsId(acc.spec[l]) /\ acc.group[l] # UNGROUP
              THEN LET with == {m \in Same(acc, l) : acc.group[m] = UNGROUP}
                   IN  [acc EXCEPT !.group = [m \in with |-> acc.group[l]] @@ @,
                                   !.spec = [m \in Same(acc, l) |-> Empty] @@ @]
              ELSE acc
        Number(acc, l) ==
            IF IsId(acc.spec[l])
              THEN LET g == NewGroup(acc.vec)
                   IN  [group |-> [m \in Same(acc, l) |-> g] @@ acc.group,
                        vec |-> IF g = UNGROUP THEN acc.vec ELSE [acc.vec EXCEPT ![g - 1] = f],
                        spec |-> [m \in Same(acc, l) |-> Empty] @@ acc.spec]
              ELSE acc
    IN  FoldLeft(Number, FoldLeft(Join, acc0, Listed(f)), Listed(f))

PresetGroup(f, acc, entries) ==
    SetNumbers(f, [acc EXCEPT !.spec = SetIds(f, @, entries)])
Preset(acc, f) == PresetGroup(f, PresetGroup(f, acc, saved), Vendor)

----------------------------------------------------------------------------
(* try_reorder: which files are shown. *)

HasPrograms(f) == \E l \in sumfit : FileOf(l) = f
ConfigPrograms == {l \in sumfit : FileOf(l) = CONFIG}

\* CONFIG.SYS is, with two programs at least.  Then the batch files: thisone
\* is the index of one with programs, and nmark counts on after it.
Scan(behind) ==
    LET config == IF Cardinality(ConfigPrograms) > 1 THEN 1 ELSE 0
        BatFile(acc, f) ==
            LET new == HasPrograms(f) /\ acc.marked[acc.nmark] # f
                this == IF ~new THEN acc.thisone
                        ELSE IF acc.thisone # 0 THEN MULTI ELSE f
            IN  IF acc.thisone = MULTI THEN acc
                ELSE [marked |-> IF new /\ this # MULTI
                                   THEN [acc.marked EXCEPT ![acc.nmark] = f]
                                   ELSE acc.marked,
                      nmark |-> IF this > 1 THEN acc.nmark + 1 ELSE acc.nmark,
                      thisone |-> this]
    IN  FoldLeft(BatFile,
                 [marked |-> (0 :> CONFIG @@ 1 :> CONFIG @@ 2 :> behind),
                  nmark |-> config, thisone |-> 0],
                 BatFiles)

\* Show the file marked[k]; the array has two, and anything is behind them.
Anything == Files \cup {Wild}
Show(m, k) ==
    /\ kk' = k
    /\ ndx' \in IF k < 2 THEN {m[k]} ELSE Anything
    /\ pc' = IF ndx' \in Files THEN "browse" ELSE "wild"

Two(m) == (0 :> m[0] @@ 1 :> m[1])

\* Reordering is offered; the user may decline.  Then groups are preset.
TryReorder ==
    /\ pc = "scan"
    /\ \E behind \in Anything :
         LET found == Scan(behind)
             start == [spec |-> NewSpec, group |-> group, vec |-> GroupVector]
             preset == Preset(Preset(start, found.marked[0]), found.marked[1])
         IN  /\ marked' = Two(found.marked)
             /\ nmark' = found.nmark
             /\ thisone' = found.thisone
             /\ IF found.thisone = MULTI
                  THEN pc' = "done" /\ UNCHANGED <<group, GroupVector, kk, ndx>>
                  ELSE \/ pc' = "done" /\ UNCHANGED <<group, GroupVector, kk, ndx>>
                       \/ /\ group' = preset.group
                          /\ GroupVector' = preset.vec
                          /\ Show(found.marked, 0)
    /\ UNCHANGED <<lists, sumfit, ord, saved, runs>>

----------------------------------------------------------------------------
(* do_browse and p3_toggle: the user groups lines. *)

\* The menu on a line: a group of this file, a new one, or none.
GroupMenu == {g \in 1..MaxGroups : GroupVector[g - 1] = ndx} \cup
              {NewGroup(GroupVector), UNGROUP}

\* Mutant of Freed: the number of an emptied group is not given back.
Freed_Never(l) == GroupVector

\* The last line of a group to leave it gives its number back.  (Without a
\* group the line leaves "group" 0, and frees the int before the vector.)
Freed(l) ==
    IF \A m \in Lines \ {l} : FileOf(m) = ndx => group[m] # group[l]
      THEN [GroupVector EXCEPT ![group[l] - 1] = Free]
      ELSE GroupVector

Toggle ==
    /\ pc = "browse" /\ runs \in EditRuns
    /\ HasPrograms(ndx)
    /\ \E l \in Lines : \E g \in GroupMenu :
         /\ FileOf(l) = ndx
         /\ group' = [group EXCEPT ![l] = g]
         /\ GroupVector' = IF g # UNGROUP THEN [Freed(l) EXCEPT ![g - 1] = ndx]
                                          ELSE Freed(l)
    /\ UNCHANGED <<lists, sumfit, ord, saved, browse, pc, runs>>

\* The file is left, unless a group has a single line.
Single ==
    \E g \in 1..MaxGroups :
       /\ GroupVector[g - 1] = ndx
       /\ Cardinality({l \in Lines : FileOf(l) = ndx /\ group[l] = g}) = 1
Leave == pc = "browse" /\ ~Single

\* Next, and Done where there is a next; Previous.
GoNext ==
    /\ Leave /\ kk + 1 < nmark
    /\ Show(marked, kk + 1)
    /\ UNCHANGED <<lists, sumfit, ord, group, GroupVector, saved, marked, nmark,
                   thisone, runs>>

GoBack ==
    /\ Leave /\ kk > 0 /\ HasPrograms(ndx)
    /\ Show(marked, kk - 1)
    /\ UNCHANGED <<lists, sumfit, ord, group, GroupVector, saved, marked, nmark,
                   thisone, runs>>

\* save_groups: CONFIG.SYS, then the batch file.
SavedGroups ==
    LET all == Listed(CONFIG) \o (IF thisone # 0 THEN Listed(thisone) ELSE <<>>)
        lines == SelectSeq(all, LAMBDA l : group[l] # UNGROUP)
        run(i) == CHOOSE n \in 1..i :     \* lines since the group last changed
                    /\ \A j \in (i - n + 1)..i : group[lines[j]] = group[lines[i]]
                    /\ n < i => group[lines[i - n]] # group[lines[i]]
    IN  [i \in DOMAIN lines |->
            [id |-> ToString(group[lines[i]]), sub |-> run(i),
             text |-> TextOf[lines[i]], astext |-> lines[i] \notin sumfit,
             line |-> lines[i]]]        \* history: the line itself

Done ==
    /\ Leave /\ kk + 1 >= nmark
    /\ saved' = SavedGroups
    /\ pc' = "maximize"
    /\ UNCHANGED <<lists, sumfit, ord, group, GroupVector, browse, runs>>

----------------------------------------------------------------------------
(* maximize(TRUE), external: the optimizer orders the programs that are to  *)
(* be loaded high, device drivers before programs.  Unless it gains by the  *)
(* new order, nothing is moved.                                             *)

Maximize ==
    /\ pc = "maximize" /\ runs < MaxRuns
    /\ \/ pc' = "done" /\ UNCHANGED ord
       \/ /\ pc' = "config"
          /\ \E high \in SUBSET sumfit : \E order \in SetToSeqs(high) :
               /\ \A i, j \in DOMAIN order :
                    i < j => FileOf(order[i]) <= FileOf(order[j])
               /\ ord' = [l \in Lines |-> IF l \in high THEN Place(order, l)
                                        ELSE IF l \in sumfit THEN Low ELSE 0]
    /\ UNCHANGED <<lists, sumfit, group, GroupVector, saved, browse, runs>>

----------------------------------------------------------------------------
(* reorder_lines. *)

Ordered(l) == ord[l] # 0

\* Mutant of NextIsNearer: of two that are as near, the next.
NextIsNearer_Tie(dist1, dist2) == dist1 >= dist2

NextIsNearer(dist1, dist2) == dist1 > dist2

\* The order that line j of the array goes by: its own, or that of the
\* nearest ordered line of its group (associate_unmarked_lines).
OrderOf(array, j) ==
    LET mates == {i \in DOMAIN array : Ordered(array[i]) /\ group[array[i]] = group[array[j]]}
        before == {i \in mates : i < j}
        after == {i \in mates : i > j}
        dist1 == j - Max(before)
        dist2 == Min(after) - j
    IN  IF Ordered(array[j]) THEN ord[array[j]]
        ELSE IF after # {} /\ (before = {} \/ NextIsNearer(dist1, dist2)) THEN ord[array[j + dist2]]
        ELSE IF before # {} THEN ord[array[j - dist1]]
        ELSE Low

\* Lines that are ordered or in a group, less those that remain low, and the
\* orders of those that are left.
SortArray(f) == SelectSeq(Listed(f), LAMBDA l : group[l] # UNGROUP \/ Ordered(l))
\* Mutant of Items: lines that remain low are sorted as well.
Items_WithLow(f) ==
    LET array == SortArray(f)
    IN  [j \in DOMAIN array |-> [line |-> array[j], order |-> OrderOf(array, j)]]

Items(f) ==
    LET array == SortArray(f)
        all == [j \in DOMAIN array |-> [line |-> array[j], order |-> OrderOf(array, j)]]
    IN  SelectSeq(all, LAMBDA item : item.order # Low)

\* Mutant of Sorted: the lines are left in the order of the file.
Sorted_ByLine(items) == [k \in DOMAIN items |-> k]

\* After the sort: which of the items comes into the slot of each.
Sorted(items) ==
    SortSeq([k \in DOMAIN items |-> k],
        LAMBDA i, j : \/ items[i].order < items[j].order
                      \/ items[i].order = items[j].order /\ i < j)

\* Mutant of NextInArray: the next in the array, be it next in the file or not.
NextInArray_Any(items, k) == k < Len(items)

\* Whether the line before, or after, is the neighbour in the array too.
PrevInArray(items, k) == k > 1 /\ items[k - 1].line = prev[items[k].line]
NextInArray(items, k) == k < Len(items) /\ items[k + 1].line = next[items[k].line]

\* The neighbours of a slot: as they were, or whoever comes into their slot.
Relink(items) ==
    LET now == Sorted(items)
        old(k) == items[k].line
        new(k) == items[now[k]].line
        Insert(acc, k) ==
            LET t2 == new(k)
                tpold == IF PrevInArray(items, k) THEN new(k - 1) ELSE prev[old(k)]
                tnold == IF NextInArray(items, k) THEN new(k + 1) ELSE next[old(k)]
                Set(link, from, to) == IF from = Nil THEN link ELSE [link EXCEPT ![from] = to]
            IN  [next |-> Set(Set(acc.next, t2, tnold), tpold, t2),
                 prev |-> Set(Set(acc.prev, t2, tpold), tnold, t2)]
        links == FoldLeftDomain(Insert, [next |-> next, prev |-> prev], items)
    IN  [links |-> links, head |-> Last(Walk(links.prev, new(Len(items))))]

ReorderLines(f) ==
    IF SortArray(f) = <<>>
      THEN HbatStrt' = [HbatStrt EXCEPT ![f] = Nil] /\ UNCHANGED <<next, prev>>
    ELSE IF Items(f) = <<>>
      THEN UNCHANGED lists
    ELSE /\ HbatStrt' = [HbatStrt EXCEPT ![f] = Relink(Items(f)).head]
         /\ next' = Relink(Items(f)).links.next
         /\ prev' = Relink(Items(f)).links.prev

ReorderConfig ==
    /\ pc = "config"
    /\ ReorderLines(CONFIG)
    /\ pc' = IF thisone # 0 THEN "batch" ELSE "done"
    /\ UNCHANGED <<sumfit, ord, group, GroupVector, saved, browse, runs>>

ReorderBatch ==
    /\ pc = "batch"
    /\ ReorderLines(thisone)
    /\ pc' = "done"
    /\ UNCHANGED <<sumfit, ord, group, GroupVector, saved, browse, runs>>

----------------------------------------------------------------------------
\* No group is in use; the ints around the vector are what they happen to be.
StartVector ==
    [g \in -1..MaxGroups |-> IF g = -1 THEN CONFIG
                            ELSE IF g = MaxGroups THEN Behind ELSE Free]

\* What MAXIMIZE starts with, its files having been read.
Fresh(programs) ==
    /\ sumfit' = programs
    /\ ord' = [l \in Lines |-> 0]
    /\ group' = [l \in Lines |-> UNGROUP]
    /\ GroupVector' = StartVector
    /\ marked' = (0 :> CONFIG @@ 1 :> CONFIG)
    /\ nmark' = 0 /\ thisone' = 0 /\ kk' = 0 /\ ndx' = CONFIG
    /\ pc' = "scan"

\* MAXIMIZE is run again, on the files as they were written.
Again ==
    /\ pc = "done" /\ runs < MaxRuns
    /\ \A f \in Files : HbatStrt[f] # Nil
    /\ runs' = runs + 1
    /\ \E programs \in Marks : Fresh(programs)
    /\ UNCHANGED <<lists, saved>>

Init ==
    /\ HbatStrt = [f \in Files |-> <<f, 1>>]
    /\ next = [l \in Lines |-> IF l[2] < Length[l[1]] THEN <<l[1], l[2] + 1>> ELSE Nil]
    /\ prev = [l \in Lines |-> IF l[2] > 1 THEN <<l[1], l[2] - 1>> ELSE Nil]
    /\ sumfit \in Marks
    /\ ord = [l \in Lines |-> 0]
    /\ group = [l \in Lines |-> UNGROUP]
    /\ GroupVector = StartVector
    /\ saved = <<>>
    /\ marked = (0 :> CONFIG @@ 1 :> CONFIG)
    /\ nmark = 0 /\ thisone = 0 /\ kk = 0 /\ ndx = CONFIG
    /\ pc = "scan"
    /\ runs = 1

Browse == Toggle \/ GoNext \/ GoBack \/ Done
Next ==
    \/ TryReorder \/ Browse \/ Maximize \/ ReorderConfig \/ ReorderBatch \/ Again

Spec == Init /\ [][Next]_vars

----------------------------------------------------------------------------
(* Properties. *)

FileLines(f) == {l \in Lines : FileOf(l) = f}
Entry == [id : STRING, sub : Nat, text : STRING, astext : BOOLEAN, line : Lines]

\* Types: links within Lines, group numbers within the vector (or one behind
\* it), places in the array of files.
TypeOK ==
    /\ HbatStrt \in [Files -> Lines \cup {Nil}]
    /\ next \in [Lines -> Lines \cup {Nil}]
    /\ prev \in [Lines -> Lines \cup {Nil}]
    /\ sumfit \subseteq Lines
    /\ ord \in [Lines -> 0..Low]
    /\ group \in [Lines -> 0..(MaxGroups + 1)]
    /\ GroupVector \in [-1..MaxGroups -> Files \cup {Free}]
    /\ saved \in Seq(Entry)
    /\ marked \in [0..1 -> Files]
    /\ nmark \in 0..(Len(BatFiles) + 1)
    /\ thisone \in ToSet(BatFiles) \cup {0, MULTI}
    /\ kk \in Nat /\ ndx \in Anything
    /\ pc \in {"scan", "browse", "maximize", "config", "batch", "done", "wild"}

\* Moving lines leaves every list whole: all lines of the file once, and the
\* links of neighbours agree (the relinking loop of reorder_lines).
WellLinked ==
    \A f \in Files : HbatStrt[f] # Nil =>
       /\ ToSet(Listed(f)) = FileLines(f)
       /\ Len(Listed(f)) = Length[f]
       /\ prev[HbatStrt[f]] = Nil
       /\ \A l, m \in FileLines(f) : next[l] = m <=> prev[m] = l

\* A group number stands for lines of one file, the file that GroupVector
\* says, and for as long as it has lines: the optimizer keeps a group in
\* order, and can only do so with lines of one file.
GroupsOwned ==
    \A g \in 1..MaxGroups :
       {FileOf(l) : l \in {m \in Lines : group[m] = g}}
          = IF GroupVector[g - 1] = Free THEN {} ELSE {GroupVector[g - 1]}

\* A line that moves, and where the lines of a file are after the move.
High(l) == ord[l] \notin {0, Low}
Reordered(f) ==
    /\ <<pc, f>> \in {<<"config", CONFIG>>, <<"batch", thisone>>}
    /\ HbatStrt'[f] # Nil
After(f, l) == Place(Walk(next', HbatStrt'[f]), l)

\* The programs to be loaded high come in the order that the optimizer found.
MovedInOrder ==
    [][\A f \in Files : Reordered(f) =>
         \A l, m \in FileLines(f) : High(l) /\ High(m) =>
            (ord[l] < ord[m] <=> After(f, l) < After(f, m)) /\ (l # m => ord[l] # ord[m])]_vars

\* The ordered line that an unmarked one belongs to: of its group the nearest
\* among the lines that are sorted, the one before it if two are as near.
Distance(f, l, m) ==
    LET a == SortArray(f)
    IN  IF Place(a, l) < Place(a, m) THEN 2 * (Place(a, m) - Place(a, l))
                                     ELSE 2 * (Place(a, l) - Place(a, m)) - 1
Candidates(f, l) ==
    {m \in FileLines(f) : Ordered(m) /\ group[m] = group[l] /\ group[l] # UNGROUP}
Owner(f, l) ==
    IF Ordered(l) \/ Candidates(f, l) = {} THEN l
    ELSE CHOOSE m \in Candidates(f, l) :
           \A n \in Candidates(f, l) \ {m} : Distance(f, l, m) < Distance(f, l, n)
Moves(f, l) == High(Owner(f, l))

\* Unmarked lines go with the line they belong to: nothing that moves comes
\* between, and they keep their order around it.
BoundTogether ==
    [][\A f \in Files : Reordered(f) =>
         \A l, m, n \in {k \in FileLines(f) : Moves(f, k)} :
            Owner(f, l) = Owner(f, m) =>
               /\ After(f, l) < After(f, n) /\ After(f, n) < After(f, m)
                     => Owner(f, n) = Owner(f, l)
               /\ Place(Listed(f), l) < Place(Listed(f), m)
                     => After(f, l) < After(f, m)]_vars

\* Every other line stays where it is: comments, SET, programs left low.
OthersStay ==
    [][\A f \in Files : Reordered(f) =>
         \A l \in FileLines(f) : ~Moves(f, l) => After(f, l) = Place(Listed(f), l)]_vars

\* What the user has grouped is in one group again when MAXIMIZE is run the
\* next time, although the lines have been moved, group numbers are given anew
\* and REORDER.CFG has its say.  A line that others repeat word by word has to
\* come directly after one of its group that is unique (match_group is made for
\* that), and may not be the first of its group.
Unique(e) == \A l \in FileLines(FileOf(e.line)) : TextOf[l] = e.text => l = e.line
Group(id) == {saved[i] : i \in {j \in DOMAIN saved : saved[j].id = id}}
Recognized(e) ==
    Unique(e) \/ (e.sub > 1 /\ \E d \in Group(e.id) : Unique(d) /\ next[d.line] = e.line)
EntriesOf(f) == {saved[i] : i \in {j \in DOMAIN saved : FileOf(saved[j].line) = f}}
Remembered ==
    [][pc = "scan" /\ pc' = "browse" =>
         \A f \in {marked'[0], marked'[1]} :
            (\A e \in EntriesOf(f) : Recognized(e)) =>
               \A d, e \in EntriesOf(f) : d.id = e.id =>
                  group'[d.line] = group'[e.line] /\ group'[d.line] # UNGROUP]_vars

\* No file loses its lines.
LinesKept == \A f \in Files : HbatStrt[f] # Nil
=============================================================================
