---------------------------- MODULE Phases_proofs ----------------------------
(***************************************************************************)
(* The proofs about the phases of MAXIMIZE, for any number of runs and of  *)
(* crashes, whatever the user breaks off and wherever the machine is       *)
(* switched off: types and the shape of what is left to do (TypesHold),    *)
(* that a file which has changed has a backup and a line in PREMAXIM that  *)
(* names it (ChangedIsSaved), that PREMAXIM brings it back                 *)
(* (RestoreIsWhole), that a phase runs over the files that the phase       *)
(* before it has left (PhasesFollow), what is there when the last one is   *)
(* through (FinishHolds), and that a run begins over whole files           *)
(* (RunsStartWhole).                                                       *)
(*                                                                         *)
(* A phase is a list of steps, put together from pieces.  What makes a     *)
(* list safe is said of the list (Safe): a file is saved, and its line is  *)
(* appended, before a step writes it, unless PREMAXIM names it already.    *)
(* It holds of a list if it holds of its pieces (Joined), of the phases    *)
(* therefore, and of what is left of a phase (Tails).                      *)
(*                                                                         *)
(* Between phases only the files say what has been done: LASTPHASE is      *)
(* written after the files of its phase are saved (Recorded), and a phase  *)
(* begins without it only if PREMAXIM has erased it and was broken off     *)
(* then ("halfway").                                                       *)
(*                                                                         *)
(* What a file holds is said with the steps that are left: a phase has     *)
(* rewritten a file, or the step that does is still to come (Outcome), and *)
(* the steps come in an order in which nothing is read after it has been   *)
(* written over (Arranged).  When LASTPHASE names a phase only the closing *)
(* steps are left, so that the files are as the phase wants them           *)
(* (Truthful).                                                             *)
(***************************************************************************)
EXTENDS Phases, SequenceTheorems, TLAPS

-----------------------------------------------------------------------------
(* The inductive invariant.                                                *)

Plain == {"panel", "create", "check", "abort"}
Ends == {"reboot", "out", "dos", "autoexec"}

Step ==
    [op : Plain \cup Ends, file : {""}, data : {None}]
    \cup [op : {"erase"}, file : {"LASTPHASE", "BETA"}, data : {None}]
    \cup [op : {"trunc"}, file : Files, data : {None}]
    \cup [op : {"put"}, file : Files, data : Content \ {None}]
    \cup [op : {"save", "line"}, file : Users, data : {None}]
    \cup [op : {"copy"}, file : Users, data : Content]
    \cup [op : {"from"}, file : {"AUTOEXEC", "BETA"}, src : {"AUTOEXEC", "BETA"}]
    \cup [op : {"unless"}, n : Nat]

\* A program ends once, at its end, and no jump goes past it.
Ending(s) ==
    /\ s # <<>>
    /\ \A i \in DOMAIN s : s[i].op \in Ends <=> i = Len(s)
    /\ \A i \in DOMAIN s : s[i].op = "unless" => i + s[i].n < Len(s)

\* What PREMAXIM may do, and MAXIMIZE may not.
Restoring == {"erase", "copy", "put", "dos", "autoexec"}

\* PREMAXIM erases LASTPHASE and AUTOEXEC.ABETA, then it copies.
PremaximShape ==
    /\ premaxim \in Seq(Step)
    /\ premaxim # <<>> =>
         /\ Len(premaxim) >= 2
         /\ premaxim[1] = Op("erase", "LASTPHASE")
         /\ premaxim[2] = Op("erase", "BETA")
         /\ \A i \in 3..Len(premaxim) : premaxim[i].op = "copy"

TodoShape ==
    /\ todo \in Seq(Step)
    /\ at \in {"maximize", "premaxim"} => Ending(todo)
    /\ at = "maximize" =>
         /\ \A i \in DOMAIN todo : todo[i].op \notin {"copy", "dos", "autoexec"}
         /\ \A i \in DOMAIN todo : todo[i].op = "erase" => todo[i].file = "BETA"
    /\ at = "premaxim" =>
         /\ \A i \in DOMAIN todo : todo[i].op \in Restoring
         /\ \A i \in DOMAIN todo : todo[i].op = "put" => todo[i].file \in Users

\* Before PREMAXIM has been created nothing has been written.
Creating == todo # <<>> /\ todo[1].op = "create"
NothingYet ==
    premaxim = <<>> =>
       /\ disk["AUTOEXEC"] = By(0, 3) /\ disk["BETA"] = None
       /\ at \in {"dos", "boot"} \/ (at = "maximize" /\ Creating)

LauncherIsThere == at = "launcher" => Launcher

\* PREMAXIM leaves neither LASTPHASE nor AUTOEXEC.ABETA.
Erases(f) == \E i \in DOMAIN todo : todo[i].op = "erase" /\ todo[i].file = f
Erasing ==
    at = "premaxim" => \A f \in {"LASTPHASE", "BETA"} : disk[f] = None \/ Erases(f)

TypeInv ==
    TypeOK /\ PremaximShape /\ TodoShape /\ NothingYet /\ LauncherIsThere /\ Erasing

\* After an error, ESC or a break, MAXIMIZE does nothing but tidy up.
ErrorEnds ==
    at = "maximize" /\ AnyError =>
       \A i \in DOMAIN todo : todo[i].op \in {"erase", "out"}

\* A file has a line with the right backup.
Kept(f) == \E i \in CopiesOf(f) : premaxim[i].data = before[f]
KeptNow == IF Creating THEN {} ELSE {f \in Users : Kept(f)}

\* In front of step i a line is appended for f.
Lined(s, i, f) == \E j \in DOMAIN s : j < i /\ s[j].op = "line" /\ s[j].file = f
Writes(step) == step.op \in {"trunc", "put", "from", "copy"}

\* A list of steps that is safe if the files in K are kept already.
Safe(s, K) ==
    /\ \A i \in DOMAIN s : Writes(s[i]) /\ s[i].file \in Users
                              => s[i].file \in K \/ Lined(s, i, s[i].file)
    /\ \A i \in DOMAIN s : s[i].op = "save" =>
         i + 1 \in DOMAIN s /\ s[i + 1].op = "line" /\ s[i + 1].file = s[i].file
    /\ \A i \in DOMAIN s : i > 1 /\ s[i].op = "line" =>
         s[i - 1].op = "save" /\ s[i - 1].file = s[i].file
    /\ \A i \in DOMAIN s : s[i].op = "create" => i = 1

\* LASTPHASE names a phase whose files are kept.
Touched(p) == IF p = 1 THEN Users \ {"BATCH"} ELSE Users
Records(step, p) ==
    step.op = "put" /\ step.file = "LASTPHASE" /\ \E r \in 0..MaxRuns : step.data = By(r, p)
Recorded(s, K) ==
    \A i \in DOMAIN s : \A p \in {1, 2} :
        Records(s[i], p) => \A f \in Touched(p) : f \in K \/ Lined(s, i, f)

\* A batch file that is empty, or not there, is not touched.
Untouched == IF disk["BATCH"] \in {None, Cut} THEN {"BATCH"} ELSE {}
Phase(p) == \E r \in 0..MaxRuns : disk["LASTPHASE"] = By(r, p)

Backups ==
    /\ BackedUp
    /\ \A f \in Users : CopiesOf(f) # {} => Kept(f)
    /\ todo # <<>> => Safe(todo, KeptNow) /\ Recorded(todo, KeptNow \cup Untouched)
    /\ \A f \in Users : todo # <<>> /\ todo[1].op = "line" /\ todo[1].file = f =>
         Kept(f) \/ SavedFiles[f] = before[f]
    /\ \A p \in {1, 2} : Phase(p) =>
         ~Creating /\ Touched(p) \subseteq {f \in Users : Kept(f)} \cup Untouched
    /\ at = "maximize" => disk["LASTPHASE"] # None
    /\ disk["LASTPHASE"] = None /\ disk["BETA"] # None /\ "halfway" \notin spoilt =>
         at = "premaxim"

BackupInv ==
    TypeInv /\ ErrorEnds /\ ("over" \notin spoilt => Backups)

\* What PREMAXIM has still to do.
Copying(f) == {i \in DOMAIN todo : todo[i].op \in {"copy", "put"} /\ todo[i].file = f}
LastIsRight(f) ==
    \A i \in Copying(f) : (\A j \in Copying(f) : j <= i) => todo[i].data = before[f]

\* What a phase copies is there, and has not been erased by then.
Sourced(s, S) ==
    \A j \in DOMAIN s : s[j].op = "from" =>
       s[j].src \in S /\ \A i \in DOMAIN s : s[i].op = "erase" => j < i

NoneGone == \A f \in Users : disk[f] # None /\ before[f] # None
There == {f \in Files : disk[f] # None}
Supplied == at = "maximize" => Sourced(todo, There)
Restores ==
    at = "premaxim" =>
       /\ ~AnyError
       /\ \A f \in Users : LastCopy(f) =>
             LastIsRight(f) /\ (Copying(f) = {} /\ "over" \notin spoilt => disk[f] = before[f])

RestoreInv == BackupInv /\ NoneGone /\ Supplied /\ Restores


-----------------------------------------------------------------------------
(* Steps.                                                                  *)

AllOps == Plain \cup Ends \cup
    {"erase", "trunc", "put", "save", "line", "copy", "from", "unless"}

\* The fields of a step.
LEMMA StepFields ==
  ASSUME NEW x \in Step
  PROVE  /\ x.op \in AllOps
         /\ x.op = "erase" => x.file \in {"LASTPHASE", "BETA"}
         /\ x.op = "trunc" => x.file \in Files
         /\ x.op = "put" => x.file \in Files /\ x.data \in Content \ {None}
         /\ x.op \in {"save", "line"} => x.file \in Users
         /\ x.op = "copy" => x.file \in Users /\ x.data \in Content
         /\ x.op = "from" => x.file \in {"AUTOEXEC", "BETA"} /\ x.src \in {"AUTOEXEC", "BETA"}
         /\ x.op = "unless" => x.n \in Nat
<1>1. CASE x \in [op : Plain \cup Ends, file : {""}, data : {None}]
  BY <1>1 DEF Plain, Ends, AllOps
<1>2. CASE x \in [op : {"erase"}, file : {"LASTPHASE", "BETA"}, data : {None}]
  BY <1>2 DEF AllOps
<1>3. CASE x \in [op : {"trunc"}, file : Files, data : {None}]
  BY <1>3 DEF AllOps
<1>4. CASE x \in [op : {"put"}, file : Files, data : Content \ {None}]
  BY <1>4 DEF AllOps
<1>5. CASE x \in [op : {"save", "line"}, file : Users, data : {None}]
  BY <1>5 DEF AllOps
<1>6. CASE x \in [op : {"copy"}, file : Users, data : Content]
  BY <1>6 DEF AllOps
<1>7. CASE x \in [op : {"from"}, file : {"AUTOEXEC", "BETA"}, src : {"AUTOEXEC", "BETA"}]
  BY <1>7 DEF AllOps
<1>8. CASE x \in [op : {"unless"}, n : Nat]
  BY <1>8 DEF AllOps
<1> QED
  BY <1>1, <1>2, <1>3, <1>4, <1>5, <1>6, <1>7, <1>8 DEF Step

\* The steps that the pieces are made of.
LEMMA PlainStep ==
  ASSUME NEW o \in Plain \cup Ends
  PROVE  /\ Op(o, "") \in Step
         /\ Op(o, "").op = o /\ Op(o, "").file = ""
<1>1. Op(o, "") \in [op : Plain \cup Ends, file : {""}, data : {None}]
  BY DEF Op, Line
<1> QED
  BY <1>1 DEF Step, Op, Line

LEMMA EraseStep ==
  ASSUME NEW f \in {"LASTPHASE", "BETA"}
  PROVE  /\ Op("erase", f) \in Step
         /\ Op("erase", f).op = "erase" /\ Op("erase", f).file = f
<1>1. Op("erase", f) \in [op : {"erase"}, file : {"LASTPHASE", "BETA"}, data : {None}]
  BY DEF Op, Line
<1> QED
  BY <1>1 DEF Step, Op, Line

LEMMA TruncStep ==
  ASSUME NEW f \in Files
  PROVE  /\ Op("trunc", f) \in Step
         /\ Op("trunc", f).op = "trunc" /\ Op("trunc", f).file = f
<1>1. Op("trunc", f) \in [op : {"trunc"}, file : Files, data : {None}]
  BY DEF Op, Line
<1> QED
  BY <1>1 DEF Step, Op, Line

LEMMA PutStep ==
  ASSUME NEW f \in Files, NEW c \in Content \ {None}
  PROVE  /\ Line("put", f, c) \in Step
         /\ Line("put", f, c).op = "put" /\ Line("put", f, c).file = f
         /\ Line("put", f, c).data = c
<1>1. Line("put", f, c) \in [op : {"put"}, file : Files, data : Content \ {None}]
  BY DEF Line
<1> QED
  BY <1>1 DEF Step, Line

LEMMA CopyStep ==
  ASSUME NEW f \in Users, NEW c \in Content
  PROVE  /\ Line("copy", f, c) \in Step
         /\ Line("copy", f, c).op = "copy" /\ Line("copy", f, c).file = f
         /\ Line("copy", f, c).data = c
<1>1. Line("copy", f, c) \in [op : {"copy"}, file : Users, data : Content]
  BY DEF Line
<1> QED
  BY <1>1 DEF Step, Line

LEMMA BackupSteps ==
  ASSUME NEW o \in {"save", "line"}, NEW f \in Users
  PROVE  /\ Op(o, f) \in Step
         /\ Op(o, f).op = o /\ Op(o, f).file = f
<1>1. Op(o, f) \in [op : {"save", "line"}, file : Users, data : {None}]
  BY DEF Op, Line
<1> QED
  BY <1>1 DEF Step, Op, Line

-----------------------------------------------------------------------------
(* Pieces.                                                                 *)

\* A piece of a phase, if the files in K are kept already, those in J are
\* kept or do not matter, and those in S are there; it appends a line for the
\* files in L.
Piece(s, K, J, L, S) ==
    /\ s \in Seq(Step)
    /\ \A i \in DOMAIN s : s[i].op \notin Ends \cup {"copy", "erase"}
    /\ \A i \in DOMAIN s : s[i].op = "from" => s[i].src \in S
    /\ \A i \in DOMAIN s : s[i].op = "unless" => i + s[i].n <= Len(s)
    /\ Safe(s, K) /\ Recorded(s, J)
    /\ \A f \in L : Lined(s, Len(s) + 1, f)

\* A phase, or what is left of it.
Proper(s) ==
    /\ s \in Seq(Step)
    /\ Ending(s)
    /\ \A i \in DOMAIN s : s[i].op \notin {"copy", "dos", "autoexec"}
    /\ \A i \in DOMAIN s : s[i].op = "erase" => s[i].file = "BETA"
Program(s, K, J, S) ==
    Proper(s) /\ Safe(s, K) /\ Recorded(s, J) /\ Sourced(s, S)

\* What may come after a piece.
Fresh(s) == s # <<>> => s[1].op \notin {"line", "create"}

\* The steps of two lists, one after the other.
LEMMA Join ==
  ASSUME NEW s \in Seq(Step), NEW t \in Seq(Step)
  PROVE  /\ s \o t \in Seq(Step) /\ Len(s \o t) = Len(s) + Len(t)
         /\ Len(s) \in Nat /\ Len(t) \in Nat
         /\ DOMAIN s = 1..Len(s) /\ DOMAIN t = 1..Len(t)
         /\ DOMAIN (s \o t) = 1..(Len(s) + Len(t))
         /\ \A i \in DOMAIN s : (s \o t)[i] = s[i]
         /\ \A i \in DOMAIN t : (s \o t)[Len(s) + i] = t[i]
         /\ \A i \in DOMAIN (s \o t) :
               \/ i \in DOMAIN s /\ (s \o t)[i] = s[i]
               \/ \E k \in DOMAIN t : i = Len(s) + k /\ (s \o t)[i] = t[k]
<1>1. /\ Len(s) \in Nat /\ Len(t) \in Nat
      /\ DOMAIN s = 1..Len(s) /\ DOMAIN t = 1..Len(t)
  BY LenProperties
<1>2. /\ s \o t \in Seq(Step) /\ Len(s \o t) = Len(s) + Len(t)
      /\ \A i \in 1..(Len(s) + Len(t)) :
            (s \o t)[i] = IF i <= Len(s) THEN s[i] ELSE t[i - Len(s)]
  BY ConcatProperties
<1>3. PICK u : u = s \o t
  OBVIOUS
<1>4. DOMAIN u = 1..(Len(s) + Len(t))
  BY <1>2, <1>3, LenProperties
<1>5. PICK m \in Nat, n \in Nat : m = Len(s) /\ n = Len(t)
  BY <1>1
<1>6. ASSUME NEW i \in 1..m
      PROVE  i \in 1..(m + n) /\ i <= m
  OBVIOUS
<1>7. ASSUME NEW i \in 1..n
      PROVE  m + i \in 1..(m + n) /\ ~(m + i <= m) /\ (m + i) - m = i
  OBVIOUS
<1>8. ASSUME NEW i \in 1..(m + n)
      PROVE  i \in 1..m \/ (~(i <= m) /\ i - m \in 1..n /\ i = m + (i - m))
  OBVIOUS
<1>9. \A i \in 1..(m + n) : u[i] = IF i <= m THEN s[i] ELSE t[i - m]
  BY <1>2, <1>3, <1>5
<1>10. \A i \in 1..m : u[i] = s[i]
  BY <1>6, <1>9
<1>11. \A i \in 1..n : u[m + i] = t[i]
  BY <1>7, <1>9
<1>12. \A i \in 1..(m + n) : \/ i \in 1..m /\ u[i] = s[i]
                             \/ \E k \in 1..n : i = m + k /\ u[i] = t[k]
  BY <1>8, <1>9, <1>10
<1> QED
  BY <1>1, <1>2, <1>3, <1>4, <1>5, <1>10, <1>11, <1>12

\* A line that is appended in a part is appended in the whole.
LEMMA JoinLined ==
  ASSUME NEW s \in Seq(Step), NEW t \in Seq(Step), NEW f
  PROVE  /\ \A i \in Nat : Lined(s, i, f) => Lined(s \o t, i, f)
         /\ \A i \in Nat : Lined(t, i, f) => Lined(s \o t, Len(s) + i, f)
         /\ Lined(s, Len(s) + 1, f) => \A i \in DOMAIN t : Lined(s \o t, Len(s) + i, f)
<1>1. PICK u : u = s \o t
  OBVIOUS
<1>2. PICK m \in Nat, n \in Nat : m = Len(s) /\ n = Len(t)
  BY Join
<1>3. /\ DOMAIN s = 1..m /\ DOMAIN t = 1..n /\ DOMAIN u = 1..(m + n)
      /\ \A i \in 1..m : u[i] = s[i]
      /\ \A i \in 1..n : u[m + i] = t[i]
  BY <1>1, <1>2, Join
<1>4. \A i \in 1..m : i \in 1..(m + n)
  OBVIOUS
<1>5. \A i \in 1..n : m + i \in 1..(m + n)
  OBVIOUS
<1>6. ASSUME NEW i \in Nat, Lined(s, i, f)
      PROVE  Lined(u, i, f)
  BY <1>3, <1>4, <1>6 DEF Lined
<1>7. ASSUME NEW i \in Nat, Lined(t, i, f)
      PROVE  Lined(u, m + i, f)
  <2>1. PICK j \in 1..n : j < i /\ t[j].op = "line" /\ t[j].file = f
    BY <1>3, <1>7 DEF Lined
  <2>2. m + j \in 1..(m + n) /\ m + j < m + i
    BY <1>5, <2>1
  <2> QED
    BY <1>3, <2>1, <2>2 DEF Lined
<1>8. ASSUME Lined(s, m + 1, f), NEW i \in 1..n
      PROVE  Lined(u, m + i, f)
  <2>1. PICK j \in 1..m : s[j].op = "line" /\ s[j].file = f
    BY <1>3, <1>8 DEF Lined
  <2>2. j < m + i
    OBVIOUS
  <2> QED
    BY <1>3, <1>4, <2>1, <2>2 DEF Lined
<1> QED
  BY <1>1, <1>2, <1>3, <1>6, <1>7, <1>8

\* The same, with names for the list and the lengths.
Joins(s, t, u, m, n) ==
    /\ DOMAIN s = 1..m /\ DOMAIN t = 1..n /\ DOMAIN u = 1..(m + n)
    /\ u \in Seq(Step) /\ Len(u) = m + n
    /\ \A i \in 1..m : u[i] = s[i]
    /\ \A i \in 1..n : u[m + i] = t[i]
    /\ \A i \in 1..(m + n) : \/ i \in 1..m /\ u[i] = s[i]
                             \/ \E k \in 1..n : i = m + k /\ u[i] = t[k]

LEMMA JoinNamed ==
  ASSUME NEW s \in Seq(Step), NEW t \in Seq(Step), NEW u, u = s \o t,
         NEW m \in Nat, m = Len(s), NEW n \in Nat, n = Len(t)
  PROVE  Joins(s, t, u, m, n)
<1>1. Joins(s, t, s \o t, Len(s), Len(t))
  <2>1. /\ DOMAIN s = 1..Len(s) /\ DOMAIN t = 1..Len(t)
        /\ DOMAIN (s \o t) = 1..(Len(s) + Len(t))
        /\ s \o t \in Seq(Step) /\ Len(s \o t) = Len(s) + Len(t)
    BY Join
  <2>2. \A i \in DOMAIN s : (s \o t)[i] = s[i]
    BY Join
  <2>3. \A i \in DOMAIN t : (s \o t)[Len(s) + i] = t[i]
    BY Join
  <2>4. \A i \in DOMAIN (s \o t) :
           \/ i \in DOMAIN s /\ (s \o t)[i] = s[i]
           \/ \E k \in DOMAIN t : i = Len(s) + k /\ (s \o t)[i] = t[k]
    BY Join
  <2> QED
    BY <2>1, <2>2, <2>3, <2>4, Zenon DEF Joins
<1> QED
  BY <1>1, Zenon

\* Two safe lists make a safe list.
LEMMA JoinSafe ==
  ASSUME NEW s \in Seq(Step), NEW t \in Seq(Step), NEW K, NEW L,
         Safe(s, K), Safe(t, K \cup L), Fresh(t),
         \A f \in L : Lined(s, Len(s) + 1, f),
         NEW u, u = s \o t,
         NEW m \in Nat, m = Len(s), NEW n \in Nat, n = Len(t)
  PROVE  Safe(u, K)
<1>1. u = s \o t
  OBVIOUS
<1>2. m = Len(s) /\ n = Len(t)
  OBVIOUS
<1>3. /\ DOMAIN s = 1..m /\ DOMAIN t = 1..n /\ DOMAIN u = 1..(m + n)
      /\ \A i \in 1..m : u[i] = s[i]
      /\ \A i \in 1..n : u[m + i] = t[i]
      /\ \A i \in 1..(m + n) : \/ i \in 1..m /\ u[i] = s[i]
                               \/ \E k \in 1..n : i = m + k /\ u[i] = t[k]
  <2>1. Joins(s, t, u, m, n)
    BY JoinNamed
  <2> QED
    BY <2>1 DEF Joins
<1>8. /\ \A i \in 1..m : i \in Nat /\ i \in 1..(m + n)
      /\ \A k \in 1..n : k \in Nat /\ m + k \in 1..(m + n) /\ (k = 1 \/ k > 1)
      /\ \A k \in 1..n : (m + k) + 1 = m + (k + 1) /\ (m + k) - 1 = m + (k - 1)
  OBVIOUS
<1>4. ASSUME NEW i \in 1..(m + n), Writes(u[i]), u[i].file \in Users
      PROVE  u[i].file \in K \/ Lined(u, i, u[i].file)
  <2>1. CASE i \in 1..m /\ u[i] = s[i]
    <3>1. s[i].file \in K \/ Lined(s, i, s[i].file)
      BY <1>3, <1>4, <2>1 DEF Safe
    <3>2. CASE Lined(s, i, s[i].file)
      BY <1>1, <1>8, <2>1, <3>2, JoinLined
    <3> QED
      BY <2>1, <3>1, <3>2
  <2>2. ASSUME NEW k \in 1..n, i = m + k, u[i] = t[k]
        PROVE  u[i].file \in K \/ Lined(u, i, u[i].file)
    <3>1. t[k].file \in K \cup L \/ Lined(t, k, t[k].file)
      BY <1>3, <1>4, <2>2 DEF Safe
    <3>2. CASE t[k].file \in L
      <4>1. Lined(s, Len(s) + 1, t[k].file) /\ k \in DOMAIN t
        BY <1>3, <2>2, <3>2
      <4>2. Lined(u, m + k, t[k].file)
        BY <1>1, <1>2, <4>1, JoinLined
      <4> QED
        BY <2>2, <4>2
    <3>3. CASE Lined(t, k, t[k].file)
      BY <1>1, <1>2, <1>8, <2>2, <3>3, JoinLined
    <3> QED
      BY <2>2, <3>1, <3>2, <3>3
  <2> QED
    BY <1>3, <2>1, <2>2
<1>5. ASSUME NEW i \in 1..(m + n), u[i].op = "save"
      PROVE  i + 1 \in 1..(m + n) /\ u[i + 1].op = "line" /\ u[i + 1].file = u[i].file
  <2>1. CASE i \in 1..m /\ u[i] = s[i]
    <3>1. s[i].op = "save" /\ i \in DOMAIN s
      BY <1>3, <1>5, <2>1
    <3>2. i + 1 \in 1..m /\ s[i + 1].op = "line" /\ s[i + 1].file = s[i].file
      BY <1>3, <3>1 DEF Safe
    <3> QED
      BY <1>3, <1>8, <2>1, <3>2
  <2>2. ASSUME NEW k \in 1..n, i = m + k, u[i] = t[k]
        PROVE  i + 1 \in 1..(m + n) /\ u[i + 1].op = "line" /\ u[i + 1].file = u[i].file
    <3>3. t[k].op = "save" /\ k \in DOMAIN t
      BY <1>3, <1>5, <2>2
    <3>1. k + 1 \in 1..n /\ t[k + 1].op = "line" /\ t[k + 1].file = t[k].file
      BY <1>3, <3>3 DEF Safe
    <3>2. i + 1 = m + (k + 1) /\ m + (k + 1) \in 1..(m + n)
      BY <1>8, <2>2, <3>1
    <3> QED
      BY <1>3, <2>2, <3>1, <3>2, ZenonT(60)
  <2> QED
    BY <1>3, <2>1, <2>2
<1>6. ASSUME NEW i \in 1..(m + n), i > 1, u[i].op = "line"
      PROVE  u[i - 1].op = "save" /\ u[i - 1].file = u[i].file
  <2>1. CASE i \in 1..m /\ u[i] = s[i]
    <3>1. s[i - 1].op = "save" /\ s[i - 1].file = s[i].file /\ i - 1 \in 1..m
      BY <1>3, <1>6, <2>1 DEF Safe
    <3> QED
      BY <1>3, <2>1, <3>1
  <2>2. ASSUME NEW k \in 1..n, i = m + k, u[i] = t[k]
        PROVE  u[i - 1].op = "save" /\ u[i - 1].file = u[i].file
    <3>1. t # <<>>
      BY <1>2, <2>2
    <3>2. k > 1
      BY <1>3, <1>6, <2>2, <3>1 DEF Fresh
    <3>6. t[k].op = "line" /\ k \in DOMAIN t
      BY <1>3, <1>6, <2>2
    <3>3. t[k - 1].op = "save" /\ t[k - 1].file = t[k].file
      <4>1. \A j \in DOMAIN t : j > 1 /\ t[j].op = "line" =>
               t[j - 1].op = "save" /\ t[j - 1].file = t[j].file
        BY DEF Safe
      <4> QED
        BY <3>2, <3>6, <4>1
    <3>4. k - 1 \in 1..n
      BY <3>2
    <3>5. i - 1 = m + (k - 1)
      BY <1>8, <2>2
    <3> QED
      BY <1>3, <2>2, <3>3, <3>4, <3>5
  <2> QED
    BY <1>3, <2>1, <2>2
<1>7. ASSUME NEW i \in 1..(m + n), u[i].op = "create"
      PROVE  i = 1
  <2>1. CASE i \in 1..m /\ u[i] = s[i]
    BY <1>3, <1>7, <2>1 DEF Safe
  <2>2. ASSUME NEW k \in 1..n, i = m + k, u[i] = t[k]
        PROVE  FALSE
    <3>1. t[k].op = "create" /\ k \in DOMAIN t
      BY <1>3, <1>7, <2>2
    <3>2. k = 1
      BY <3>1 DEF Safe
    <3>3. t # <<>>
      BY <1>2, <2>2
    <3> QED
      BY <3>1, <3>2, <3>3 DEF Fresh
  <2> QED
    BY <1>3, <2>1, <2>2
<1> QED
  BY <1>1, <1>3, <1>4, <1>5, <1>6, <1>7 DEF Safe

\* LASTPHASE is written late enough in two lists if it is in each.
LEMMA JoinRecorded ==
  ASSUME NEW s \in Seq(Step), NEW t \in Seq(Step), NEW J, NEW L,
         Recorded(s, J), Recorded(t, J \cup L),
         \A f \in L : Lined(s, Len(s) + 1, f),
         NEW u, u = s \o t,
         NEW m \in Nat, m = Len(s), NEW n \in Nat, n = Len(t)
  PROVE  Recorded(u, J)
<1>1. Joins(s, t, u, m, n)
  BY JoinNamed
<1>2. /\ DOMAIN s = 1..m /\ DOMAIN t = 1..n /\ DOMAIN u = 1..(m + n)
      /\ \A i \in 1..(m + n) : \/ i \in 1..m /\ u[i] = s[i]
                               \/ \E k \in 1..n : i = m + k /\ u[i] = t[k]
  BY <1>1 DEF Joins
<1>3. (\A i \in 1..m : i \in Nat) /\ (\A k \in 1..n : k \in Nat)
  OBVIOUS
<1>4. SUFFICES ASSUME NEW i \in 1..(m + n), NEW p \in {1, 2}, Records(u[i], p),
                      NEW f \in Touched(p)
               PROVE  f \in J \/ Lined(u, i, f)
  BY <1>2 DEF Recorded
<1>5. CASE i \in 1..m /\ u[i] = s[i]
  <2>1. Records(s[i], p) /\ i \in DOMAIN s
    BY <1>2, <1>4, <1>5
  <2>2. f \in J \/ Lined(s, i, f)
    BY <2>1 DEF Recorded
  <2>3. Lined(s, i, f) => Lined(u, i, f)
    BY <1>3, <1>5, JoinLined
  <2> QED
    BY <2>2, <2>3
<1>6. ASSUME NEW k \in 1..n, i = m + k, u[i] = t[k]
      PROVE  f \in J \/ Lined(u, i, f)
  <2>1. Records(t[k], p) /\ k \in DOMAIN t
    BY <1>2, <1>4, <1>6
  <2>2. f \in J \cup L \/ Lined(t, k, f)
    BY <2>1 DEF Recorded
  <2>3. Lined(t, k, f) => Lined(u, m + k, f)
    BY <1>3, <1>6, JoinLined
  <2>4. f \in L => Lined(u, m + k, f)
    BY <2>1, JoinLined
  <2> QED
    BY <1>6, <2>2, <2>3, <2>4
<1> QED
  BY <1>2, <1>5, <1>6

\* Two pieces make a piece.
LEMMA Joined ==
  ASSUME NEW s, NEW t, NEW K, NEW J, NEW L, NEW M, NEW S,
         Piece(s, K, J, L, S), Piece(t, K \cup L, J \cup L, M, S), Fresh(t)
  PROVE  Piece(s \o t, K, J, L \cup M, S)
<1>1. s \in Seq(Step) /\ t \in Seq(Step)
  BY DEF Piece
<1>2. PICK u : u = s \o t
  OBVIOUS
<1>3. PICK m \in Nat, n \in Nat : m = Len(s) /\ n = Len(t)
  BY <1>1, Join
<1>4. Joins(s, t, u, m, n)
  BY <1>1, <1>2, <1>3, JoinNamed
<1>5. /\ DOMAIN s = 1..m /\ DOMAIN t = 1..n /\ DOMAIN u = 1..(m + n)
      /\ u \in Seq(Step) /\ Len(u) = m + n
      /\ \A i \in 1..(m + n) : \/ i \in 1..m /\ u[i] = s[i]
                               \/ \E k \in 1..n : i = m + k /\ u[i] = t[k]
  BY <1>4 DEF Joins
<1>6. Safe(u, K)
  <2>1. Safe(s, K) /\ Safe(t, K \cup L) /\ \A f \in L : Lined(s, Len(s) + 1, f)
    BY DEF Piece
  <2> QED
    BY <1>1, <1>2, <1>3, <2>1, JoinSafe
<1>7. Recorded(u, J)
  <2>1. Recorded(s, J) /\ Recorded(t, J \cup L) /\ \A f \in L : Lined(s, Len(s) + 1, f)
    BY DEF Piece
  <2> QED
    BY <1>1, <1>2, <1>3, <2>1, JoinRecorded
<1>8. \A i \in 1..(m + n) : u[i].op \notin Ends \cup {"copy", "erase"}
  <2>1. /\ \A i \in 1..m : s[i].op \notin Ends \cup {"copy", "erase"}
        /\ \A i \in 1..n : t[i].op \notin Ends \cup {"copy", "erase"}
    BY <1>5 DEF Piece
  <2> QED
    BY <1>5, <2>1
<1>11. \A i \in 1..(m + n) : u[i].op = "from" => u[i].src \in S
  <2>1. /\ \A i \in 1..m : s[i].op = "from" => s[i].src \in S
        /\ \A i \in 1..n : t[i].op = "from" => t[i].src \in S
    BY <1>5 DEF Piece
  <2> QED
    BY <1>5, <2>1
<1>9. \A i \in 1..(m + n) : u[i].op = "unless" => i + u[i].n <= m + n
  <2>1. /\ \A i \in 1..m : s[i].op = "unless" => i + s[i].n <= m
        /\ \A i \in 1..n : t[i].op = "unless" => i + t[i].n <= n
    BY <1>3, <1>5 DEF Piece
  <2>2. SUFFICES ASSUME NEW i \in 1..(m + n), u[i].op = "unless"
                 PROVE  i + u[i].n <= m + n
    OBVIOUS
  <2>3. CASE i \in 1..m /\ u[i] = s[i]
    <3>1. i + s[i].n <= m /\ s[i].n \in Nat
      BY <1>1, <1>5, <2>1, <2>2, <2>3, StepFields, ElementOfSeq
    <3> QED
      BY <2>3, <3>1
  <2>4. ASSUME NEW k \in 1..n, i = m + k, u[i] = t[k]
        PROVE  i + u[i].n <= m + n
    <3>1. k + t[k].n <= n /\ t[k].n \in Nat
      BY <1>1, <1>5, <2>1, <2>2, <2>4, StepFields, ElementOfSeq
    <3> QED
      BY <2>4, <3>1
  <2> QED
    BY <1>5, <2>3, <2>4
<1>10. \A f \in L \cup M : Lined(u, Len(u) + 1, f)
  <2>1. SUFFICES ASSUME NEW f \in L \cup M
                 PROVE  Lined(u, Len(u) + 1, f)
    OBVIOUS
  <2>2. CASE f \in L
    <3>1. PICK j \in DOMAIN s : s[j].op = "line" /\ s[j].file = f
      BY <2>2 DEF Piece, Lined
    <3>2. j \in DOMAIN u /\ j < (m + n) + 1
      BY <1>5, <3>1
    <3>3. u[j] = s[j]
      BY <1>1, <1>2, <3>1, Join
    <3> QED
      BY <1>5, <3>1, <3>2, <3>3 DEF Lined
  <2>3. CASE f \in M
    <3>1. Lined(t, n + 1, f)
      BY <1>3, <2>3 DEF Piece
    <3>4. n + 1 \in Nat
      OBVIOUS
    <3>2. Lined(u, m + (n + 1), f)
      BY <1>1, <1>2, <1>3, <3>1, <3>4, JoinLined
    <3>3. m + (n + 1) = (m + n) + 1
      OBVIOUS
    <3> QED
      BY <1>5, <3>2, <3>3
  <2> QED
    BY <2>2, <2>3
<1> QED
  BY <1>2, <1>5, <1>6, <1>7, <1>8, <1>9, <1>10, <1>11 DEF Piece

\* A piece and what comes after it make a program.
LEMMA Finished ==
  ASSUME NEW s, NEW t, NEW K, NEW J, NEW L, NEW S,
         Piece(s, K, J, L, S), Program(t, K \cup L, J \cup L, S), Fresh(t)
  PROVE  Program(s \o t, K, J, S)
<1>1. s \in Seq(Step) /\ t \in Seq(Step)
  BY DEF Piece, Program, Proper
<1>2. PICK u : u = s \o t
  OBVIOUS
<1>3. PICK m \in Nat, n \in Nat : m = Len(s) /\ n = Len(t)
  BY <1>1, Join
<1>4. Joins(s, t, u, m, n)
  BY <1>1, <1>2, <1>3, JoinNamed
<1>5. /\ DOMAIN s = 1..m /\ DOMAIN t = 1..n /\ DOMAIN u = 1..(m + n)
      /\ u \in Seq(Step) /\ Len(u) = m + n
      /\ \A i \in 1..(m + n) : \/ i \in 1..m /\ u[i] = s[i]
                               \/ \E k \in 1..n : i = m + k /\ u[i] = t[k]
  BY <1>4 DEF Joins
<1>6. n # 0
  BY <1>1, <1>3, EmptySeq DEF Program, Proper, Ending
<1>7. Safe(u, K)
  <2>1. Safe(s, K) /\ Safe(t, K \cup L) /\ \A f \in L : Lined(s, Len(s) + 1, f)
    BY DEF Piece, Program, Proper
  <2> QED
    BY <1>1, <1>2, <1>3, <2>1, JoinSafe
<1>8. Recorded(u, J)
  <2>1. Recorded(s, J) /\ Recorded(t, J \cup L) /\ \A f \in L : Lined(s, Len(s) + 1, f)
    BY DEF Piece, Program, Proper
  <2> QED
    BY <1>1, <1>2, <1>3, <2>1, JoinRecorded
<1>9. \A i \in 1..(m + n) : u[i].op \notin {"copy", "dos", "autoexec"}
  <2>1. /\ \A i \in 1..m : s[i].op \notin {"copy", "dos", "autoexec"}
        /\ \A i \in 1..n : t[i].op \notin {"copy", "dos", "autoexec"}
    BY <1>5 DEF Piece, Program, Proper, Ends
  <2> QED
    BY <1>5, <2>1
<1>10. \A i \in 1..(m + n) : u[i].op \in Ends <=> i = m + n
  <2>1. /\ \A i \in 1..m : s[i].op \notin Ends
        /\ \A i \in 1..n : t[i].op \in Ends <=> i = n
    BY <1>3, <1>5 DEF Piece, Program, Proper, Ending
  <2>2. SUFFICES ASSUME NEW i \in 1..(m + n)
                 PROVE  u[i].op \in Ends <=> i = m + n
    OBVIOUS
  <2>3. CASE i \in 1..m /\ u[i] = s[i]
    BY <1>6, <2>1, <2>3
  <2>4. ASSUME NEW k \in 1..n, i = m + k, u[i] = t[k]
        PROVE  u[i].op \in Ends <=> i = m + n
    <3>1. i = m + n <=> k = n
      BY <2>4
    <3> QED
      BY <2>1, <2>4, <3>1
  <2> QED
    BY <1>5, <2>3, <2>4
<1>11. \A i \in 1..(m + n) : u[i].op = "unless" => i + u[i].n < m + n
  <2>1. /\ \A i \in 1..m : s[i].op = "unless" => i + s[i].n <= m
        /\ \A i \in 1..n : t[i].op = "unless" => i + t[i].n < n
    BY <1>3, <1>5 DEF Piece, Program, Proper, Ending
  <2>2. SUFFICES ASSUME NEW i \in 1..(m + n), u[i].op = "unless"
                 PROVE  i + u[i].n < m + n
    OBVIOUS
  <2>3. CASE i \in 1..m /\ u[i] = s[i]
    <3>1. i + s[i].n <= m /\ s[i].n \in Nat
      BY <1>1, <1>5, <2>1, <2>2, <2>3, StepFields, ElementOfSeq
    <3> QED
      BY <1>6, <2>3, <3>1
  <2>4. ASSUME NEW k \in 1..n, i = m + k, u[i] = t[k]
        PROVE  i + u[i].n < m + n
    <3>1. k + t[k].n < n /\ t[k].n \in Nat
      BY <1>1, <1>5, <2>1, <2>2, <2>4, StepFields, ElementOfSeq
    <3> QED
      BY <2>4, <3>1
  <2> QED
    BY <1>5, <2>3, <2>4
<1>13. \A i \in 1..(m + n) : u[i].op = "erase" => u[i].file = "BETA"
  <2>1. /\ \A i \in 1..m : s[i].op # "erase"
        /\ \A i \in 1..n : t[i].op = "erase" => t[i].file = "BETA"
    BY <1>5 DEF Piece, Program, Proper
  <2>2. ASSUME NEW i \in 1..(m + n), u[i].op = "erase"
        PROVE  u[i].file = "BETA"
    <3>1. PICK k \in 1..n : u[i] = t[k]
      BY <1>5, <2>1, <2>2
    <3>2. t[k].op = "erase"
      BY <2>2, <3>1
    <3>3. t[k].file = "BETA"
      BY <2>1, <3>2
    <3> QED
      BY <3>1, <3>3
  <2> QED
    BY <2>2
<1>14. Sourced(u, S)
  <2>1. /\ \A i \in 1..m : s[i].op # "erase" /\ (s[i].op = "from" => s[i].src \in S)
        /\ \A j \in 1..n : t[j].op = "from" =>
              t[j].src \in S /\ \A i \in 1..n : t[i].op = "erase" => j < i
    BY <1>5 DEF Piece, Program, Sourced
  <2>2. SUFFICES ASSUME NEW j \in 1..(m + n), u[j].op = "from"
                 PROVE  u[j].src \in S /\ \A i \in 1..(m + n) : u[i].op = "erase" => j < i
    BY <1>5 DEF Sourced
  <2>3. u[j].src \in S
    BY <1>5, <2>1, <2>2
  <2>4. SUFFICES ASSUME NEW i \in 1..(m + n), u[i].op = "erase"
                 PROVE  j < i
    BY <2>3
  <2>5. PICK k \in 1..n : i = m + k /\ t[k].op = "erase"
    BY <1>5, <2>1, <2>4
  <2>6. CASE j \in 1..m
    BY <2>5, <2>6
  <2>7. ASSUME NEW l \in 1..n, j = m + l, u[j] = t[l]
        PROVE  j < i
    <3>1. l < k
      BY <2>1, <2>2, <2>5, <2>7
    <3> QED
      BY <2>5, <2>7, <3>1
  <2> QED
    BY <1>5, <2>6, <2>7
<1>12. u # <<>>
  BY <1>5, <1>6, EmptySeq
<1> QED
  BY <1>2, <1>5, <1>7, <1>8, <1>9, <1>10, <1>11, <1>12, <1>13, <1>14 DEF Program, Proper, Ending

\* What is safe stays so if more is kept.
LEMMA Weaker ==
  ASSUME NEW s, NEW K, NEW J, NEW K2, NEW J2, K \subseteq K2, J \subseteq J2
  PROVE  /\ Safe(s, K) => Safe(s, K2)
         /\ Recorded(s, J) => Recorded(s, J2)
<1>1. Safe(s, K) => Safe(s, K2)
  BY DEF Safe
<1>2. Recorded(s, J) => Recorded(s, J2)
  BY DEF Recorded
<1> QED
  BY <1>1, <1>2

-----------------------------------------------------------------------------
(* What is left of a list of steps after the first one.                    *)

Tails(s, t, n) ==
    /\ n >= 1
    /\ DOMAIN s = 1..n /\ DOMAIN t = 1..(n - 1)
    /\ t \in Seq(Step) /\ Len(t) = n - 1
    /\ Head(s) = s[1] /\ s[1] \in Step
    /\ \A i \in 1..(n - 1) : t[i] = s[i + 1]
    /\ \A i \in 1..n : i = 1 \/ (i - 1 \in 1..(n - 1) /\ s[i] = t[i - 1])

\* The steps of the tail.
LEMMA TailNamed ==
  ASSUME NEW s \in Seq(Step), s # <<>>, NEW t, t = Tail(s), NEW n, n = Len(s)
  PROVE  n \in Nat /\ Tails(s, t, n)
<1>1. n \in Nat /\ n >= 1 /\ DOMAIN s = 1..n
  BY EmptySeq, LenProperties
<1>2. t \in Seq(Step) /\ Len(t) = n - 1 /\ \A i \in 1..Len(t) : t[i] = s[i + 1]
  BY HeadTailProperties
<1>3. DOMAIN t = 1..(n - 1)
  BY <1>2, LenProperties
<1>4. Head(s) = s[1] /\ s[1] \in Step
  BY <1>1, ElementOfSeq
<1>5. ASSUME NEW i \in 1..n, i # 1
      PROVE  i - 1 \in 1..(n - 1) /\ s[i] = t[i - 1]
  <2>1. i - 1 \in 1..(n - 1) /\ (i - 1) + 1 = i
    BY <1>1, <1>5
  <2> QED
    BY <1>2, <2>1
<1> QED
  BY <1>1, <1>2, <1>3, <1>4, <1>5 DEF Tails

\* What is left of a program is one, and it is over after its last step.
LEMMA TailEnding ==
  ASSUME NEW s \in Seq(Step), Ending(s), NEW t, t = Tail(s), NEW n, n = Len(s)
  PROVE  /\ s # <<>> /\ n \in Nat /\ Tails(s, t, n)
         /\ s[1].op \in Ends => n = 1
         /\ s[1].op \notin Ends => Ending(t) /\ t # <<>> /\ n > 1
<1>1. s # <<>>
  BY DEF Ending
<1>2. n \in Nat /\ Tails(s, t, n)
  BY <1>1, TailNamed
<1>3. /\ n >= 1 /\ DOMAIN s = 1..n /\ DOMAIN t = 1..(n - 1) /\ Len(t) = n - 1
      /\ t \in Seq(Step)
      /\ \A i \in 1..(n - 1) : t[i] = s[i + 1]
  BY <1>2 DEF Tails
<1>4. /\ \A i \in 1..n : s[i].op \in Ends <=> i = n
      /\ \A i \in 1..n : s[i].op = "unless" => i + s[i].n < n
  BY <1>3 DEF Ending
<1>5. 1 \in 1..n
  BY <1>2, <1>3
<1>6. s[1].op \in Ends => n = 1
  BY <1>4, <1>5
<1>7. ASSUME s[1].op \notin Ends
      PROVE  Ending(t) /\ t # <<>> /\ n > 1
  <2>1. n > 1
    BY <1>2, <1>3, <1>4, <1>5, <1>7
  <2>2. t # <<>>
    <3>1. Len(t) # 0
      BY <1>2, <1>3, <2>1
    <3> QED
      BY <3>1, EmptySeq
  <2>3. ASSUME NEW i \in 1..(n - 1)
        PROVE  /\ t[i].op \in Ends <=> i = n - 1
               /\ t[i].op = "unless" => i + t[i].n < n - 1
    <3>1. i + 1 \in 1..n /\ (i + 1 = n <=> i = n - 1) /\ i \in Nat
      BY <1>2
    <3>2. t[i].op \in Ends <=> i = n - 1
      BY <1>3, <1>4, <3>1
    <3>3. ASSUME t[i].op = "unless"
          PROVE  i + t[i].n < n - 1
      <4>1. t[i].n \in Nat /\ (i + 1) + t[i].n < n
        BY <1>3, <1>4, <3>1, <3>3, ElementOfSeq, StepFields
      <4> QED
        BY <1>2, <3>1, <4>1
    <3> QED
      BY <3>2, <3>3
  <2>4. Ending(t)
    BY <1>3, <2>2, <2>3 DEF Ending
  <2> QED
    BY <2>1, <2>2, <2>4
<1> QED
  BY <1>1, <1>2, <1>6, <1>7

\* What is left is safe when the line that was there is in PREMAXIM.
LEMMA TailSafe ==
  ASSUME NEW s, NEW t, NEW n \in Nat, Tails(s, t, n), NEW K, Safe(s, K), NEW K2, K \subseteq K2,
         s[1].op = "line" => s[1].file \in K2
  PROVE  /\ Safe(t, K2)
         /\ \A i \in DOMAIN t : t[i].op # "create"
         /\ t # <<>> /\ t[1].op = "line" => s[1].op = "save" /\ s[1].file = t[1].file
         /\ s[1].op = "save" => t # <<>> /\ t[1].op = "line"
<1>1. /\ n >= 1 /\ DOMAIN s = 1..n /\ DOMAIN t = 1..(n - 1) /\ Len(t) = n - 1 /\ t \in Seq(Step)
      /\ \A i \in 1..(n - 1) : t[i] = s[i + 1]
      /\ \A i \in 1..n : i = 1 \/ (i - 1 \in 1..(n - 1) /\ s[i] = t[i - 1])
  BY DEF Tails
<1>2. \A i \in 1..(n - 1) : /\ i + 1 \in 1..n /\ i + 1 > 1 /\ i + 1 # 1 /\ (i + 1) - 1 = i
                            /\ (i + 1) + 1 = (i + 1) + 1 /\ i \in Nat
  OBVIOUS
<1>3. ASSUME NEW i \in 1..(n - 1), Writes(t[i]), t[i].file \in Users
      PROVE  t[i].file \in K2 \/ Lined(t, i, t[i].file)
  <2>1. t[i].file \in K \/ Lined(s, i + 1, t[i].file)
    BY <1>1, <1>2, <1>3 DEF Safe
  <2>2. CASE Lined(s, i + 1, t[i].file)
    <3>1. PICK j \in 1..n : j < i + 1 /\ s[j].op = "line" /\ s[j].file = t[i].file
      BY <1>1, <2>2 DEF Lined
    <3>2. CASE j = 1
      BY <3>1, <3>2
    <3>3. CASE j # 1
      <4>1. j - 1 \in 1..(n - 1) /\ s[j] = t[j - 1]
        BY <1>1, <3>3
      <4>2. j - 1 < i
        BY <3>1
      <4> QED
        BY <1>1, <3>1, <4>1, <4>2 DEF Lined
    <3> QED
      BY <3>2, <3>3
  <2> QED
    BY <2>1, <2>2
<1>4. ASSUME NEW i \in 1..(n - 1), t[i].op = "save"
      PROVE  i + 1 \in 1..(n - 1) /\ t[i + 1].op = "line" /\ t[i + 1].file = t[i].file
  <2>1. (i + 1) + 1 \in 1..n /\ s[(i + 1) + 1].op = "line" /\ s[(i + 1) + 1].file = s[i + 1].file
    BY <1>1, <1>2, <1>4, ZenonT(60) DEF Safe
  <2>2. i + 1 \in 1..(n - 1)
    BY <2>1
  <2> QED
    BY <1>1, <2>1, <2>2
<1>5. ASSUME NEW i \in 1..(n - 1), t[i].op = "line"
      PROVE  s[i].op = "save" /\ s[i].file = t[i].file
  <2>1. s[(i + 1) - 1].op = "save" /\ s[(i + 1) - 1].file = s[i + 1].file
    BY <1>1, <1>2, <1>5 DEF Safe
  <2> QED
    BY <1>1, <1>2, <2>1
<1>6. ASSUME NEW i \in 1..(n - 1), i > 1, t[i].op = "line"
      PROVE  t[i - 1].op = "save" /\ t[i - 1].file = t[i].file
  <2>1. i - 1 \in 1..(n - 1) /\ s[i] = t[i - 1]
    BY <1>1, <1>6
  <2> QED
    BY <1>5, <1>6, <2>1
<1>7. ASSUME NEW i \in 1..(n - 1)
      PROVE  t[i].op # "create"
  <2>1. i + 1 \in DOMAIN s /\ i + 1 # 1 /\ t[i] = s[i + 1]
    BY <1>1, <1>2
  <2>2. s[i + 1].op # "create"
    BY <2>1 DEF Safe
  <2> QED
    BY <2>1, <2>2
<1>8. Safe(t, K2)
  BY <1>1, <1>3, <1>4, <1>6, <1>7 DEF Safe
<1>9. ASSUME t # <<>>
      PROVE  1 \in 1..(n - 1)
  BY <1>1, <1>9, EmptySeq
<1>10. ASSUME s[1].op = "save"
       PROVE  t # <<>> /\ t[1].op = "line"
  <2>4. 1 \in DOMAIN s
    BY <1>1
  <2>1. 1 + 1 \in 1..n /\ s[1 + 1].op = "line"
    BY <1>1, <1>10, <2>4 DEF Safe
  <2>2. 1 \in 1..(n - 1)
    BY <2>1
  <2>3. t # <<>>
    BY <1>1, <2>2
  <2> QED
    BY <1>1, <2>1, <2>2, <2>3
<1> QED
  BY <1>1, <1>5, <1>7, <1>8, <1>9, <1>10

\* LASTPHASE is still written late enough.
LEMMA TailRecorded ==
  ASSUME NEW s, NEW t, NEW n \in Nat, Tails(s, t, n), NEW J, Recorded(s, J), NEW J2, J \subseteq J2,
         s[1].op = "line" => s[1].file \in J2
  PROVE  Recorded(t, J2)
<1>1. /\ n >= 1 /\ DOMAIN s = 1..n /\ DOMAIN t = 1..(n - 1)
      /\ \A i \in 1..(n - 1) : t[i] = s[i + 1]
      /\ \A i \in 1..n : i = 1 \/ (i - 1 \in 1..(n - 1) /\ s[i] = t[i - 1])
  BY DEF Tails
<1>2. \A i \in 1..(n - 1) : i + 1 \in 1..n /\ i \in Nat
  OBVIOUS
<1>3. SUFFICES ASSUME NEW i \in 1..(n - 1), NEW p \in {1, 2}, Records(t[i], p),
                      NEW f \in Touched(p)
               PROVE  f \in J2 \/ Lined(t, i, f)
  BY <1>1 DEF Recorded
<1>4. Records(s[i + 1], p) /\ i + 1 \in DOMAIN s
  BY <1>1, <1>2, <1>3
<1>5. f \in J \/ Lined(s, i + 1, f)
  BY <1>4 DEF Recorded
<1>6. CASE Lined(s, i + 1, f)
  <2>1. PICK j \in 1..n : j < i + 1 /\ s[j].op = "line" /\ s[j].file = f
    BY <1>1, <1>6 DEF Lined
  <2>2. CASE j # 1
    <3>1. j - 1 \in 1..(n - 1) /\ s[j] = t[j - 1]
      BY <1>1, <2>2
    <3>2. j - 1 < i
      BY <2>1
    <3> QED
      BY <1>1, <2>1, <3>1, <3>2 DEF Lined
  <2> QED
    BY <2>1, <2>2
<1> QED
  BY <1>5, <1>6

\* What is still copied is there if what is erased was not the first step.
LEMMA TailSourced ==
  ASSUME NEW s, NEW t, NEW n \in Nat, Tails(s, t, n), NEW S, Sourced(s, S), NEW S2,
         S \subseteq S2 \/ s[1].op = "erase"
  PROVE  Sourced(t, S2)
<1>1. /\ n >= 1 /\ DOMAIN s = 1..n /\ DOMAIN t = 1..(n - 1)
      /\ \A i \in 1..(n - 1) : t[i] = s[i + 1]
  BY DEF Tails
<1>2. \A i \in 1..(n - 1) : i + 1 \in 1..n /\ i \in Nat /\ ~(i + 1 < 1)
  OBVIOUS
<1>3. SUFFICES ASSUME NEW j \in 1..(n - 1), t[j].op = "from"
               PROVE  t[j].src \in S2 /\ \A i \in 1..(n - 1) : t[i].op = "erase" => j < i
  BY <1>1 DEF Sourced
<1>4. s[j + 1].op = "from" /\ j + 1 \in DOMAIN s /\ s[j + 1] = t[j]
  BY <1>1, <1>2, <1>3
<1>5. s[j + 1].src \in S /\ \A i \in DOMAIN s : s[i].op = "erase" => j + 1 < i
  BY <1>4 DEF Sourced
<1>6. s[1].op # "erase"
  BY <1>1, <1>2, <1>5
<1>7. ASSUME NEW i \in 1..(n - 1), t[i].op = "erase"
      PROVE  j < i
  <2>1. j + 1 < i + 1
    BY <1>1, <1>2, <1>5, <1>7
  <2> QED
    BY <2>1
<1> QED
  BY <1>4, <1>5, <1>6, <1>7

-----------------------------------------------------------------------------
(* The phases.                                                             *)

\* What a file holds tells who wrote it.
LEMMA Contents ==
  /\ None \in Content /\ Cut \in Content /\ None # Cut
  /\ \A r \in 0..MaxRuns, p \in 1..3 :
        By(r, p) \in Content /\ By(r, p) # None /\ By(r, p) # Cut
  /\ \A r, p, q, o : By(r, p) = By(q, o) => r = q /\ p = o
<1>1. Len(<<>>) = 0 /\ Len(<<0>>) = 1 /\ \A r, p : Len(<<r, p>>) = 2
  OBVIOUS
<1>2. None \in Content /\ Cut \in Content /\ None # Cut
  BY <1>1 DEF None, Cut, Content
<1>3. ASSUME NEW r \in 0..MaxRuns, NEW p \in 1..3
      PROVE  By(r, p) \in Content /\ By(r, p) # None /\ By(r, p) # Cut
  BY <1>1 DEF None, Cut, Content, By
<1>4. ASSUME NEW r, NEW p, NEW q, NEW o, By(r, p) = By(q, o)
      PROVE  r = q /\ p = o
  BY <1>4 DEF By
<1> QED
  BY <1>2, <1>3, <1>4

\* A list that is safe as it is.
LEMMA OnePiece ==
  ASSUME NEW o \in Plain, NEW K, NEW J, NEW S
  PROVE  /\ Piece(<<Op(o, "")>>, K, J, {}, S)
         /\ o # "create" => Fresh(<<Op(o, "")>>)
<1>1. PICK x : x = Op(o, "")
  OBVIOUS
<1>2. x \in Step /\ x.op = o /\ x.file = ""
  BY <1>1, PlainStep
<1>3. PICK s : s = <<x>>
  OBVIOUS
<1>4. s \in Seq(Step) /\ Len(s) = 1 /\ DOMAIN s = {1} /\ s[1] = x
  <2>3. x \in Step
    BY <1>2
  <2>1. s \in Seq(Step) /\ Len(s) = 1 /\ s[1] = x
    BY <1>3, <2>3
  <2>2. DOMAIN s = 1..1
    BY <2>1, LenProperties
  <2> QED
    BY <2>1, <2>2
<1>5. o \notin {"save", "line", "trunc", "put", "from", "copy", "erase", "unless"}
  BY DEF Plain
<1>6. o \notin Ends
  BY DEF Plain, Ends
<1>7. Safe(s, K)
  BY <1>2, <1>4, <1>5 DEF Safe, Writes
<1>8. Recorded(s, J)
  BY <1>2, <1>4, <1>5 DEF Recorded, Records
<1>9. Piece(s, K, J, {}, S)
  BY <1>2, <1>4, <1>5, <1>6, <1>7, <1>8 DEF Piece
<1>10. o # "create" => Fresh(s)
  BY <1>2, <1>4, <1>5 DEF Fresh, Plain
<1> QED
  BY <1>1, <1>3, <1>9, <1>10

\* Two steps, as facts.
Two(s, x, y) ==
    /\ s \in Seq(Step) /\ Len(s) = 2 /\ DOMAIN s = {1, 2}
    /\ s[1] = x /\ s[2] = y

\* A file that is kept, or is none of the user's, may be written; LASTPHASE
\* only when the files of the phase are kept.
LEMMA WritePiece ==
  ASSUME NEW f \in Files, NEW c \in Content, c # None, NEW K, NEW J, NEW S,
         f \in Users => f \in K,
         f = "LASTPHASE" =>
            \A p \in {1, 2}, r \in 0..MaxRuns : c = By(r, p) => Touched(p) \subseteq J
  PROVE  Piece(Write(f, c), K, J, {}, S) /\ Fresh(Write(f, c))
<1>1. PICK x, y : x = Op("trunc", f) /\ y = Line("put", f, c)
  OBVIOUS
<1>2. /\ x \in Step /\ x.op = "trunc" /\ x.file = f
      /\ y \in Step /\ y.op = "put" /\ y.file = f /\ y.data = c
  BY <1>1, TruncStep, PutStep
<1>3. PICK s : s = Write(f, c)
  OBVIOUS
<1>4. Two(s, x, y)
  BY <1>1, <1>2, <1>3 DEF Write, Two
<1>5. Safe(s, K)
  BY <1>2, <1>4 DEF Safe, Writes, Two
<1>6. Recorded(s, J)
  BY <1>2, <1>4 DEF Recorded, Records, Two
<1>7. Piece(s, K, J, {}, S)
  BY <1>2, <1>4, <1>5, <1>6 DEF Piece, Two, Ends
<1>8. Fresh(s)
  BY <1>2, <1>4 DEF Fresh, Two
<1> QED
  BY <1>3, <1>7, <1>8

LEMMA CopyPiece ==
  ASSUME NEW g \in {"AUTOEXEC", "BETA"}, NEW f \in {"AUTOEXEC", "BETA"}, NEW K, NEW J, NEW S,
         g \in S, f \in Users => f \in K
  PROVE  Piece(CopyFile(g, f), K, J, {}, S) /\ Fresh(CopyFile(g, f))
<1>1. PICK x, y : x = Op("trunc", f) /\ y = [op |-> "from", file |-> f, src |-> g]
  OBVIOUS
<1>2. /\ x \in Step /\ x.op = "trunc" /\ x.file = f
      /\ y \in Step /\ y.op = "from" /\ y.file = f /\ y.src = g
  <2>1. f \in Files
    BY DEF Files, Users
  <2>2. y \in [op : {"from"}, file : {"AUTOEXEC", "BETA"}, src : {"AUTOEXEC", "BETA"}]
    BY <1>1
  <2>3. y \in Step
    BY <2>2 DEF Step
  <2> QED
    BY <1>1, <2>1, <2>3, TruncStep
<1>3. PICK s : s = CopyFile(g, f)
  OBVIOUS
<1>4. Two(s, x, y)
  BY <1>1, <1>2, <1>3 DEF CopyFile, Two
<1>5. Safe(s, K)
  BY <1>2, <1>4 DEF Safe, Writes, Two
<1>6. Recorded(s, J)
  BY <1>2, <1>4 DEF Recorded, Records, Two
<1>7. Piece(s, K, J, {}, S)
  BY <1>2, <1>4, <1>5, <1>6 DEF Piece, Two, Ends
<1>8. Fresh(s)
  BY <1>2, <1>4 DEF Fresh, Two
<1> QED
  BY <1>3, <1>7, <1>8

LEMMA BackupPiece ==
  ASSUME NEW f \in Users, NEW K, NEW J, NEW S
  PROVE  Piece(Backup(f), K, J, {f}, S) /\ Fresh(Backup(f))
<1>1. PICK x, y : x = Op("save", f) /\ y = Op("line", f)
  OBVIOUS
<1>2. /\ x \in Step /\ x.op = "save" /\ x.file = f
      /\ y \in Step /\ y.op = "line" /\ y.file = f
  BY <1>1, BackupSteps
<1>3. PICK s : s = Backup(f)
  OBVIOUS
<1>4. Two(s, x, y)
  BY <1>1, <1>2, <1>3 DEF Backup, Two
<1>5. Safe(s, K)
  BY <1>2, <1>4 DEF Safe, Writes, Two
<1>6. Recorded(s, J)
  BY <1>2, <1>4 DEF Recorded, Records, Two
<1>9. Lined(s, Len(s) + 1, f)
  BY <1>2, <1>4 DEF Lined, Two
<1>7. Piece(s, K, J, {f}, S)
  BY <1>2, <1>4, <1>5, <1>6, <1>9 DEF Piece, Two, Ends
<1>8. Fresh(s)
  BY <1>2, <1>4 DEF Fresh, Two
<1> QED
  BY <1>3, <1>7, <1>8

LEMMA EmptyPiece ==
  ASSUME NEW K, NEW J, NEW S
  PROVE  Piece(<<>>, K, J, {}, S) /\ Fresh(<<>>)
<1>1. PICK s : s = <<>>
  OBVIOUS
<1>2. s \in Seq(Step) /\ DOMAIN s = {} /\ s = <<>>
  BY <1>1, EmptySeq, LenProperties
<1>3. Safe(s, K) /\ Recorded(s, J)
  BY <1>2 DEF Safe, Recorded
<1>4. Piece(s, K, J, {}, S) /\ Fresh(s)
  BY <1>2, <1>3 DEF Piece, Fresh
<1> QED
  BY <1>1, <1>4

\* What may come after a piece, when it is put together.
LEMMA FreshJoin ==
  ASSUME NEW s \in Seq(Step), NEW t \in Seq(Step), Fresh(s), Fresh(t)
  PROVE  Fresh(s \o t)
<1>1. CASE s = <<>>
  <2>1. s \o t = t
    BY <1>1, ConcatEmptySeq
  <2> QED
    BY <2>1
<1>2. CASE s # <<>>
  <2>1. 1 \in DOMAIN s
    BY <1>2, EmptySeq, LenProperties
  <2>2. (s \o t)[1] = s[1]
    BY <2>1, Join
  <2> QED
    BY <1>2, <2>2 DEF Fresh
<1> QED
  BY <1>1, <1>2

\* The first step of what is put together is the first step there was.
Begins(s, x) == s # <<>> /\ s[1] = x
LEMMA BeginsJoin ==
  ASSUME NEW s \in Seq(Step), NEW t \in Seq(Step), NEW x, Begins(s, x)
  PROVE  Begins(s \o t, x)
<1>1. 1 \in DOMAIN s
  BY EmptySeq, LenProperties DEF Begins
<1>2. (s \o t)[1] = s[1] /\ 1 \in DOMAIN (s \o t)
  BY <1>1, Join
<1>3. s \o t # <<>>
  BY <1>2, EmptySeq, LenProperties
<1> QED
  BY <1>2, <1>3 DEF Begins

\* Pieces are put together with what is kept, and what does not matter, as
\* it is named there.
LEMMA Then ==
  ASSUME NEW s, NEW t, NEW K, NEW J, NEW L, NEW M, NEW N, NEW S,
         Piece(s, K, J, L, S), Piece(t, K \cup L, J \cup L, M, S), Fresh(t),
         N = L \cup M
  PROVE  /\ Piece(s \o t, K, J, N, S)
         /\ Fresh(s) => Fresh(s \o t)
         /\ \A x : Begins(s, x) => Begins(s \o t, x)
<1>1. Piece(s \o t, K, J, N, S)
  BY Joined
<1>2. Fresh(s) => Fresh(s \o t)
  BY FreshJoin DEF Piece
<1>3. \A x : Begins(s, x) => Begins(s \o t, x)
  BY BeginsJoin DEF Piece
<1> QED
  BY <1>1, <1>2, <1>3

\* Programs are put together in the same way.
LEMMA AtLast ==
  ASSUME NEW s, NEW t, NEW K, NEW J, NEW L, NEW S,
         Piece(s, K, J, L, S), Program(t, K \cup L, J \cup L, S), Fresh(t)
  PROVE  /\ Program(s \o t, K, J, S)
         /\ \A x : Begins(s, x) => Begins(s \o t, x)
<1>1. Program(s \o t, K, J, S)
  BY Finished
<1>2. \A x : Begins(s, x) => Begins(s \o t, x)
  BY BeginsJoin DEF Piece, Program, Proper
<1> QED
  BY <1>1, <1>2

\* The end of a phase that goes on.
LEMMA RebootProgram ==
  ASSUME NEW K, NEW J, NEW S
  PROVE  /\ Program(<<Op("reboot", "")>>, K, J, S) /\ Fresh(<<Op("reboot", "")>>)
<1>1. PICK x : x = Op("reboot", "")
  OBVIOUS
<1>2. x \in Step /\ x.op = "reboot" /\ x.file = ""
  BY <1>1, PlainStep DEF Ends
<1>3. PICK s : s = <<x>>
  OBVIOUS
<1>4. s \in Seq(Step) /\ Len(s) = 1 /\ s[1] = x
  <2>1. x \in Step
    BY <1>2
  <2> QED
    BY <1>3, <2>1
<1>5. DOMAIN s = {1}
  <2>1. DOMAIN s = 1..1
    BY <1>4, LenProperties
  <2> QED
    BY <2>1
<1>6. s # <<>>
  BY <1>4, EmptySeq
<1>7. Safe(s, K) /\ Recorded(s, J) /\ Sourced(s, S)
  BY <1>2, <1>4, <1>5 DEF Safe, Writes, Recorded, Records, Sourced
<1>8. Proper(s)
  BY <1>2, <1>4, <1>5, <1>6 DEF Proper, Ending, Ends
<1>9. Fresh(s)
  BY <1>2, <1>4 DEF Fresh
<1> QED
  BY <1>1, <1>3, <1>7, <1>8, <1>9 DEF Program

\* LASTPHASE names the phase when its files are kept.
LEMMA DorebootProgram ==
  ASSUME run' \in 0..MaxRuns, NEW p \in {1, 2}, NEW K, NEW J, NEW S,
         "AUTOEXEC" \in K, Touched(p) \subseteq J
  PROVE  Program(doreboot(p), K, J, S) /\ Fresh(doreboot(p))
<1>1. By(run', p) \in Content /\ By(run', p) # None
  BY Contents
<1>2. \A q \in {1, 2}, r \in 0..MaxRuns : By(run', p) = By(r, q) => Touched(q) \subseteq J
  BY Contents
<1>3. "AUTOEXEC" \in Files /\ "LASTPHASE" \in Files /\ "LASTPHASE" \notin Users
  BY DEF Files, Users
<1>4. Piece(Panel, K, J, {}, S) /\ Fresh(Panel)
  BY OnePiece DEF Panel, Plain
<1>5. Piece(Write("AUTOEXEC", By(run', p)), K \cup {}, J \cup {}, {}, S)
      /\ Fresh(Write("AUTOEXEC", By(run', p)))
  BY <1>1, <1>3, WritePiece
<1>6. Piece(Write("LASTPHASE", By(run', p)), K \cup {}, J \cup {}, {}, S)
      /\ Fresh(Write("LASTPHASE", By(run', p)))
  BY <1>1, <1>2, <1>3, WritePiece
<1>7. Piece(Check, K \cup {}, J \cup {}, {}, S) /\ Fresh(Check)
  BY OnePiece DEF Check, Plain
<1>8. Program(<<Op("reboot", "")>>, K \cup {}, J \cup {}, S) /\ Fresh(<<Op("reboot", "")>>)
  BY RebootProgram
<1>9. {} = {} \cup {}
  OBVIOUS
<1> DEFINE a == Panel \o Write("AUTOEXEC", By(run', p))
           b == a \o Check
           c == b \o Write("LASTPHASE", By(run', p))
           d == c \o Check
<1>10. Piece(a, K, J, {}, S) /\ Fresh(a)
  BY <1>4, <1>5, <1>9, Then
<1>11. Piece(b, K, J, {}, S) /\ Fresh(b)
  <2> HIDE DEF a
  <2> QED
    BY <1>7, <1>9, <1>10, Then
<1>12. Piece(c, K, J, {}, S) /\ Fresh(c)
  <2> HIDE DEF b
  <2> QED
    BY <1>6, <1>9, <1>11, Then
<1>13. Piece(d, K, J, {}, S) /\ Fresh(d)
  <2> HIDE DEF c
  <2> QED
    BY <1>7, <1>9, <1>12, Then
<1>14. Program(d \o <<Op("reboot", "")>>, K, J, S) /\ Fresh(d \o <<Op("reboot", "")>>)
  <2> HIDE DEF d
  <2>1. Program(d \o <<Op("reboot", "")>>, K, J, S)
    BY <1>8, <1>13, AtLast
  <2> QED
    BY <1>8, <1>13, <2>1, FreshJoin DEF Piece, Program, Proper
<1> QED
  BY <1>14 DEF doreboot

\* A batch file is saved in the second phase, if it has lines, before it is
\* written; AUTOEXEC.ABETA needs no copy.
LEMMA BatPiece ==
  ASSUME run' \in 0..MaxRuns, NEW p \in {2, 3}, NEW f \in {"BETA", "BATCH"},
         NEW K, NEW J, NEW S, NEW L,
         L = IF p = 2 /\ f = "BATCH" /\ disk[f] \notin {None, Cut} THEN {f} ELSE {},
         p = 2 \/ f = "BETA" \/ disk[f] \in {None, Cut} \/ f \in K
  PROVE  Piece(wrbatfile(p, f), K, J, L, S) /\ Fresh(wrbatfile(p, f))
<1>1. CASE disk[f] \in {None, Cut}
  <2>1. wrbatfile(p, f) = <<>> /\ L = {}
    BY <1>1 DEF wrbatfile
  <2> QED
    BY <2>1, EmptyPiece
<1>2. CASE disk[f] \notin {None, Cut}
  <2>1. L = IF p = 2 /\ f # "BETA" THEN {f} ELSE {}
    BY <1>2
  <2>2. f \in Files /\ (f # "BETA" => f \in Users) /\ ("BETA" \notin Users) /\ f # "LASTPHASE"
    BY DEF Files, Users
  <2>3. By(run', p) \in Content /\ By(run', p) # None
    BY Contents
  <2> DEFINE m == IF p = 2 /\ f # "BETA" THEN Backup(f) ELSE <<>>
             a == Check \o m
             b == a \o Write(f, By(run', p))
  <2>4. Piece(Check, K, J, {}, S) /\ Fresh(Check)
    BY OnePiece DEF Check, Plain
  <2>5. Piece(m, K \cup {}, J \cup {}, L, S) /\ Fresh(m)
    <3>1. CASE p = 2 /\ f # "BETA"
      BY <2>1, <2>2, <3>1, BackupPiece
    <3>2. CASE ~(p = 2 /\ f # "BETA")
      BY <2>1, <3>2, EmptyPiece
    <3> QED
      BY <3>1, <3>2
  <2>6. Piece(Write(f, By(run', p)), K \cup L, J \cup L, {}, S) /\ Fresh(Write(f, By(run', p)))
    <3>1. f \in Users => f \in K \cup L
      BY <1>2, <2>1, <2>2
    <3> QED
      BY <2>2, <2>3, <3>1, WritePiece
  <2>7. Piece(Abort, K \cup L, J \cup L, {}, S) /\ Fresh(Abort)
    BY OnePiece DEF Abort, Plain
  <2>8. L = {} \cup L /\ L = L \cup {}
    OBVIOUS
  <2>9. Piece(a, K, J, L, S) /\ Fresh(a)
    <3> HIDE DEF m
    <3> QED
      BY <2>4, <2>5, <2>8, Then
  <2>10. Piece(b, K, J, L, S) /\ Fresh(b)
    <3> HIDE DEF a
    <3> QED
      BY <2>6, <2>8, <2>9, Then
  <2>11. Piece(b \o Abort, K, J, L, S) /\ Fresh(b \o Abort)
    <3> HIDE DEF b
    <3> QED
      BY <2>7, <2>8, <2>10, Then
  <2> QED
    BY <1>2, <2>11 DEF wrbatfile
<1> QED
  BY <1>1, <1>2

\* What a program that rewrites a file makes of it.
LEMMA RewrittenContent ==
  ASSUME run' \in 0..MaxRuns, NEW p \in 1..3, NEW f
  PROVE  Rewritten(p, f) \in Content /\ Rewritten(p, f) # None
  BY Contents DEF Rewritten

\* The first phase, whatever is kept.
LEMMA Pass1Program ==
  ASSUME run' \in 0..MaxRuns, NEW K, NEW J, NEW S, "AUTOEXEC" \in S
  PROVE  Program(pass1, K, J, S) /\ Begins(pass1, Op("create", ""))
<1> DEFINE x == Op("create", "")
           WP == Write("PROFILE", Rewritten(1, "PROFILE"))
           WC == Write("CONFIG", Rewritten(1, "CONFIG"))
           CA == CopyFile("AUTOEXEC", "BETA")
           L1 == {"PROFILE"}
           L2 == {"PROFILE", "CONFIG"}
           L3 == {"PROFILE", "CONFIG", "AUTOEXEC"}
           a1 == <<Op("create", "")>> \o Panel
           a2 == a1 \o Backup("PROFILE")
           a3 == a2 \o Check
           a4 == a3 \o WP
           a5 == a4 \o Backup("CONFIG")
           a6 == a5 \o Check
           a7 == a6 \o WC
           a8 == a7 \o Check
           a9 == a8 \o CA
           a10 == a9 \o Backup("AUTOEXEC")
           a11 == a10 \o Check
<1>1. /\ Rewritten(1, "PROFILE") \in Content /\ Rewritten(1, "PROFILE") # None
      /\ Rewritten(1, "CONFIG") \in Content /\ Rewritten(1, "CONFIG") # None
  BY RewrittenContent
<1>2. /\ Users \subseteq Files /\ {"PROFILE", "CONFIG", "AUTOEXEC", "BATCH"} = Users
      /\ "BETA" \notin Users /\ "PROFILE" # "LASTPHASE" /\ "CONFIG" # "LASTPHASE"
  BY DEF Files, Users
<1>3. \A k, j : /\ Piece(Check, k, j, {}, S) /\ Fresh(Check)
                /\ Piece(Panel, k, j, {}, S) /\ Fresh(Panel)
                /\ Piece(<<Op("create", "")>>, k, j, {}, S)
  BY OnePiece DEF Check, Panel, Plain
<1>4. \A k, j : /\ Piece(Backup("PROFILE"), k, j, {"PROFILE"}, S) /\ Fresh(Backup("PROFILE"))
                /\ Piece(Backup("CONFIG"), k, j, {"CONFIG"}, S) /\ Fresh(Backup("CONFIG"))
                /\ Piece(Backup("AUTOEXEC"), k, j, {"AUTOEXEC"}, S) /\ Fresh(Backup("AUTOEXEC"))
  BY <1>2, BackupPiece
<1>5. \A j : Piece(WP, K \cup L1, j, {}, S) /\ Fresh(WP)
  BY <1>1, <1>2, WritePiece
<1>6. \A j : Piece(WC, K \cup L2, j, {}, S) /\ Fresh(WC)
  BY <1>1, <1>2, WritePiece
<1>7. \A k, j : Piece(CA, k, j, {}, S) /\ Fresh(CA)
  BY <1>2, CopyPiece
<1>8. /\ {} = {} \cup {} /\ L1 = {} \cup {"PROFILE"} /\ L1 = L1 \cup {}
      /\ L2 = L1 \cup {"CONFIG"} /\ L2 = L2 \cup {}
      /\ L3 = L2 \cup {"AUTOEXEC"} /\ L3 = L3 \cup {}
  OBVIOUS
<1>9. Begins(<<x>>, x)
  <2> HIDE DEF x
  <2>1. Len(<<x>>) = 1 /\ <<x>>[1] = x
    OBVIOUS
  <2>2. <<x>> # <<>>
    BY <2>1, EmptySeq
  <2> QED
    BY <2>1, <2>2 DEF Begins
<1> HIDE DEF WP, WC, CA, L1, L2
<1>11. Piece(a1, K, J, {}, S) /\ Begins(a1, x)
  BY <1>3, <1>8, <1>9, Then
<1>12. Piece(a2, K, J, L1, S) /\ Begins(a2, x)
  <2> HIDE DEF a1
  <2> QED
    BY <1>4, <1>8, <1>11, Then
<1>13. Piece(a3, K, J, L1, S) /\ Begins(a3, x)
  <2> HIDE DEF a2
  <2> QED
    BY <1>3, <1>8, <1>12, Then
<1>14. Piece(a4, K, J, L1, S) /\ Begins(a4, x)
  <2> HIDE DEF a3
  <2> QED
    BY <1>5, <1>8, <1>13, Then
<1>15. Piece(a5, K, J, L2, S) /\ Begins(a5, x)
  <2> HIDE DEF a4
  <2> QED
    BY <1>4, <1>8, <1>14, Then
<1>16. Piece(a6, K, J, L2, S) /\ Begins(a6, x)
  <2> HIDE DEF a5
  <2> QED
    BY <1>3, <1>8, <1>15, Then
<1>17. Piece(a7, K, J, L2, S) /\ Begins(a7, x)
  <2> HIDE DEF a6
  <2> QED
    BY <1>6, <1>8, <1>16, Then
<1>18. Piece(a8, K, J, L2, S) /\ Begins(a8, x)
  <2> HIDE DEF a7
  <2> QED
    BY <1>3, <1>8, <1>17, Then
<1>19. Piece(a9, K, J, L2, S) /\ Begins(a9, x)
  <2> HIDE DEF a8
  <2> QED
    BY <1>7, <1>8, <1>18, Then
<1>20. Piece(a10, K, J, L3, S) /\ Begins(a10, x)
  <2> HIDE DEF a9, L3
  <2> QED
    BY <1>4, <1>8, <1>19, Then
<1>21. Piece(a11, K, J, L3, S) /\ Begins(a11, x)
  <2> HIDE DEF a10, L3
  <2> QED
    BY <1>3, <1>8, <1>20, Then
<1>22. Program(doreboot(1), K \cup L3, J \cup L3, S) /\ Fresh(doreboot(1))
  <2>1. Touched(1) \subseteq J \cup L3
    BY <1>2 DEF Touched
  <2>2. "AUTOEXEC" \in K \cup L3
    OBVIOUS
  <2> HIDE DEF L3
  <2> QED
    BY <2>1, <2>2, DorebootProgram
<1>23. Program(a11 \o doreboot(1), K, J, S) /\ Begins(a11 \o doreboot(1), x)
  <2> HIDE DEF a11, L3
  <2> QED
    BY <1>21, <1>22, AtLast
<1>24. pass1 = a11 \o doreboot(1)
  BY DEF pass1, WP, WC, CA
<1> QED
  BY <1>23, <1>24

\* One step in front of a list that writes nothing and saves nothing.
Headed(x, t, u, n) ==
    /\ n \in Nat /\ u \in Seq(Step) /\ Len(u) = n + 1 /\ u # <<>>
    /\ DOMAIN t = 1..n /\ DOMAIN u = 1..(n + 1) /\ u[1] = x
    /\ \A i \in 1..(n + 1) : i = 1 \/ \E k \in 1..n : i = k + 1 /\ u[i] = t[k]
LEMMA InFront ==
  ASSUME NEW x \in Step, x.op \in {"erase", "unless"}, NEW t \in Seq(Step), Fresh(t),
         NEW K, NEW J, Safe(t, K), Recorded(t, J),
         NEW u, u = <<x>> \o t, NEW n, n = Len(t)
  PROVE  /\ Headed(x, t, u, n)
         /\ Safe(u, K) /\ Recorded(u, J) /\ Fresh(u)
<1>1. PICK s : s = <<x>>
  OBVIOUS
<1>2. s \in Seq(Step) /\ Len(s) = 1 /\ s[1] = x
  BY <1>1
<1>3. DOMAIN s = {1}
  <2>1. DOMAIN s = 1..1
    BY <1>2, LenProperties
  <2> QED
    BY <2>1
<1>4. Safe(s, K) /\ Recorded(s, J)
  BY <1>2, <1>3 DEF Safe, Writes, Recorded, Records
<1>5. n \in Nat
  BY LenProperties
<1>6. PICK m \in Nat : m = 1
  OBVIOUS
<1>7. u = s \o t /\ m = Len(s)
  BY <1>1, <1>2, <1>6
<1>8. Joins(s, t, u, m, n)
  BY <1>2, <1>5, <1>7, JoinNamed
<1>14. PICK L : L = {}
  OBVIOUS
<1>9. Safe(u, K)
  <2>1. Safe(t, K \cup L) /\ \A f \in L : Lined(s, Len(s) + 1, f)
    <3>1. K \cup L = K
      BY <1>14
    <3> QED
      BY <1>14, <3>1
  <2> QED
    BY <1>2, <1>4, <1>5, <1>7, <2>1, JoinSafe
<1>10. Recorded(u, J)
  <2>1. Recorded(t, J \cup L) /\ \A f \in L : Lined(s, Len(s) + 1, f)
    <3>1. J \cup L = J
      BY <1>14
    <3> QED
      BY <1>14, <3>1
  <2> QED
    BY <1>2, <1>4, <1>5, <1>7, <2>1, JoinRecorded
<1>11. /\ u \in Seq(Step) /\ Len(u) = n + 1 /\ DOMAIN t = 1..n /\ DOMAIN u = 1..(n + 1)
       /\ u[1] = x
       /\ \A i \in 1..(n + 1) : i = 1 \/ \E k \in 1..n : i = k + 1 /\ u[i] = t[k]
  <2>1. m + n = n + 1 /\ \A k \in 1..n : m + k = k + 1
    BY <1>5, <1>6
  <2>2. /\ u \in Seq(Step) /\ Len(u) = m + n /\ DOMAIN t = 1..n /\ DOMAIN u = 1..(m + n)
        /\ \A i \in 1..m : u[i] = s[i]
        /\ \A i \in 1..(m + n) : \/ i \in 1..m /\ u[i] = s[i]
                                 \/ \E k \in 1..n : i = m + k /\ u[i] = t[k]
    BY <1>8 DEF Joins
  <2>3. 1..m = {1}
    BY <1>6
  <2> QED
    BY <1>2, <2>1, <2>2, <2>3
<1>12. u # <<>>
  BY <1>5, <1>11, EmptySeq
<1>13. Fresh(u)
  BY <1>11 DEF Fresh
<1> QED
  BY <1>5, <1>9, <1>10, <1>11, <1>12, <1>13 DEF Headed

\* What may be skipped after an error.
LEMMA UnlessPiece ==
  ASSUME NEW t, NEW K, NEW J, NEW S, Piece(t, K, J, {}, S), Fresh(t)
  PROVE  Piece(Unless(t), K, J, {}, S) /\ Fresh(Unless(t))
<1>1. PICK x : x = [op |-> "unless", n |-> Len(t)]
  OBVIOUS
<1>2. PICK n : n = Len(t)
  OBVIOUS
<1>3. t \in Seq(Step) /\ n \in Nat /\ DOMAIN t = 1..n
  BY <1>2, LenProperties DEF Piece
<1>4. x \in Step /\ x.op = "unless" /\ x.n = n
  <2>1. x \in [op : {"unless"}, n : Nat]
    BY <1>1, <1>2, <1>3
  <2> QED
    BY <1>1, <1>2, <2>1 DEF Step
<1>5. PICK u : u = <<x>> \o t
  OBVIOUS
<1>6. /\ u \in Seq(Step) /\ Len(u) = n + 1 /\ DOMAIN u = 1..(n + 1) /\ u[1] = x
      /\ \A i \in 1..(n + 1) : i = 1 \/ \E k \in 1..n : i = k + 1 /\ u[i] = t[k]
      /\ Safe(u, K) /\ Recorded(u, J) /\ Fresh(u)
  <2>1. Safe(t, K) /\ Recorded(t, J) /\ Fresh(t)
    BY DEF Piece
  <2>2. x \in Step /\ x.op \in {"erase", "unless"} /\ t \in Seq(Step)
    BY <1>3, <1>4
  <2>3. u = <<x>> \o t /\ n = Len(t)
    BY <1>2, <1>5
  <2>4. Headed(x, t, u, n) /\ Safe(u, K) /\ Recorded(u, J) /\ Fresh(u)
    BY <2>1, <2>2, <2>3, InFront
  <2> QED
    BY <2>4 DEF Headed
<1>7. /\ \A i \in 1..n : t[i].op \notin Ends \cup {"copy", "erase"}
      /\ \A i \in 1..n : t[i].op = "from" => t[i].src \in S
      /\ \A i \in 1..n : t[i].op = "unless" => i + t[i].n <= n
  BY <1>2, <1>3 DEF Piece
<1>8. ASSUME NEW i \in 1..(n + 1)
      PROVE  /\ u[i].op \notin Ends \cup {"copy", "erase"}
             /\ u[i].op = "from" => u[i].src \in S
             /\ u[i].op = "unless" => i + u[i].n <= n + 1
  <2>1. CASE i = 1
    BY <1>3, <1>4, <1>6, <2>1 DEF Ends
  <2>2. ASSUME NEW k \in 1..n, i = k + 1, u[i] = t[k]
        PROVE  /\ u[i].op \notin Ends \cup {"copy", "erase"}
               /\ u[i].op = "from" => u[i].src \in S
               /\ u[i].op = "unless" => i + u[i].n <= n + 1
    <3>1. t[k].op = "unless" => t[k].n \in Nat
      BY <1>2, <1>3, ElementOfSeq, StepFields
    <3>2. u[i].op = "unless" => i + u[i].n <= n + 1
      BY <1>3, <1>7, <2>2, <3>1
    <3>3. u[i].op = "from" => u[i].src \in S
      BY <1>7, <2>2
    <3>4. u[i].op \notin Ends \cup {"copy", "erase"}
      BY <1>7, <2>2
    <3> QED
      BY <3>2, <3>3, <3>4
  <2> QED
    BY <1>6, <2>1, <2>2
<1>9. Piece(u, K, J, {}, S)
  <2>1. \A i \in DOMAIN u : u[i].op \notin Ends \cup {"copy", "erase"}
    BY <1>6, <1>8
  <2>2. \A i \in DOMAIN u : u[i].op = "from" => u[i].src \in S
    BY <1>6, <1>8
  <2>3. \A i \in DOMAIN u : u[i].op = "unless" => i + u[i].n <= Len(u)
    BY <1>6, <1>8
  <2> QED
    BY <1>6, <2>1, <2>2, <2>3 DEF Piece
<1> QED
  BY <1>1, <1>5, <1>6, <1>9 DEF Unless

\* AUTOEXEC.ABETA is erased when nothing more is copied.
LEMMA EraseProgram ==
  ASSUME NEW t, NEW K, NEW J, NEW S, Program(t, K, J, {}), Fresh(t)
  PROVE  Program(<<Op("erase", "BETA")>> \o t, K, J, S) /\ Fresh(<<Op("erase", "BETA")>> \o t)
<1>1. PICK x : x = Op("erase", "BETA")
  OBVIOUS
<1>2. PICK n : n = Len(t)
  OBVIOUS
<1>3. t \in Seq(Step) /\ n \in Nat /\ DOMAIN t = 1..n /\ t # <<>>
  BY <1>2, LenProperties DEF Program, Proper, Ending
<1>4. x \in Step /\ x.op = "erase" /\ x.file = "BETA"
  BY <1>1, EraseStep
<1>5. PICK u : u = <<x>> \o t
  OBVIOUS
<1>6. /\ u \in Seq(Step) /\ Len(u) = n + 1 /\ DOMAIN u = 1..(n + 1) /\ u[1] = x /\ u # <<>>
      /\ \A i \in 1..(n + 1) : i = 1 \/ \E k \in 1..n : i = k + 1 /\ u[i] = t[k]
      /\ Safe(u, K) /\ Recorded(u, J) /\ Fresh(u)
  <2>1. Safe(t, K) /\ Recorded(t, J) /\ Fresh(t)
    BY DEF Program
  <2>2. x \in Step /\ x.op \in {"erase", "unless"} /\ t \in Seq(Step)
    BY <1>3, <1>4
  <2>3. u = <<x>> \o t /\ n = Len(t)
    BY <1>2, <1>5
  <2>4. Headed(x, t, u, n) /\ Safe(u, K) /\ Recorded(u, J) /\ Fresh(u)
    BY <2>1, <2>2, <2>3, InFront
  <2> QED
    BY <2>4 DEF Headed
<1>7. /\ \A i \in 1..n : t[i].op \in Ends <=> i = n
      /\ \A i \in 1..n : t[i].op = "unless" => i + t[i].n < n
      /\ \A i \in 1..n : t[i].op \notin {"copy", "dos", "autoexec"}
      /\ \A i \in 1..n : t[i].op = "erase" => t[i].file = "BETA"
      /\ \A i \in 1..n : t[i].op # "from"
  BY <1>2, <1>3 DEF Program, Proper, Ending, Sourced
<1>8. n # 0
  BY <1>2, <1>3, EmptySeq
<1>9. ASSUME NEW i \in 1..(n + 1)
      PROVE  /\ u[i].op \in Ends <=> i = n + 1
             /\ u[i].op = "unless" => i + u[i].n < n + 1
             /\ u[i].op \notin {"copy", "dos", "autoexec"}
             /\ u[i].op = "erase" => u[i].file = "BETA"
             /\ u[i].op # "from"
  <2>1. CASE i = 1
    BY <1>3, <1>4, <1>6, <1>8, <2>1 DEF Ends
  <2>2. ASSUME NEW k \in 1..n, i = k + 1, u[i] = t[k]
        PROVE  /\ u[i].op \in Ends <=> i = n + 1
               /\ u[i].op = "unless" => i + u[i].n < n + 1
               /\ u[i].op \notin {"copy", "dos", "autoexec"}
               /\ u[i].op = "erase" => u[i].file = "BETA"
               /\ u[i].op # "from"
    <3>1. t[k].op = "unless" => t[k].n \in Nat
      BY <1>2, <1>3, ElementOfSeq, StepFields
    <3>2. u[i].op = "unless" => i + u[i].n < n + 1
      BY <1>3, <1>7, <2>2, <3>1
    <3>3. i = n + 1 <=> k = n
      BY <1>3, <2>2
    <3>4. u[i].op \in Ends <=> i = n + 1
      BY <1>7, <2>2, <3>3
    <3>5. u[i].op \notin {"copy", "dos", "autoexec"} /\ u[i].op # "from"
      BY <1>7, <2>2
    <3>6. u[i].op = "erase" => u[i].file = "BETA"
      BY <1>7, <2>2
    <3> QED
      BY <3>2, <3>4, <3>5, <3>6
  <2> QED
    BY <1>6, <2>1, <2>2
<1>10. \A i \in DOMAIN u : u[i].op \in Ends <=> i = Len(u)
  BY <1>6, <1>9
<1>11. \A i \in DOMAIN u : u[i].op = "unless" => i + u[i].n < Len(u)
  BY <1>6, <1>9
<1>12. \A i \in DOMAIN u : u[i].op \notin {"copy", "dos", "autoexec"} /\ u[i].op # "from"
  BY <1>6, <1>9
<1>13. \A i \in DOMAIN u : u[i].op = "erase" => u[i].file = "BETA"
  BY <1>6, <1>9
<1>14. Proper(u)
  BY <1>6, <1>10, <1>11, <1>12, <1>13 DEF Proper, Ending
<1>15. Sourced(u, S)
  BY <1>12 DEF Sourced
<1>16. Program(u, K, J, S)
  BY <1>6, <1>14, <1>15 DEF Program
<1> QED
  BY <1>1, <1>5, <1>6, <1>16

\* The second phase, if the first one has left copies of what it wrote.
LEMMA Pass2Program ==
  ASSUME run' \in 0..MaxRuns, NEW K, NEW J, NEW S,
         Touched(1) \subseteq K, Touched(1) \subseteq J, Untouched \subseteq J
  PROVE  Program(pass2, K, J, S) /\ Fresh(pass2)
<1> DEFINE L == IF disk["BATCH"] \notin {None, Cut} THEN {"BATCH"} ELSE {}
           WC == Write("CONFIG", Rewritten(2, "CONFIG"))
           WP == Write("PROFILE", Rewritten(2, "PROFILE"))
           WB == wrbatfile(2, "BETA")
           WF == wrbatfile(2, "BATCH")
           a1 == Panel \o WC
           a2 == a1 \o WB
           a3 == a2 \o WF
           a4 == a3 \o Check
           a5 == a4 \o Panel
           a6 == a5 \o WP
<1>1. /\ Rewritten(2, "PROFILE") \in Content /\ Rewritten(2, "PROFILE") # None
      /\ Rewritten(2, "CONFIG") \in Content /\ Rewritten(2, "CONFIG") # None
  BY RewrittenContent
<1>2. /\ Users \subseteq Files /\ {"PROFILE", "CONFIG", "AUTOEXEC", "BATCH"} = Users
      /\ "PROFILE" # "LASTPHASE" /\ "CONFIG" # "LASTPHASE"
      /\ {"PROFILE", "CONFIG", "AUTOEXEC"} \subseteq Touched(1)
      /\ Touched(2) = Users
  BY DEF Files, Users, Touched
<1>3. \A k, j : /\ Piece(Check, k, j, {}, S) /\ Fresh(Check)
                /\ Piece(Panel, k, j, {}, S) /\ Fresh(Panel)
  BY OnePiece DEF Check, Panel, Plain
<1>4. \A j : Piece(WC, K \cup {}, j, {}, S) /\ Fresh(WC)
  BY <1>1, <1>2, WritePiece
<1>5. \A j : Piece(WP, K \cup L, j, {}, S) /\ Fresh(WP)
  BY <1>1, <1>2, WritePiece
<1>6. \A k, j : Piece(WB, k, j, {}, S) /\ Fresh(WB)
  BY BatPiece
<1>7. \A k, j : Piece(WF, k, j, L, S) /\ Fresh(WF)
  BY BatPiece
<1>8. {} = {} \cup {} /\ L = {} \cup L /\ L = L \cup {}
  OBVIOUS
<1>9. Program(doreboot(2), K \cup L, J \cup L, S) /\ Fresh(doreboot(2))
  <2>1. Touched(2) \subseteq J \cup L
    BY <1>2 DEF Untouched, Touched
  <2>2. "AUTOEXEC" \in K \cup L
    BY <1>2
  <2> HIDE DEF L
  <2> QED
    BY <2>1, <2>2, DorebootProgram
<1> HIDE DEF WC, WP, WB, WF, L
<1>10. Piece(a1, K, J, {}, S) /\ Fresh(a1)
  BY <1>3, <1>4, <1>8, Then
<1>11. Piece(a2, K, J, {}, S) /\ Fresh(a2)
  <2> HIDE DEF a1
  <2> QED
    BY <1>6, <1>8, <1>10, Then
<1>12. Piece(a3, K, J, L, S) /\ Fresh(a3)
  <2> HIDE DEF a2
  <2> QED
    BY <1>7, <1>8, <1>11, Then
<1>13. Piece(a4, K, J, L, S) /\ Fresh(a4)
  <2> HIDE DEF a3
  <2> QED
    BY <1>3, <1>8, <1>12, Then
<1>14. Piece(a5, K, J, L, S) /\ Fresh(a5)
  <2> HIDE DEF a4
  <2> QED
    BY <1>3, <1>8, <1>13, Then
<1>15. Piece(a6, K, J, L, S) /\ Fresh(a6)
  <2> HIDE DEF a5
  <2> QED
    BY <1>5, <1>8, <1>14, Then
<1>16. Program(a6 \o doreboot(2), K, J, S) /\ Fresh(a6 \o doreboot(2))
  <2> HIDE DEF a6
  <2>1. Program(a6 \o doreboot(2), K, J, S)
    BY <1>9, <1>15, AtLast
  <2>2. a6 \in Seq(Step) /\ doreboot(2) \in Seq(Step)
    BY <1>9, <1>15 DEF Piece, Program, Proper
  <2> QED
    BY <1>9, <1>15, <2>1, <2>2, FreshJoin
<1>17. pass2 = a6 \o doreboot(2)
  BY DEF pass2, WC, WP, WB, WF
<1> QED
  BY <1>16, <1>17

\* The files of the third phase, without AUTOEXEC.ABETA in the end.
Wrfiles3 ==
    Write("CONFIG", Rewritten(3, "CONFIG"))
    \o Unless(Write("PROFILE", Rewritten(3, "PROFILE")))
    \o Unless(wrbatfile(3, "BETA") \o wrbatfile(3, "BATCH"))
    \o CopyFile("BETA", "AUTOEXEC")

\* They are written if the phases before have left copies of all of them.
LEMMA Wrfiles3Piece ==
  ASSUME run' \in 0..MaxRuns, NEW K, NEW J, NEW S,
         Users \subseteq K \cup Untouched, "BETA" \in S
  PROVE  Piece(Wrfiles3, K, J, {}, S) /\ Fresh(Wrfiles3)
<1> DEFINE WC == Write("CONFIG", Rewritten(3, "CONFIG"))
           WP == Write("PROFILE", Rewritten(3, "PROFILE"))
           UP == Unless(WP)
           WB == wrbatfile(3, "BETA")
           WF == wrbatfile(3, "BATCH")
           UB == Unless(WB \o WF)
           CA == CopyFile("BETA", "AUTOEXEC")
           a1 == WC \o UP
           a2 == a1 \o UB
<1>1. /\ Rewritten(3, "PROFILE") \in Content /\ Rewritten(3, "PROFILE") # None
      /\ Rewritten(3, "CONFIG") \in Content /\ Rewritten(3, "CONFIG") # None
  BY RewrittenContent
<1>2. /\ Users \subseteq Files /\ {"PROFILE", "CONFIG", "AUTOEXEC", "BATCH"} = Users
      /\ "PROFILE" # "LASTPHASE" /\ "CONFIG" # "LASTPHASE"
  BY DEF Files, Users
<1>3. /\ {"PROFILE", "CONFIG", "AUTOEXEC"} \subseteq K
      /\ disk["BATCH"] \in {None, Cut} \/ "BATCH" \in K
  BY <1>2 DEF Untouched
<1>4. {} = {} \cup {} /\ K = K \cup {} /\ J = J \cup {}
  OBVIOUS
<1>5. Piece(WC, K, J, {}, S) /\ Fresh(WC)
  BY <1>1, <1>2, <1>3, WritePiece
<1>6. Piece(WP, K, J, {}, S) /\ Fresh(WP)
  BY <1>1, <1>2, <1>3, WritePiece
<1>7. Piece(WB, K, J, {}, S) /\ Fresh(WB)
  BY BatPiece
<1>8. Piece(WF, K, J, {}, S) /\ Fresh(WF)
  BY <1>3, BatPiece
<1>9. Piece(CA, K, J, {}, S) /\ Fresh(CA)
  BY <1>2, <1>3, CopyPiece
<1> HIDE DEF WC, WP, WB, WF, CA
<1>10. Piece(UP, K, J, {}, S) /\ Fresh(UP)
  BY <1>6, UnlessPiece
<1>11. Piece(WB \o WF, K, J, {}, S) /\ Fresh(WB \o WF)
  BY <1>4, <1>7, <1>8, Then
<1>12. Piece(UB, K, J, {}, S) /\ Fresh(UB)
  BY <1>11, UnlessPiece
<1> HIDE DEF UP, UB
<1>13. Piece(a1, K, J, {}, S) /\ Fresh(a1)
  BY <1>4, <1>5, <1>10, Then
<1>14. Piece(a2, K, J, {}, S) /\ Fresh(a2)
  <2> HIDE DEF a1
  <2> QED
    BY <1>4, <1>12, <1>13, Then
<1>15. Piece(a2 \o CA, K, J, {}, S) /\ Fresh(a2 \o CA)
  <2> HIDE DEF a2
  <2> QED
    BY <1>4, <1>9, <1>14, Then
<1>16. Wrfiles3 = a2 \o CA
  BY DEF Wrfiles3, WC, UP, WP, UB, WB, WF, CA
<1> QED
  BY <1>15, <1>16

\* What the third phase does when it has copied AUTOEXEC.BAT back.
Pass3Last ==
    Check \o (Write("LASTPHASE", By(run', 3)) \o (Check \o <<Op("reboot", "")>>))

LEMMA Pass3End ==
  ASSUME run' \in 0..MaxRuns, NEW K, NEW J, NEW S
  PROVE  Program(Pass3Last, K, J, S) /\ Fresh(Pass3Last)
<1>1. By(run', 3) \in Content /\ By(run', 3) # None
  BY Contents
<1>2. \A q \in {1, 2}, r \in 0..MaxRuns : By(run', 3) # By(r, q)
  BY Contents
<1>3. "LASTPHASE" \in Files /\ "LASTPHASE" \notin Users
  BY DEF Files, Users
<1>4. \A k, j : Piece(Write("LASTPHASE", By(run', 3)), k, j, {}, S)
                /\ Fresh(Write("LASTPHASE", By(run', 3)))
  BY <1>1, <1>2, <1>3, WritePiece
<1>5. \A k, j : Piece(Check, k, j, {}, S) /\ Fresh(Check)
  BY OnePiece DEF Check, Plain
<1>6. \A k, j : Program(<<Op("reboot", "")>>, k, j, S) /\ Fresh(<<Op("reboot", "")>>)
  BY RebootProgram
<1> DEFINE W == Write("LASTPHASE", By(run', 3))
           R == <<Op("reboot", "")>>
           b1 == Check \o R
           b2 == W \o b1
<1> HIDE DEF W, R
<1>7. \A k, j : Piece(W, k, j, {}, S) /\ Fresh(W) /\ Program(R, k, j, S) /\ Fresh(R)
  BY <1>4, <1>6 DEF W, R
<1>8. \A k, j : Program(b1, k, j, S)
  BY <1>5, <1>7, AtLast
<1>9. Fresh(b1)
  BY <1>5, <1>7, FreshJoin DEF Piece, Program, Proper
<1> HIDE DEF b1
<1>10. \A k, j : Program(b2, k, j, S)
  BY <1>7, <1>8, <1>9, AtLast
<1>11. Fresh(b2)
  BY <1>7, <1>8, <1>9, FreshJoin DEF Piece, Program, Proper
<1> HIDE DEF b2
<1>12. Program(Check \o b2, K, J, S)
  BY <1>5, <1>10, <1>11, AtLast
<1>13. Fresh(Check \o b2)
  BY <1>5, <1>10, <1>11, FreshJoin DEF Piece, Program, Proper
<1>14. Pass3Last = Check \o b2
  BY DEF Pass3Last, b2, b1, W, R
<1> QED
  BY <1>12, <1>13, <1>14

\* Brackets do not matter.
LEMMA Regroup ==
  \A a, b, c \in Seq(Step) : (a \o b) \o c = a \o (b \o c)
  BY ConcatAssociative

\* The third phase.
LEMMA Pass3Program ==
  ASSUME run' \in 0..MaxRuns, NEW K, NEW J, NEW S,
         Users \subseteq K \cup Untouched, "BETA" \in S
  PROVE  Program(pass3, K, J, S) /\ Fresh(pass3)
<1> DEFINE E == <<Op("erase", "BETA")>>
           R == <<Op("reboot", "")>>
           W == Write("LASTPHASE", By(run', 3))
           X == Panel \o Wrfiles3
           Y == X \o E
           Y1 == Y \o Check
           Y2 == Y1 \o W
           R1 == Check \o R
           R2 == W \o R1
<1>1. \A k, j, x : Program(Pass3Last, k, j, x) /\ Fresh(Pass3Last)
  BY Pass3End
<1>2. Program(E \o Pass3Last, K \cup {}, J \cup {}, S) /\ Fresh(E \o Pass3Last)
  BY <1>1, EraseProgram
<1>3. Piece(Wrfiles3, K \cup {}, J \cup {}, {}, S) /\ Fresh(Wrfiles3)
  <2>1. K \cup {} = K
    OBVIOUS
  <2> QED
    BY <2>1, Wrfiles3Piece
<1>4. Piece(Panel, K, J, {}, S) /\ Fresh(Panel)
  BY OnePiece DEF Panel, Plain
<1>5. {} = {} \cup {}
  OBVIOUS
<1>6. Piece(X, K, J, {}, S) /\ Fresh(X)
  BY <1>3, <1>4, <1>5, Then
<1>7. pass3 = X \o (E \o Pass3Last)
  <2>1. pass3 = ((((Panel \o (Wrfiles3 \o E)) \o Check) \o W) \o Check) \o R
    BY DEF pass3, wrfiles3, Wrfiles3
  <2>2. Pass3Last = Check \o (W \o (Check \o R))
    BY DEF Pass3Last
  <2>3. Panel \in Seq(Step)
    BY <1>4 DEF Piece
  <2>4. Wrfiles3 \in Seq(Step)
    BY <1>3 DEF Piece
  <2>5. E \in Seq(Step)
    <3>1. Op("erase", "BETA") \in Step
      BY EraseStep
    <3> QED
      BY <3>1
  <2>6. R \in Seq(Step)
    BY RebootProgram DEF Program, Proper
  <2>7. W \in Seq(Step)
    <3>1. "LASTPHASE" \in Files /\ By(run', 3) \in Content \ {None}
      BY Contents DEF Files
    <3>2. Op("trunc", "LASTPHASE") \in Step /\ Line("put", "LASTPHASE", By(run', 3)) \in Step
      BY <3>1, TruncStep, PutStep
    <3> QED
      BY <3>2 DEF Write
  <2>8. Check \in Seq(Step)
    BY OnePiece DEF Piece, Check, Plain
  <2>9. X \in Seq(Step)
    BY <1>6 DEF Piece
  <2> HIDE DEF E, R, W, X, Y, Y1, Y2, R1, R2
  <2>10. Panel \o (Wrfiles3 \o E) = Y
    BY <2>3, <2>4, <2>5, Regroup, Zenon DEF X, Y
  <2>11. Y \in Seq(Step)
    BY <2>5, <2>9, ConcatProperties DEF Y
  <2>12. Y1 \in Seq(Step)
    BY <2>8, <2>11, ConcatProperties DEF Y1
  <2>13. Y2 \in Seq(Step)
    BY <2>7, <2>12, ConcatProperties DEF Y2
  <2>14. R1 \in Seq(Step)
    BY <2>6, <2>8, ConcatProperties DEF R1
  <2>15. R2 \in Seq(Step)
    BY <2>7, <2>14, ConcatProperties DEF R2
  <2>16. (Y2 \o Check) \o R = Y2 \o R1
    BY <2>6, <2>8, <2>13, Regroup, Zenon DEF R1
  <2>17. Y2 \o R1 = Y1 \o R2
    <3>1. (Y1 \o W) \o R1 = Y1 \o (W \o R1)
      BY <2>7, <2>12, <2>14, Regroup, Zenon
    <3> QED
      BY <3>1, Zenon DEF Y2, R2
  <2>18. Y1 \o R2 = Y \o (Check \o R2)
    BY <2>8, <2>11, <2>15, Regroup, Zenon DEF Y1
  <2>19. Pass3Last \in Seq(Step) /\ Pass3Last = Check \o R2
    BY <1>1, <2>2 DEF Program, Proper, R2, R1
  <2>20. Y \o Pass3Last = X \o (E \o Pass3Last)
    <3>1. Pass3Last \in Seq(Step)
      BY <2>19
    <3>2. (X \o E) \o Pass3Last = X \o (E \o Pass3Last)
      BY <2>5, <2>9, <3>1, Regroup, Zenon
    <3> QED
      BY <3>2 DEF Y
  <2>21. pass3 = (Y2 \o Check) \o R
    BY <2>1, <2>10 DEF Y2, Y1
  <2> QED
    BY <2>16, <2>17, <2>18, <2>19, <2>20, <2>21
<1> HIDE DEF X, E
<1>8. Program(X \o (E \o Pass3Last), K, J, S)
  BY <1>2, <1>6, AtLast
<1>9. Fresh(X \o (E \o Pass3Last))
  <2>1. X \in Seq(Step) /\ E \o Pass3Last \in Seq(Step)
    BY <1>2, <1>6 DEF Piece, Program, Proper
  <2> QED
    BY <1>2, <1>6, <2>1, FreshJoin
<1> QED
  BY <1>7, <1>8, <1>9

-----------------------------------------------------------------------------
(* Types, and the shape of what is left to do.                             *)

\* What a step does to the list that is left.
Left ==
    /\ TodoShape' /\ todo' # <<>>
    /\ \A f : Erases(f) => Erases(f)' \/ (todo[1].op = "erase" /\ todo[1].file = f)

\* The step that is done, and what is left of the list.
LEMMA AtHead ==
  ASSUME TypeInv, at \in {"maximize", "premaxim"}
  PROVE  /\ todo \in Seq(Step) /\ todo # <<>> /\ Ending(todo)
         /\ Next1 = todo[1] /\ todo[1] \in Step
         /\ Len(todo) \in Nat /\ Tails(todo, Tail(todo), Len(todo))
         /\ todo[1].op \in Ends => Len(todo) = 1
         /\ todo[1].op \notin Ends => Ending(Tail(todo)) /\ Tail(todo) # <<>> /\ Len(todo) > 1
<1>1. todo \in Seq(Step) /\ Ending(todo)
  BY DEF TypeInv, TodoShape
<1>2. PICK t, n : t = Tail(todo) /\ n = Len(todo)
  OBVIOUS
<1>3. /\ todo # <<>> /\ n \in Nat /\ Tails(todo, t, n)
      /\ todo[1].op \in Ends => n = 1
      /\ todo[1].op \notin Ends => Ending(t) /\ t # <<>> /\ n > 1
  BY <1>1, <1>2, TailEnding
<1>4. Head(todo) = todo[1] /\ todo[1] \in Step
  BY <1>3 DEF Tails
<1> QED
  BY <1>1, <1>2, <1>3, <1>4 DEF Next1

\* A step that is done and gone.
LEMMA StepLeft ==
  ASSUME TypeInv, at \in {"maximize", "premaxim"}, StepDone, todo[1].op \notin Ends
  PROVE  Left
<1>1. PICK t, n : t = Tail(todo) /\ n = Len(todo)
  OBVIOUS
<1>2. /\ todo \in Seq(Step) /\ n \in Nat /\ Tails(todo, t, n) /\ Ending(t) /\ t # <<>>
  BY <1>1, AtHead
<1>3. /\ DOMAIN todo = 1..n /\ DOMAIN t = 1..(n - 1) /\ t \in Seq(Step)
      /\ \A i \in 1..(n - 1) : t[i] = todo[i + 1]
      /\ \A i \in 1..n : i = 1 \/ (i - 1 \in 1..(n - 1) /\ todo[i] = t[i - 1])
  BY <1>2 DEF Tails
<1>4. \A i \in 1..(n - 1) : i + 1 \in 1..n
  BY <1>2
<1>5. todo' = t /\ at' = at
  BY <1>1 DEF StepDone
<1>6. \A i \in DOMAIN t : t[i] = todo[i + 1] /\ i + 1 \in DOMAIN todo
  BY <1>3, <1>4
<1>7. TodoShape'
  <2>1. ASSUME at = "maximize"
        PROVE  \A i \in DOMAIN t : /\ t[i].op \notin {"copy", "dos", "autoexec"}
                                   /\ t[i].op = "erase" => t[i].file = "BETA"
    BY <1>6, <2>1 DEF TypeInv, TodoShape
  <2>2. ASSUME at = "premaxim"
        PROVE  \A i \in DOMAIN t : /\ t[i].op \in Restoring
                                   /\ t[i].op = "put" => t[i].file \in Users
    BY <1>6, <2>2 DEF TypeInv, TodoShape
  <2> QED
    BY <1>2, <1>3, <1>5, <2>1, <2>2 DEF TodoShape
<1>8. ASSUME NEW f, Erases(f)
      PROVE  Erases(f)' \/ (todo[1].op = "erase" /\ todo[1].file = f)
  <2>1. PICK i \in 1..n : todo[i].op = "erase" /\ todo[i].file = f
    BY <1>3, <1>8 DEF Erases
  <2>2. CASE i # 1
    BY <1>3, <1>5, <2>1, <2>2 DEF Erases
  <2> QED
    BY <2>1, <2>2
<1> QED
  BY <1>2, <1>5, <1>7, <1>8 DEF Left

\* A list with one step, and one with some.
LEMMA NonEmpty ==
  ASSUME NEW s, Len(s) # 0
  PROVE  s # <<>>
  BY EmptySeq

LEMMA Single ==
  ASSUME NEW x \in Step, NEW s, s = <<x>>
  PROVE  s \in Seq(Step) /\ Len(s) = 1 /\ DOMAIN s = {1} /\ s[1] = x /\ s # <<>>
<1>1. s \in Seq(Step) /\ Len(s) = 1 /\ s[1] = x
  OBVIOUS
<1>2. DOMAIN s = 1..1
  BY <1>1, LenProperties
<1>3. DOMAIN s = {1}
  BY <1>2
<1>4. s # <<>>
  BY <1>1, NonEmpty
<1> QED
  BY <1>1, <1>3, <1>4

\* The steps after an error.
Tidying(s) ==
    /\ Proper(s) /\ s # <<>> /\ \A i \in DOMAIN s : s[i].op \in {"erase", "out"}
    /\ \A K, J, S : Safe(s, K) /\ Recorded(s, J) /\ Sourced(s, S)

LEMMA BottomShape ==
  Tidying(Bottom) /\ Tidying(<<Op("out", "")>>)
<1>1. PICK x, y : x = Op("erase", "BETA") /\ y = Op("out", "")
  OBVIOUS
<1>2. /\ x \in Step /\ x.op = "erase" /\ x.file = "BETA"
      /\ y \in Step /\ y.op = "out"
  BY <1>1, EraseStep, PlainStep DEF Ends
<1>3. Tidying(Bottom)
  <2>1. PICK s : s = Bottom
    OBVIOUS
  <2>2. x \in Step /\ y \in Step /\ s = <<x, y>>
    BY <1>1, <1>2, <2>1 DEF Bottom
  <2>3. s \in Seq(Step) /\ Len(s) = 2 /\ s[1] = x /\ s[2] = y
    BY <2>2
  <2>4. DOMAIN s = {1, 2}
    <3>1. DOMAIN s = 1..2
      BY <2>3, LenProperties
    <3> QED
      BY <3>1
  <2>5. s # <<>>
    BY <2>3, NonEmpty
  <2>6. Proper(s)
    BY <1>2, <2>3, <2>4, <2>5 DEF Proper, Ending, Ends
  <2>7. \A K, J, S : Safe(s, K) /\ Recorded(s, J) /\ Sourced(s, S)
    BY <1>2, <2>3, <2>4 DEF Safe, Writes, Recorded, Records, Sourced
  <2>8. \A i \in DOMAIN s : s[i].op \in {"erase", "out"}
    BY <1>2, <2>3, <2>4
  <2> QED
    BY <2>1, <2>5, <2>6, <2>7, <2>8 DEF Tidying
<1>4. Tidying(<<Op("out", "")>>)
  <2>1. PICK s : s = <<y>>
    OBVIOUS
  <2>2. y \in Step
    BY <1>2
  <2>3. s \in Seq(Step) /\ Len(s) = 1 /\ DOMAIN s = {1} /\ s[1] = y /\ s # <<>>
    BY <2>1, <2>2, Single
  <2>4. Proper(s)
    BY <1>2, <2>3 DEF Proper, Ending, Ends
  <2>5. \A K, J, S : Safe(s, K) /\ Recorded(s, J) /\ Sourced(s, S)
    BY <1>2, <2>3 DEF Safe, Writes, Recorded, Records, Sourced
  <2>6. \A i \in DOMAIN s : s[i].op \in {"erase", "out"}
    BY <1>2, <2>3
  <2> QED
    BY <1>1, <2>1, <2>3, <2>4, <2>5, <2>6 DEF Tidying
<1> QED
  BY <1>3, <1>4

\* A list of a phase, as what is left.
LEMMA ProperLeft ==
  ASSUME at = "maximize", at' = at, Proper(todo'), TypeInv
  PROVE  TodoShape' /\ todo' # <<>>
<1>1. todo' # <<>>
  BY DEF Proper, Ending
<1>2. TodoShape'
  BY DEF Proper, TodoShape
<1> QED
  BY <1>1, <1>2

\* What MAXIMIZE skips it skips as a whole.
LEMMA SkipProper ==
  ASSUME NEW s, Proper(s), s[1].op = "unless"
  PROVE  Proper(SubSeq(s, 2 + s[1].n, Len(s)))
<1>0. PICK t : t = SubSeq(s, 2 + s[1].n, Len(s))
  OBVIOUS
<1>1. PICK n : n = Len(s)
  OBVIOUS
<1>2. s \in Seq(Step) /\ Ending(s) /\ n \in Nat /\ n >= 1 /\ DOMAIN s = 1..n
  BY <1>1, EmptySeq, LenProperties DEF Proper, Ending
<1>3. PICK m : m = s[1].n
  OBVIOUS
<1>4. m \in Nat /\ 1 + m < n
  <2>1. 1 \in 1..n
    BY <1>2
  <2>2. s[1] \in Step
    BY <1>1, <1>2, <2>1, ElementOfSeq
  <2>3. m \in Nat
    BY <1>3, <2>2, StepFields
  <2>4. 1 + s[1].n < Len(s)
    BY <1>2, <2>1 DEF Ending
  <2> QED
    BY <1>1, <1>3, <2>3, <2>4
<1>5. \A i \in (2 + m)..n : s[i] \in Step
  <2>1. \A i \in (2 + m)..n : i \in 1..n
    BY <1>2, <1>4
  <2> QED
    BY <1>1, <1>2, <2>1, ElementOfSeq
<1>6. /\ t \in Seq(Step) /\ Len(t) = n - (2 + m) + 1
      /\ \A i \in 1..(n - (2 + m) + 1) : t[i] = s[(2 + m) + i - 1]
  <2>1. PICK a : a = 2 + m
    OBVIOUS
  <2>2. a \in Int /\ n \in Int /\ a <= n
    BY <1>2, <1>4, <2>1
  <2>3. t = SubSeq(s, a, n)
    BY <1>0, <1>1, <1>3, <2>1
  <2>4. \A i \in a..n : s[i] \in Step
    BY <1>5, <2>1
  <2>5. /\ t \in Seq(Step) /\ Len(t) = n - a + 1
        /\ \A i \in 1..(n - a + 1) : t[i] = s[a + i - 1]
    <3>1. /\ SubSeq(s, a, n) \in Seq(Step)
          /\ Len(SubSeq(s, a, n)) = IF a <= n THEN n - a + 1 ELSE 0
          /\ \A i \in 1..(n - a + 1) : SubSeq(s, a, n)[i] = s[a + i - 1]
      BY <2>2, <2>4, SubSeqProperties
    <3> QED
      BY <2>2, <2>3, <3>1
  <2> QED
    BY <2>1, <2>5
<1>7. PICK k : k = n - (2 + m) + 1
  OBVIOUS
<1>8. k \in Nat /\ k >= 1 /\ k + m + 1 = n
  BY <1>2, <1>4, <1>7
<1>9. DOMAIN t = 1..k /\ Len(t) = k
  BY <1>6, <1>7, LenProperties
<1>10. ASSUME NEW i \in 1..k
       PROVE  i + m + 1 \in 1..n /\ t[i] = s[i + m + 1] /\ (i + m + 1 = n <=> i = k)
  <2>1. (2 + m) + i - 1 = i + m + 1
    BY <1>4
  <2>2. t[i] = s[i + m + 1]
    BY <1>6, <1>7, <2>1
  <2>3. i + m + 1 \in 1..n /\ (i + m + 1 = n <=> i = k)
    BY <1>4, <1>8
  <2> QED
    BY <2>2, <2>3
<1>11. ASSUME NEW i \in 1..k
       PROVE  /\ t[i].op \in Ends <=> i = k
              /\ t[i].op = "unless" => i + t[i].n < k
              /\ t[i].op \notin {"copy", "dos", "autoexec"}
              /\ t[i].op = "erase" => t[i].file = "BETA"
  <2>1. i + m + 1 \in 1..n /\ t[i] = s[i + m + 1] /\ (i + m + 1 = n <=> i = k)
    BY <1>10
  <2>2. t[i].op \in Ends <=> i = k
    BY <1>1, <1>2, <2>1 DEF Ending
  <2>3. ASSUME t[i].op = "unless"
        PROVE  i + t[i].n < k
    <3>1. t[i].n \in Nat
      BY <1>6, <1>9, <2>3, ElementOfSeq, StepFields
    <3>2. (i + m + 1) + t[i].n < n
      BY <1>1, <1>2, <2>1, <2>3 DEF Ending
    <3>3. PICK d \in Nat : d = t[i].n
      BY <3>1
    <3>4. (i + m + 1) + d < n => i + d < k
      BY <1>4, <1>8
    <3> QED
      BY <3>2, <3>3, <3>4
  <2>4. t[i].op \notin {"copy", "dos", "autoexec"} /\ (t[i].op = "erase" => t[i].file = "BETA")
    BY <1>2, <2>1 DEF Proper
  <2> QED
    BY <2>2, <2>3, <2>4
<1>12. t # <<>>
  <2>1. Len(t) # 0
    BY <1>8, <1>9
  <2> QED
    BY <2>1, NonEmpty
<1>13. Ending(t)
  BY <1>9, <1>11, <1>12 DEF Ending
<1> QED
  BY <1>0, <1>6, <1>9, <1>11, <1>13 DEF Proper

\* PREMAXIM has been made when anything else is done.
LEMMA Made ==
  ASSUME TypeInv, at \in {"maximize", "premaxim"}, todo[1].op # "create"
  PROVE  premaxim # <<>>
<1>1. ASSUME premaxim = <<>>
      PROVE  FALSE
  <2>1. at = "maximize" /\ Creating
    BY <1>1 DEF TypeInv, NothingYet
  <2> QED
    BY <2>1 DEF Creating
<1> QED
  BY <1>1

\* A step keeps the shape of everything if it keeps that of the list and
\* PREMAXIM's erasing.
Frame == UNCHANGED <<premaxim, at, Pass, run, crashes, before, spoilt>>
LEMMA StepType ==
  ASSUME TypeInv, at \in {"maximize", "premaxim"}, todo[1].op # "create",
         TodoShape', todo' # <<>>, Frame,
         disk' \in [Files -> Content], AnyError' \in BOOLEAN,
         SavedFiles' \in [Users -> Content],
         at = "premaxim" =>
            /\ \A f : Erases(f) => Erases(f)' \/ (todo[1].op = "erase" /\ todo[1].file = f)
            /\ \A f \in {"LASTPHASE", "BETA"} :
                  disk'[f] = IF todo[1].op = "erase" /\ todo[1].file = f THEN None ELSE disk[f]
  PROVE  TypeInv'
<1>1. premaxim # <<>>
  BY Made
<1>2. at' = at /\ premaxim' = premaxim
  BY DEF Frame
<1>3. TypeOK'
  BY <1>2 DEF TypeInv, TypeOK, Frame
<1>4. PremaximShape'
  BY <1>2 DEF TypeInv, PremaximShape
<1>5. NothingYet' /\ LauncherIsThere'
  BY <1>1, <1>2 DEF NothingYet, LauncherIsThere
<1>6. Erasing'
  <2>1. SUFFICES ASSUME at = "premaxim", NEW f \in {"LASTPHASE", "BETA"}
                 PROVE  disk'[f] = None \/ Erases(f)'
    BY <1>2 DEF Erasing
  <2>2. CASE todo[1].op = "erase" /\ todo[1].file = f
    BY <2>1, <2>2
  <2>3. CASE ~(todo[1].op = "erase" /\ todo[1].file = f)
    <3>1. disk'[f] = disk[f]
      BY <2>1, <2>3
    <3>2. disk[f] = None \/ Erases(f)
      BY <2>1 DEF TypeInv, Erasing
    <3> QED
      BY <2>1, <2>3, <3>1, <3>2
  <2> QED
    BY <2>2, <2>3
<1> QED
  BY <1>3, <1>4, <1>5, <1>6 DEF TypeInv

\* What a step that is done at the head of the list is.
LEMMA DoingHead ==
  ASSUME TypeInv, NEW o, Doing(o)
  PROVE  /\ at \in {"maximize", "premaxim"} /\ Next1 = todo[1] /\ todo[1].op = o
         /\ todo[1] \in Step /\ 1 \in DOMAIN todo
         /\ at = "maximize" => /\ o \notin {"copy", "dos", "autoexec"}
                               /\ o = "erase" => todo[1].file = "BETA"
         /\ at = "premaxim" => /\ o \in Restoring
                               /\ o = "put" => todo[1].file \in Users
<1>1. at \in {"maximize", "premaxim"} /\ Next1.op = o
  BY DEF Doing
<1>2. Next1 = todo[1] /\ todo[1] \in Step /\ Len(todo) \in Nat /\ todo \in Seq(Step) /\ todo # <<>>
  BY <1>1, AtHead
<1>3. 1 \in DOMAIN todo
  BY <1>2, EmptySeq, LenProperties
<1>4. at = "maximize" => /\ todo[1].op \notin {"copy", "dos", "autoexec"}
                         /\ todo[1].op = "erase" => todo[1].file = "BETA"
  BY <1>3 DEF TypeInv, TodoShape
<1>5. at = "premaxim" => /\ todo[1].op \in Restoring
                         /\ todo[1].op = "put" => todo[1].file \in Users
  BY <1>3 DEF TypeInv, TodoShape
<1> QED
  BY <1>1, <1>2, <1>3, <1>4, <1>5

\* Files are what they may be.
LEMMA DiskTypes ==
  ASSUME TypeInv, NEW f \in Files, NEW c \in Content
  PROVE  /\ [disk EXCEPT ![f] = c] \in [Files -> Content]
         /\ disk \in [Files -> Content] /\ disk[f] \in Content
         /\ [disk EXCEPT ![f] = c][f] = c
         /\ \A g \in Files : g # f => [disk EXCEPT ![f] = c][g] = disk[g]
  BY DEF TypeInv, TypeOK

\* The steps that write.
LEMMA WriteType ==
  ASSUME TypeInv, Truncate \/ Put \/ copyfile \/ Erase
  PROVE  TypeInv'
<1>0. /\ Users \subseteq Files /\ "LASTPHASE" \in Files /\ "BETA" \in Files
      /\ "LASTPHASE" \notin Users /\ "BETA" \notin Users /\ "AUTOEXEC" \in Users
  BY DEF Files, Users
<1>1. PICK o \in {"trunc", "put", "from", "erase"} :
        /\ Doing(o) /\ StepDone
        /\ UNCHANGED <<premaxim, Pass, SavedFiles, history>>
  BY DEF Truncate, Put, copyfile, Erase, ram
<1>2. /\ at \in {"maximize", "premaxim"} /\ Next1 = todo[1] /\ todo[1].op = o
      /\ todo[1] \in Step
      /\ at = "premaxim" => o \in Restoring /\ (o = "put" => todo[1].file \in Users)
  BY <1>1, DoingHead
<1>3. PICK f : f = todo[1].file
  OBVIOUS
<1>4. /\ f \in Files
      /\ o = "put" => todo[1].data \in Content
      /\ o = "from" => todo[1].src \in Files
  BY <1>0, <1>2, <1>3, StepFields
<1>5. PICK c \in Content :
        /\ disk' = [disk EXCEPT ![f] = c] \/ (disk' = disk /\ at = "maximize")
        /\ o = "erase" => c = None /\ disk' = [disk EXCEPT ![f] = c]
  <2>1. CASE Truncate
    <3>1. o = "trunc"
      BY <1>2, <2>1 DEF Truncate, Doing
    <3> QED
      BY <1>2, <1>3, <2>1, <3>1, Contents DEF Truncate
  <2>2. CASE Put
    <3>1. o = "put"
      BY <1>2, <2>2 DEF Put, Doing
    <3> QED
      BY <1>2, <1>3, <1>4, <2>2, <3>1, Contents DEF Put, Failing
  <2>3. CASE copyfile
    <3>1. o = "from"
      BY <1>2, <2>3 DEF copyfile, Doing
    <3>2. disk[todo[1].src] \in Content
      BY <1>4, <3>1 DEF TypeInv, TypeOK
    <3> QED
      BY <1>2, <1>3, <2>3, <3>1, <3>2 DEF copyfile, Failing
  <2>4. CASE Erase
    BY <1>2, <1>3, <2>4, Contents DEF Erase
  <2> QED
    BY <2>1, <2>2, <2>3, <2>4
<1>6. AnyError' \in BOOLEAN
  BY DEF Truncate, Put, copyfile, Erase, ram, TypeInv, TypeOK
<1>7. Left
  <2>1. todo[1].op \notin Ends
    BY <1>2 DEF Ends
  <2> QED
    BY <1>1, <1>2, <2>1, StepLeft
<1>8. disk' \in [Files -> Content]
  BY <1>4, <1>5, DiskTypes
<1>9. ASSUME at = "premaxim", NEW g \in {"LASTPHASE", "BETA"}
      PROVE  disk'[g] = IF todo[1].op = "erase" /\ todo[1].file = g THEN None ELSE disk[g]
  <2>1. o \in {"put", "erase"} /\ (o = "put" => f \in Users) /\ g \in Files
    BY <1>0, <1>2, <1>3, <1>9 DEF Restoring
  <2>2. disk' = [disk EXCEPT ![f] = c]
    BY <1>5, <1>9
  <2>3. CASE g = f
    <3>1. o = "erase"
      BY <1>0, <2>1, <2>3
    <3>2. disk'[g] = c
      BY <1>4, <2>2, <2>3, DiskTypes
    <3> QED
      BY <1>2, <1>3, <1>5, <2>3, <3>1, <3>2
  <2>4. CASE g # f
    <3>1. disk'[g] = disk[g]
      BY <1>4, <2>1, <2>2, <2>4, DiskTypes
    <3> QED
      BY <1>3, <2>4, <3>1
  <2> QED
    BY <2>3, <2>4
<1>10. Frame /\ SavedFiles' \in [Users -> Content]
  BY <1>1 DEF Frame, StepDone, history, TypeInv, TypeOK
<1> QED
  BY <1>2, <1>6, <1>7, <1>8, <1>9, <1>10, StepType DEF Left

\* The steps that decide how a phase goes on.
LEMMA TurnType ==
  ASSUME TypeInv, SkipIfError \/ CheckError \/ Ask
  PROVE  TypeInv'
<1>1. PICK o \in {"unless", "check", "abort", "panel"} :
        /\ Doing(o) /\ UNCHANGED <<disk, premaxim, at, Pass, SavedFiles, history>>
        /\ AnyError' \in {TRUE, AnyError}
  BY DEF SkipIfError, CheckError, Ask, ram, StepDone, Fail
<1>2. /\ at \in {"maximize", "premaxim"} /\ Next1 = todo[1] /\ todo[1].op = o
      /\ at = "premaxim" => o \in Restoring
  BY <1>1, DoingHead
<1>3. at = "maximize"
  BY <1>2 DEF Restoring
<1>4. Proper(todo)
  BY <1>3 DEF TypeInv, TodoShape, Proper
<1>5. CASE StepDone
  <2>1. todo[1].op \notin Ends
    BY <1>2 DEF Ends
  <2>2. Left
    BY <1>2, <1>5, <2>1, StepLeft
  <2>3. TodoShape' /\ todo' # <<>>
    BY <2>2 DEF Left
  <2> QED
    BY <1>1, <1>2, <1>3, <2>3, StepType DEF Frame, history, TypeInv, TypeOK
<1>6. CASE Proper(todo')
  <2>1. TodoShape' /\ todo' # <<>>
    BY <1>1, <1>3, <1>6, ProperLeft
  <2> QED
    BY <1>1, <1>2, <1>3, <2>1, StepType DEF Frame, history, TypeInv, TypeOK
<1>7. StepDone \/ Proper(todo')
  <2>1. CASE SkipIfError
    <3>1. todo[1].op = "unless" /\ at' = at
      BY <1>2, <2>1 DEF SkipIfError, Doing
    <3>2. Proper(SubSeq(todo, 2 + todo[1].n, Len(todo)))
      BY <1>4, <3>1, SkipProper
    <3> QED
      BY <1>2, <2>1, <3>1, <3>2 DEF SkipIfError, StepDone
  <2>2. CASE CheckError
    BY <2>2, BottomShape DEF CheckError, Fail, Tidying
  <2>3. CASE Ask
    BY <2>3, BottomShape DEF Ask, Fail, Tidying
  <2> QED
    BY <2>1, <2>2, <2>3
<1> QED
  BY <1>5, <1>6, <1>7

\* A file is saved.
LEMMA SaveType ==
  ASSUME TypeInv, savefile
  PROVE  TypeInv'
<1>1. /\ Doing("save") /\ StepDone
      /\ UNCHANGED <<disk, premaxim, at, Pass, history>>
      /\ AnyError' \in {TRUE, AnyError}
      /\ SavedFiles' \in {SavedFiles, [SavedFiles EXCEPT ![Next1.file] = disk[Next1.file]]}
  BY DEF savefile, StepDone
<1>2. /\ at \in {"maximize", "premaxim"} /\ Next1 = todo[1] /\ todo[1].op = "save"
      /\ todo[1] \in Step
      /\ at = "premaxim" => "save" \in Restoring
  BY <1>1, DoingHead
<1>3. at = "maximize"
  BY <1>2 DEF Restoring
<1>4. Left
  <2>1. todo[1].op \notin Ends
    BY <1>2 DEF Ends
  <2> QED
    BY <1>1, <1>2, <2>1, StepLeft
<1>5. SavedFiles' \in [Users -> Content]
  <2>1. todo[1].file \in Users /\ Users \subseteq Files
    BY <1>2, StepFields DEF Files
  <2>2. disk[todo[1].file] \in Content /\ SavedFiles \in [Users -> Content]
    BY <2>1 DEF TypeInv, TypeOK
  <2> QED
    BY <1>1, <1>2, <2>1, <2>2
<1> QED
  BY <1>1, <1>2, <1>3, <1>4, <1>5, StepType DEF Left, Frame, history, TypeInv, TypeOK

\* A step that takes the place of the first one.
Putting(s, t, n, x, u) ==
    /\ u \in Seq(Step) /\ u # <<>> /\ Len(u) = n
    /\ DOMAIN s = 1..n /\ DOMAIN u = 1..n
    /\ u[1] = x /\ \A i \in 2..n : u[i] = s[i]

LEMMA PutInFront ==
  ASSUME NEW s, NEW t, NEW n \in Nat, Tails(s, t, n), NEW x \in Step
  PROVE  Putting(s, t, n, x, <<x>> \o t)
<1>1. PICK u : u = <<x>> \o t
  OBVIOUS
<1>2. PICK h : h = <<x>>
  OBVIOUS
<1>3. h \in Seq(Step) /\ Len(h) = 1 /\ DOMAIN h = {1} /\ h[1] = x
  BY <1>2, Single
<1>4. /\ n >= 1 /\ DOMAIN s = 1..n /\ DOMAIN t = 1..(n - 1) /\ t \in Seq(Step) /\ Len(t) = n - 1
      /\ \A i \in 1..n : i = 1 \/ (i - 1 \in 1..(n - 1) /\ s[i] = t[i - 1])
  BY DEF Tails
<1>5. PICK m, k : m = 1 /\ k = n - 1
  OBVIOUS
<1>6. m \in Nat /\ k \in Nat /\ m + k = n
  BY <1>4, <1>5
<1>7. Joins(h, t, u, m, k)
  BY <1>1, <1>2, <1>3, <1>4, <1>5, <1>6, JoinNamed
<1>8. /\ DOMAIN u = 1..n /\ u \in Seq(Step) /\ Len(u) = n
      /\ \A i \in 1..m : u[i] = h[i]
      /\ \A i \in 1..k : u[m + i] = t[i]
  BY <1>6, <1>7 DEF Joins
<1>9. u[1] = x
  BY <1>3, <1>5, <1>8
<1>10. ASSUME NEW i \in 2..n
       PROVE  u[i] = s[i]
  <2>1. i \in 1..n /\ i # 1 /\ m + (i - 1) = i
    BY <1>5
  <2>2. i - 1 \in 1..(n - 1) /\ s[i] = t[i - 1]
    BY <1>4, <2>1
  <2> QED
    BY <1>5, <1>8, <2>1, <2>2
<1>11. u # <<>>
  BY <1>4, <1>8, NonEmpty
<1> QED
  BY <1>1, <1>4, <1>8, <1>9, <1>10, <1>11 DEF Putting

\* A line that copies a file, in front of what is left.
LEMMA CopyType ==
  ASSUME TypeInv, Copy
  PROVE  TypeInv'
<1>1. Doing("copy") /\ UNCHANGED <<at, premaxim, ram, history>>
  BY DEF Copy
<1>2. /\ at = "premaxim" /\ Next1 = todo[1] /\ todo[1].op = "copy" /\ todo[1] \in Step
  BY <1>1, DoingHead
<1>3. CASE Next1.data = None
  <2>1. StepDone /\ UNCHANGED disk
    BY <1>1, <1>3 DEF Copy, StepDone
  <2>2. Left
    <3>1. todo[1].op \notin Ends
      BY <1>2 DEF Ends
    <3> QED
      BY <1>2, <2>1, <3>1, StepLeft
  <2> QED
    BY <1>1, <1>2, <2>1, <2>2, StepType DEF Left, Frame, history, ram, TypeInv, TypeOK
<1>4. CASE Next1.data # None
  <2>1. PICK f, c : f = todo[1].file /\ c = todo[1].data
    OBVIOUS
  <2>2. f \in Users /\ c \in Content /\ c # None
    BY <1>2, <1>4, <2>1, StepFields
  <2>3. PICK x : x = Line("put", f, c)
    OBVIOUS
  <2>4. x \in Step /\ x.op = "put" /\ x.file = f
    BY <2>2, <2>3, PutStep DEF Files
  <2>5. PICK t, n : t = Tail(todo) /\ n = Len(todo)
    OBVIOUS
  <2>6. disk' = [disk EXCEPT ![f] = Cut] /\ todo' = <<x>> \o t
    BY <1>2, <1>4, <2>1, <2>3, <2>5 DEF Copy
  <2>7. todo \in Seq(Step) /\ n \in Nat /\ Tails(todo, t, n) /\ n > 1 /\ Ending(todo)
    BY <1>2, <2>5, AtHead DEF Ends
  <2>8. Putting(todo, t, n, x, todo')
    BY <2>4, <2>6, <2>7, PutInFront
  <2>9. /\ todo' \in Seq(Step) /\ todo' # <<>> /\ Len(todo') = n
        /\ DOMAIN todo = 1..n /\ DOMAIN todo' = 1..n
        /\ todo'[1] = x /\ \A i \in 2..n : todo'[i] = todo[i]
    BY <2>8 DEF Putting
  <2>10. Ending(todo')
    <3>1. /\ \A i \in 1..n : todo[i].op \in Ends <=> i = n
          /\ \A i \in 1..n : todo[i].op = "unless" => i + todo[i].n < n
      BY <2>5, <2>7, <2>9 DEF Ending
    <3>2. ASSUME NEW i \in 1..n
          PROVE  /\ todo'[i].op \in Ends <=> i = n
                 /\ todo'[i].op = "unless" => i + todo'[i].n < n
      <4>1. CASE i = 1
        BY <2>4, <2>7, <2>9, <4>1 DEF Ends
      <4>2. CASE i # 1
        <5>1. todo'[i] = todo[i]
          BY <2>9, <4>2
        <5> QED
          BY <3>1, <5>1
      <4> QED
        BY <4>1, <4>2
    <3> QED
      BY <2>9, <3>2 DEF Ending
  <2>11. \A i \in 1..n : todo'[i].op \in Restoring /\ (todo'[i].op = "put" => todo'[i].file \in Users)
    <3>1. \A i \in 1..n : todo[i].op \in Restoring /\ (todo[i].op = "put" => todo[i].file \in Users)
      BY <1>2, <2>9 DEF TypeInv, TodoShape
    <3>2. SUFFICES ASSUME NEW i \in 1..n
                   PROVE  todo'[i].op \in Restoring /\ (todo'[i].op = "put" => todo'[i].file \in Users)
      OBVIOUS
    <3>3. CASE i = 1
      BY <2>2, <2>4, <2>9, <3>3 DEF Restoring
    <3>4. CASE i # 1
      <4>1. todo'[i] = todo[i]
        BY <2>9, <3>4
      <4> QED
        BY <3>1, <4>1
    <3> QED
      BY <3>3, <3>4
  <2>12. TodoShape'
    BY <1>1, <1>2, <2>9, <2>10, <2>11 DEF TodoShape
  <2>13. \A g : Erases(g) => Erases(g)'
    <3>1. SUFFICES ASSUME NEW g, Erases(g)
                   PROVE  Erases(g)'
      OBVIOUS
    <3>2. PICK i \in 1..n : todo[i].op = "erase" /\ todo[i].file = g
      BY <2>9, <3>1 DEF Erases
    <3>3. i # 1
      BY <1>2, <3>2
    <3>4. todo'[i] = todo[i]
      BY <2>9, <3>3
    <3> QED
      BY <2>9, <3>2, <3>4 DEF Erases
  <2>14. /\ disk' \in [Files -> Content]
         /\ \A g \in {"LASTPHASE", "BETA"} : disk'[g] = disk[g]
    BY <2>2, <2>6, DiskTypes, Contents DEF Files, Users
  <2>15. \A g \in {"LASTPHASE", "BETA"} :
            disk'[g] = IF todo[1].op = "erase" /\ todo[1].file = g THEN None ELSE disk[g]
    BY <1>2, <2>14
  <2>16. Frame /\ AnyError' \in BOOLEAN /\ SavedFiles' \in [Users -> Content] /\ todo[1].op # "create"
    BY <1>1, <1>2 DEF Frame, history, ram, TypeInv, TypeOK
  <2> QED
    BY <1>2, <2>9, <2>12, <2>13, <2>14, <2>15, <2>16, StepType
<1> QED
  BY <1>3, <1>4

\* What PREMAXIM consists of.
LEMMA PremaximLines ==
  ASSUME PremaximShape
  PROVE  /\ premaxim \in Seq(Step) /\ Len(premaxim) \in Nat
         /\ DOMAIN premaxim = 1..Len(premaxim)
         /\ premaxim # <<>> =>
              /\ Len(premaxim) >= 2
              /\ premaxim[1].op = "erase" /\ premaxim[1].file = "LASTPHASE"
              /\ premaxim[2].op = "erase" /\ premaxim[2].file = "BETA"
         /\ \A i \in DOMAIN premaxim :
              /\ premaxim[i] \in Step /\ premaxim[i].op \in {"erase", "copy"}
              /\ premaxim[i].file \in Files
              /\ premaxim[i].op = "copy" => premaxim[i].file \in Users
<1>1. /\ premaxim \in Seq(Step) /\ Len(premaxim) \in Nat
      /\ DOMAIN premaxim = 1..Len(premaxim)
  BY LenProperties DEF PremaximShape
<1>2. ASSUME premaxim # <<>>
      PROVE  /\ Len(premaxim) >= 2
             /\ premaxim[1].op = "erase" /\ premaxim[1].file = "LASTPHASE"
             /\ premaxim[2].op = "erase" /\ premaxim[2].file = "BETA"
  BY <1>2, EraseStep DEF PremaximShape
<1>3. ASSUME NEW i \in DOMAIN premaxim
      PROVE  /\ premaxim[i] \in Step /\ premaxim[i].op \in {"erase", "copy"}
             /\ premaxim[i].file \in Files
             /\ premaxim[i].op = "copy" => premaxim[i].file \in Users
  <2>1. premaxim # <<>>
    BY <1>1, <1>3, EmptySeq
  <2>2. premaxim[i] \in Step
    BY <1>1, <1>3, ElementOfSeq
  <2>3. i = 1 \/ i = 2 \/ i \in 3..Len(premaxim)
    BY <1>1, <1>3
  <2>4. premaxim[i].op \in {"erase", "copy"}
    BY <1>2, <2>1, <2>3 DEF PremaximShape
  <2>5. premaxim[i].op = "copy" => premaxim[i].file \in Users
    BY <2>2, StepFields
  <2>6. premaxim[i].file \in Files
    BY <2>2, <2>4, StepFields DEF Files
  <2> QED
    BY <2>2, <2>4, <2>5, <2>6
<1> QED
  BY <1>1, <1>2, <1>3

\* The lines have their types.
LEMMA LineTypes ==
  ASSUME PremaximShape
  PROVE  \A l \in ToSet(premaxim) : l.op \in {"erase", "copy"} /\ l.file \in Files
  BY PremaximLines DEF ToSet

\* PREMAXIM as it is run.
Started(u, after) ==
    /\ u \in Seq(Step) /\ u # <<>> /\ Len(u) = Len(premaxim) + 1
    /\ DOMAIN u = 1..(Len(premaxim) + 1)
    /\ \A i \in DOMAIN premaxim : u[i] = premaxim[i] /\ i \in DOMAIN u
    /\ \A i \in DOMAIN u : i \in DOMAIN premaxim \/ (i = Len(u) /\ u[i].op = after)

LEMMA PremaximStarts ==
  ASSUME PremaximShape, NEW after \in {"dos", "autoexec"}
  PROVE  Started(Append(premaxim, Op(after, "")), after)
<1>1. PICK x : x = Op(after, "")
  OBVIOUS
<1>2. x \in Step /\ x.op = after
  BY <1>1, PlainStep DEF Ends
<1>3. PICK u : u = Append(premaxim, x)
  OBVIOUS
<1>4. PICK n \in Nat : n = Len(premaxim)
  BY PremaximLines
<1>5. /\ premaxim \in Seq(Step) /\ DOMAIN premaxim = 1..n
  BY <1>4, PremaximLines
<1>6. /\ u \in Seq(Step) /\ u # <<>> /\ Len(u) = n + 1
      /\ \A i \in 1..n : u[i] = premaxim[i]
      /\ u[n + 1] = x
  <2>1. x \in Step
    BY <1>2
  <2>2. premaxim \in Seq(Step)
    BY <1>5
  <2> QED
    BY <1>3, <1>4, <2>1, <2>2, AppendProperties
<1>7. DOMAIN u = 1..(n + 1)
  BY <1>6, LenProperties
<1>8. (\A i \in 1..n : i \in 1..(n + 1)) /\ \A i \in 1..(n + 1) : i \in 1..n \/ i = n + 1
  BY <1>4
<1>9. Started(u, after)
  BY <1>2, <1>4, <1>5, <1>6, <1>7, <1>8 DEF Started
<1> QED
  BY <1>1, <1>3, <1>9

\* PREMAXIM runs.
LEMMA PremaximType ==
  ASSUME TypeInv, premaxim # <<>>, NEW after \in {"dos", "autoexec"}, Premaxim(after),
         UNCHANGED <<disk, premaxim, Pass, SavedFiles, run, crashes, before>>,
         spoilt' \subseteq Harm
  PROVE  TypeInv'
<1>1. /\ at' = "premaxim" /\ AnyError' = FALSE /\ todo' = Append(premaxim, Op(after, ""))
  BY DEF Premaxim
<1>2. PremaximShape
  BY DEF TypeInv
<1>3. PICK u : u = todo'
  OBVIOUS
<1>4. Started(u, after)
  BY <1>1, <1>2, <1>3, PremaximStarts
<1>5. PICK n \in Nat : n = Len(premaxim)
  BY <1>2, PremaximLines
<1>6. /\ u \in Seq(Step) /\ u # <<>> /\ Len(u) = n + 1 /\ DOMAIN u = 1..(n + 1)
      /\ \A i \in 1..n : u[i] = premaxim[i] /\ i \in 1..(n + 1)
      /\ \A i \in 1..(n + 1) : i \in 1..n \/ (i = n + 1 /\ u[i].op = after)
      /\ DOMAIN premaxim = 1..n
  BY <1>2, <1>4, <1>5, PremaximLines DEF Started
<1>7. ASSUME NEW i \in 1..(n + 1)
      PROVE  /\ u[i].op \in Ends <=> i = n + 1
             /\ u[i].op \notin {"unless", "put"} /\ u[i].op \in Restoring
  <2>1. CASE i \in 1..n
    <3>1. u[i].op \in {"erase", "copy"}
      BY <1>2, <1>6, <2>1, PremaximLines
    <3>2. i # n + 1
      BY <2>1
    <3> QED
      BY <3>1, <3>2 DEF Ends, Restoring
  <2>2. CASE i = n + 1 /\ u[i].op = after
    BY <2>2 DEF Ends, Restoring
  <2> QED
    BY <1>6, <2>1, <2>2
<1>8. Ending(u)
  BY <1>6, <1>7 DEF Ending
<1>9. TodoShape'
  BY <1>1, <1>3, <1>6, <1>7, <1>8 DEF TodoShape
<1>10. Erasing'
  <2>1. \A f \in {"LASTPHASE", "BETA"} : \E i \in 1..n : premaxim[i].op = "erase" /\ premaxim[i].file = f
    <3>1. 1 \in 1..n /\ 2 \in 1..n
      BY <1>2, <1>5, PremaximLines
    <3> QED
      BY <1>2, <3>1, PremaximLines
  <2>2. \A f \in {"LASTPHASE", "BETA"} : \E i \in 1..(n + 1) : u[i].op = "erase" /\ u[i].file = f
    BY <1>6, <2>1
  <2>3. \A f \in {"LASTPHASE", "BETA"} : Erases(f)'
    BY <1>3, <1>6, <2>2 DEF Erases
  <2> QED
    BY <2>3 DEF Erasing
<1>11. PremaximShape' /\ NothingYet' /\ LauncherIsThere'
  BY <1>1 DEF TypeInv, PremaximShape, NothingYet, LauncherIsThere
<1>12. TypeOK'
  BY <1>1, <1>3, <1>6 DEF TypeInv, TypeOK
<1> QED
  BY <1>9, <1>10, <1>11, <1>12 DEF TypeInv

\* The user's own AUTOEXEC.BAT is not a launcher.
LEMMA NotLauncher ==
  ASSUME NothingYet, premaxim = <<>>
  PROVE  ~Launcher
<1>1. ASSUME NEW r \in 1..MaxRuns, NEW p \in 1..2, disk["AUTOEXEC"] = By(r, p)
      PROVE  FALSE
  <2>1. By(0, 3) = By(r, p)
    BY <1>1 DEF NothingYet
  <2>2. 0 = r
    BY <2>1, Contents
  <2> QED
    BY <2>2
<1> QED
  BY <1>1 DEF Launcher

\* Nothing runs.
LEMMA QuietType ==
  ASSUME TypeInv, todo' = <<>>, at' \in {"dos", "boot", "launcher"},
         UNCHANGED <<disk, premaxim, run, before>>,
         Pass' \in 0..3, AnyError' \in BOOLEAN, SavedFiles' \in [Users -> Content],
         crashes' \in 0..MaxCrashes, spoilt' \subseteq Harm,
         at' = "launcher" => Launcher
  PROVE  TypeInv'
<1>1. TypeOK' /\ PremaximShape'
  BY DEF TypeInv, TypeOK, PremaximShape
<1>2. TodoShape' /\ Erasing'
  BY EmptySeq DEF TodoShape, Erasing
<1>3. LauncherIsThere'
  BY DEF LauncherIsThere, Launcher
<1>4. NothingYet'
  <2>1. premaxim = <<>> => ~Launcher
    BY NotLauncher DEF TypeInv
  <2> QED
    BY <2>1 DEF TypeInv, NothingYet
<1> QED
  BY <1>1, <1>2, <1>3, <1>4 DEF TypeInv

\* PREMAXIM is created, and the files are what they were.
CopiesOfNothing == \A f \in Users : CopiesOf(f) = {}

LEMMA CreateType ==
  ASSUME TypeInv, restbatcreate
  PROVE  TypeInv' /\ premaxim' # <<>> /\ CopiesOfNothing'
<1>1. /\ Doing("create") /\ StepDone
      /\ premaxim' = <<Op("erase", "LASTPHASE"), Op("erase", "BETA")>>
      /\ before' = [f \in Users |-> disk[f]]
      /\ UNCHANGED <<disk, ram, run, crashes, spoilt>>
  BY DEF restbatcreate
<1>2. /\ at = "maximize" /\ Next1 = todo[1] /\ todo[1].op = "create"
  BY <1>1, DoingHead DEF Restoring
<1>3. Left
  BY <1>1, <1>2, StepLeft DEF Ends
<1>4. PICK x, y : x = Op("erase", "LASTPHASE") /\ y = Op("erase", "BETA")
  OBVIOUS
<1>5. x \in Step /\ y \in Step /\ x.op = "erase" /\ y.op = "erase"
  BY <1>4, EraseStep
<1>6. PICK u : u = premaxim'
  OBVIOUS
<1>7. u \in Seq(Step) /\ Len(u) = 2 /\ u[1] = x /\ u[2] = y
  <2>1. u = <<x, y>> /\ x \in Step /\ y \in Step
    BY <1>1, <1>4, <1>5, <1>6
  <2> QED
    BY <2>1
<1>8. u # <<>> /\ DOMAIN u = {1, 2}
  <2>1. DOMAIN u = 1..2
    BY <1>7, LenProperties
  <2> QED
    BY <1>7, <2>1, NonEmpty
<1>9. PremaximShape'
  <2>1. \A i \in 3..Len(u) : u[i].op = "copy"
    BY <1>7
  <2> QED
    BY <1>4, <1>6, <1>7, <2>1 DEF PremaximShape
<1>10. \A l \in ToSet(u) : l.op \in {"erase", "copy"} /\ l.file \in Files
  <2>1. x.file \in Files /\ y.file \in Files
    BY <1>4, EraseStep DEF Files
  <2> QED
    BY <1>5, <1>7, <1>8, <2>1 DEF ToSet
<1>11. before' \in [Users -> Content]
  <2>1. Users \subseteq Files
    BY DEF Files
  <2> QED
    BY <1>1, <2>1 DEF TypeInv, TypeOK
<1>12. at' = at
  BY <1>1 DEF StepDone
<1>13. TypeOK'
  BY <1>1, <1>2, <1>3, <1>6, <1>10, <1>11, <1>12 DEF TypeInv, TypeOK, Left, ram
<1>14. NothingYet' /\ LauncherIsThere' /\ Erasing'
  BY <1>2, <1>6, <1>8, <1>12 DEF NothingYet, LauncherIsThere, Erasing
<1>15. CopiesOfNothing'
  BY <1>5, <1>6, <1>7, <1>8 DEF CopiesOfNothing, CopiesOf
<1> QED
  BY <1>3, <1>6, <1>8, <1>9, <1>13, <1>14, <1>15 DEF TypeInv, Left

\* What a line more makes of PREMAXIM.
Longer(s, t, f, c) ==
    /\ t \in Seq(Step) /\ t # <<>> /\ Len(t) = Len(s) + 1
    /\ DOMAIN t = 1..(Len(s) + 1)
    /\ \A i \in DOMAIN s : t[i] = s[i] /\ i \in DOMAIN t
    /\ t[Len(s) + 1].op = "copy" /\ t[Len(s) + 1].file = f /\ t[Len(s) + 1].data = c
    /\ \A i \in DOMAIN t : i \in DOMAIN s \/ i = Len(s) + 1

LEMMA LineLonger ==
  ASSUME NEW s \in Seq(Step), NEW f \in Users, NEW c \in Content
  PROVE  Longer(s, Append(s, Line("copy", f, c)), f, c)
<1>1. PICK x : x = Line("copy", f, c)
  OBVIOUS
<1>2. x \in Step /\ x.op = "copy" /\ x.file = f /\ x.data = c
  BY <1>1, CopyStep
<1>3. PICK u : u = Append(s, x)
  OBVIOUS
<1>4. PICK n \in Nat : n = Len(s)
  BY LenProperties
<1>5. DOMAIN s = 1..n
  BY <1>4, LenProperties
<1>6. /\ u \in Seq(Step) /\ u # <<>> /\ Len(u) = n + 1
      /\ \A i \in 1..n : u[i] = s[i]
      /\ u[n + 1] = x
  <2>1. x \in Step
    BY <1>2
  <2> QED
    BY <1>3, <1>4, <2>1, AppendProperties
<1>7. DOMAIN u = 1..(n + 1)
  BY <1>6, LenProperties
<1>8. (\A i \in 1..n : i \in 1..(n + 1)) /\ \A i \in 1..(n + 1) : i \in 1..n \/ i = n + 1
  BY <1>4
<1>9. Longer(s, u, f, c)
  BY <1>2, <1>4, <1>5, <1>6, <1>7, <1>8 DEF Longer
<1> QED
  BY <1>1, <1>3, <1>9

\* A line is appended.
LEMMA AppendType ==
  ASSUME TypeInv, restbatappend
  PROVE  TypeInv'
<1>1. /\ Doing("line") /\ StepDone
      /\ premaxim' = Append(premaxim, Line("copy", Next1.file, SavedFiles[Next1.file]))
      /\ UNCHANGED <<disk, ram, history>>
  BY DEF restbatappend
<1>2. /\ at = "maximize" /\ Next1 = todo[1] /\ todo[1].op = "line" /\ todo[1] \in Step
  BY <1>1, DoingHead DEF Restoring
<1>3. Left
  BY <1>1, <1>2, StepLeft DEF Ends
<1>4. premaxim # <<>>
  BY <1>2, Made
<1>5. PICK f, c : f = Next1.file /\ c = SavedFiles[Next1.file]
  OBVIOUS
<1>6. f \in Users /\ c \in Content
  BY <1>2, <1>5, StepFields DEF TypeInv, TypeOK
<1>7. PremaximShape
  BY DEF TypeInv
<1>8. PICK u : u = premaxim'
  OBVIOUS
<1>9. Longer(premaxim, u, f, c)
  BY <1>1, <1>5, <1>6, <1>7, <1>8, LineLonger DEF PremaximShape
<1>10. PICK n \in Nat : n = Len(premaxim)
  BY <1>7, PremaximLines
<1>11. /\ u \in Seq(Step) /\ u # <<>> /\ Len(u) = n + 1 /\ DOMAIN u = 1..(n + 1)
       /\ \A i \in 1..n : u[i] = premaxim[i]
       /\ u[n + 1].op = "copy" /\ u[n + 1].file = f
       /\ DOMAIN premaxim = 1..n /\ n >= 2
  BY <1>4, <1>7, <1>9, <1>10, PremaximLines DEF Longer
<1>12. PremaximShape'
  <2>1. premaxim[1] = Op("erase", "LASTPHASE") /\ premaxim[2] = Op("erase", "BETA")
        /\ \A i \in 3..n : premaxim[i].op = "copy"
    BY <1>4, <1>7, <1>10 DEF PremaximShape
  <2>2. 1 \in 1..n /\ 2 \in 1..n /\ \A i \in 3..(n + 1) : (i \in 1..n /\ i \in 3..n) \/ i = n + 1
    BY <1>11
  <2>3. u[1] = Op("erase", "LASTPHASE") /\ u[2] = Op("erase", "BETA") /\ Len(u) >= 2
    BY <1>11, <2>1, <2>2
  <2>4. \A i \in 3..(n + 1) : u[i].op = "copy"
    BY <1>11, <2>1, <2>2
  <2> QED
    BY <1>8, <1>11, <2>3, <2>4 DEF PremaximShape
<1>13. \A l \in ToSet(u) : l.op \in {"erase", "copy"} /\ l.file \in Files
  <2>1. \A i \in 1..(n + 1) : i \in 1..n \/ i = n + 1
    OBVIOUS
  <2>2. \A i \in 1..n : premaxim[i].op \in {"erase", "copy"} /\ premaxim[i].file \in Files
    BY <1>7, <1>11, PremaximLines
  <2>3. \A i \in 1..(n + 1) : u[i].op \in {"erase", "copy"} /\ u[i].file \in Files
    BY <1>6, <1>11, <2>1, <2>2 DEF Files
  <2> QED
    BY <1>11, <2>3 DEF ToSet
<1>14. at' = at
  BY <1>1 DEF StepDone
<1>15. TypeOK'
  BY <1>1, <1>2, <1>3, <1>8, <1>13, <1>14 DEF TypeInv, TypeOK, Left, ram, history
<1>16. NothingYet' /\ LauncherIsThere' /\ Erasing'
  BY <1>2, <1>8, <1>11, <1>14 DEF NothingYet, LauncherIsThere, Erasing
<1> QED
  BY <1>3, <1>12, <1>15, <1>16 DEF TypeInv, Left

\* A phase has its shape.
LEMMA PassProper ==
  ASSUME run' \in 0..MaxRuns, NEW p \in 1..3
  PROVE  Proper(PassSteps(p)) /\ (p = 1 => Begins(PassSteps(p), Op("create", "")))
<1>1. /\ "AUTOEXEC" \in Files /\ "BETA" \in Files
      /\ Touched(1) \subseteq Users /\ Untouched \subseteq Users
  BY DEF Files, Users, Touched, Untouched
<1>5. p = 1 \/ p = 2 \/ p = 3
  OBVIOUS
<1>2. CASE p = 1
  <2>1. Program(pass1, Users, Users, Files) /\ Begins(pass1, Op("create", ""))
    BY <1>1, Pass1Program
  <2>2. PassSteps(p) = pass1
    BY <1>2 DEF PassSteps
  <2> QED
    BY <2>1, <2>2 DEF Program
<1>3. CASE p = 2
  <2>1. Program(pass2, Users, Users, Files)
    BY <1>1, Pass2Program
  <2> QED
    BY <1>3, <2>1 DEF Program, PassSteps
<1>4. CASE p = 3
  <2>1. Program(pass3, Users, Users, Files)
    BY <1>1, Pass3Program
  <2> QED
    BY <1>4, <2>1 DEF Program, PassSteps
<1> QED
  BY <1>2, <1>3, <1>4, <1>5

\* A phase begins.
LEMMA PhaseType ==
  ASSUME TypeInv, run' \in 0..MaxRuns, NEW p \in 1..3, check_lastphase(p),
         p = 1 \/ premaxim # <<>>
  PROVE  TypeInv'
<1>1. /\ at' = "maximize" /\ todo' = PassSteps(p) /\ Pass' = p /\ AnyError' = FALSE
      /\ SavedFiles' = [f \in Users |-> None]
      /\ UNCHANGED <<premaxim, crashes, before>>
      /\ disk' = disk \/ disk' = [disk EXCEPT !["LASTPHASE"] = Cut]
  BY DEF check_lastphase
<1>2. spoilt' \subseteq Harm
  BY DEF check_lastphase, TypeInv, TypeOK, Harm, CutShort
<1>3. Proper(todo') /\ (p = 1 => Begins(todo', Op("create", "")))
  BY <1>1, PassProper
<1>4. TodoShape' /\ todo' # <<>>
  BY <1>1, <1>3 DEF Proper, TodoShape, Ending
<1>5. /\ disk' \in [Files -> Content]
      /\ disk'["AUTOEXEC"] = disk["AUTOEXEC"] /\ disk'["BETA"] = disk["BETA"]
  <2>1. "LASTPHASE" \in Files /\ "AUTOEXEC" \in Files /\ "BETA" \in Files /\ Cut \in Content
    BY Contents DEF Files, Users
  <2> QED
    BY <1>1, <2>1, DiskTypes
<1>6. SavedFiles' \in [Users -> Content]
  <2>1. None \in Content
    BY Contents
  <2> QED
    BY <1>1, <2>1
<1>7. TypeOK'
  <2>1. \A l \in ToSet(premaxim') : l.op \in {"erase", "copy"} /\ l.file \in Files
    BY <1>1 DEF TypeInv, TypeOK
  <2>2. Pass' \in 0..3
    BY <1>1
  <2>3. before' \in [Users -> Content] /\ crashes' \in 0..MaxCrashes
    BY <1>1 DEF TypeInv, TypeOK
  <2>4. (todo' = <<>>) <=> at' \in {"dos", "boot", "launcher"}
    BY <1>1, <1>4
  <2> QED
    BY <1>1, <1>2, <1>5, <1>6, <2>1, <2>2, <2>3, <2>4 DEF TypeOK
<1>8. PremaximShape' /\ LauncherIsThere' /\ Erasing'
  BY <1>1 DEF TypeInv, PremaximShape, LauncherIsThere, Erasing
<1>9. NothingYet'
  <2>1. SUFFICES ASSUME premaxim = <<>>
                 PROVE  /\ disk'["AUTOEXEC"] = By(0, 3) /\ disk'["BETA"] = None
                        /\ Creating'
    BY <1>1 DEF NothingYet
  <2>2. disk["AUTOEXEC"] = By(0, 3) /\ disk["BETA"] = None
    BY <2>1 DEF TypeInv, NothingYet
  <2>3. p = 1
    BY <2>1
  <2>4. todo'[1] = Op("create", "")
    BY <1>3, <2>3 DEF Begins
  <2>5. todo'[1].op = "create"
    BY <2>4, PlainStep DEF Plain
  <2> QED
    BY <1>4, <1>5, <2>2, <2>5 DEF Creating
<1> QED
  BY <1>4, <1>7, <1>8, <1>9 DEF TypeInv

\* The phase that the launcher starts.
LEMMA NextPhase ==
  ASSUME TypeInv, at = "launcher"
  PROVE  /\ premaxim # <<>>
         /\ \E r \in 1..MaxRuns, q \in 1..2 :
               disk["AUTOEXEC"] = By(r, q) /\ disk["AUTOEXEC"][2] + 1 = q + 1 /\ q + 1 \in {2, 3}
<1>1. Launcher
  BY DEF TypeInv, LauncherIsThere
<1>2. premaxim # <<>>
  BY <1>1, NotLauncher DEF TypeInv
<1>3. PICK r \in 1..MaxRuns, q \in 1..2 : disk["AUTOEXEC"] = By(r, q)
  BY <1>1 DEF Launcher
<1>4. By(r, q)[2] = q
  BY DEF By
<1>5. q + 1 \in {2, 3}
  BY <1>3
<1> QED
  BY <1>2, <1>3, <1>4, <1>5

\* What the machine and its user do.
LEMMA RestType ==
  ASSUME TypeInv,
         \/ maxout \/ Reboot \/ Restored \/ RestoredThenAutoexec \/ Boot \/ Launch
         \/ Interrupt \/ Crash \/ StartMaximize \/ StartPremaxim \/ Restart
  PROVE  TypeInv'
<1>0. /\ Pass \in 0..3 /\ AnyError \in BOOLEAN /\ SavedFiles \in [Users -> Content]
      /\ run \in 0..MaxRuns /\ crashes \in 0..MaxCrashes /\ spoilt \subseteq Harm
      /\ at \in {"dos", "boot", "launcher"} => todo = <<>>
  BY DEF TypeInv, TypeOK
<1>1. Torn \subseteq Harm /\ Wrong \subseteq Harm
  BY DEF Torn, Wrong, Harm, CutShort
<1>2. ASSUME Doing("out") \/ Doing("dos") \/ Doing("autoexec")
      PROVE  premaxim # <<>>
  <2>1. /\ at \in {"maximize", "premaxim"} /\ todo[1].op # "create"
    BY <1>2, DoingHead
  <2> QED
    BY <2>1, Made
<1>3. CASE maxout
  <2>1. premaxim # <<>>
    BY <1>2, <1>3 DEF maxout
  <2>2. CASE Premaxim("dos")
    BY <1>0, <1>3, <2>1, <2>2, PremaximType DEF maxout, history
  <2>3. CASE Prompt
    BY <1>0, <1>3, <2>3, QuietType DEF maxout, history, Prompt
  <2> QED
    BY <1>3, <2>2, <2>3 DEF maxout
<1>4. CASE Reboot
  BY <1>0, <1>4, QuietType DEF Reboot, history, ram
<1>5. ASSUME Restored \/ RestoredThenAutoexec
      PROVE  spoilt' \subseteq Harm
  BY <1>0, <1>1, <1>5 DEF Restored, RestoredThenAutoexec
<1>6. CASE Restored
  BY <1>0, <1>5, <1>6, QuietType DEF Restored, Prompt
<1>7. CASE RestoredThenAutoexec
  <2>1. premaxim # <<>>
    BY <1>2, <1>7 DEF RestoredThenAutoexec
  <2>2. CASE Premaxim("autoexec")
    BY <1>0, <1>5, <1>7, <2>1, <2>2, PremaximType DEF RestoredThenAutoexec
  <2>3. CASE Prompt
    BY <1>0, <1>5, <1>7, <2>3, QuietType DEF RestoredThenAutoexec, Prompt
  <2> QED
    BY <1>7, <2>2, <2>3 DEF RestoredThenAutoexec
<1>8. CASE Boot
  <2>1. CASE Prompt
    BY <1>0, <1>8, <2>1, QuietType DEF Boot, Prompt, history
  <2>2. CASE Launcher /\ at' = "launcher" /\ UNCHANGED <<todo, AnyError>>
    BY <1>0, <1>8, <2>2, QuietType DEF Boot, history
  <2>3. CASE Launcher /\ Premaxim("autoexec")
    <3>1. premaxim # <<>>
      BY <2>3, NotLauncher DEF TypeInv
    <3> QED
      BY <1>0, <1>8, <2>3, <3>1, PremaximType DEF Boot, history
  <2> QED
    BY <1>8, <2>1, <2>2, <2>3 DEF Boot
<1>9. CASE Launch
  <2>1. at = "launcher"
    BY <1>9 DEF Launch
  <2>2. PICK p : p = disk["AUTOEXEC"][2] + 1
    OBVIOUS
  <2>3. premaxim # <<>> /\ p \in {2, 3}
    BY <2>1, <2>2, NextPhase
  <2>4. CASE UNCHANGED run /\ check_lastphase(p)
    <3>1. p \in 1..3 /\ run' \in 0..MaxRuns
      BY <1>0, <2>3, <2>4
    <3> QED
      BY <2>3, <2>4, <3>1, PhaseType
  <2>5. CASE Premaxim("dos") /\ UNCHANGED <<disk, premaxim, Pass, SavedFiles, history>>
    BY <1>0, <2>3, <2>5, PremaximType DEF history
  <2> QED
    BY <1>9, <2>2, <2>4, <2>5 DEF Launch
<1>10. CASE Interrupt
  <2>1. spoilt' \subseteq Harm
    BY <1>0, <1>10 DEF Interrupt, Harm, CutShort
  <2> QED
    BY <1>0, <1>10, <2>1, QuietType DEF Interrupt, Prompt
<1>11. CASE Crash
  <2>1. spoilt' \subseteq Harm
    BY <1>0, <1>1, <1>11 DEF Crash, Harm, CutShort
  <2>2. crashes' \in 0..MaxCrashes
    BY <1>0, <1>11, BoundsAssumption DEF Crash
  <2>3. SavedFiles' \in [Users -> Content]
    <3>1. None \in Content
      BY Contents
    <3> QED
      BY <1>11, <3>1 DEF Crash
  <2>4. /\ todo' = <<>> /\ at' = "boot" /\ Pass' \in 0..3 /\ AnyError' \in BOOLEAN
        /\ UNCHANGED <<disk, premaxim, run, before>>
    <3>1. /\ todo' = <<>> /\ at' = "boot" /\ Pass' = 0 /\ AnyError' = FALSE
          /\ UNCHANGED <<disk, premaxim, run, before>>
      BY <1>11, Zenon DEF Crash
    <3>2. Pass' \in 0..3
      BY <3>1
    <3> QED
      BY <3>1, <3>2, Zenon
  <2> QED
    BY <2>1, <2>2, <2>3, <2>4, QuietType
<1>12. CASE StartMaximize
  <2>1. run' \in 0..MaxRuns /\ check_lastphase(1) /\ 1 \in 1..3
    BY <1>0, <1>12, BoundsAssumption DEF StartMaximize
  <2> QED
    BY <2>1, PhaseType
<1>13. CASE StartPremaxim
  BY <1>0, <1>13, PremaximType DEF StartPremaxim, history
<1>14. CASE Restart
  BY <1>0, <1>14, QuietType DEF Restart, history, ram
<1> QED
  BY <1>3, <1>4, <1>6, <1>7, <1>8, <1>9, <1>10, <1>11, <1>12, <1>13, <1>14

LEMMA TypeStays ==
  TypeInv /\ [Next]_vars => TypeInv'
<1>1. SUFFICES ASSUME TypeInv, [Next]_vars
               PROVE  TypeInv'
  OBVIOUS
<1>2. CASE UNCHANGED vars
  BY <1>1, <1>2
     DEF TypeInv, TypeOK, PremaximShape, TodoShape, NothingYet, Creating,
         LauncherIsThere, Launcher, Erasing, Erases, vars, ram, history
<1>3. CASE restbatcreate
  BY <1>1, <1>3, CreateType
<1>4. CASE savefile
  BY <1>1, <1>4, SaveType
<1>5. CASE restbatappend
  BY <1>1, <1>5, AppendType
<1>6. CASE Truncate \/ Put \/ copyfile \/ Erase
  BY <1>1, <1>6, WriteType
<1>7. CASE Copy
  BY <1>1, <1>7, CopyType
<1>8. CASE SkipIfError \/ CheckError \/ Ask
  BY <1>1, <1>8, TurnType
<1>9. CASE \/ maxout \/ Reboot \/ Restored \/ RestoredThenAutoexec \/ Boot \/ Launch
           \/ Interrupt \/ Crash \/ StartMaximize \/ StartPremaxim \/ Restart
  BY <1>1, <1>9, RestType
<1> QED
  BY <1>1, <1>2, <1>3, <1>4, <1>5, <1>6, <1>7, <1>8, <1>9 DEF Next, Machine

LEMMA TypeInit ==
  Init => TypeInv
<1>1. SUFFICES ASSUME Init
               PROVE  TypeInv
  OBVIOUS
<1>2. /\ premaxim = <<>> /\ at = "dos" /\ todo = <<>>
      /\ Pass = 0 /\ AnyError = FALSE /\ run = 0 /\ crashes = 0 /\ spoilt = {}
      /\ disk = [f \in Files |-> IF f \in Users THEN By(0, 3) ELSE None]
      /\ SavedFiles = [f \in Users |-> None] /\ before = [f \in Users |-> By(0, 3)]
  BY <1>1 DEF Init
<1>3. By(0, 3) \in Content /\ None \in Content /\ 0 \in 0..MaxRuns /\ 0 \in 0..MaxCrashes
  BY BoundsAssumption, Contents
<1>4. /\ disk \in [Files -> Content] /\ SavedFiles \in [Users -> Content]
      /\ before \in [Users -> Content]
  BY <1>2, <1>3
<1>5. disk["AUTOEXEC"] = By(0, 3) /\ disk["BETA"] = None
  <2>1. "AUTOEXEC" \in Files /\ "AUTOEXEC" \in Users /\ "BETA" \in Files /\ "BETA" \notin Users
    BY DEF Files, Users
  <2> QED
    BY <1>2, <2>1
<1>6. <<>> \in Seq(Step) /\ ToSet(<<>>) = {}
  BY EmptySeq DEF ToSet
<1>7. TypeOK
  <2>1. \A l \in ToSet(premaxim) : l.op \in {"erase", "copy"} /\ l.file \in Files
    BY <1>2, <1>6
  <2>2. (todo = <<>>) <=> at \in {"dos", "boot", "launcher"}
    BY <1>2
  <2>3. Pass \in 0..3 /\ AnyError \in BOOLEAN /\ spoilt \subseteq Harm
    <3>1. Pass = 0 /\ AnyError = FALSE /\ spoilt = {}
      BY <1>2
    <3>2. Pass \in 0..3
      BY <3>1
    <3> QED
      BY <3>1, <3>2, Zenon
  <2>4. at \in {"dos", "boot", "launcher", "maximize", "premaxim"}
    BY <1>2
  <2>5. run \in 0..MaxRuns /\ crashes \in 0..MaxCrashes
    BY <1>2, <1>3
  <2> QED
    BY <1>4, <2>1, <2>2, <2>3, <2>4, <2>5 DEF TypeOK
<1> QED
  BY <1>2, <1>5, <1>6, <1>7
     DEF TypeInv, PremaximShape, TodoShape, NothingYet, LauncherIsThere, Erasing

LEMMA TypeInvHolds ==
  Spec => []TypeInv
  BY TypeInit, TypeStays, PTL DEF Spec

\* Whatever the user breaks off and wherever the machine is switched off, the
\* variables have their types, and a program that runs has steps left: every
\* phase ends with a restart or at its bottom, and no jump over what an error
\* skips (wrfiles3) goes past the end.
THEOREM TypesHold ==
  Spec => []TypeOK
<1>1. TypeInv => TypeOK
  BY DEF TypeInv
<1> QED
  BY <1>1, TypeInvHolds, PTL

-----------------------------------------------------------------------------
(* A file that has changed is saved.                                       *)

KeptFiles == {f \in Users : Kept(f)}

\* The lines of PREMAXIM say the same as before.
LEMMA SameLines ==
  ASSUME UNCHANGED <<premaxim, before>>
  PROVE  /\ \A f : CopiesOf(f)' = CopiesOf(f) /\ (Kept(f)' <=> Kept(f))
         /\ KeptFiles' = KeptFiles
<1>1. \A f : CopiesOf(f)' = CopiesOf(f)
  BY DEF CopiesOf
<1>2. \A f : Kept(f)' <=> Kept(f)
  BY <1>1 DEF Kept
<1> QED
  BY <1>1, <1>2 DEF KeptFiles

\* What a program may find out from LASTPHASE, and may do to the files.
Changed == \A f \in Users : disk'[f] = disk[f] \/ Kept(f)
Marked ==
    \A p \in {1, 2} : Phase(p)' =>
        ~Creating' /\ (Phase(p) \/ Touched(p) \subseteq KeptFiles \cup Untouched)
Listed ==
    /\ todo # <<>> => Safe(todo, KeptNow) /\ Recorded(todo, KeptNow \cup Untouched)
    /\ \A f \in Users : todo # <<>> /\ todo[1].op = "line" /\ todo[1].file = f =>
         Kept(f) \/ SavedFiles[f] = before[f]
Sequel ==
    /\ at = "maximize" => disk["LASTPHASE"] # None
    /\ disk["LASTPHASE"] = None /\ disk["BETA"] # None /\ "halfway" \notin spoilt =>
         at = "premaxim"

\* The batch file is not touched, or is kept.
LEMMA StillUntouched ==
  ASSUME Changed
  PROVE  Untouched \subseteq KeptFiles \cup Untouched'
<1>1. "BATCH" \in Users
  BY DEF Users
<1>2. disk'["BATCH"] = disk["BATCH"] \/ Kept("BATCH")
  BY <1>1 DEF Changed
<1>3. CASE disk'["BATCH"] = disk["BATCH"]
  BY <1>3 DEF Untouched
<1>4. CASE Kept("BATCH")
  BY <1>1, <1>4 DEF Untouched, KeptFiles
<1> QED
  BY <1>2, <1>3, <1>4

\* What changes no line keeps the backups, if it writes only what is kept.
LEMMA BackupsStay ==
  ASSUME Backups, "over" \notin spoilt, UNCHANGED <<premaxim, before>>,
         Changed, Marked, Listed', Sequel'
  PROVE  Backups'
<1>1. /\ \A f : CopiesOf(f)' = CopiesOf(f) /\ (Kept(f)' <=> Kept(f))
      /\ KeptFiles' = KeptFiles /\ before' = before /\ premaxim' = premaxim
  BY SameLines
<1>2. /\ \A f \in Users : disk[f] # before[f] => Kept(f)
      /\ \A f \in Users : CopiesOf(f) # {} => Kept(f)
      /\ \A p \in {1, 2} : Phase(p) => Touched(p) \subseteq KeptFiles \cup Untouched
  BY DEF Backups, BackedUp, Kept, KeptFiles
<1>3. \A f \in Users : disk'[f] # before'[f] => Kept(f)'
  BY <1>1, <1>2 DEF Changed
<1>4. BackedUp'
  BY <1>3 DEF BackedUp, Kept
<1>5. \A f \in Users : CopiesOf(f)' # {} => Kept(f)'
  BY <1>1, <1>2
<1>6. ASSUME NEW p \in {1, 2}, Phase(p)'
      PROVE  ~Creating' /\ Touched(p) \subseteq KeptFiles' \cup Untouched'
  <2>1. ~Creating' /\ Touched(p) \subseteq KeptFiles \cup Untouched
    BY <1>2, <1>6 DEF Marked
  <2> QED
    BY <1>1, <2>1, StillUntouched
<1>7. \A p \in {1, 2} : Phase(p)' =>
         ~Creating' /\ Touched(p) \subseteq {f \in Users : Kept(f)'} \cup Untouched'
  BY <1>6 DEF KeptFiles
<1> QED
  BY <1>4, <1>5, <1>7 DEF Backups, Listed, Sequel

\* What is left of a list, when one of its steps is done.
LEMMA ListedTail ==
  ASSUME TypeInv, Backups, "over" \notin spoilt, at \in {"maximize", "premaxim"},
         todo[1].op \notin Ends \cup {"create", "line"},
         StepDone, UNCHANGED <<premaxim, before>>, Changed,
         todo[1].op = "save" =>
            \A f \in Users : todo[1].file = f => SavedFiles'[f] = disk[f]
  PROVE  Listed' /\ ~Creating'
<1>1. PICK t, n : t = Tail(todo) /\ n = Len(todo)
  OBVIOUS
<1>2. /\ todo # <<>> /\ n \in Nat /\ Tails(todo, t, n)
  BY <1>1, AtHead
<1>3. /\ \A f : Kept(f)' <=> Kept(f)
      /\ KeptFiles' = KeptFiles /\ before' = before /\ todo' = t
  BY <1>1, SameLines DEF StepDone
<1>4. ~Creating /\ KeptNow = KeptFiles
  BY DEF Creating, KeptNow, KeptFiles
<1>5. Safe(todo, KeptFiles) /\ Recorded(todo, KeptFiles \cup Untouched)
  BY <1>2, <1>4 DEF Backups
<1>6. /\ Safe(t, KeptFiles)
      /\ \A i \in DOMAIN t : t[i].op # "create"
      /\ t # <<>> /\ t[1].op = "line" => todo[1].op = "save" /\ todo[1].file = t[1].file
  BY <1>2, <1>5, TailSafe
<1>7. Recorded(t, KeptFiles \cup Untouched')
  <2>1. KeptFiles \cup Untouched \subseteq KeptFiles \cup Untouched'
    BY StillUntouched
  <2> QED
    BY <1>2, <1>5, <2>1, TailRecorded
<1>8. ~Creating'
  <2>1. t # <<>> => 1 \in DOMAIN t
    BY <1>2, EmptySeq DEF Tails
  <2> QED
    BY <1>3, <1>6, <2>1 DEF Creating
<1>9. KeptNow' = KeptFiles
  BY <1>3, <1>8 DEF KeptNow, KeptFiles
<1>10. ASSUME NEW f \in Users, t # <<>>, t[1].op = "line", t[1].file = f
       PROVE  Kept(f)' \/ SavedFiles'[f] = before'[f]
  <2>1. SavedFiles'[f] = disk[f]
    BY <1>6, <1>10
  <2>2. disk[f] = before[f] \/ Kept(f)
    BY <1>10 DEF Backups, BackedUp, Kept
  <2> QED
    BY <1>3, <2>1, <2>2
<1> QED
  BY <1>3, <1>6, <1>7, <1>8, <1>9, <1>10 DEF Listed

\* A file that is written is kept, and a phase that is recorded is over.
LEMMA HeadWrites ==
  ASSUME TypeInv, Backups, at \in {"maximize", "premaxim"}, todo[1].op # "create"
  PROVE  /\ Writes(todo[1]) /\ todo[1].file \in Users => Kept(todo[1].file)
         /\ \A p \in {1, 2} : Records(todo[1], p) => Touched(p) \subseteq KeptFiles \cup Untouched
<1>1. todo # <<>> /\ Len(todo) \in Nat /\ todo \in Seq(Step)
  BY AtHead
<1>2. DOMAIN todo = 1..Len(todo) /\ 1 \in DOMAIN todo
  BY <1>1, EmptySeq, LenProperties
<1>3. KeptNow = KeptFiles
  BY DEF Creating, KeptNow, KeptFiles
<1>4. Safe(todo, KeptFiles) /\ Recorded(todo, KeptFiles \cup Untouched)
  BY <1>1, <1>3 DEF Backups
<1>5. \A f : ~Lined(todo, 1, f)
  <2>1. \A j \in DOMAIN todo : ~(j < 1)
    BY <1>1, <1>2
  <2> QED
    BY <2>1 DEF Lined
<1>6. ASSUME Writes(todo[1]), todo[1].file \in Users
      PROVE  Kept(todo[1].file)
  <2>1. todo[1].file \in KeptFiles
    BY <1>2, <1>4, <1>5, <1>6 DEF Safe
  <2> QED
    BY <2>1 DEF KeptFiles
<1>7. ASSUME NEW p \in {1, 2}, Records(todo[1], p)
      PROVE  Touched(p) \subseteq KeptFiles \cup Untouched
  BY <1>2, <1>4, <1>5, <1>7 DEF Recorded
<1> QED
  BY <1>6, <1>7

\* Nothing is added to what an error leaves to do.
LEMMA ErrorEndsStep ==
  ASSUME TypeInv, ErrorEnds, at \in {"maximize", "premaxim"}, StepDone,
         todo[1].op \notin Ends, AnyError' = AnyError
  PROVE  ErrorEnds'
<1>1. PICK t, n : t = Tail(todo) /\ n = Len(todo)
  OBVIOUS
<1>2. n \in Nat /\ Tails(todo, t, n)
  BY <1>1, AtHead
<1>3. \A i \in DOMAIN t : t[i] = todo[i + 1] /\ i + 1 \in DOMAIN todo
  <2>1. \A i \in 1..(n - 1) : i + 1 \in 1..n
    BY <1>2
  <2> QED
    BY <1>2, <2>1 DEF Tails
<1>4. todo' = t /\ at' = at
  BY <1>1 DEF StepDone
<1> QED
  BY <1>3, <1>4 DEF ErrorEnds

\* The steps that write.
LEMMA WriteBackups ==
  ASSUME BackupInv, ~Full, Truncate \/ Put \/ copyfile \/ Erase
  PROVE  ErrorEnds' /\ ("over" \notin spoilt' => Backups')
<1>0. /\ Users \subseteq Files /\ "LASTPHASE" \in Files /\ "BETA" \in Files
      /\ "LASTPHASE" \notin Users /\ "BETA" \notin Users
      /\ "LASTPHASE" # "BETA" /\ "LASTPHASE" # "AUTOEXEC"
  BY DEF Files, Users
<1>1. PICK o \in {"trunc", "put", "from", "erase"} :
        /\ Doing(o) /\ StepDone
        /\ UNCHANGED <<premaxim, Pass, SavedFiles, history>> /\ AnyError' = AnyError
  BY DEF Truncate, Put, copyfile, Erase, ram, Failing
<1>2. TypeInv /\ ErrorEnds /\ ("over" \notin spoilt => Backups)
  BY DEF BackupInv
<1>3. /\ at \in {"maximize", "premaxim"} /\ Next1 = todo[1] /\ todo[1].op = o
      /\ todo[1] \in Step
      /\ at = "maximize" => (o = "erase" => todo[1].file = "BETA")
      /\ at = "premaxim" => o \in Restoring
  BY <1>1, <1>2, DoingHead
<1>4. PICK f : f = todo[1].file
  OBVIOUS
<1>5. /\ f \in Files /\ (o = "from" => f # "LASTPHASE")
      /\ o = "put" => todo[1].data \in Content \ {None}
      /\ o = "erase" => f \in {"LASTPHASE", "BETA"}
  <2>1. /\ o = "erase" => f \in {"LASTPHASE", "BETA"}
        /\ o = "trunc" => f \in Files
        /\ o = "put" => f \in Files /\ todo[1].data \in Content \ {None}
        /\ o = "from" => f \in {"AUTOEXEC", "BETA"}
    BY <1>3, <1>4, StepFields
  <2>2. "AUTOEXEC" \in Files
    BY DEF Files, Users
  <2> QED
    BY <1>0, <2>1, <2>2
<1>6. PICK c \in Content :
        /\ disk' = [disk EXCEPT ![f] = c]
        /\ f = "LASTPHASE" => c = Cut \/ (c = None /\ o = "erase") \/ (o = "put" /\ c = todo[1].data)
  <2>1. CASE Truncate
    BY <1>3, <1>4, <2>1, Contents DEF Truncate
  <2>2. CASE Put
    <3>1. o = "put"
      BY <1>3, <2>2 DEF Put, Doing
    <3>2. disk' = [disk EXCEPT ![f] = IF AnyError THEN Cut ELSE todo[1].data]
      BY <1>3, <1>4, <2>2 DEF Put, Failing
    <3> QED
      BY <1>5, <3>1, <3>2, Contents
  <2>3. CASE copyfile
    <3>1. o = "from"
      BY <1>3, <2>3 DEF copyfile, Doing
    <3>2. disk' = [disk EXCEPT ![f] = disk[todo[1].src]]
      BY <1>3, <1>4, <2>3 DEF copyfile, Failing
    <3>3. todo[1].src \in Files
      BY <1>0, <1>3, <3>1, StepFields DEF Files, Users
    <3>4. disk[todo[1].src] \in Content
      BY <1>2, <3>3 DEF TypeInv, TypeOK
    <3> QED
      BY <1>5, <3>1, <3>2, <3>4
  <2>4. CASE Erase
    <3>1. o = "erase"
      BY <1>3, <2>4 DEF Erase, Doing
    <3> QED
      BY <1>3, <1>4, <2>4, <3>1, Contents DEF Erase
  <2> QED
    BY <2>1, <2>2, <2>3, <2>4 DEF Truncate, Put, copyfile, Erase
<1>7. disk'[f] = c /\ \A g \in Files : g # f => disk'[g] = disk[g]
  BY <1>2, <1>5, <1>6, DiskTypes
<1>8. todo[1].op \notin Ends \cup {"create", "line"} /\ todo[1].op # "save"
  BY <1>3 DEF Ends
<1>9. ErrorEnds'
  BY <1>1, <1>2, <1>3, <1>8, ErrorEndsStep
<1>10. ASSUME "over" \notin spoilt'
       PROVE  Backups'
  <2>1. UNCHANGED <<premaxim, before, spoilt>> /\ "over" \notin spoilt
    BY <1>1, <1>10 DEF history
  <2>2. Backups
    BY <1>2, <2>1
  <2>3. Changed
    <3>1. SUFFICES ASSUME NEW g \in Users, disk'[g] # disk[g]
                   PROVE  Kept(g)
      BY DEF Changed
    <3>2. g = f
      BY <1>0, <1>7, <3>1
    <3>3. Writes(todo[1])
      BY <1>0, <1>3, <1>5, <3>1, <3>2 DEF Writes
    <3> QED
      BY <1>2, <1>3, <1>4, <1>8, <2>2, <3>1, <3>2, <3>3, HeadWrites
  <2>4. Listed' /\ ~Creating'
    BY <1>1, <1>2, <1>3, <1>8, <2>1, <2>2, <2>3, ListedTail
  <2>5. Marked
    <3>1. SUFFICES ASSUME NEW p \in {1, 2}, Phase(p)'
                   PROVE  Phase(p) \/ Touched(p) \subseteq KeptFiles \cup Untouched
      BY <2>4 DEF Marked
    <3>2. PICK r \in 0..MaxRuns : disk'["LASTPHASE"] = By(r, p)
      BY <3>1 DEF Phase
    <3>3. CASE f # "LASTPHASE"
      <4>1. disk["LASTPHASE"] = By(r, p)
        BY <1>0, <1>7, <3>2, <3>3
      <4> QED
        BY <4>1 DEF Phase
    <3>4. CASE f = "LASTPHASE"
      <4>1. c = By(r, p) /\ p \in 1..3
        BY <1>7, <3>2, <3>4
      <4>2. c # None /\ c # Cut
        BY <4>1, Contents
      <4>3. o = "put" /\ todo[1].data = By(r, p)
        BY <1>6, <3>4, <4>1, <4>2
      <4>4. Records(todo[1], p)
        BY <1>3, <1>4, <3>4, <4>3 DEF Records
      <4> QED
        BY <1>2, <1>3, <1>8, <2>2, <4>4, HeadWrites
    <3> QED
      BY <3>3, <3>4
  <2>6. at = "maximize" => disk'["LASTPHASE"] # None
    <3>1. SUFFICES ASSUME at = "maximize"
                   PROVE  disk'["LASTPHASE"] # None
      OBVIOUS
    <3>2. CASE f # "LASTPHASE"
      <4>1. disk["LASTPHASE"] # None
        BY <2>2, <3>1 DEF Backups
      <4> QED
        BY <1>0, <1>7, <3>2, <4>1
    <3>3. CASE f = "LASTPHASE"
      <4>1. o # "erase"
        BY <1>0, <1>3, <1>4, <3>1, <3>3
      <4>2. c # None
        BY <1>5, <1>6, <3>3, <4>1, Contents
      <4> QED
        BY <1>7, <3>3, <4>2
    <3> QED
      BY <3>2, <3>3
  <2>7. Sequel'
    BY <1>1, <1>3, <2>6 DEF Sequel, StepDone
  <2> QED
    BY <2>1, <2>2, <2>3, <2>4, <2>5, <2>7, BackupsStay
<1> QED
  BY <1>9, <1>10

\* What writes no file and is not a list's end.
LEMMA BackupsQuiet ==
  ASSUME Backups, "over" \notin spoilt, UNCHANGED <<disk, premaxim, at, before, spoilt>>,
         Listed', ~Creating'
  PROVE  Backups'
<1>1. Changed
  BY DEF Changed
<1>2. Marked
  BY DEF Marked, Phase
<1>3. Sequel'
  BY DEF Backups, Sequel
<1> QED
  BY <1>1, <1>2, <1>3, BackupsStay

\* Tidying up is safe.
LEMMA TidyingListed ==
  ASSUME Tidying(todo')
  PROVE  Listed' /\ ~Creating'
<1>1. PICK s : s = todo'
  OBVIOUS
<1>2. s \in Seq(Step) /\ s # <<>> /\ \A i \in DOMAIN s : s[i].op \in {"erase", "out"}
  BY <1>1 DEF Tidying, Proper
<1>3. s[1].op \in {"erase", "out"}
  <2>1. 1 \in DOMAIN s
    BY <1>2, EmptySeq, LenProperties
  <2> QED
    BY <1>2, <2>1
<1>4. \A K, J : Safe(s, K) /\ Recorded(s, J)
  BY <1>1 DEF Tidying
<1>5. Safe(todo', KeptNow') /\ Recorded(todo', KeptNow' \cup Untouched')
  BY <1>1, <1>4
<1> QED
  BY <1>1, <1>3, <1>5 DEF Listed, Creating

\* The steps that decide how a phase goes on.
LEMMA TurnBackups ==
  ASSUME BackupInv, SkipIfError \/ CheckError \/ Ask
  PROVE  ErrorEnds' /\ ("over" \notin spoilt' => Backups')
<1>1. PICK o \in {"unless", "check", "abort", "panel"} :
        Doing(o) /\ UNCHANGED <<disk, premaxim, at, Pass, SavedFiles, history>>
  BY DEF SkipIfError, CheckError, Ask, ram, StepDone, Fail
<1>2. TypeInv /\ ErrorEnds /\ ("over" \notin spoilt => Backups)
  BY DEF BackupInv
<1>3. /\ at \in {"maximize", "premaxim"} /\ Next1 = todo[1] /\ todo[1].op = o /\ 1 \in DOMAIN todo
      /\ at = "premaxim" => o \in Restoring
  BY <1>1, <1>2, DoingHead
<1>4. at = "maximize"
  BY <1>3 DEF Restoring
<1>5. ~AnyError
  BY <1>2, <1>3, <1>4 DEF ErrorEnds
<1>6. (StepDone /\ AnyError' = AnyError) \/ (at' = at /\ Tidying(todo'))
  <2>1. CASE SkipIfError
    BY <1>5, <2>1 DEF SkipIfError, StepDone, ram
  <2>2. CASE CheckError
    BY <1>5, <2>2 DEF CheckError, ram
  <2>3. CASE Ask
    BY <2>3, BottomShape DEF Ask, Fail
  <2> QED
    BY <2>1, <2>2, <2>3
<1>7. todo[1].op \notin Ends \cup {"create", "line"} /\ todo[1].op # "save"
  BY <1>3 DEF Ends
<1>8. ErrorEnds'
  <2>1. CASE StepDone /\ AnyError' = AnyError
    BY <1>2, <1>3, <1>7, <2>1, ErrorEndsStep
  <2>2. CASE Tidying(todo')
    BY <2>2 DEF ErrorEnds, Tidying
  <2> QED
    BY <1>6, <2>1, <2>2
<1>9. ASSUME "over" \notin spoilt'
      PROVE  Backups'
  <2>1. UNCHANGED <<disk, premaxim, at, before, spoilt>> /\ "over" \notin spoilt
    BY <1>1, <1>9 DEF history
  <2>2. Listed' /\ ~Creating'
    <3>1. CASE StepDone
      <4>1. Changed
        BY <2>1 DEF Changed
      <4> QED
        BY <1>2, <1>3, <1>7, <2>1, <3>1, <4>1, ListedTail
    <3>2. CASE Tidying(todo')
      BY <3>2, TidyingListed
    <3> QED
      BY <1>6, <3>1, <3>2
  <2> QED
    BY <1>2, <2>1, <2>2, BackupsQuiet
<1> QED
  BY <1>8, <1>9

\* A file is saved.
LEMMA SaveBackups ==
  ASSUME BackupInv, ~Full, savefile
  PROVE  ErrorEnds' /\ ("over" \notin spoilt' => Backups')
<1>1. /\ Doing("save") /\ StepDone
      /\ UNCHANGED <<disk, premaxim, at, Pass, AnyError, history>>
      /\ SavedFiles' = [SavedFiles EXCEPT ![Next1.file] = disk[Next1.file]]
  BY DEF savefile, StepDone, Failing
<1>2. TypeInv /\ ErrorEnds /\ ("over" \notin spoilt => Backups)
  BY DEF BackupInv
<1>3. /\ at \in {"maximize", "premaxim"} /\ Next1 = todo[1] /\ todo[1].op = "save"
      /\ todo[1] \in Step
  BY <1>1, <1>2, DoingHead
<1>4. todo[1].op \notin Ends \cup {"create", "line"}
  BY <1>3 DEF Ends
<1>5. ErrorEnds'
  BY <1>1, <1>2, <1>3, <1>4, ErrorEndsStep
<1>6. SavedFiles' [todo[1].file] = disk[todo[1].file]
  <2>1. todo[1].file \in Users /\ SavedFiles \in [Users -> Content]
    BY <1>2, <1>3, StepFields DEF TypeInv, TypeOK
  <2> QED
    BY <1>1, <1>3, <2>1
<1>7. ASSUME "over" \notin spoilt'
      PROVE  Backups'
  <2>1. UNCHANGED <<disk, premaxim, at, before, spoilt>> /\ "over" \notin spoilt
    BY <1>1, <1>7 DEF history
  <2>2. Changed
    BY <2>1 DEF Changed
  <2>3. Listed' /\ ~Creating'
    BY <1>1, <1>2, <1>3, <1>4, <1>6, <2>1, <2>2, ListedTail
  <2> QED
    BY <1>2, <2>1, <2>3, BackupsQuiet
<1> QED
  BY <1>5, <1>7

\* What PREMAXIM has to do is safe if the files that it copies are kept.
RestoresOnly(s) ==
    \A i \in DOMAIN s : s[i].op \in Restoring /\ (s[i].op = "put" => s[i].file \in Users)

LEMMA RestoresSafely ==
  ASSUME NEW s, RestoresOnly(s), NEW K,
         \A i \in DOMAIN s : s[i].op \in {"copy", "put"} => s[i].file \in K
  PROVE  /\ Safe(s, K) /\ \A J : Recorded(s, J)
         /\ 1 \in DOMAIN s => s[1].op \notin {"line", "create"}
<1>1. \A i \in DOMAIN s : s[i].op \notin {"save", "line", "create", "trunc", "from"}
  BY DEF RestoresOnly, Restoring
<1>2. Safe(s, K)
  BY <1>1 DEF Safe, Writes
<1>3. \A i \in DOMAIN s : \A p : ~Records(s[i], p)
  BY DEF RestoresOnly, Records, Users
<1> QED
  BY <1>1, <1>2, <1>3 DEF Recorded

LEMMA RestoresKept ==
  ASSUME TypeInv, Backups, at = "premaxim"
  PROVE  /\ RestoresOnly(todo)
         /\ \A i \in DOMAIN todo : todo[i].op \in {"copy", "put"} => todo[i].file \in KeptFiles
<1>1. RestoresOnly(todo) /\ todo # <<>> /\ todo \in Seq(Step)
  BY AtHead DEF TypeInv, TodoShape, RestoresOnly
<1>2. \A i \in DOMAIN todo : todo[i].op \notin {"save", "line", "create", "trunc", "from"}
  BY <1>1 DEF RestoresOnly, Restoring
<1>3. ~Creating
  <2>1. 1 \in DOMAIN todo
    BY <1>1, EmptySeq, LenProperties
  <2> QED
    BY <1>2, <2>1 DEF Creating
<1>4. Safe(todo, KeptFiles)
  BY <1>1, <1>3 DEF Backups, KeptNow, KeptFiles
<1>5. ASSUME NEW i \in DOMAIN todo, todo[i].op \in {"copy", "put"}
      PROVE  todo[i].file \in KeptFiles
  <2>1. ~Lined(todo, i, todo[i].file)
    BY <1>2 DEF Lined
  <2>2. todo[i] \in Step
    BY <1>1, <1>5, ElementOfSeq
  <2>3. Writes(todo[i]) /\ todo[i].file \in Users
    BY <1>1, <1>5, <2>2, StepFields DEF Writes, RestoresOnly
  <2> QED
    BY <1>4, <1>5, <2>1, <2>3 DEF Safe
<1> QED
  BY <1>1, <1>5

\* A line of PREMAXIM that names a backup becomes a step that writes it.
LEMMA CopyPuts ==
  ASSUME TypeInv, Copy, Next1.data # None
  PROVE  /\ at = "premaxim" /\ at' = at /\ todo[1].op = "copy"
         /\ todo[1].file \in Users /\ todo[1].data \in Content
         /\ disk' = [disk EXCEPT ![todo[1].file] = Cut]
         /\ \E x, t, n : /\ n \in Nat /\ Putting(todo, t, n, x, todo') /\ x.op = "put"
                         /\ x.file = todo[1].file /\ x.data = todo[1].data
<1>1. Doing("copy") /\ UNCHANGED at
  BY DEF Copy
<1>2. /\ at = "premaxim" /\ Next1 = todo[1] /\ todo[1].op = "copy" /\ todo[1] \in Step
  BY <1>1, DoingHead
<1>3. PICK f, c : f = todo[1].file /\ c = todo[1].data
  OBVIOUS
<1>4. f \in Users /\ c \in Content /\ c # None
  BY <1>2, <1>3, StepFields
<1>5. PICK x : x = Line("put", f, c)
  OBVIOUS
<1>6. x \in Step /\ x.op = "put" /\ x.file = f /\ x.data = c
  BY <1>4, <1>5, PutStep DEF Files
<1>7. PICK t, n : t = Tail(todo) /\ n = Len(todo)
  OBVIOUS
<1>8. disk' = [disk EXCEPT ![f] = Cut] /\ todo' = <<x>> \o t
  BY <1>2, <1>3, <1>5, <1>7 DEF Copy
<1>9. n \in Nat /\ Tails(todo, t, n)
  BY <1>2, <1>7, AtHead
<1>10. Putting(todo, t, n, x, todo')
  BY <1>6, <1>8, <1>9, PutInFront
<1> QED
  BY <1>1, <1>2, <1>3, <1>4, <1>6, <1>8, <1>9, <1>10

LEMMA CopyBackups ==
  ASSUME BackupInv, Copy
  PROVE  ErrorEnds' /\ ("over" \notin spoilt' => Backups')
<1>1. Doing("copy") /\ UNCHANGED <<at, premaxim, ram, history>>
  BY DEF Copy
<1>2. TypeInv /\ ("over" \notin spoilt => Backups)
  BY DEF BackupInv
<1>3. /\ at = "premaxim" /\ Next1 = todo[1] /\ todo[1].op = "copy"
  BY <1>1, <1>2, DoingHead
<1>4. ErrorEnds'
  BY <1>1, <1>3 DEF ErrorEnds
<1>5. ASSUME "over" \notin spoilt'
      PROVE  Backups'
  <2>1. UNCHANGED <<premaxim, at, before, spoilt>> /\ "over" \notin spoilt
    BY <1>1, <1>5 DEF history
  <2>2. Backups
    BY <1>2, <2>1
  <2>3. CASE Next1.data = None
    <3>1. StepDone /\ UNCHANGED disk
      BY <1>1, <2>3 DEF Copy, StepDone
    <3>2. Changed
      BY <3>1 DEF Changed
    <3>3. todo[1].op \notin Ends \cup {"create", "line"} /\ todo[1].op # "save"
      BY <1>3 DEF Ends
    <3>4. Listed' /\ ~Creating'
      BY <1>2, <1>3, <2>1, <2>2, <3>1, <3>2, <3>3, ListedTail
    <3> QED
      BY <2>1, <2>2, <3>1, <3>4, BackupsQuiet
  <2>4. CASE Next1.data # None
    <3>1. PICK f : f = todo[1].file
      OBVIOUS
    <3>2. PICK x, t, n : n \in Nat /\ Putting(todo, t, n, x, todo') /\ x.op = "put" /\ x.file = f
      BY <1>2, <2>4, <3>1, CopyPuts
    <3>3. f \in Users /\ disk' = [disk EXCEPT ![f] = Cut]
      BY <1>2, <2>4, <3>1, CopyPuts
    <3>4. PICK u : u = todo'
      OBVIOUS
    <3>5. /\ u # <<>> /\ DOMAIN todo = 1..n /\ DOMAIN u = 1..n
          /\ u[1] = x /\ \A i \in 2..n : u[i] = todo[i]
      BY <3>2, <3>4 DEF Putting
    <3>6. /\ RestoresOnly(todo)
          /\ \A i \in DOMAIN todo : todo[i].op \in {"copy", "put"} => todo[i].file \in KeptFiles
      BY <1>2, <1>3, <2>2, RestoresKept
    <3>7. 1 \in DOMAIN todo
      BY <1>1, <1>2, DoingHead
    <3>8. f \in KeptFiles
      BY <1>3, <3>1, <3>6, <3>7
    <3>9. ASSUME NEW i \in 1..n
          PROVE  /\ u[i].op \in Restoring /\ (u[i].op = "put" => u[i].file \in Users)
                 /\ u[i].op \in {"copy", "put"} => u[i].file \in KeptFiles
      <4>1. CASE i = 1
        BY <3>2, <3>3, <3>5, <3>8, <4>1 DEF Restoring
      <4>2. CASE i # 1
        <5>1. u[i] = todo[i]
          BY <3>5, <4>2
        <5> QED
          BY <3>5, <3>6, <5>1 DEF RestoresOnly
      <4> QED
        BY <4>1, <4>2
    <3>10. RestoresOnly(u)
      BY <3>5, <3>9 DEF RestoresOnly
    <3>11. Safe(u, KeptFiles) /\ \A J : Recorded(u, J)
      BY <3>5, <3>9, <3>10, RestoresSafely
    <3>12. u[1].op = "put"
      BY <3>2, <3>5
    <3>13. ~Creating'
      BY <3>4, <3>12 DEF Creating
    <3>14. KeptNow' = KeptFiles
      BY <2>1, <3>13, SameLines DEF KeptNow, KeptFiles
    <3>15. Listed'
      BY <3>4, <3>11, <3>12, <3>14 DEF Listed
    <3>16. f \in Files /\ Cut \in Content /\ "LASTPHASE" \in Files /\ f # "LASTPHASE" /\ Users \subseteq Files
      BY <3>3, Contents DEF Files, Users
    <3>17. Changed
      <4>1. \A g \in Files : g # f => disk'[g] = disk[g]
        BY <1>2, <3>3, <3>16, DiskTypes
      <4> QED
        BY <3>8, <3>16, <4>1 DEF Changed, KeptFiles
    <3>18. Marked
      <4>1. disk'["LASTPHASE"] = disk["LASTPHASE"]
        BY <1>2, <3>3, <3>16, DiskTypes
      <4> QED
        BY <3>13, <4>1 DEF Marked, Phase
    <3>19. Sequel'
      BY <1>3, <2>1 DEF Sequel
    <3> QED
      BY <2>1, <2>2, <3>15, <3>17, <3>18, <3>19, BackupsStay
  <2> QED
    BY <2>3, <2>4
<1> QED
  BY <1>4, <1>5

\* PREMAXIM is created: nothing has changed since, nothing is kept.
LEMMA CreateBackups ==
  ASSUME BackupInv, restbatcreate
  PROVE  ErrorEnds' /\ ("over" \notin spoilt' => Backups')
<1>1. /\ Doing("create") /\ StepDone
      /\ before' = [f \in Users |-> disk[f]]
      /\ UNCHANGED <<disk, ram, run, crashes, spoilt>>
  BY DEF restbatcreate
<1>2. TypeInv /\ ErrorEnds /\ ("over" \notin spoilt => Backups)
  BY DEF BackupInv
<1>3. /\ at \in {"maximize", "premaxim"} /\ at' = at /\ todo[1].op = "create"
  BY <1>1, <1>2, DoingHead DEF StepDone
<1>4. ErrorEnds'
  <2>1. todo[1].op \notin Ends /\ AnyError' = AnyError
    BY <1>1, <1>3 DEF Ends, ram
  <2> QED
    BY <1>1, <1>2, <1>3, <2>1, ErrorEndsStep
<1>5. ASSUME "over" \notin spoilt'
      PROVE  Backups'
  <2>1. Backups
    BY <1>1, <1>2, <1>5
  <2>2. \A f \in Users : CopiesOf(f)' = {}
    BY <1>2, CreateType DEF CopiesOfNothing
  <2>3. \A f \in Users : disk'[f] = before'[f] /\ ~Kept(f)'
    BY <1>1, <2>2 DEF Kept
  <2>4. PICK t, n : t = Tail(todo) /\ n = Len(todo)
    OBVIOUS
  <2>5. todo # <<>> /\ n \in Nat /\ Tails(todo, t, n) /\ todo' = t
    BY <1>1, <1>2, <1>3, <2>4, AtHead DEF StepDone
  <2>6. Creating /\ KeptNow = {}
    BY <1>3, <2>5 DEF Creating, KeptNow
  <2>7. Safe(todo, {}) /\ Recorded(todo, {} \cup Untouched)
    BY <2>1, <2>5, <2>6 DEF Backups
  <2>8. /\ Safe(t, {})
        /\ \A i \in DOMAIN t : t[i].op # "create"
        /\ t # <<>> => t[1].op # "line"
    BY <1>3, <2>5, <2>7, TailSafe
  <2>9. Recorded(t, {} \cup Untouched)
    BY <1>3, <2>5, <2>7, TailRecorded
  <2>10. KeptNow' = {} /\ Untouched' = Untouched
    BY <1>1, <2>3 DEF KeptNow, Untouched
  <2>11. \A p \in {1, 2} : ~Phase(p)'
    <3>1. \A p \in {1, 2} : ~Phase(p)
      BY <2>1, <2>6 DEF Backups
    <3> QED
      BY <1>1, <3>1 DEF Phase
  <2>12. BackedUp' /\ \A f \in Users : CopiesOf(f)' # {} => Kept(f)'
    BY <2>2, <2>3 DEF BackedUp
  <2>13. Listed'
    BY <2>5, <2>8, <2>9, <2>10 DEF Listed
  <2>14. Sequel'
    BY <1>1, <1>3, <2>1 DEF Backups, Sequel
  <2> QED
    BY <2>11, <2>12, <2>13, <2>14 DEF Backups, Listed, Sequel
<1> QED
  BY <1>4, <1>5

\* A line is appended, for a file that has been saved.
LEMMA AppendBackups ==
  ASSUME BackupInv, restbatappend
  PROVE  ErrorEnds' /\ ("over" \notin spoilt' => Backups')
<1>1. /\ Doing("line") /\ StepDone
      /\ premaxim' = Append(premaxim, Line("copy", Next1.file, SavedFiles[Next1.file]))
      /\ UNCHANGED <<disk, ram, history>>
  BY DEF restbatappend
<1>2. TypeInv /\ ErrorEnds /\ ("over" \notin spoilt => Backups)
  BY DEF BackupInv
<1>3. /\ at \in {"maximize", "premaxim"} /\ at' = at /\ Next1 = todo[1] /\ todo[1].op = "line"
      /\ todo[1] \in Step
  BY <1>1, <1>2, DoingHead DEF StepDone
<1>4. ErrorEnds'
  <2>1. todo[1].op \notin Ends /\ AnyError' = AnyError
    BY <1>1, <1>3 DEF Ends, ram
  <2> QED
    BY <1>1, <1>2, <1>3, <2>1, ErrorEndsStep
<1>5. ASSUME "over" \notin spoilt'
      PROVE  Backups'
  <2>1. Backups /\ "over" \notin spoilt /\ UNCHANGED <<disk, before, spoilt>>
    BY <1>1, <1>2, <1>5 DEF history
  <2>2. PICK f, c : f = todo[1].file /\ c = SavedFiles[todo[1].file]
    OBVIOUS
  <2>3. f \in Users /\ c \in Content
    BY <1>2, <1>3, <2>2, StepFields DEF TypeInv, TypeOK
  <2>4. Longer(premaxim, premaxim', f, c)
    <3>1. premaxim \in Seq(Step)
      BY <1>2 DEF TypeInv, PremaximShape
    <3> QED
      BY <1>1, <1>3, <2>2, <2>3, <3>1, LineLonger
  <2>5. PICK q : q = premaxim'
    OBVIOUS
  <2>6. PICK m : m = Len(premaxim)
    OBVIOUS
  <2>7. /\ \A i \in DOMAIN premaxim : q[i] = premaxim[i] /\ i \in DOMAIN q
        /\ q[m + 1].op = "copy" /\ q[m + 1].file = f /\ q[m + 1].data = c
        /\ \A i \in DOMAIN q : i \in DOMAIN premaxim \/ i = m + 1
        /\ m + 1 \in DOMAIN q
    <3>1. m \in Nat
      BY <1>2, <2>6, PremaximLines DEF TypeInv
    <3>2. DOMAIN q = 1..(m + 1)
      BY <2>4, <2>5, <2>6 DEF Longer
    <3>3. m + 1 \in 1..(m + 1)
      BY <3>1
    <3> QED
      BY <2>4, <2>5, <2>6, <3>2, <3>3 DEF Longer
  <2>8. \A g : CopiesOf(g) \subseteq CopiesOf(g)'
    BY <2>5, <2>7 DEF CopiesOf
  <2>9. \A g : Kept(g) => Kept(g)'
    <3>1. SUFFICES ASSUME NEW g, Kept(g)
                   PROVE  Kept(g)'
      OBVIOUS
    <3>2. PICK i \in CopiesOf(g) : premaxim[i].data = before[g]
      BY <3>1 DEF Kept
    <3>3. i \in CopiesOf(g)' /\ q[i] = premaxim[i]
      BY <2>7, <2>8, <3>2 DEF CopiesOf
    <3> QED
      BY <2>1, <2>5, <3>2, <3>3 DEF Kept
  <2>10. todo # <<>>
    BY <1>2, <1>3, AtHead
  <2>11. Kept(f)'
    <3>1. Kept(f) \/ SavedFiles[f] = before[f]
      BY <1>3, <2>1, <2>2, <2>3, <2>10 DEF Backups
    <3>2. CASE c = before[f]
      <4>1. m + 1 \in CopiesOf(f)'
        BY <2>5, <2>7 DEF CopiesOf
      <4> QED
        BY <2>1, <2>5, <2>7, <3>2, <4>1 DEF Kept
    <3> QED
      BY <2>2, <2>9, <3>1, <3>2
  <2>12. \A g \in Users : CopiesOf(g)' # {} => Kept(g)'
    <3>1. SUFFICES ASSUME NEW g \in Users, NEW i \in CopiesOf(g)', g # f
                   PROVE  Kept(g)
      BY <2>9, <2>11
    <3>2. i \in DOMAIN q /\ q[i].op = "copy" /\ q[i].file = g
      BY <2>5, <3>1 DEF CopiesOf
    <3>3. i \in CopiesOf(g)
      BY <2>7, <3>1, <3>2 DEF CopiesOf
    <3> QED
      BY <2>1, <3>3 DEF Backups
  <2>13. PICK t, n : t = Tail(todo) /\ n = Len(todo)
    OBVIOUS
  <2>14. n \in Nat /\ Tails(todo, t, n) /\ todo' = t
    BY <1>1, <1>2, <1>3, <2>13, AtHead DEF StepDone
  <2>15. ~Creating /\ KeptNow = KeptFiles
    BY <1>3 DEF Creating, KeptNow, KeptFiles
  <2>16. Safe(todo, KeptFiles) /\ Recorded(todo, KeptFiles \cup Untouched)
    BY <2>1, <2>10, <2>15 DEF Backups
  <2>17. KeptFiles \subseteq KeptFiles' /\ f \in KeptFiles' /\ Untouched' = Untouched
    BY <2>1, <2>3, <2>9, <2>11 DEF KeptFiles, Untouched
  <2>18. /\ Safe(t, KeptFiles')
         /\ \A i \in DOMAIN t : t[i].op # "create"
         /\ t # <<>> => t[1].op # "line"
    BY <1>3, <2>2, <2>14, <2>16, <2>17, TailSafe
  <2>19. Recorded(t, KeptFiles' \cup Untouched')
    BY <1>3, <2>2, <2>14, <2>16, <2>17, TailRecorded
  <2>20. ~Creating'
    <3>1. t # <<>> => 1 \in DOMAIN t
      BY <2>14, EmptySeq DEF Tails
    <3> QED
      BY <2>14, <2>18, <3>1 DEF Creating
  <2>21. KeptNow' = KeptFiles'
    BY <2>20 DEF KeptNow, KeptFiles
  <2>22. Listed'
    BY <2>14, <2>18, <2>19, <2>21 DEF Listed
  <2>23. \A p \in {1, 2} : Phase(p)' =>
            ~Creating' /\ Touched(p) \subseteq {g \in Users : Kept(g)'} \cup Untouched'
    <3>1. \A p \in {1, 2} : Phase(p) => Touched(p) \subseteq KeptFiles \cup Untouched
      BY <2>1 DEF Backups, KeptFiles
    <3>2. \A p \in {1, 2} : Phase(p)' => Phase(p)
      BY <2>1 DEF Phase
    <3>3. KeptFiles' = {g \in Users : Kept(g)'}
      BY DEF KeptFiles
    <3> QED
      BY <2>17, <2>20, <3>1, <3>2, <3>3
  <2>24. BackedUp'
    <3>1. \A g \in Users : disk[g] # before[g] => Kept(g)
      BY <2>1 DEF Backups, BackedUp, Kept
    <3>2. \A g \in Users : disk'[g] # before'[g] => Kept(g)'
      BY <2>1, <2>9, <3>1
    <3> QED
      BY <3>2 DEF BackedUp, Kept
  <2>25. Sequel'
    BY <1>3, <2>1 DEF Backups, Sequel
  <2> QED
    BY <2>12, <2>22, <2>23, <2>24, <2>25 DEF Backups, Listed, Sequel
<1> QED
  BY <1>4, <1>5

\* Nothing runs, or PREMAXIM begins.
LEMMA QuietBackups ==
  ASSUME Backups, "over" \notin spoilt, todo' = <<>>, at' \notin {"maximize", "premaxim"},
         UNCHANGED <<disk, premaxim, before>>,
         disk["LASTPHASE"] = None /\ disk["BETA"] # None => "halfway" \in spoilt'
  PROVE  Backups'
<1>1. Changed
  BY DEF Changed
<1>2. Listed' /\ ~Creating'
  BY DEF Listed, Creating
<1>3. Marked
  BY <1>2 DEF Marked, Phase
<1>4. Sequel'
  BY DEF Sequel
<1> QED
  BY <1>1, <1>2, <1>3, <1>4, BackupsStay

LEMMA PremaximBackups ==
  ASSUME TypeInv, Backups, "over" \notin spoilt, premaxim # <<>>,
         NEW after \in {"dos", "autoexec"}, Premaxim(after),
         UNCHANGED <<disk, premaxim, before>>
  PROVE  Backups'
<1>1. /\ at' = "premaxim" /\ todo' = Append(premaxim, Op(after, ""))
  BY DEF Premaxim
<1>2. PremaximShape
  BY DEF TypeInv
<1>3. PICK u : u = todo'
  OBVIOUS
<1>4. Started(u, after)
  BY <1>1, <1>2, <1>3, PremaximStarts
<1>5. PICK n \in Nat : n = Len(premaxim)
  BY <1>2, PremaximLines
<1>6. /\ u # <<>> /\ DOMAIN u = 1..(n + 1)
      /\ \A i \in 1..n : u[i] = premaxim[i]
      /\ \A i \in 1..(n + 1) : i \in 1..n \/ (i = n + 1 /\ u[i].op = after)
      /\ DOMAIN premaxim = 1..n
  BY <1>2, <1>4, <1>5, PremaximLines DEF Started
<1>7. ASSUME NEW i \in 1..(n + 1)
      PROVE  /\ u[i].op \in Restoring /\ u[i].op # "put"
             /\ u[i].op = "copy" => u[i].file \in KeptFiles
  <2>1. CASE i \in 1..n
    <3>1. /\ u[i] = premaxim[i] /\ i \in DOMAIN premaxim
      BY <1>6, <2>1
    <3>2. /\ premaxim[i].op \in {"erase", "copy"}
          /\ premaxim[i].op = "copy" => premaxim[i].file \in Users
      BY <1>2, <3>1, PremaximLines
    <3>3. ASSUME premaxim[i].op = "copy"
          PROVE  premaxim[i].file \in KeptFiles
      <4>1. i \in CopiesOf(premaxim[i].file)
        BY <3>1, <3>3 DEF CopiesOf
      <4> QED
        BY <3>2, <3>3, <4>1 DEF Backups, KeptFiles
    <3> QED
      BY <3>1, <3>2, <3>3 DEF Restoring
  <2>2. CASE i = n + 1 /\ u[i].op = after
    BY <2>2 DEF Restoring
  <2> QED
    BY <1>6, <2>1, <2>2
<1>8. RestoresOnly(u)
  BY <1>6, <1>7 DEF RestoresOnly
<1>9. Safe(u, KeptFiles) /\ (\A J : Recorded(u, J)) /\ (1 \in DOMAIN u => u[1].op \notin {"line", "create"})
  BY <1>6, <1>7, <1>8, RestoresSafely
<1>10. 1 \in DOMAIN u
  <2>1. 1 \in 1..(n + 1)
    BY <1>5
  <2> QED
    BY <1>6, <2>1
<1>11. ~Creating'
  BY <1>3, <1>9, <1>10 DEF Creating
<1>12. KeptNow' = KeptFiles
  BY <1>11, SameLines DEF KeptNow, KeptFiles
<1>13. Listed'
  BY <1>3, <1>9, <1>10, <1>12 DEF Listed
<1>14. Changed
  BY DEF Changed
<1>15. Marked
  BY <1>11 DEF Marked, Phase
<1>16. Sequel'
  BY <1>1 DEF Sequel
<1> QED
  BY <1>13, <1>14, <1>15, <1>16, BackupsStay

\* A phase that begins finds the files of the phase before it kept.
LEMMA PassListed ==
  ASSUME TypeInv, Backups, run' \in 0..MaxRuns, NEW p \in 1..3, check_lastphase(p),
         "halfway" \notin spoilt, p # 1 => at = "launcher" /\ disk["BETA"] # None
  PROVE  Listed' /\ (p # 1 => ~Creating')
<1>1. /\ todo' = PassSteps(p) /\ UNCHANGED <<premaxim, before>>
      /\ disk["LASTPHASE"] = None \/ RightPhase(p)
      /\ disk' = disk \/ disk' = [disk EXCEPT !["LASTPHASE"] = Cut]
  BY DEF check_lastphase
<1>2. KeptFiles' = KeptFiles
  BY <1>1, SameLines
<1>3. Untouched' = Untouched
  <2>1. "LASTPHASE" \in Files /\ "BATCH" \in Files /\ Cut \in Content
    BY Contents DEF Files, Users
  <2>2. disk'["BATCH"] = disk["BATCH"]
    BY <1>1, <2>1, DiskTypes
  <2> QED
    BY <2>2 DEF Untouched
<1>4. "AUTOEXEC" \in Files /\ "BETA" \in Files
  BY DEF Files, Users
<1>5. p = 1 \/ p = 2 \/ p = 3
  OBVIOUS
<1>6. CASE p = 1
  <2>1. /\ Program(pass1, KeptNow', KeptNow' \cup Untouched', Files)
        /\ Begins(pass1, Op("create", ""))
    BY <1>4, Pass1Program
  <2>2. PassSteps(p) = pass1
    BY <1>6 DEF PassSteps
  <2>3. todo'[1].op = "create"
    <3>1. todo'[1] = Op("create", "")
      BY <1>1, <2>1, <2>2 DEF Begins
    <3> QED
      BY <3>1, PlainStep DEF Plain
  <2> QED
    BY <1>1, <1>6, <2>1, <2>2, <2>3 DEF Program, Listed
<1>7. ASSUME p # 1
      PROVE  Phase(p - 1)
  <2>1. disk["LASTPHASE"] # None
    BY <1>7 DEF Backups
  <2>2. RightPhase(p) /\ LastPhase(p) = p - 1
    BY <1>1, <1>7, <2>1 DEF LastPhase
  <2> QED
    BY <2>2 DEF RightPhase, Phase
<1>8. ASSUME p # 1, Proper(todo'), Fresh(todo'),
             \A K : K = KeptFiles => Safe(todo', K) /\ Recorded(todo', K \cup Untouched)
      PROVE  Listed' /\ ~Creating'
  <2>1. todo' # <<>> /\ todo'[1].op \notin {"line", "create"}
    BY <1>8 DEF Proper, Ending, Fresh
  <2>2. ~Creating'
    BY <2>1 DEF Creating
  <2>3. KeptNow' = KeptFiles
    BY <1>2, <2>2 DEF KeptNow, KeptFiles
  <2> QED
    BY <1>3, <1>8, <2>1, <2>2, <2>3 DEF Listed
<1>9. CASE p = 2
  <2>1. Touched(1) \subseteq KeptFiles \cup Untouched
    <3>1. Phase(1)
      BY <1>7, <1>9
    <3> QED
      BY <3>1 DEF Backups, KeptFiles
  <2>2. Touched(1) \subseteq KeptFiles
    BY <2>1 DEF Touched, Untouched
  <2>3. Program(pass2, KeptFiles, KeptFiles \cup Untouched, Files) /\ Fresh(pass2)
    BY <2>1, <2>2, Pass2Program
  <2>4. PassSteps(p) = pass2
    BY <1>9 DEF PassSteps
  <2> QED
    BY <1>1, <1>8, <1>9, <2>3, <2>4 DEF Program
<1>10. CASE p = 3
  <2>1. Users \subseteq KeptFiles \cup Untouched
    <3>1. Phase(2)
      BY <1>7, <1>10
    <3> QED
      BY <3>1 DEF Backups, KeptFiles, Touched
  <2>2. Program(pass3, KeptFiles, KeptFiles \cup Untouched, Files) /\ Fresh(pass3)
    BY <1>4, <2>1, Pass3Program
  <2>3. PassSteps(p) = pass3
    BY <1>10 DEF PassSteps
  <2> QED
    BY <1>1, <1>8, <1>10, <2>2, <2>3 DEF Program
<1> QED
  BY <1>5, <1>6, <1>9, <1>10

LEMMA PhaseBackups ==
  ASSUME TypeInv, Backups, "over" \notin spoilt, run' \in 0..MaxRuns, NEW p \in 1..3,
         check_lastphase(p), "over" \notin spoilt',
         p # 1 => at = "launcher" /\ disk["BETA"] # None
  PROVE  Backups'
<1>1. /\ at' = "maximize" /\ UNCHANGED <<premaxim, before>>
      /\ disk["LASTPHASE"] = None \/ RightPhase(p)
      /\ disk' = IF disk["LASTPHASE"] = None
                 THEN [disk EXCEPT !["LASTPHASE"] = Cut] ELSE disk
  BY DEF check_lastphase
<1>2. "halfway" \notin spoilt
  BY DEF check_lastphase
<1>3. Listed' /\ (p # 1 => ~Creating')
  BY <1>2, PassListed
<1>4. /\ "LASTPHASE" \in Files /\ Users \subseteq Files /\ "LASTPHASE" \notin Users /\ Cut \in Content
  BY Contents DEF Files, Users
<1>5. \A g \in Files : g # "LASTPHASE" => disk'[g] = disk[g]
  BY <1>1, <1>4, DiskTypes
<1>6. Changed
  BY <1>4, <1>5 DEF Changed
<1>7. disk'["LASTPHASE"] = IF disk["LASTPHASE"] = None THEN Cut ELSE disk["LASTPHASE"]
  BY <1>1, <1>4, DiskTypes
<1>8. Marked
  <2>1. SUFFICES ASSUME NEW q \in {1, 2}, Phase(q)'
                 PROVE  ~Creating' /\ Phase(q)
    BY DEF Marked
  <2>2. PICK r \in 0..MaxRuns : disk'["LASTPHASE"] = By(r, q)
    BY <2>1 DEF Phase
  <2>3. q \in 1..3
    OBVIOUS
  <2>4. By(r, q) # Cut
    BY <2>2, <2>3, Contents
  <2>5. disk["LASTPHASE"] = By(r, q) /\ disk["LASTPHASE"] # None
    BY <1>7, <2>2, <2>4
  <2>6. Phase(q)
    BY <2>2, <2>5 DEF Phase
  <2>7. p # 1
    <3>1. ASSUME p = 1
          PROVE  FALSE
      <4>1. PICK s \in 0..MaxRuns : disk["LASTPHASE"] = By(s, LastPhase(p))
        BY <1>1, <2>5 DEF RightPhase
      <4>2. LastPhase(p) = 3
        BY <3>1 DEF LastPhase
      <4>3. By(s, 3) = By(r, q)
        BY <2>5, <4>1, <4>2
      <4>4. 3 = q
        BY <4>3, Contents
      <4> QED
        BY <4>4
    <3> QED
      BY <3>1
  <2> QED
    BY <1>3, <2>6, <2>7
<1>9. Sequel'
  <2>1. disk'["LASTPHASE"] # None
    BY <1>7, Contents
  <2> QED
    BY <2>1 DEF Sequel
<1> QED
  BY <1>1, <1>3, <1>6, <1>8, <1>9, BackupsStay

\* PREMAXIM ends when LASTPHASE and AUTOEXEC.ABETA are gone.
LEMMA EndOfPremaxim ==
  ASSUME TypeInv, Doing("dos") \/ Doing("autoexec")
  PROVE  /\ at = "premaxim" /\ disk["LASTPHASE"] = None /\ disk["BETA"] = None
         /\ premaxim # <<>>
         /\ \A i \in DOMAIN todo : todo[i].op \in Ends
<1>1. /\ at = "premaxim" /\ todo[1].op \in {"dos", "autoexec"}
  <2>1. CASE Doing("dos")
    BY <2>1, DoingHead
  <2>2. CASE Doing("autoexec")
    BY <2>2, DoingHead
  <2> QED
    BY <2>1, <2>2
<1>2. todo \in Seq(Step) /\ Len(todo) = 1
  BY <1>1, AtHead DEF Ends
<1>3. \A i \in DOMAIN todo : i = 1
  <2>1. DOMAIN todo = 1..1
    BY <1>2, LenProperties
  <2> QED
    BY <2>1
<1>4. \A f : ~Erases(f)
  BY <1>1, <1>3 DEF Erases
<1>5. disk["LASTPHASE"] = None /\ disk["BETA"] = None
  BY <1>1, <1>4 DEF TypeInv, Erasing
<1>6. premaxim # <<>>
  BY <1>1, Made
<1> QED
  BY <1>1, <1>3, <1>5, <1>6 DEF Ends

\* What the machine and its user do.
LEMMA RestBackups ==
  ASSUME BackupInv,
         \/ maxout \/ Reboot \/ Restored \/ RestoredThenAutoexec \/ Boot \/ Launch
         \/ Interrupt \/ Crash \/ StartMaximize \/ StartPremaxim \/ Restart
  PROVE  ErrorEnds' /\ ("over" \notin spoilt' => Backups')
<1>1. TypeInv /\ ("over" \notin spoilt => Backups)
  BY DEF BackupInv
<1>2. at \in {"dos", "boot", "launcher"} => todo = <<>>
  BY <1>1 DEF TypeInv, TypeOK
<1>3. "over" \notin spoilt' => "over" \notin spoilt
  BY DEF maxout, Reboot, Restored, RestoredThenAutoexec, Boot, Launch, Interrupt, Crash,
         StartMaximize, StartPremaxim, Restart, check_lastphase, history
<1>4. at' # "maximize" => ErrorEnds'
  BY DEF ErrorEnds
<1>5. ASSUME Backups
      PROVE  /\ at = "maximize" => disk["LASTPHASE"] # None
             /\ disk["LASTPHASE"] = None /\ disk["BETA"] # None /\ "halfway" \notin spoilt =>
                  at = "premaxim"
  BY <1>5 DEF Backups
<1>6. CASE maxout
  <2>1. Doing("out") /\ UNCHANGED <<disk, premaxim, before, spoilt>>
    BY <1>6 DEF maxout, history
  <2>2. at = "maximize" /\ todo[1].op = "out"
    BY <1>1, <2>1, DoingHead DEF Restoring
  <2>3. premaxim # <<>>
    BY <1>1, <2>2, Made
  <2>4. Premaxim("dos") \/ Prompt
    BY <1>6 DEF maxout
  <2>5. ASSUME "over" \notin spoilt'
        PROVE  Backups'
    <3>1. Backups /\ "over" \notin spoilt
      BY <1>1, <1>3, <2>5
    <3>2. CASE Premaxim("dos")
      BY <1>1, <2>1, <2>3, <3>1, <3>2, PremaximBackups
    <3>3. CASE Prompt
      <4>1. at' = "dos" /\ todo' = <<>>
        BY <3>3 DEF Prompt
      <4> QED
        BY <1>5, <2>1, <2>2, <3>1, <4>1, QuietBackups
    <3> QED
      BY <2>4, <3>2, <3>3
  <2>6. at' # "maximize"
    BY <2>4 DEF Premaxim, Prompt
  <2> QED
    BY <1>4, <2>5, <2>6
<1>7. CASE Reboot
  <2>1. /\ Doing("reboot") /\ at' = "boot" /\ todo' = <<>>
        /\ UNCHANGED <<disk, premaxim, before, spoilt>>
    BY <1>7 DEF Reboot, history
  <2>2. at = "maximize"
    BY <1>1, <2>1, DoingHead DEF Restoring
  <2> QED
    BY <1>1, <1>3, <1>4, <1>5, <2>1, <2>2, QuietBackups
<1>8. CASE Restored \/ RestoredThenAutoexec
  <2>1. /\ Doing("dos") \/ Doing("autoexec")
        /\ Premaxim("autoexec") \/ Prompt
        /\ UNCHANGED <<disk, premaxim, before>>
    BY <1>8 DEF Restored, RestoredThenAutoexec
  <2>2. premaxim # <<>> /\ disk["LASTPHASE"] = None /\ disk["BETA"] = None
    BY <1>1, <2>1, EndOfPremaxim
  <2>3. ASSUME "over" \notin spoilt'
        PROVE  Backups'
    <3>1. Backups /\ "over" \notin spoilt
      BY <1>1, <1>3, <2>3
    <3>2. CASE Premaxim("autoexec")
      BY <1>1, <2>1, <2>2, <3>1, <3>2, PremaximBackups
    <3>3. CASE Prompt
      <4>1. at' = "dos" /\ todo' = <<>>
        BY <3>3 DEF Prompt
      <4> QED
        BY <2>1, <2>2, <3>1, <4>1, QuietBackups
    <3> QED
      BY <2>1, <3>2, <3>3
  <2>4. at' # "maximize"
    BY <2>1 DEF Premaxim, Prompt
  <2> QED
    BY <1>4, <2>3, <2>4
<1>9. CASE Boot
  <2>1. /\ at = "boot" /\ UNCHANGED <<disk, premaxim, before, spoilt>>
    BY <1>9 DEF Boot, history
  <2>2. \/ at' \in {"dos", "launcher"} /\ todo' = <<>>
        \/ Launcher /\ Premaxim("autoexec")
    BY <1>2, <1>9 DEF Boot, Prompt
  <2>3. ASSUME "over" \notin spoilt'
        PROVE  Backups'
    <3>1. Backups /\ "over" \notin spoilt
      BY <1>1, <1>3, <2>3
    <3>2. CASE Launcher /\ Premaxim("autoexec")
      <4>1. premaxim # <<>>
        BY <1>1, <3>2, NotLauncher DEF TypeInv
      <4> QED
        BY <1>1, <2>1, <3>1, <3>2, <4>1, PremaximBackups
    <3>3. CASE at' \in {"dos", "launcher"} /\ todo' = <<>>
      BY <1>5, <2>1, <3>1, <3>3, QuietBackups
    <3> QED
      BY <2>2, <3>2, <3>3
  <2>4. at' # "maximize"
    BY <2>2 DEF Premaxim
  <2> QED
    BY <1>4, <2>3, <2>4
<1>10. CASE Launch
  <2>1. at = "launcher"
    BY <1>10 DEF Launch
  <2>2. PICK p : p = disk["AUTOEXEC"][2] + 1
    OBVIOUS
  <2>3. premaxim # <<>> /\ p \in {2, 3}
    BY <1>1, <2>1, <2>2, NextPhase
  <2>4. CASE disk["BETA"] # None /\ UNCHANGED run /\ check_lastphase(p)
    <3>1. p \in 1..3 /\ run' \in 0..MaxRuns
      BY <1>1, <2>3, <2>4 DEF TypeInv, TypeOK
    <3>2. ErrorEnds'
      BY <2>4 DEF check_lastphase, ErrorEnds
    <3> QED
      BY <1>1, <1>3, <2>1, <2>4, <3>1, <3>2, PhaseBackups
  <2>5. CASE Premaxim("dos") /\ UNCHANGED <<disk, premaxim, Pass, SavedFiles, history>>
    <3>1. at' # "maximize" /\ before' = before
      BY <2>5 DEF Premaxim, history
    <3> QED
      BY <1>1, <1>3, <1>4, <2>3, <2>5, <3>1, PremaximBackups
  <2> QED
    BY <1>10, <2>2, <2>4, <2>5 DEF Launch
<1>11. CASE Interrupt
  <2>1. /\ at \in {"launcher", "premaxim"} /\ at' = "dos" /\ todo' = <<>>
        /\ UNCHANGED <<disk, premaxim, before>>
        /\ spoilt \subseteq spoilt' /\ (at = "premaxim" => "halfway" \in spoilt')
    BY <1>11 DEF Interrupt, Prompt
  <2> QED
    BY <1>1, <1>3, <1>4, <1>5, <2>1, QuietBackups
<1>12. CASE Crash
  <2>1. /\ at \in {"launcher", "maximize", "premaxim"} /\ at' = "boot" /\ todo' = <<>>
        /\ UNCHANGED <<disk, premaxim, before>>
        /\ spoilt \subseteq spoilt' /\ (at = "premaxim" => "halfway" \in spoilt')
    BY <1>12 DEF Crash
  <2> QED
    BY <1>1, <1>3, <1>4, <1>5, <2>1, QuietBackups
<1>13. CASE StartMaximize
  <2>1. check_lastphase(1) /\ run' \in 0..MaxRuns /\ 1 \in 1..3
    BY <1>1, <1>13, BoundsAssumption DEF StartMaximize, TypeInv, TypeOK
  <2>2. ErrorEnds'
    BY <2>1 DEF check_lastphase, ErrorEnds
  <2> QED
    BY <1>1, <1>3, <2>1, <2>2, PhaseBackups
<1>14. CASE StartPremaxim
  <2>1. /\ premaxim # <<>> /\ Premaxim("dos") /\ UNCHANGED <<disk, premaxim, before>>
    BY <1>14 DEF StartPremaxim, history
  <2>2. at' # "maximize"
    BY <2>1 DEF Premaxim
  <2> QED
    BY <1>1, <1>3, <1>4, <2>1, <2>2, PremaximBackups
<1>15. CASE Restart
  <2>1. /\ at = "dos" /\ at' = "boot" /\ todo' = <<>>
        /\ UNCHANGED <<disk, premaxim, before, spoilt>>
    BY <1>2, <1>15 DEF Restart, history
  <2> QED
    BY <1>1, <1>3, <1>4, <1>5, <2>1, QuietBackups
<1> QED
  BY <1>6, <1>7, <1>8, <1>9, <1>10, <1>11, <1>12, <1>13, <1>14, <1>15

LEMMA BackupStays ==
  ASSUME ~Full
  PROVE  BackupInv /\ [Next]_vars => BackupInv'
<1>1. SUFFICES ASSUME BackupInv, [Next]_vars
               PROVE  ErrorEnds' /\ ("over" \notin spoilt' => Backups')
  BY TypeStays DEF BackupInv
<1>2. CASE UNCHANGED vars
  BY <1>1, <1>2
     DEF BackupInv, ErrorEnds, Backups, BackedUp, CopiesOf, Kept, KeptNow, Creating,
         Untouched, Phase, vars, ram, history
<1>3. CASE restbatcreate
  BY <1>1, <1>3, CreateBackups
<1>4. CASE savefile
  BY <1>1, <1>4, SaveBackups
<1>5. CASE restbatappend
  BY <1>1, <1>5, AppendBackups
<1>6. CASE Truncate \/ Put \/ copyfile \/ Erase
  BY <1>1, <1>6, WriteBackups
<1>7. CASE Copy
  BY <1>1, <1>7, CopyBackups
<1>8. CASE SkipIfError \/ CheckError \/ Ask
  BY <1>1, <1>8, TurnBackups
<1>9. CASE \/ maxout \/ Reboot \/ Restored \/ RestoredThenAutoexec \/ Boot \/ Launch
           \/ Interrupt \/ Crash \/ StartMaximize \/ StartPremaxim \/ Restart
  BY <1>1, <1>9, RestBackups
<1> QED
  BY <1>1, <1>2, <1>3, <1>4, <1>5, <1>6, <1>7, <1>8, <1>9 DEF Next, Machine

LEMMA BackupInit ==
  Init => BackupInv
<1>1. SUFFICES ASSUME Init
               PROVE  ErrorEnds /\ Backups
  BY TypeInit DEF BackupInv
<1>2. /\ premaxim = <<>> /\ at = "dos" /\ todo = <<>>
      /\ disk = [f \in Files |-> IF f \in Users THEN By(0, 3) ELSE None]
      /\ before = [f \in Users |-> By(0, 3)]
  BY <1>1 DEF Init
<1>3. /\ \A f \in Users : disk[f] = before[f]
      /\ disk["LASTPHASE"] = None /\ disk["BETA"] = None
  BY <1>2 DEF Files, Users
<1>4. \A f : CopiesOf(f) = {}
  BY <1>2 DEF CopiesOf
<1>5. \A p \in {1, 2} : ~Phase(p)
  <2>1. \A p \in {1, 2} : p \in 1..3
    OBVIOUS
  <2> QED
    BY <1>3, <2>1, Contents DEF Phase
<1>6. BackedUp
  BY <1>3 DEF BackedUp
<1> QED
  BY <1>2, <1>3, <1>4, <1>5, <1>6 DEF ErrorEnds, Backups

LEMMA BackupInvHolds ==
  ASSUME ~Full
  PROVE  Spec => []BackupInv
  BY BackupInit, BackupStays, PTL DEF Spec

\* Unless the disk is full, a file of the user's that is no longer what it was
\* when the run began has a line in PREMAXIM that names a backup of what it
\* was, at every moment at which the machine may be switched off and in all
\* three phases: savefile and restbatappend come before every first write, and
\* a later phase writes only what LASTPHASE says has been saved.
THEOREM ChangedIsSaved ==
  ASSUME ~Full
  PROVE  Spec => []BackedUp
<1>1. BackupInv => BackedUp
  BY DEF BackupInv, Backups, BackedUp
<1> QED
  BY <1>1, BackupInvHolds, PTL

-----------------------------------------------------------------------------
(* PREMAXIM brings the files back.                                         *)

\* What PREMAXIM has still to copy when it has done a step.
LEMMA TailCopying ==
  ASSUME NEW t, NEW n \in Nat, Tails(todo, t, n), todo' = t, before' = before, NEW f
  PROVE  /\ LastIsRight(f) => LastIsRight(f)'
         /\ Copying(f)' = {} => Copying(f) \subseteq {1}
<1>1. /\ DOMAIN todo = 1..n /\ DOMAIN t = 1..(n - 1)
      /\ \A i \in 1..(n - 1) : t[i] = todo[i + 1]
      /\ \A i \in 1..n : i = 1 \/ (i - 1 \in 1..(n - 1) /\ todo[i] = t[i - 1])
  BY DEF Tails
<1>2. \A i \in 1..(n - 1) : i \in Nat /\ i >= 1 /\ i + 1 \in 1..n
  OBVIOUS
<1>3. \A i \in Copying(f)' : i \in 1..(n - 1) /\ i + 1 \in Copying(f) /\ t[i] = todo[i + 1]
  BY <1>1, <1>2 DEF Copying
<1>4. \A j \in Copying(f) : j = 1 \/ (j \in 1..n /\ j - 1 \in Copying(f)')
  BY <1>1 DEF Copying
<1>5. ASSUME LastIsRight(f), NEW i \in Copying(f)', \A j \in Copying(f)' : j <= i
      PROVE  t[i].data = before[f]
  <2>1. i \in 1..(n - 1) /\ i + 1 \in Copying(f) /\ t[i] = todo[i + 1]
    BY <1>3, <1>5
  <2>2. ASSUME NEW j \in Copying(f)
        PROVE  j <= i + 1
    <3>1. CASE j = 1
      BY <1>2, <2>1, <3>1
    <3>2. CASE j \in 1..n /\ j - 1 \in Copying(f)'
      <4>1. j - 1 <= i
        BY <1>5, <3>2
      <4> QED
        BY <1>2, <2>1, <3>2, <4>1
    <3> QED
      BY <1>4, <3>1, <3>2
  <2>3. todo[i + 1].data = before[f]
    BY <1>5, <2>1, <2>2 DEF LastIsRight
  <2> QED
    BY <2>1, <2>3
<1>6. LastIsRight(f) => LastIsRight(f)'
  BY <1>5 DEF LastIsRight
<1>7. Copying(f)' = {} => Copying(f) \subseteq {1}
  BY <1>4
<1> QED
  BY <1>6, <1>7

\* A phase finds what it copies after a step.
LEMMA StepSupplied ==
  ASSUME TypeInv, at \in {"maximize", "premaxim"}, StepDone, Supplied,
         There \subseteq There' \/ todo[1].op = "erase"
  PROVE  Supplied'
<1>1. PICK t, n : t = Tail(todo) /\ n = Len(todo)
  OBVIOUS
<1>2. n \in Nat /\ Tails(todo, t, n) /\ todo' = t /\ at' = at
  BY <1>1, AtHead DEF StepDone
<1>3. ASSUME at = "maximize"
      PROVE  Sourced(t, There')
  <2>1. Sourced(todo, There)
    BY <1>3 DEF Supplied
  <2> QED
    BY <1>2, <2>1, TailSourced
<1> QED
  BY <1>2, <1>3 DEF Supplied

\* The lines say the same as before.
LEMMA SameLast ==
  ASSUME UNCHANGED <<premaxim, before>>
  PROVE  \A f : LastCopy(f)' <=> LastCopy(f)
  BY SameLines DEF LastCopy

\* The steps that write.
LEMMA WriteRestores ==
  ASSUME RestoreInv, ~Full, Truncate \/ Put \/ copyfile \/ Erase
  PROVE  NoneGone' /\ Supplied' /\ Restores'
<1>0. /\ Users \subseteq Files /\ "LASTPHASE" \notin Users /\ "BETA" \notin Users
  BY DEF Files, Users
<1>1. PICK o \in {"trunc", "put", "from", "erase"} :
        /\ Doing(o) /\ StepDone
        /\ UNCHANGED <<premaxim, Pass, SavedFiles, history>> /\ AnyError' = AnyError
  BY DEF Truncate, Put, copyfile, Erase, ram, Failing
<1>2. TypeInv /\ NoneGone /\ Supplied /\ Restores
  BY DEF RestoreInv, BackupInv
<1>3. /\ at \in {"maximize", "premaxim"} /\ Next1 = todo[1] /\ todo[1].op = o
      /\ todo[1] \in Step /\ 1 \in DOMAIN todo
      /\ at = "premaxim" => o \in Restoring /\ (o = "put" => todo[1].file \in Users)
  BY <1>1, <1>2, DoingHead
<1>4. PICK f : f = todo[1].file
  OBVIOUS
<1>5. /\ f \in Files
      /\ o = "put" => todo[1].data \in Content \ {None}
      /\ o = "erase" => f \in {"LASTPHASE", "BETA"}
  <2>1. /\ o = "erase" => f \in {"LASTPHASE", "BETA"}
        /\ o = "trunc" => f \in Files
        /\ o = "put" => f \in Files /\ todo[1].data \in Content \ {None}
        /\ o = "from" => f \in {"AUTOEXEC", "BETA"}
    BY <1>3, <1>4, StepFields
  <2>2. "AUTOEXEC" \in Files /\ "BETA" \in Files /\ "LASTPHASE" \in Files
    BY DEF Files, Users
  <2> QED
    BY <2>1, <2>2
<1>6. PICK c \in Content :
        /\ disk' = [disk EXCEPT ![f] = c]
        /\ o # "erase" => c # None
        /\ o = "put" /\ ~AnyError => c = todo[1].data
  <2>1. CASE Truncate
    <3>1. o = "trunc"
      BY <1>3, <2>1 DEF Truncate, Doing
    <3> QED
      BY <1>3, <1>4, <2>1, <3>1, Contents DEF Truncate
  <2>2. CASE Put
    <3>1. o = "put"
      BY <1>3, <2>2 DEF Put, Doing
    <3>2. disk' = [disk EXCEPT ![f] = IF AnyError THEN Cut ELSE todo[1].data]
      BY <1>3, <1>4, <2>2 DEF Put, Failing
    <3> QED
      BY <1>5, <3>1, <3>2, Contents
  <2>3. CASE copyfile
    <3>1. o = "from"
      BY <1>3, <2>3 DEF copyfile, Doing
    <3>2. disk' = [disk EXCEPT ![f] = disk[todo[1].src]]
      BY <1>3, <1>4, <2>3 DEF copyfile, Failing
    <3>3. at = "maximize"
      BY <1>3, <3>1 DEF Restoring
    <3>4. todo[1].src \in There
      BY <1>2, <1>3, <3>1, <3>3 DEF Supplied, Sourced
    <3>5. disk[todo[1].src] \in Content /\ disk[todo[1].src] # None
      BY <1>2, <3>4 DEF TypeInv, TypeOK, There
    <3> QED
      BY <3>1, <3>2, <3>5
  <2>4. CASE Erase
    <3>1. o = "erase"
      BY <1>3, <2>4 DEF Erase, Doing
    <3> QED
      BY <1>3, <1>4, <2>4, <3>1, Contents DEF Erase
  <2> QED
    BY <2>1, <2>2, <2>3, <2>4 DEF Truncate, Put, copyfile, Erase
<1>7. disk'[f] = c /\ \A g \in Files : g # f => disk'[g] = disk[g]
  BY <1>2, <1>5, <1>6, DiskTypes
<1>8. before' = before /\ at' = at /\ premaxim' = premaxim /\ spoilt' = spoilt
  BY <1>1 DEF history, StepDone
<1>9. NoneGone'
  <2>1. SUFFICES ASSUME NEW g \in Users
                 PROVE  disk'[g] # None
    BY <1>2, <1>8 DEF NoneGone
  <2>2. CASE g = f
    BY <1>0, <1>5, <1>6, <1>7, <2>2
  <2>3. CASE g # f
    BY <1>0, <1>2, <1>7, <2>3 DEF NoneGone
  <2> QED
    BY <2>2, <2>3
<1>10. Supplied'
  <2>1. There \subseteq There' \/ todo[1].op = "erase"
    BY <1>3, <1>6, <1>7 DEF There
  <2> QED
    BY <1>1, <1>2, <1>3, <2>1, StepSupplied
<1>11. Restores'
  <2>1. SUFFICES ASSUME at = "premaxim", NEW g \in Users, LastCopy(g)
                 PROVE  /\ LastIsRight(g)'
                        /\ Copying(g)' = {} /\ "over" \notin spoilt => disk'[g] = before[g]
    <3>1. at = "premaxim" => ~AnyError'
      BY <1>1, <1>2 DEF Restores
    <3> QED
      BY <1>8, <2>1, <3>1, SameLast DEF Restores
  <2>2. /\ ~AnyError /\ LastIsRight(g)
        /\ Copying(g) = {} /\ "over" \notin spoilt => disk[g] = before[g]
    BY <1>2, <2>1 DEF Restores
  <2>3. PICK t, n : t = Tail(todo) /\ n = Len(todo)
    OBVIOUS
  <2>4. n \in Nat /\ Tails(todo, t, n) /\ todo' = t
    BY <1>1, <1>2, <1>3, <2>3, AtHead DEF StepDone
  <2>5. /\ LastIsRight(g)'
        /\ Copying(g)' = {} => Copying(g) \subseteq {1}
    BY <1>8, <2>2, <2>4, TailCopying
  <2>6. ASSUME Copying(g)' = {}, "over" \notin spoilt
        PROVE  disk'[g] = before[g]
    <3>1. CASE o = "put" /\ f = g
      <4>1. 1 \in Copying(g) /\ \A j \in Copying(g) : j <= 1
        <5>1. 1 \in Copying(g)
          BY <1>3, <1>4, <3>1 DEF Copying
        <5>2. \A j \in Copying(g) : j = 1
          BY <2>5, <2>6
        <5> QED
          BY <5>1, <5>2
      <4>2. todo[1].data = before[g]
        BY <2>2, <4>1 DEF LastIsRight
      <4> QED
        BY <1>6, <1>7, <2>2, <3>1, <4>2
    <3>2. CASE ~(o = "put" /\ f = g)
      <4>1. 1 \notin Copying(g)
        BY <1>3, <1>4, <3>2 DEF Copying
      <4>2. disk[g] = before[g]
        BY <2>2, <2>5, <2>6, <4>1
      <4>3. g # f
        BY <1>0, <1>3, <1>5, <2>1, <3>2 DEF Restoring
      <4> QED
        BY <1>0, <1>7, <4>2, <4>3
    <3> QED
      BY <3>1, <3>2
  <2> QED
    BY <2>5, <2>6
<1> QED
  BY <1>9, <1>10, <1>11

\* A line of PREMAXIM.
LEMMA CopyRestores ==
  ASSUME RestoreInv, Copy
  PROVE  NoneGone' /\ Supplied' /\ Restores'
<1>1. Doing("copy") /\ UNCHANGED <<at, premaxim, ram, history>>
  BY DEF Copy
<1>2. TypeInv /\ NoneGone /\ Supplied /\ Restores
  BY DEF RestoreInv, BackupInv
<1>3. /\ at = "premaxim" /\ at' = at /\ Next1 = todo[1] /\ todo[1].op = "copy" /\ 1 \in DOMAIN todo
  BY <1>1, <1>2, DoingHead
<1>4. before' = before /\ premaxim' = premaxim /\ spoilt' = spoilt /\ AnyError' = AnyError
  BY <1>1 DEF history, ram
<1>5. Supplied'
  BY <1>3 DEF Supplied
<1>6. CASE Next1.data = None
  <2>1. StepDone /\ UNCHANGED disk
    BY <1>1, <1>6 DEF Copy, StepDone
  <2>2. NoneGone'
    BY <1>2, <1>4, <2>1 DEF NoneGone
  <2>3. SUFFICES ASSUME NEW g \in Users, LastCopy(g)
                 PROVE  /\ LastIsRight(g)'
                        /\ Copying(g)' = {} /\ "over" \notin spoilt => disk[g] = before[g]
    BY <1>2, <1>3, <1>4, <1>5, <2>1, <2>2, SameLast DEF Restores
  <2>4. /\ LastIsRight(g)
        /\ Copying(g) = {} /\ "over" \notin spoilt => disk[g] = before[g]
    BY <1>2, <1>3, <2>3 DEF Restores
  <2>5. PICK t, n : t = Tail(todo) /\ n = Len(todo)
    OBVIOUS
  <2>6. n \in Nat /\ Tails(todo, t, n) /\ todo' = t
    BY <1>2, <1>3, <2>1, <2>5, AtHead DEF StepDone
  <2>7. /\ LastIsRight(g)'
        /\ Copying(g)' = {} => Copying(g) \subseteq {1}
    BY <1>4, <2>4, <2>6, TailCopying
  <2>8. ASSUME Copying(g)' = {}
        PROVE  1 \notin Copying(g)
    <3>1. ASSUME 1 \in Copying(g)
          PROVE  FALSE
      <4>1. \A j \in Copying(g) : j = 1
        BY <2>7, <2>8
      <4>2. \A j \in Copying(g) : j <= 1
        BY <4>1
      <4>3. todo[1].data = before[g]
        BY <2>4, <3>1, <4>2 DEF LastIsRight
      <4>4. before[g] # None
        BY <1>2, <2>3 DEF NoneGone
      <4> QED
        BY <1>3, <1>6, <4>3, <4>4
    <3> QED
      BY <3>1
  <2>9. Copying(g)' = {} => Copying(g) = {}
    BY <2>7, <2>8
  <2> QED
    BY <2>4, <2>7, <2>9
<1>7. CASE Next1.data # None
  <2>1. PICK f, c : f = todo[1].file /\ c = todo[1].data
    OBVIOUS
  <2>2. /\ f \in Users /\ disk' = [disk EXCEPT ![f] = Cut]
    BY <1>2, <1>7, <2>1, CopyPuts
  <2>3. PICK x, t, n : /\ n \in Nat /\ Putting(todo, t, n, x, todo') /\ x.op = "put"
                       /\ x.file = f /\ x.data = c
    BY <1>2, <1>7, <2>1, CopyPuts
  <2>4. PICK u : u = todo'
    OBVIOUS
  <2>5. /\ DOMAIN todo = 1..n /\ DOMAIN u = 1..n
        /\ u[1] = x /\ \A i \in 2..n : u[i] = todo[i]
    BY <2>3, <2>4 DEF Putting
  <2>6. \A i \in 1..n : i = 1 \/ i \in 2..n
    OBVIOUS
  <2>7. \A i \in 1..n : /\ u[i].op \in {"copy", "put"} <=> todo[i].op \in {"copy", "put"}
                        /\ todo[i].op \in {"copy", "put"} =>
                             u[i].file = todo[i].file /\ u[i].data = todo[i].data
    <3>1. SUFFICES ASSUME NEW i \in 1..n
                   PROVE  /\ u[i].op \in {"copy", "put"} <=> todo[i].op \in {"copy", "put"}
                          /\ todo[i].op \in {"copy", "put"} =>
                               u[i].file = todo[i].file /\ u[i].data = todo[i].data
      OBVIOUS
    <3>2. CASE i = 1
      BY <1>3, <2>1, <2>3, <2>5, <3>2
    <3>3. CASE i \in 2..n
      BY <2>5, <3>3
    <3> QED
      BY <2>6, <3>2, <3>3
  <2>8. \A g : Copying(g)' = Copying(g)
    BY <2>4, <2>5, <2>7 DEF Copying
  <2>9. \A g : LastIsRight(g) => LastIsRight(g)'
    <3>1. \A g : \A i \in Copying(g) : u[i].data = todo[i].data
      BY <2>5, <2>7 DEF Copying
    <3> QED
      BY <1>4, <2>4, <2>8, <3>1 DEF LastIsRight
  <2>10. f \in Files /\ Cut \in Content /\ Users \subseteq Files /\ Cut # None
    BY <2>2, Contents DEF Files
  <2>11. disk'[f] = Cut /\ \A g \in Files : g # f => disk'[g] = disk[g]
    BY <1>2, <2>2, <2>10, DiskTypes
  <2>12. NoneGone'
    <3>1. SUFFICES ASSUME NEW g \in Users
                   PROVE  disk'[g] # None
      BY <1>2, <1>4 DEF NoneGone
    <3> QED
      BY <1>2, <2>10, <2>11 DEF NoneGone
  <2>13. Restores'
    <3>1. SUFFICES ASSUME NEW g \in Users, LastCopy(g)
                   PROVE  /\ LastIsRight(g)'
                          /\ Copying(g)' = {} /\ "over" \notin spoilt => disk'[g] = before[g]
      BY <1>2, <1>3, <1>4, SameLast DEF Restores
    <3>2. /\ LastIsRight(g)
          /\ Copying(g) = {} /\ "over" \notin spoilt => disk[g] = before[g]
      BY <1>2, <1>3, <3>1 DEF Restores
    <3>3. Copying(f) # {}
      BY <1>3, <2>1 DEF Copying
    <3> QED
      BY <2>8, <2>9, <2>10, <2>11, <3>2, <3>3
  <2> QED
    BY <1>5, <2>12, <2>13
<1> QED
  BY <1>6, <1>7

\* The steps of MAXIMIZE that write no file.
LEMMA OtherRestores ==
  ASSUME RestoreInv, ~Full,
         \/ restbatcreate \/ savefile \/ restbatappend
         \/ SkipIfError \/ CheckError \/ Ask
  PROVE  NoneGone' /\ Supplied' /\ Restores'
<1>1. PICK o \in {"create", "save", "line", "unless", "check", "abort", "panel"} :
        Doing(o) /\ UNCHANGED <<disk, at>>
  BY DEF restbatcreate, savefile, restbatappend, SkipIfError, CheckError, Ask, ram, StepDone, Fail
<1>2. TypeInv /\ ErrorEnds /\ NoneGone /\ Supplied /\ Restores
  BY DEF RestoreInv, BackupInv
<1>3. /\ at \in {"maximize", "premaxim"} /\ Next1 = todo[1] /\ todo[1].op = o /\ 1 \in DOMAIN todo
      /\ at = "premaxim" => o \in Restoring
  BY <1>1, <1>2, DoingHead
<1>4. at = "maximize"
  BY <1>3 DEF Restoring
<1>5. ~AnyError
  BY <1>2, <1>3, <1>4 DEF ErrorEnds
<1>6. StepDone \/ Tidying(todo')
  <2>1. CASE SkipIfError
    BY <1>5, <2>1 DEF SkipIfError, StepDone
  <2>2. CASE CheckError
    BY <1>5, <2>2 DEF CheckError
  <2>3. CASE Ask
    BY <2>3, BottomShape DEF Ask, Fail
  <2> QED
    BY <2>1, <2>2, <2>3 DEF restbatcreate, savefile, restbatappend
<1>7. There' = There
  BY <1>1 DEF There
<1>8. Supplied'
  <2>1. CASE StepDone
    BY <1>2, <1>3, <1>7, <2>1, StepSupplied
  <2>2. CASE Tidying(todo')
    BY <2>2 DEF Tidying, Supplied
  <2> QED
    BY <1>6, <2>1, <2>2
<1>9. NoneGone'
  <2>1. before' = before \/ before' = [f \in Users |-> disk[f]]
    BY DEF restbatcreate, savefile, restbatappend, SkipIfError, CheckError, Ask, history
  <2> QED
    BY <1>1, <1>2, <2>1 DEF NoneGone
<1>10. Restores'
  BY <1>1, <1>4 DEF Restores
<1> QED
  BY <1>8, <1>9, <1>10

\* PREMAXIM begins: the lines that copy a file are what it has to do.
LEMMA PremaximRestoring ==
  ASSUME RestoreInv, premaxim # <<>>, NEW after \in {"dos", "autoexec"}, Premaxim(after),
         UNCHANGED <<disk, premaxim, before>>, "over" \notin spoilt' => "over" \notin spoilt
  PROVE  NoneGone' /\ Supplied' /\ Restores'
<1>1. /\ at' = "premaxim" /\ AnyError' = FALSE /\ todo' = Append(premaxim, Op(after, ""))
  BY DEF Premaxim
<1>2. PremaximShape /\ NoneGone
  BY DEF RestoreInv, BackupInv, TypeInv
<1>3. PICK u : u = todo'
  OBVIOUS
<1>4. Started(u, after)
  BY <1>1, <1>2, <1>3, PremaximStarts
<1>5. /\ \A i \in DOMAIN premaxim : u[i] = premaxim[i] /\ i \in DOMAIN u
      /\ \A i \in DOMAIN u : i \in DOMAIN premaxim \/ u[i].op = after
  BY <1>4 DEF Started
<1>6. \A i \in DOMAIN premaxim : premaxim[i].op \in {"erase", "copy"}
  BY <1>2, PremaximLines
<1>7. \A f : Copying(f)' = CopiesOf(f)
  BY <1>3, <1>5, <1>6 DEF Copying, CopiesOf
<1>8. ASSUME NEW f \in Users, LastCopy(f)
      PROVE  /\ LastIsRight(f)'
             /\ Copying(f)' = {} /\ "over" \notin spoilt' => disk[f] = before[f]
  <2>1. \A i \in CopiesOf(f) : u[i] = premaxim[i]
    BY <1>5 DEF CopiesOf
  <2>2. LastIsRight(f)'
    BY <1>3, <1>7, <1>8, <2>1 DEF LastIsRight, LastCopy
  <2>3. ASSUME CopiesOf(f) = {}, "over" \notin spoilt
        PROVE  disk[f] = before[f]
    <3>1. Backups
      BY <2>3 DEF RestoreInv, BackupInv
    <3>2. disk[f] # before[f] => Kept(f)
      BY <2>3, <3>1 DEF Backups, BackedUp, Kept
    <3> QED
      BY <2>3, <3>2 DEF Kept
  <2> QED
    BY <1>7, <2>2, <2>3
<1>9. Restores'
  BY <1>1, <1>8, SameLast DEF Restores
<1>10. Supplied' /\ NoneGone'
  BY <1>1, <1>2 DEF Supplied, NoneGone
<1> QED
  BY <1>9, <1>10

\* A phase begins.
LEMMA PhaseRestores ==
  ASSUME RestoreInv, run' \in 0..MaxRuns, NEW p \in 1..3, check_lastphase(p),
         p # 1 => premaxim # <<>> /\ disk["BETA"] # None
  PROVE  NoneGone' /\ Supplied' /\ Restores'
<1>1. /\ at' = "maximize" /\ todo' = PassSteps(p) /\ UNCHANGED before
      /\ disk' = disk \/ disk' = [disk EXCEPT !["LASTPHASE"] = Cut]
  BY DEF check_lastphase
<1>2. TypeInv /\ NoneGone
  BY DEF RestoreInv, BackupInv
<1>3. /\ "LASTPHASE" \in Files /\ "AUTOEXEC" \in Files /\ "BETA" \in Files /\ Cut \in Content
      /\ Users \subseteq Files /\ "LASTPHASE" \notin Users /\ "AUTOEXEC" \in Users
  BY Contents DEF Files, Users
<1>4. \A g \in Files : g # "LASTPHASE" => disk'[g] = disk[g]
  BY <1>1, <1>2, <1>3, DiskTypes
<1>5. NoneGone'
  <2>1. \A g \in Users : disk'[g] = disk[g]
    BY <1>3, <1>4
  <2> QED
    BY <1>1, <1>2, <2>1 DEF NoneGone
<1>6. "AUTOEXEC" \in There'
  BY <1>3, <1>5 DEF There, NoneGone
<1>7. p # 1 => "BETA" \in There'
  BY <1>3, <1>4 DEF There
<1>8. Touched(1) \subseteq Users /\ Untouched \subseteq Users
  BY DEF Touched, Untouched, Users
<1>9. p = 1 \/ p = 2 \/ p = 3
  OBVIOUS
<1>10. Sourced(PassSteps(p), There')
  <2>1. CASE p = 1
    <3>1. Program(pass1, Users, Users, There')
      BY <1>6, Pass1Program
    <3>2. PassSteps(p) = pass1
      BY <2>1 DEF PassSteps
    <3> QED
      BY <3>1, <3>2 DEF Program
  <2>2. CASE p = 2
    <3>1. Program(pass2, Users, Users, There')
      BY <1>8, Pass2Program
    <3>2. PassSteps(p) = pass2
      BY <2>2 DEF PassSteps
    <3> QED
      BY <3>1, <3>2 DEF Program
  <2>3. CASE p = 3
    <3>1. Program(pass3, Users, Users, There')
      BY <1>7, <1>8, <2>3, Pass3Program
    <3>2. PassSteps(p) = pass3
      BY <2>3 DEF PassSteps
    <3> QED
      BY <3>1, <3>2 DEF Program
  <2> QED
    BY <1>9, <2>1, <2>2, <2>3
<1>11. Supplied' /\ Restores'
  BY <1>1, <1>10 DEF Supplied, Restores
<1> QED
  BY <1>5, <1>11

\* What the machine and its user do.
LEMMA RestRestores ==
  ASSUME RestoreInv,
         \/ maxout \/ Reboot \/ Restored \/ RestoredThenAutoexec \/ Boot \/ Launch
         \/ Interrupt \/ Crash \/ StartMaximize \/ StartPremaxim \/ Restart
  PROVE  NoneGone' /\ Supplied' /\ Restores'
<1>1. TypeInv /\ NoneGone
  BY DEF RestoreInv, BackupInv
<1>2. "over" \notin spoilt' => "over" \notin spoilt
  BY DEF maxout, Reboot, Restored, RestoredThenAutoexec, Boot, Launch, Interrupt, Crash,
         StartMaximize, StartPremaxim, Restart, check_lastphase, history
<1>3. ASSUME UNCHANGED <<disk, before>>, at' \notin {"maximize", "premaxim"}
      PROVE  NoneGone' /\ Supplied' /\ Restores'
  BY <1>1, <1>3 DEF NoneGone, Supplied, Restores
<1>4. CASE maxout
  <2>1. Doing("out") /\ UNCHANGED <<disk, premaxim, before>> /\ (Premaxim("dos") \/ Prompt)
    BY <1>4 DEF maxout, history
  <2>2. premaxim # <<>>
    BY <1>1, <2>1, DoingHead, Made
  <2>3. CASE Premaxim("dos")
    BY <1>2, <2>1, <2>2, <2>3, PremaximRestoring
  <2>4. CASE Prompt
    BY <1>3, <2>1, <2>4 DEF Prompt
  <2> QED
    BY <2>1, <2>3, <2>4
<1>5. CASE Reboot \/ Interrupt \/ Crash \/ Restart
  <2>1. UNCHANGED <<disk, before>> /\ at' \in {"boot", "dos"}
    BY <1>5 DEF Reboot, Interrupt, Crash, Restart, Prompt, history
  <2> QED
    BY <1>3, <2>1
<1>6. CASE Restored \/ RestoredThenAutoexec
  <2>1. /\ Doing("dos") \/ Doing("autoexec")
        /\ Premaxim("autoexec") \/ Prompt
        /\ UNCHANGED <<disk, premaxim, before>>
    BY <1>6 DEF Restored, RestoredThenAutoexec
  <2>2. premaxim # <<>>
    BY <1>1, <2>1, EndOfPremaxim
  <2>3. CASE Premaxim("autoexec")
    BY <1>2, <2>1, <2>2, <2>3, PremaximRestoring
  <2>4. CASE Prompt
    BY <1>3, <2>1, <2>4 DEF Prompt
  <2> QED
    BY <2>1, <2>3, <2>4
<1>7. CASE Boot
  <2>1. UNCHANGED <<disk, premaxim, before>>
    BY <1>7 DEF Boot, history
  <2>2. at' \in {"dos", "launcher"} \/ (Launcher /\ Premaxim("autoexec"))
    BY <1>7 DEF Boot, Prompt
  <2>3. CASE Launcher /\ Premaxim("autoexec")
    <3>1. premaxim # <<>>
      BY <1>1, <2>3, NotLauncher DEF TypeInv
    <3> QED
      BY <1>2, <2>1, <2>3, <3>1, PremaximRestoring
  <2>4. CASE at' \in {"dos", "launcher"}
    BY <1>3, <2>1, <2>4
  <2> QED
    BY <2>2, <2>3, <2>4
<1>8. CASE Launch
  <2>1. at = "launcher"
    BY <1>8 DEF Launch
  <2>2. PICK p : p = disk["AUTOEXEC"][2] + 1
    OBVIOUS
  <2>3. premaxim # <<>> /\ p \in {2, 3}
    BY <1>1, <2>1, <2>2, NextPhase
  <2>4. CASE disk["BETA"] # None /\ UNCHANGED run /\ check_lastphase(p)
    <3>1. p \in 1..3 /\ run' \in 0..MaxRuns
      BY <1>1, <2>3, <2>4 DEF TypeInv, TypeOK
    <3> QED
      BY <2>3, <2>4, <3>1, PhaseRestores
  <2>5. CASE Premaxim("dos") /\ UNCHANGED <<disk, premaxim, Pass, SavedFiles, history>>
    BY <1>2, <2>3, <2>5, PremaximRestoring DEF history
  <2> QED
    BY <1>8, <2>2, <2>4, <2>5 DEF Launch
<1>9. CASE StartMaximize
  <2>1. check_lastphase(1) /\ run' \in 0..MaxRuns /\ 1 \in 1..3
    BY <1>1, <1>9, BoundsAssumption DEF StartMaximize, TypeInv, TypeOK
  <2> QED
    BY <2>1, PhaseRestores
<1>10. CASE StartPremaxim
  <2>1. premaxim # <<>> /\ Premaxim("dos") /\ UNCHANGED <<disk, premaxim, before>>
    BY <1>10 DEF StartPremaxim, history
  <2> QED
    BY <1>2, <2>1, PremaximRestoring
<1> QED
  BY <1>4, <1>5, <1>6, <1>7, <1>8, <1>9, <1>10

LEMMA RestoreStays ==
  ASSUME ~Full
  PROVE  RestoreInv /\ [Next]_vars => RestoreInv'
<1>1. SUFFICES ASSUME RestoreInv, [Next]_vars
               PROVE  NoneGone' /\ Supplied' /\ Restores'
  BY BackupStays DEF RestoreInv
<1>2. CASE UNCHANGED vars
  <2>1. UNCHANGED <<disk, premaxim, at, todo, AnyError, before, spoilt>>
    BY <1>2 DEF vars, ram, history
  <2> QED
    BY <1>1, <2>1, SameLast
       DEF RestoreInv, NoneGone, Supplied, There, Sourced, Restores, LastIsRight, Copying
<1>3. CASE restbatcreate \/ savefile \/ restbatappend \/ SkipIfError \/ CheckError \/ Ask
  BY <1>1, <1>3, OtherRestores
<1>4. CASE Truncate \/ Put \/ copyfile \/ Erase
  BY <1>1, <1>4, WriteRestores
<1>5. CASE Copy
  BY <1>1, <1>5, CopyRestores
<1>6. CASE \/ maxout \/ Reboot \/ Restored \/ RestoredThenAutoexec \/ Boot \/ Launch
           \/ Interrupt \/ Crash \/ StartMaximize \/ StartPremaxim \/ Restart
  BY <1>1, <1>6, RestRestores
<1> QED
  BY <1>1, <1>2, <1>3, <1>4, <1>5, <1>6 DEF Next, Machine

LEMMA RestoreInit ==
  Init => RestoreInv
<1>1. SUFFICES ASSUME Init
               PROVE  NoneGone /\ Supplied /\ Restores
  BY BackupInit DEF RestoreInv
<1>2. /\ at = "dos" /\ before = [f \in Users |-> By(0, 3)]
      /\ disk = [f \in Files |-> IF f \in Users THEN By(0, 3) ELSE None]
  BY <1>1 DEF Init
<1>3. By(0, 3) # None /\ Users \subseteq Files
  BY BoundsAssumption, Contents DEF Files
<1>4. NoneGone
  BY <1>2, <1>3 DEF NoneGone
<1> QED
  BY <1>2, <1>4 DEF Supplied, Restores

LEMMA RestoreInvHolds ==
  ASSUME ~Full
  PROVE  Spec => []RestoreInv
  BY RestoreInit, RestoreStays, PTL DEF Spec

\* At the end of PREMAXIM nothing is left to copy.
LEMMA EndRestores ==
  ASSUME RestoreInv, Restored \/ RestoredThenAutoexec
  PROVE  /\ \A f \in Users : LastCopy(f) /\ "over" \notin spoilt => disk[f] = before[f]
         /\ disk["LASTPHASE"] = None /\ disk["BETA"] = None
<1>1. TypeInv /\ Restores
  BY DEF RestoreInv, BackupInv
<1>2. Doing("dos") \/ Doing("autoexec")
  BY DEF Restored, RestoredThenAutoexec
<1>3. /\ at = "premaxim" /\ disk["LASTPHASE"] = None /\ disk["BETA"] = None
      /\ \A i \in DOMAIN todo : todo[i].op \in Ends
  BY <1>1, <1>2, EndOfPremaxim
<1>4. \A f : Copying(f) = {}
  BY <1>3 DEF Copying, Ends
<1> QED
  BY <1>1, <1>3, <1>4 DEF Restores

\* Unless the disk is full, when PREMAXIM has run to its end, however often it
\* was broken off or the machine was switched off before, a file is what it
\* was when the run began if of the lines that copy it the last one names the
\* right backup, and LASTPHASE and AUTOEXEC.ABETA are gone.
THEOREM RestoreIsWhole ==
  ASSUME ~Full
  PROVE  Spec => RestoredWhole
<1>1. RestoreInv => [Restored \/ RestoredThenAutoexec =>
                       /\ \A f \in Users : LastCopy(f) /\ "over" \notin spoilt => disk[f] = before[f]
                       /\ disk["LASTPHASE"] = None /\ disk["BETA"] = None]_vars
  BY EndRestores
<1> QED
  BY <1>1, RestoreInvHolds, PTL DEF RestoredWhole

-----------------------------------------------------------------------------
(* What a phase leaves, and takes up.                                      *)

\* PREMAXIM does not run, and has not been broken off.
Undisturbed == spoilt \cap {"halfway", "over"} = {} /\ at # "premaxim"

WritesTo(x, f) == Writes(x) /\ x.file = f
Puts(x, f) == x.op = "put" /\ x.file = f

\* Which step may come after which.  LASTPHASE is written at the end, a file is
\* copied before it is written over, and AUTOEXEC.ABETA not touched after it
\* was copied back.
Closing == {"check", "reboot"}
MayFollow(x, y) ==
    /\ Puts(x, "LASTPHASE") => y.op \in Closing
    /\ WritesTo(x, "AUTOEXEC") => ~(y.op = "from" /\ y.src = "AUTOEXEC")
    /\ (x.op = "from" /\ x.src = "BETA") \/ x.op = "erase" => ~WritesTo(y, "BETA")
    /\ x.op = "erase" => y.op # "from"
Refills(y, x) == y.op \in {"put", "from"} /\ y.file = x.file
Arranged(s) ==
    /\ \A i, j \in DOMAIN s : i < j => MayFollow(s[i], s[j])
    /\ \A i \in DOMAIN s : s[i].op = "trunc" => i + 1 \in DOMAIN s /\ Refills(s[i + 1], s[i])

\* The work of phase p, and the files that it rewrites.  A file that was cut
\* stays cut.
Work(p) == {Cut, By(run, p)}
Rewrites(p) ==
    CASE p = 1 -> {"CONFIG", "PROFILE"}
      [] p = 2 -> {"CONFIG", "PROFILE", "BATCH", "BETA"}
      [] p = 3 -> {"CONFIG", "PROFILE", "BATCH"}

\* The steps S that are left bring every file where the phase wants it.
Copies(S) == \E x \in S : x.op = "from"
Outcome(S, p) ==
    /\ \A x \in S : x.op = "put" =>
          x.data \in Work(p) /\ (x.data = Cut => "torn" \in spoilt /\ x.file # "LASTPHASE")
    /\ \A f \in Rewrites(p) : disk[f] \in Work(p) \/ \E x \in S : Puts(x, f)
Outcome1(S) ==
    /\ \A x \in S : x.op # "erase" /\ ~WritesTo(x, "BATCH") /\ ~Puts(x, "BETA")
    /\ \A x \in S : x.op = "from" => x.src = "AUTOEXEC" /\ x.file = "BETA"
    /\ Copies(S) \/ disk["BETA"] \in {Cut, before["AUTOEXEC"]}
    /\ Creating => Copies(S)
    /\ ~Creating => /\ disk["BATCH"] = before["BATCH"]
                    /\ Copies(S) => disk["AUTOEXEC"] = before["AUTOEXEC"]
Outcome2(S) == \A x \in S : x.op \notin {"create", "from", "erase"}
Outcome3(S) ==
    /\ \A x \in S : x.op # "create" /\ ~Puts(x, "AUTOEXEC")
    /\ \A x \in S : x.op = "from" => x.src = "BETA" /\ x.file = "AUTOEXEC"
    /\ Copies(S) \/ disk["AUTOEXEC"] \in Work(3)
    /\ Copies(S) => disk["BETA"] \in Work(3) \/ \E x \in S : Puts(x, "BETA")
    /\ \/ \E x \in S : x.op = "erase"
       \/ disk["BETA"] = None /\ \A x \in S : ~WritesTo(x, "BETA")
Progress(s, p) ==
    /\ Arranged(s)
    /\ Outcome(ToSet(s), p)
    /\ p = 1 => Outcome1(ToSet(s))
    /\ p = 2 => Outcome2(ToSet(s))
    /\ p = 3 => Outcome3(ToSet(s))

\* What phase p has left, and the phase after it has perhaps begun to rewrite.
Reached(p) ==
    CASE p = 1 -> /\ \A f \in {"CONFIG", "PROFILE"} : disk[f] \in Work(1) \cup Work(2)
                  /\ disk["BATCH"] \in {before["BATCH"]} \cup Work(2)
                  /\ disk["BETA"] \in {before["AUTOEXEC"], None} \cup Work(2)
      [] p = 2 -> /\ \A f \in {"CONFIG", "PROFILE", "BATCH"} : disk[f] \in Work(2) \cup Work(3)
                  /\ disk["BETA"] \in {None} \cup Work(2) \cup Work(3)
      [] p = 3 -> /\ \A f \in Users : disk[f] \in Work(3)
                  /\ disk["BETA"] = None

\* LASTPHASE says of a phase that it is through in the run it belongs to.
Says(r, p) == disk["LASTPHASE"] = By(r, p)
Truthful ==
    /\ \A p \in 1..3, r \in 0..MaxRuns : Says(r, p) => r <= run /\ (p < 3 => r = run)
    /\ \A p \in 1..3 : Says(run, p) => Reached(p)

\* A file is empty only while it is written.
Refilled(f) == at = "maximize" /\ todo # <<>> /\ todo[1].op \in {"put", "from"} /\ todo[1].file = f
NoneCut == "torn" \notin spoilt => \A f \in Users \cup {"BETA"} : disk[f] = Cut => Refilled(f)

InPhase ==
    /\ Pass \in 1..3
    /\ disk["LASTPHASE"] = Cut \/ Says(run, Pass) \/ \E r \in 0..MaxRuns : Says(r, LastPhase(Pass))
    /\ Pass = 1 => ~Says(run, 3)
    /\ Says(run, Pass) => \A x \in ToSet(todo) : x.op \in Closing
    /\ ~AnyError => Progress(todo, Pass)

OnCourse == Truthful /\ NoneCut /\ (at = "maximize" => InPhase)
PhaseInv == RestoreInv /\ (Undisturbed => OnCourse)

\* The steps of a list, without their order.
LEMMA StepSets ==
  /\ \A s, t \in Seq(Step) : ToSet(s \o t) = ToSet(s) \cup ToSet(t)
  /\ \A x \in Step : ToSet(<<x>>) = {x}
  /\ \A x, y \in Step : ToSet(<<x, y>>) = {x, y}
  /\ ToSet(<<>>) = {}
<1>1. ASSUME NEW s \in Seq(Step), NEW t \in Seq(Step)
      PROVE  ToSet(s \o t) = ToSet(s) \cup ToSet(t)
  <2>1. PICK u, m, n : u = s \o t /\ m = Len(s) /\ n = Len(t)
    OBVIOUS
  <2>2. m \in Nat /\ n \in Nat
    BY <2>1, LenProperties
  <2>3. Joins(s, t, u, m, n)
    BY <2>1, <2>2, JoinNamed
  <2>4. /\ DOMAIN s = 1..m /\ DOMAIN t = 1..n /\ DOMAIN u = 1..(m + n)
        /\ \A i \in 1..m : u[i] = s[i]
        /\ \A i \in 1..n : u[m + i] = t[i]
        /\ \A i \in 1..(m + n) : \/ i \in 1..m /\ u[i] = s[i]
                                 \/ \E k \in 1..n : i = m + k /\ u[i] = t[k]
    BY <2>3 DEF Joins
  <2>5. /\ \A i \in 1..m : i \in 1..(m + n)
        /\ \A i \in 1..n : m + i \in 1..(m + n)
    BY <2>2
  <2>6. ToSet(s) \cup ToSet(t) \subseteq ToSet(u)
    BY <2>4, <2>5 DEF ToSet
  <2>7. ToSet(u) \subseteq ToSet(s) \cup ToSet(t)
    BY <2>4 DEF ToSet
  <2> QED
    BY <2>1, <2>6, <2>7
<1>2. ASSUME NEW x \in Step
      PROVE  ToSet(<<x>>) = {x}
  <2>1. PICK s : s = <<x>>
    OBVIOUS
  <2>2. DOMAIN s = {1} /\ s[1] = x
    BY <2>1, Single
  <2> QED
    BY <2>1, <2>2 DEF ToSet
<1>3. ASSUME NEW x \in Step, NEW y \in Step
      PROVE  ToSet(<<x, y>>) = {x, y}
  <2>1. PICK s : s = <<x, y>>
    OBVIOUS
  <2>2. s \in Seq(Step) /\ Len(s) = 2 /\ s[1] = x /\ s[2] = y
    BY <2>1
  <2>3. DOMAIN s = 1..2
    BY <2>2, LenProperties
  <2>4. DOMAIN s = {1, 2}
    BY <2>3
  <2> QED
    BY <2>1, <2>2, <2>4 DEF ToSet
<1>4. ToSet(<<>>) = {}
  <2>1. DOMAIN <<>> = {}
    OBVIOUS
  <2> QED
    BY <2>1 DEF ToSet
<1> QED
  BY <1>1, <1>2, <1>3, <1>4

\* Two arranged lists, if what is in the second may come after the first.
LEMMA JoinArranged ==
  ASSUME NEW s \in Seq(Step), NEW t \in Seq(Step), Arranged(s), Arranged(t),
         \A x \in ToSet(s), y \in ToSet(t) : MayFollow(x, y)
  PROVE  Arranged(s \o t)
<1>1. PICK u, m, n : u = s \o t /\ m = Len(s) /\ n = Len(t)
  OBVIOUS
<1>2. m \in Nat /\ n \in Nat
  BY <1>1, LenProperties
<1>3. Joins(s, t, u, m, n)
  BY <1>1, <1>2, JoinNamed
<1>4. /\ DOMAIN s = 1..m /\ DOMAIN t = 1..n /\ DOMAIN u = 1..(m + n)
      /\ \A i \in 1..m : u[i] = s[i]
      /\ \A i \in 1..n : u[m + i] = t[i]
  BY <1>3 DEF Joins
<1>5. \A i \in 1..(m + n) : i \in 1..m \/ \E k \in 1..n : i = m + k
  BY <1>3 DEF Joins
<1>6. ASSUME NEW i \in 1..(m + n), NEW j \in 1..(m + n), i < j
      PROVE  MayFollow(u[i], u[j])
  <2>1. CASE i \in 1..m /\ j \in 1..m
    <3>1. MayFollow(s[i], s[j])
      BY <1>4, <1>6, <2>1 DEF Arranged
    <3> QED
      BY <1>4, <2>1, <3>1
  <2>2. CASE i \in 1..m /\ j \notin 1..m
    <3>1. PICK k \in 1..n : j = m + k
      BY <1>5, <2>2
    <3>2. s[i] \in ToSet(s) /\ t[k] \in ToSet(t)
      BY <1>4, <2>2 DEF ToSet
    <3> QED
      BY <1>4, <2>2, <3>1, <3>2
  <2>3. CASE i \notin 1..m
    <3>1. PICK k \in 1..n : i = m + k
      BY <1>5, <2>3
    <3>2. PICK l \in 1..n : j = m + l
      BY <1>2, <1>5, <1>6, <2>3
    <3>3. k < l
      BY <1>2, <1>6, <3>1, <3>2
    <3>4. MayFollow(t[k], t[l])
      BY <1>4, <3>3 DEF Arranged
    <3> QED
      BY <1>4, <3>1, <3>2, <3>4
  <2> QED
    BY <2>1, <2>2, <2>3
<1>7. ASSUME NEW i \in 1..(m + n), u[i].op = "trunc"
      PROVE  i + 1 \in 1..(m + n) /\ Refills(u[i + 1], u[i])
  <2>1. CASE i \in 1..m
    <3>1. i + 1 \in 1..m /\ Refills(s[i + 1], s[i])
      BY <1>4, <1>7, <2>1 DEF Arranged
    <3>2. i + 1 \in 1..(m + n)
      BY <1>2, <3>1
    <3> QED
      BY <1>4, <2>1, <3>1, <3>2
  <2>2. CASE i \notin 1..m
    <3>1. PICK k \in 1..n : i = m + k
      BY <1>5, <2>2
    <3>2. k + 1 \in 1..n /\ Refills(t[k + 1], t[k])
      BY <1>4, <1>7, <3>1 DEF Arranged
    <3>3. i + 1 = m + (k + 1) /\ i + 1 \in 1..(m + n)
      BY <1>2, <3>1, <3>2
    <3> QED
      BY <1>4, <3>1, <3>2, <3>3
  <2> QED
    BY <2>1, <2>2
<1> QED
  BY <1>1, <1>4, <1>6, <1>7 DEF Arranged

\* What is left of an arranged list.
LEMMA TailArranged ==
  ASSUME NEW s \in Seq(Step), s # <<>>, Arranged(s), NEW t, t = Tail(s)
  PROVE  /\ Arranged(t) /\ t \in Seq(Step) /\ s[1] \in Step
         /\ ToSet(s) = {s[1]} \cup ToSet(t) /\ ToSet(t) \subseteq Step
         /\ \A y \in ToSet(t) : MayFollow(s[1], y)
         /\ s[1].op = "trunc" => t # <<>> /\ Refills(t[1], s[1])
<1>1. PICK n : n = Len(s)
  OBVIOUS
<1>2. n \in Nat /\ Tails(s, t, n)
  BY <1>1, TailNamed
<1>3. /\ n >= 1 /\ DOMAIN s = 1..n /\ DOMAIN t = 1..(n - 1) /\ t \in Seq(Step) /\ s[1] \in Step
      /\ Len(t) = n - 1
      /\ \A i \in 1..(n - 1) : t[i] = s[i + 1]
      /\ \A i \in 1..n : i = 1 \/ (i - 1 \in 1..(n - 1) /\ s[i] = t[i - 1])
  BY <1>2 DEF Tails
<1>4. /\ 1 \in 1..n
      /\ \A i \in 1..(n - 1) : i + 1 \in 1..n /\ 1 < i + 1
  BY <1>2, <1>3
<1>5. ASSUME NEW i \in 1..(n - 1), NEW j \in 1..(n - 1), i < j
      PROVE  MayFollow(t[i], t[j])
  <2>1. i + 1 < j + 1
    BY <1>2, <1>5
  <2>2. MayFollow(s[i + 1], s[j + 1])
    BY <1>3, <1>4, <2>1 DEF Arranged
  <2> QED
    BY <1>3, <2>2
<1>6. ASSUME NEW i \in 1..(n - 1), t[i].op = "trunc"
      PROVE  i + 1 \in 1..(n - 1) /\ Refills(t[i + 1], t[i])
  <2>1. (i + 1) + 1 \in 1..n /\ Refills(s[(i + 1) + 1], s[i + 1])
    BY <1>3, <1>4, <1>6 DEF Arranged
  <2>2. i + 1 \in 1..(n - 1)
    BY <1>2, <2>1
  <2> QED
    BY <1>3, <2>1, <2>2
<1>7. Arranged(t)
  BY <1>3, <1>5, <1>6 DEF Arranged
<1>8. ToSet(s) = {s[1]} \cup ToSet(t)
  <2>1. ToSet(s) \subseteq {s[1]} \cup ToSet(t)
    BY <1>3 DEF ToSet
  <2>2. {s[1]} \cup ToSet(t) \subseteq ToSet(s)
    BY <1>3, <1>4 DEF ToSet
  <2> QED
    BY <2>1, <2>2
<1>9. ToSet(t) \subseteq Step
  <2>1. \A i \in DOMAIN t : t[i] \in Step
    BY <1>3, LenProperties, ElementOfSeq
  <2> QED
    BY <2>1 DEF ToSet
<1>10. ASSUME NEW y \in ToSet(t)
       PROVE  MayFollow(s[1], y)
  <2>1. PICK i \in 1..(n - 1) : y = s[i + 1]
    BY <1>3 DEF ToSet
  <2> QED
    BY <1>3, <1>4, <2>1 DEF Arranged
<1>11. ASSUME s[1].op = "trunc"
       PROVE  t # <<>> /\ Refills(t[1], s[1])
  <2>1. 1 + 1 \in 1..n /\ Refills(s[1 + 1], s[1])
    BY <1>3, <1>4, <1>11 DEF Arranged
  <2>2. 1 \in 1..(n - 1) /\ Len(t) # 0
    BY <1>2, <1>3, <2>1
  <2>3. t # <<>>
    BY <2>2, NonEmpty
  <2> QED
    BY <1>3, <2>1, <2>2, <2>3
<1> QED
  BY <1>3, <1>7, <1>8, <1>9, <1>10, <1>11


-----------------------------------------------------------------------------
(* What the list of a phase consists of.                                   *)

\* A program finds nothing in a file that was cut.
SomeCut == \E f \in Users : disk[f] = Cut

\* What phase p puts into its files, and what it copies.
Rightly(x, p) ==
    /\ x.op = "put" => /\ x.data \in {Cut, By(run', p)}
                       /\ x.data = Cut => SomeCut /\ x.file # "LASTPHASE"
                       /\ p = 1 => x.file # "BETA"
                       /\ p = 3 => x.file # "AUTOEXEC"
    /\ x.op = "from" => IF p = 1 THEN x.src = "AUTOEXEC" /\ x.file = "BETA"
                                 ELSE x.src = "BETA" /\ x.file = "AUTOEXEC"

\* A part of phase p: its operations are in O and the files that it writes in
\* F, and it does what G names.
Part(s, p, O, F, G) ==
    /\ s \in Seq(Step) /\ Arranged(s)
    /\ \A x \in ToSet(s) : x.op \in O /\ (Writes(x) => x.file \in F) /\ Rightly(x, p)
    /\ \A g \in G : \E x \in ToSet(s) : x.op = g[1] /\ x.file = g[2]

\* Which part may come after which.
Fits(O, F, P, H) ==
    /\ "LASTPHASE" \in F => P \subseteq Closing
    /\ "AUTOEXEC" \in F => "from" \notin P
    /\ "from" \in O \/ "erase" \in O => "BETA" \notin H
    /\ "erase" \in O => "from" \notin P

\* After these any part may come.
Doings == {"panel", "check", "abort", "save", "line", "unless", "trunc", "put"}
Calm == Files \ {"AUTOEXEC", "LASTPHASE"}

LEMMA PartJoin ==
  ASSUME NEW s, NEW t, NEW p, NEW O, NEW F, NEW G, NEW P, NEW H, NEW K, NEW Q, NEW I, NEW L,
         Part(s, p, O, F, G), Part(t, p, P, H, K), Fits(O, F, P, H),
         O \cup P \subseteq Q, F \cup H \subseteq I, L \subseteq G \cup K
  PROVE  Part(s \o t, p, Q, I, L)
<1>1. s \in Seq(Step) /\ t \in Seq(Step) /\ Arranged(s) /\ Arranged(t)
  BY DEF Part
<1>2. s \o t \in Seq(Step) /\ ToSet(s \o t) = ToSet(s) \cup ToSet(t)
  BY <1>1, StepSets, ConcatProperties
<1>3. \A x \in ToSet(s) : x.op \in O /\ (Writes(x) => x.file \in F) /\ Rightly(x, p)
  BY DEF Part
<1>4. \A y \in ToSet(t) : y.op \in P /\ (Writes(y) => y.file \in H) /\ Rightly(y, p)
  BY DEF Part
<1>5. ASSUME NEW x \in ToSet(s), NEW y \in ToSet(t)
      PROVE  MayFollow(x, y)
  <2>1. x.op \in O /\ (Writes(x) => x.file \in F) /\ y.op \in P /\ (Writes(y) => y.file \in H)
    BY <1>3, <1>4
  <2>2. Puts(x, "LASTPHASE") => y.op \in Closing
    BY <2>1 DEF Puts, Writes, Fits
  <2>3. WritesTo(x, "AUTOEXEC") => y.op # "from"
    BY <2>1 DEF WritesTo, Fits
  <2>4. x.op \in {"from", "erase"} => ~WritesTo(y, "BETA")
    BY <2>1 DEF WritesTo, Fits
  <2>5. x.op = "erase" => y.op # "from"
    BY <2>1 DEF Fits
  <2> QED
    BY <2>2, <2>3, <2>4, <2>5 DEF MayFollow
<1>6. Arranged(s \o t)
  BY <1>1, <1>5, JoinArranged
<1>7. \A x \in ToSet(s \o t) : x.op \in Q /\ (Writes(x) => x.file \in I) /\ Rightly(x, p)
  BY <1>2, <1>3, <1>4
<1>8. \A g \in L : \E x \in ToSet(s \o t) : x.op = g[1] /\ x.file = g[2]
  <2>1. \A g \in G : \E x \in ToSet(s) : x.op = g[1] /\ x.file = g[2]
    BY DEF Part
  <2>2. \A g \in K : \E x \in ToSet(t) : x.op = g[1] /\ x.file = g[2]
    BY DEF Part
  <2> QED
    BY <1>2, <2>1, <2>2
<1> QED
  BY <1>2, <1>6, <1>7, <1>8 DEF Part

\* A part of one step, and of two.
LEMMA OneArranged ==
  ASSUME NEW x \in Step, x.op # "trunc"
  PROVE  <<x>> \in Seq(Step) /\ Arranged(<<x>>) /\ ToSet(<<x>>) = {x}
<1>1. PICK s : s = <<x>>
  OBVIOUS
<1>2. s \in Seq(Step) /\ DOMAIN s = {1} /\ s[1] = x
  BY <1>1, Single
<1>3. Arranged(s)
  <2>1. ~(1 < 1)
    OBVIOUS
  <2>2. \A i, j \in DOMAIN s : i < j => MayFollow(s[i], s[j])
    BY <1>2, <2>1
  <2> QED
    BY <1>2, <2>2 DEF Arranged
<1> QED
  BY <1>1, <1>2, <1>3, StepSets

LEMMA TwoArranged ==
  ASSUME NEW x \in Step, NEW y \in Step, MayFollow(x, y),
         x.op = "trunc" => Refills(y, x), y.op # "trunc"
  PROVE  <<x, y>> \in Seq(Step) /\ Arranged(<<x, y>>) /\ ToSet(<<x, y>>) = {x, y}
<1>1. PICK s : s = <<x, y>>
  OBVIOUS
<1>2. s \in Seq(Step) /\ Len(s) = 2 /\ s[1] = x /\ s[2] = y
  BY <1>1
<1>3. DOMAIN s = 1..2
  BY <1>2, LenProperties
<1>4. DOMAIN s = {1, 2}
  BY <1>3
<1>5. ASSUME NEW i \in DOMAIN s, NEW j \in DOMAIN s, i < j
      PROVE  MayFollow(s[i], s[j])
  <2>1. i = 1 /\ j = 2
    BY <1>4, <1>5
  <2> QED
    BY <1>2, <2>1
<1>6. ASSUME NEW i \in DOMAIN s, s[i].op = "trunc"
      PROVE  i + 1 \in DOMAIN s /\ Refills(s[i + 1], s[i])
  <2>1. i = 1
    BY <1>2, <1>4, <1>6
  <2>2. i + 1 = 2
    BY <2>1
  <2> QED
    BY <1>2, <1>4, <1>6, <2>1, <2>2
<1>7. Arranged(s)
  BY <1>5, <1>6 DEF Arranged
<1> QED
  BY <1>1, <1>2, <1>7, StepSets

\* The pieces.
LEMMA PlainPart ==
  ASSUME NEW o \in Plain \cup {"reboot"}, NEW p, NEW O, o \in O, NEW F
  PROVE  Part(<<Op(o, "")>>, p, O, F, {})
<1>1. PICK x : x = Op(o, "")
  OBVIOUS
<1>2. x \in Step /\ x.op = o
  BY <1>1, PlainStep DEF Ends
<1>3. o \notin {"trunc", "put", "from", "copy"}
  BY DEF Plain
<1>4. <<x>> \in Seq(Step) /\ Arranged(<<x>>) /\ ToSet(<<x>>) = {x}
  BY <1>2, <1>3, OneArranged
<1>5. ~Writes(x) /\ Rightly(x, p)
  BY <1>2, <1>3 DEF Writes, Rightly
<1>6. Part(<<x>>, p, O, F, {})
  BY <1>2, <1>4, <1>5 DEF Part
<1> QED
  BY <1>1, <1>6

LEMMA ErasePart ==
  ASSUME NEW p, NEW F
  PROVE  Part(<<Op("erase", "BETA")>>, p, {"erase"}, F, {<<"erase", "BETA">>})
<1>1. PICK x : x = Op("erase", "BETA")
  OBVIOUS
<1>2. x \in Step /\ x.op = "erase" /\ x.file = "BETA"
  BY <1>1, EraseStep
<1>3. <<x>> \in Seq(Step) /\ Arranged(<<x>>) /\ ToSet(<<x>>) = {x}
  BY <1>2, OneArranged
<1>4. ~Writes(x) /\ Rightly(x, p)
  BY <1>2 DEF Writes, Rightly
<1>5. Part(<<x>>, p, {"erase"}, F, {<<"erase", "BETA">>})
  BY <1>2, <1>3, <1>4 DEF Part
<1> QED
  BY <1>1, <1>5

LEMMA EmptyPart ==
  ASSUME NEW p, NEW O, NEW F
  PROVE  Part(<<>>, p, O, F, {})
<1>1. PICK s : s = <<>>
  OBVIOUS
<1>2. s \in Seq(Step) /\ DOMAIN s = {}
  BY <1>1, EmptySeq, LenProperties
<1>3. ToSet(s) = {} /\ Arranged(s)
  BY <1>2 DEF ToSet, Arranged
<1>4. Part(s, p, O, F, {})
  BY <1>2, <1>3 DEF Part
<1> QED
  BY <1>1, <1>4

LEMMA WritePart ==
  ASSUME NEW f \in Files, NEW c \in Content, c # None, NEW p, NEW O, NEW F,
         c \in {Cut, By(run', p)}, c = Cut => SomeCut /\ f # "LASTPHASE",
         p = 1 => f # "BETA", p = 3 => f # "AUTOEXEC",
         {"trunc", "put"} \subseteq O, f \in F
  PROVE  Part(Write(f, c), p, O, F, {<<"put", f>>})
<1>1. PICK x, y : x = Op("trunc", f) /\ y = Line("put", f, c)
  OBVIOUS
<1>2. /\ x \in Step /\ x.op = "trunc" /\ x.file = f
      /\ y \in Step /\ y.op = "put" /\ y.file = f /\ y.data = c
  BY <1>1, TruncStep, PutStep
<1>3. MayFollow(x, y) /\ Refills(y, x)
  BY <1>2 DEF MayFollow, Puts, Refills
<1>4. <<x, y>> \in Seq(Step) /\ Arranged(<<x, y>>) /\ ToSet(<<x, y>>) = {x, y}
  BY <1>2, <1>3, TwoArranged
<1>5. Rightly(x, p) /\ Rightly(y, p)
  BY <1>2 DEF Rightly
<1>6. Part(<<x, y>>, p, O, F, {<<"put", f>>})
  BY <1>2, <1>4, <1>5 DEF Part
<1> QED
  BY <1>1, <1>6 DEF Write

LEMMA CopyPart ==
  ASSUME NEW p, NEW g, NEW f,
         \/ p = 1 /\ g = "AUTOEXEC" /\ f = "BETA"
         \/ p = 3 /\ g = "BETA" /\ f = "AUTOEXEC"
  PROVE  Part(CopyFile(g, f), p, {"trunc", "from"}, {f}, {<<"from", f>>})
<1>1. PICK x, y : x = Op("trunc", f) /\ y = [op |-> "from", file |-> f, src |-> g]
  OBVIOUS
<1>2. f \in Files /\ f \in {"AUTOEXEC", "BETA"} /\ g \in {"AUTOEXEC", "BETA"}
  BY DEF Files, Users
<1>3. y \in Step /\ y.op = "from" /\ y.file = f /\ y.src = g
  <2>1. y \in [op : {"from"}, file : {"AUTOEXEC", "BETA"}, src : {"AUTOEXEC", "BETA"}]
    BY <1>1, <1>2
  <2> QED
    BY <1>1, <2>1 DEF Step
<1>4. x \in Step /\ x.op = "trunc" /\ x.file = f
  BY <1>1, <1>2, TruncStep
<1>5. MayFollow(x, y) /\ Refills(y, x)
  BY <1>3, <1>4 DEF MayFollow, Puts, WritesTo, Refills
<1>6. <<x, y>> \in Seq(Step) /\ Arranged(<<x, y>>) /\ ToSet(<<x, y>>) = {x, y}
  BY <1>3, <1>4, <1>5, TwoArranged
<1>7. Rightly(x, p) /\ Rightly(y, p)
  BY <1>3, <1>4 DEF Rightly
<1>8. Part(<<x, y>>, p, {"trunc", "from"}, {f}, {<<"from", f>>})
  BY <1>3, <1>4, <1>6, <1>7 DEF Part
<1> QED
  BY <1>1, <1>8 DEF CopyFile

LEMMA BackupPart ==
  ASSUME NEW f \in Users, NEW p, NEW O, NEW F, {"save", "line"} \subseteq O
  PROVE  Part(Backup(f), p, O, F, {})
<1>1. PICK x, y : x = Op("save", f) /\ y = Op("line", f)
  OBVIOUS
<1>2. /\ x \in Step /\ x.op = "save"
      /\ y \in Step /\ y.op = "line"
  BY <1>1, BackupSteps
<1>3. MayFollow(x, y)
  BY <1>2 DEF MayFollow, Puts, WritesTo, Writes
<1>4. <<x, y>> \in Seq(Step) /\ Arranged(<<x, y>>) /\ ToSet(<<x, y>>) = {x, y}
  BY <1>2, <1>3, TwoArranged
<1>5. Rightly(x, p) /\ Rightly(y, p) /\ ~Writes(x) /\ ~Writes(y)
  BY <1>2 DEF Rightly, Writes
<1>6. Part(<<x, y>>, p, O, F, {})
  BY <1>2, <1>4, <1>5 DEF Part
<1> QED
  BY <1>1, <1>6 DEF Backup

LEMMA UnlessPart ==
  ASSUME NEW t, NEW p, NEW O, NEW F, NEW G, Part(t, p, O, F, G), "unless" \in O
  PROVE  Part(Unless(t), p, O, F, G)
<1>1. PICK x : x = [op |-> "unless", n |-> Len(t)]
  OBVIOUS
<1>2. Len(t) \in Nat
  BY LenProperties DEF Part
<1>3. x \in Step /\ x.op = "unless"
  <2>1. x \in [op : {"unless"}, n : Nat]
    BY <1>1, <1>2
  <2> QED
    BY <1>1, <2>1 DEF Step
<1>4. <<x>> \in Seq(Step) /\ Arranged(<<x>>) /\ ToSet(<<x>>) = {x}
  BY <1>3, OneArranged
<1>5. Part(<<x>>, p, {"unless"}, {}, {})
  <2>1. ~Writes(x) /\ Rightly(x, p)
    BY <1>3 DEF Writes, Rightly
  <2> QED
    BY <1>3, <1>4, <2>1 DEF Part
<1>6. Fits({"unless"}, {}, O, F)
  BY DEF Fits
<1>7. {"unless"} \cup O \subseteq O /\ {} \cup F \subseteq F /\ G \subseteq {} \cup G
  OBVIOUS
<1>8. Part(<<x>> \o t, p, O, F, G)
  BY <1>5, <1>6, <1>7, PartJoin
<1> QED
  BY <1>1, <1>8 DEF Unless


\* A file with nothing in it is not written by wrbatfile.
Batch(f) == IF disk[f] \in {None, Cut} THEN {} ELSE {<<"put", f>>}

LEMMA BatPart ==
  ASSUME run' \in 0..MaxRuns, NEW p \in {2, 3}, NEW f \in {"BETA", "BATCH"}
  PROVE  Part(wrbatfile(p, f), p, Doings, Calm, Batch(f))
<1>1. CASE disk[f] \in {None, Cut}
  <2>1. wrbatfile(p, f) = <<>> /\ Batch(f) = {}
    BY <1>1 DEF wrbatfile, Batch
  <2> QED
    BY <2>1, EmptyPart
<1>2. CASE disk[f] \notin {None, Cut}
  <2>1. Batch(f) = {<<"put", f>>}
    BY <1>2 DEF Batch
  <2>2. f \in Files /\ f \in Calm /\ (f # "BETA" => f \in Users) /\ f # "LASTPHASE"
    BY DEF Files, Users, Calm
  <2>3. By(run', p) \in Content /\ By(run', p) # None /\ By(run', p) # Cut
    BY Contents
  <2> DEFINE m == IF p = 2 /\ f # "BETA" THEN Backup(f) ELSE <<>>
             W == Write(f, By(run', p))
             a == Check \o m
             b == a \o W
             G == {<<"put", f>>}
  <2>4. Part(Check, p, Doings, Calm, {}) /\ Part(Abort, p, Doings, Calm, {})
    BY PlainPart DEF Check, Abort, Doings, Plain
  <2>5. Part(m, p, Doings, Calm, {})
    <3>1. CASE p = 2 /\ f # "BETA"
      BY <2>2, <3>1, BackupPart DEF Doings
    <3>2. CASE ~(p = 2 /\ f # "BETA")
      BY <3>2, EmptyPart
    <3> QED
      BY <3>1, <3>2
  <2>6. Part(W, p, Doings, Calm, G)
    <3>1. p = 1 => f # "BETA"
      OBVIOUS
    <3>2. p = 3 => f # "AUTOEXEC"
      OBVIOUS
    <3>3. {"trunc", "put"} \subseteq Doings
      BY DEF Doings
    <3>4. By(run', p) \in {Cut, By(run', p)}
      OBVIOUS
    <3> QED
      BY <2>2, <2>3, <3>1, <3>2, <3>3, <3>4, WritePart
  <2>7. Fits(Doings, Calm, Doings, Calm)
    BY DEF Fits, Doings, Calm, Plain
  <2>8. /\ Doings \cup Doings \subseteq Doings /\ Calm \cup Calm \subseteq Calm
        /\ {} \subseteq {} \cup {} /\ G \subseteq {} \cup G /\ G \subseteq G \cup {}
    OBVIOUS
  <2> HIDE DEF m, W, G
  <2>9. Part(a, p, Doings, Calm, {})
    BY <2>4, <2>5, <2>7, <2>8, PartJoin
  <2>10. Part(b, p, Doings, Calm, G)
    <3> HIDE DEF a
    <3> QED
      BY <2>6, <2>7, <2>8, <2>9, PartJoin
  <2>11. Part(b \o Abort, p, Doings, Calm, G)
    <3> HIDE DEF b
    <3> QED
      BY <2>4, <2>7, <2>8, <2>10, PartJoin
  <2>12. wrbatfile(p, f) = b \o Abort
    BY <1>2 DEF wrbatfile, a, b, m, W
  <2> QED
    BY <2>1, <2>11, <2>12 DEF G
<1> QED
  BY <1>1, <1>2

\* The files of the system, as a phase rewrites them.
LEMMA RewritePart ==
  ASSUME run' \in 0..MaxRuns, NEW p \in 1..3, NEW f \in {"CONFIG", "PROFILE"}, NEW F, f \in F,
         NEW O, Doings \subseteq O
  PROVE  Part(Write(f, Rewritten(p, f)), p, O, F, {<<"put", f>>})
<1>1. Rewritten(p, f) \in Content /\ Rewritten(p, f) # None
  BY RewrittenContent
<1>2. f \in Files /\ f \in Users /\ f # "LASTPHASE" /\ f # "BETA" /\ f # "AUTOEXEC"
  BY DEF Files, Users
<1>3. By(run', p) # Cut
  BY Contents
<1>4. Rewritten(p, f) \in {Cut, By(run', p)}
  BY DEF Rewritten
<1>5. Rewritten(p, f) = Cut => SomeCut
  BY <1>2, <1>3 DEF Rewritten, SomeCut
<1>6. {"trunc", "put"} \subseteq O
  BY DEF Doings
<1> QED
  BY <1>1, <1>2, <1>4, <1>5, <1>6, WritePart

\* The end of a phase, whatever it has done before.
Reboots == {"check", "reboot"}
LEMMA Closed ==
  ASSUME NEW s, NEW p, NEW O, NEW F, NEW G, Part(s, p, O, F, G)
  PROVE  Part(s \o Check \o <<Op("reboot", "")>>, p, O \cup Reboots, F, G)
<1>1. PICK c, r, N, P, a :
         /\ c = Check /\ r = <<Op("reboot", "")>> /\ N = {} /\ P = O \cup Reboots
         /\ a = s \o c
  OBVIOUS
<1>2. Part(c, p, Reboots, N, N) /\ Part(r, p, Reboots, N, N)
  BY <1>1, PlainPart DEF Check, Plain, Reboots
<1>3. Fits(O, F, Reboots, N) /\ Fits(P, F, Reboots, N)
  BY <1>1 DEF Fits, Reboots, Closing
<1>4. /\ O \cup Reboots \subseteq P /\ P \cup Reboots \subseteq P
      /\ F \cup N \subseteq F /\ G \subseteq G \cup N
  BY <1>1
<1>5. Part(a, p, P, F, G)
  BY <1>1, <1>2, <1>3, <1>4, PartJoin
<1>6. Part(a \o r, p, P, F, G)
  BY <1>2, <1>3, <1>4, <1>5, PartJoin
<1> QED
  BY <1>1, <1>6

LEMMA DorebootPart ==
  ASSUME run' \in 0..MaxRuns, NEW p \in {1, 2}
  PROVE  Part(doreboot(p), p, Doings \cup Reboots, {"AUTOEXEC", "LASTPHASE"}, {})
<1>1. /\ By(run', p) \in Content /\ By(run', p) # None /\ By(run', p) # Cut
      /\ By(run', p) \in {Cut, By(run', p)}
  BY Contents
<1>2. "AUTOEXEC" \in Files /\ "LASTPHASE" \in Files
  BY DEF Files, Users
<1> DEFINE WA == Write("AUTOEXEC", By(run', p))
           WL == Write("LASTPHASE", By(run', p))
           FA == {"AUTOEXEC"}
           FL == {"AUTOEXEC", "LASTPHASE"}
           a == Panel \o WA
           b == a \o Check
           c == b \o WL
           G == {}
<1>3. Part(Panel, p, Doings, FA, {}) /\ Part(Check, p, Doings, FA, {})
  BY PlainPart DEF Panel, Check, Doings, Plain
<1>4. {"trunc", "put"} \subseteq Doings
  BY DEF Doings
<1>5. Part(WA, p, Doings, FA, {<<"put", "AUTOEXEC">>})
  <2>1. "AUTOEXEC" \in FA /\ "AUTOEXEC" # "BETA" /\ ~(p = 3)
    OBVIOUS
  <2> QED
    BY <1>1, <1>2, <1>4, <2>1, WritePart
<1>6. Part(WL, p, Doings, {"LASTPHASE"}, {<<"put", "LASTPHASE">>})
  <2>1. "LASTPHASE" \in {"LASTPHASE"} /\ "LASTPHASE" # "BETA" /\ "LASTPHASE" # "AUTOEXEC"
    OBVIOUS
  <2> QED
    BY <1>1, <1>2, <1>4, <2>1, WritePart
<1>7. Fits(Doings, FA, Doings, FA) /\ Fits(Doings, FA, Doings, {"LASTPHASE"})
  BY DEF Fits, Doings, Plain
<1>8. /\ Doings \cup Doings \subseteq Doings /\ FA \cup FA \subseteq FA
      /\ FA \cup {"LASTPHASE"} \subseteq FL
      /\ \A K : {} \subseteq {} \cup K
  OBVIOUS
<1> HIDE DEF WA, WL, FA, FL
<1>9. Part(a, p, Doings, FA, {})
  BY <1>3, <1>5, <1>7, <1>8, PartJoin
<1>10. Part(b, p, Doings, FA, {})
  <2> HIDE DEF a
  <2> QED
    BY <1>3, <1>7, <1>8, <1>9, PartJoin
<1>11. Part(c, p, Doings, FL, {})
  <2> HIDE DEF b
  <2> QED
    BY <1>6, <1>7, <1>8, <1>10, PartJoin
<1>12. Part(c \o Check \o <<Op("reboot", "")>>, p, Doings \cup Reboots, FL, {})
  <2> HIDE DEF c
  <2> QED
    BY <1>11, Closed
<1>13. doreboot(p) = c \o Check \o <<Op("reboot", "")>>
  BY DEF doreboot, a, b, c, WA, WL
<1> QED
  BY <1>12, <1>13 DEF FL


\* Parts that fit in any order.
LEMMA PartNext ==
  ASSUME NEW s, NEW t, NEW p, NEW O, NEW F, NEW G, NEW H, NEW K,
         Part(s, p, O, F, G), Part(t, p, O, F, H), O \cap {"from", "erase"} = {},
         F \subseteq Calm, K \subseteq G \cup H
  PROVE  Part(s \o t, p, O, F, K)
<1>1. Fits(O, F, O, F)
  BY DEF Fits, Calm
<1>2. O \cup O \subseteq O /\ F \cup F \subseteq F
  OBVIOUS
<1> QED
  BY <1>1, <1>2, PartJoin

\* What phase 1 does, and what it brings about.
Ops1 == Doings \cup {"create", "from", "reboot"}
Goals1 == {<<"put", "CONFIG">>, <<"put", "PROFILE">>, <<"from", "BETA">>}
LEMMA Pass1Part ==
  ASSUME run' \in 0..MaxRuns
  PROVE  Part(pass1, 1, Ops1, Files \ {"BATCH"}, Goals1)
<1> DEFINE O == Doings \cup {"create"}
           Q == Doings \cup {"from"}
           F == {"CONFIG", "PROFILE"}
           P == {<<"put", "PROFILE">>}
           G == {<<"put", "CONFIG">>, <<"put", "PROFILE">>}
           X == <<Op("create", "")>>
           W1 == Write("PROFILE", Rewritten(1, "PROFILE"))
           W2 == Write("CONFIG", Rewritten(1, "CONFIG"))
           C == CopyFile("AUTOEXEC", "BETA")
           B1 == Backup("PROFILE")
           B2 == Backup("CONFIG")
           B3 == Backup("AUTOEXEC")
           a1 == X \o Panel
           a2 == a1 \o B1
           a3 == a2 \o Check
           a4 == a3 \o W1
           a5 == a4 \o B2
           a6 == a5 \o Check
           a7 == a6 \o W2
           a8 == a7 \o Check
           b1 == a8 \o C
           b2 == b1 \o B3
           b3 == b2 \o Check
           b4 == b3 \o doreboot(1)
<1>1. /\ Part(X, 1, O, F, {}) /\ Part(Panel, 1, O, F, {}) /\ Part(Check, 1, O, F, {})
      /\ Part(Check, 1, Q, F, {})
  BY PlainPart DEF Panel, Check, Doings, Plain
<1>2. /\ Part(B1, 1, O, F, {}) /\ Part(B2, 1, O, F, {}) /\ Part(B3, 1, Doings, {}, {})
      /\ Part(Check, 1, Doings, {}, {})
  <2>1. "PROFILE" \in Users /\ "CONFIG" \in Users /\ "AUTOEXEC" \in Users
    BY DEF Users
  <2>2. {"save", "line"} \subseteq O /\ {"save", "line"} \subseteq Doings
    BY DEF Doings
  <2> QED
    BY <2>1, <2>2, BackupPart, PlainPart DEF Check, Doings, Plain
<1>3. Part(W1, 1, O, F, P) /\ Part(W2, 1, O, F, {<<"put", "CONFIG">>})
  <2>1. Doings \subseteq O /\ 1 \in 1..3 /\ "PROFILE" \in F /\ "CONFIG" \in F
    OBVIOUS
  <2> QED
    BY <2>1, RewritePart
<1>4. Part(C, 1, {"trunc", "from"}, {"BETA"}, {<<"from", "BETA">>})
  BY CopyPart
<1>5. Part(doreboot(1), 1, Doings \cup Reboots, {"AUTOEXEC", "LASTPHASE"}, {})
  BY DorebootPart
<1>6. /\ O \cap {"from", "erase"} = {} /\ F \subseteq Calm
      /\ \A K : {} \subseteq {} \cup K /\ K \subseteq {} \cup K /\ K \subseteq K \cup {}
      /\ G \subseteq P \cup {<<"put", "CONFIG">>}
  BY DEF Doings, Calm, Files, Users
<1>7. /\ Fits(O, F, {"trunc", "from"}, {"BETA"})
      /\ Fits(Ops1, F \cup {"BETA"}, Doings, {})
      /\ Fits(Ops1, F \cup {"BETA"}, Doings \cup Reboots, {"AUTOEXEC", "LASTPHASE"})
  BY DEF Fits, Ops1, Doings, Reboots
<1>8. /\ O \cup {"trunc", "from"} \subseteq Ops1 /\ Ops1 \cup Doings \subseteq Ops1
      /\ Ops1 \cup (Doings \cup Reboots) \subseteq Ops1
      /\ (F \cup {"BETA"}) \cup {} \subseteq F \cup {"BETA"}
      /\ F \cup {"BETA"} \subseteq F \cup {"BETA"}
      /\ (F \cup {"BETA"}) \cup {"AUTOEXEC", "LASTPHASE"} \subseteq Files \ {"BATCH"}
      /\ Goals1 \subseteq G \cup {<<"from", "BETA">>}
      /\ Goals1 \subseteq Goals1 \cup {}
  BY DEF Ops1, Doings, Reboots, Goals1, Files, Users
<1> HIDE DEF O, Q, F, P, G, X, W1, W2, C, B1, B2, B3, a1, a2, a3, a4, a5, a6, a7, a8, b1, b2, b3, b4
<1>9. Part(a1, 1, O, F, {})
  BY <1>1, <1>6, PartNext DEF a1
<1>10. Part(a2, 1, O, F, {})
  BY <1>2, <1>6, <1>9, PartNext DEF a2
<1>11. Part(a3, 1, O, F, {})
  BY <1>1, <1>6, <1>10, PartNext DEF a3
<1>12. Part(a4, 1, O, F, P)
  BY <1>3, <1>6, <1>11, PartNext DEF a4
<1>13. Part(a5, 1, O, F, P)
  BY <1>2, <1>6, <1>12, PartNext DEF a5
<1>14. Part(a6, 1, O, F, P)
  BY <1>1, <1>6, <1>13, PartNext DEF a6
<1>15. Part(a7, 1, O, F, G)
  BY <1>3, <1>6, <1>14, PartNext DEF a7
<1>16. Part(a8, 1, O, F, G)
  BY <1>1, <1>6, <1>15, PartNext DEF a8
<1>17. Part(b1, 1, Ops1, F \cup {"BETA"}, Goals1)
  BY <1>4, <1>7, <1>8, <1>16, PartJoin DEF b1
<1>18. Part(b2, 1, Ops1, F \cup {"BETA"}, Goals1)
  BY <1>2, <1>7, <1>8, <1>17, PartJoin DEF b2
<1>19. Part(b3, 1, Ops1, F \cup {"BETA"}, Goals1)
  BY <1>2, <1>7, <1>8, <1>18, PartJoin DEF b3
<1>20. Part(b4, 1, Ops1, Files \ {"BATCH"}, Goals1)
  BY <1>5, <1>7, <1>8, <1>19, PartJoin DEF b4
<1>21. pass1 = b4
  BY DEF pass1, X, W1, W2, C, B1, B2, B3, a1, a2, a3, a4, a5, a6, a7, a8, b1, b2, b3, b4
<1> QED
  BY <1>20, <1>21

\* The same of phase 2.
Ops2 == Doings \cup {"reboot"}
Goals2 == {<<"put", "CONFIG">>, <<"put", "PROFILE">>} \cup Batch("BETA") \cup Batch("BATCH")
LEMMA Pass2Part ==
  ASSUME run' \in 0..MaxRuns
  PROVE  Part(pass2, 2, Ops2, Files, Goals2)
<1> DEFINE F == Calm
           P == {<<"put", "CONFIG">>}
           G1 == P \cup Batch("BETA")
           G2 == G1 \cup Batch("BATCH")
           W1 == Write("CONFIG", Rewritten(2, "CONFIG"))
           W2 == Write("PROFILE", Rewritten(2, "PROFILE"))
           B1 == wrbatfile(2, "BETA")
           B2 == wrbatfile(2, "BATCH")
           a1 == Panel \o W1
           a2 == a1 \o B1
           a3 == a2 \o B2
           a4 == a3 \o Check
           a5 == a4 \o Panel
           a6 == a5 \o W2
           a7 == a6 \o doreboot(2)
<1>1. Part(Panel, 2, Doings, F, {}) /\ Part(Check, 2, Doings, F, {})
  BY PlainPart DEF Panel, Check, Doings, Plain
<1>2. Part(B1, 2, Doings, F, Batch("BETA")) /\ Part(B2, 2, Doings, F, Batch("BATCH"))
  BY BatPart
<1>3. Part(W1, 2, Doings, F, P) /\ Part(W2, 2, Doings, F, {<<"put", "PROFILE">>})
  <2>1. Doings \subseteq Doings /\ 2 \in 1..3 /\ "PROFILE" \in F /\ "CONFIG" \in F
    BY DEF Calm, Files, Users
  <2> QED
    BY <2>1, RewritePart
<1>4. Part(doreboot(2), 2, Doings \cup Reboots, {"AUTOEXEC", "LASTPHASE"}, {})
  BY DorebootPart
<1>5. /\ Doings \cap {"from", "erase"} = {} /\ F \subseteq Calm
      /\ \A K : K \subseteq {} \cup K /\ K \subseteq K \cup {}
      /\ G1 \subseteq P \cup Batch("BETA") /\ G2 \subseteq G1 \cup Batch("BATCH")
      /\ Goals2 \subseteq G2 \cup {<<"put", "PROFILE">>} /\ Goals2 \subseteq Goals2 \cup {}
  BY DEF Doings, Goals2
<1>6. Fits(Doings, F, Doings \cup Reboots, {"AUTOEXEC", "LASTPHASE"})
  BY DEF Fits, Doings, Reboots, Calm
<1>7. /\ Doings \cup (Doings \cup Reboots) \subseteq Ops2
      /\ F \cup {"AUTOEXEC", "LASTPHASE"} \subseteq Files
  BY DEF Ops2, Doings, Reboots, Calm, Files, Users
<1> HIDE DEF F, P, G1, G2, W1, W2, B1, B2, a1, a2, a3, a4, a5, a6, a7
<1>8. Part(a1, 2, Doings, F, P)
  BY <1>1, <1>3, <1>5, PartNext DEF a1
<1>9. Part(a2, 2, Doings, F, G1)
  BY <1>2, <1>5, <1>8, PartNext DEF a2
<1>10. Part(a3, 2, Doings, F, G2)
  BY <1>2, <1>5, <1>9, PartNext DEF a3
<1>11. Part(a4, 2, Doings, F, G2)
  BY <1>1, <1>5, <1>10, PartNext DEF a4
<1>12. Part(a5, 2, Doings, F, G2)
  BY <1>1, <1>5, <1>11, PartNext DEF a5
<1>13. Part(a6, 2, Doings, F, Goals2)
  BY <1>3, <1>5, <1>12, PartNext DEF a6
<1>14. Part(a7, 2, Ops2, Files, Goals2)
  BY <1>4, <1>5, <1>6, <1>7, <1>13, PartJoin DEF a7
<1>15. pass2 = a7
  BY DEF pass2, W1, W2, B1, B2, a1, a2, a3, a4, a5, a6, a7
<1> QED
  BY <1>14, <1>15

\* And of phase 3.
Ops3 == Doings \cup {"from", "erase", "reboot"}
Goals3 == Goals2 \cup {<<"from", "AUTOEXEC">>, <<"erase", "BETA">>}
LEMMA Pass3Part ==
  ASSUME run' \in 0..MaxRuns
  PROVE  Part(pass3, 3, Ops3, Files, Goals3)
<1> DEFINE F == Calm
           F3 == Calm \cup {"AUTOEXEC"}
           Q == Doings \cup {"from"}
           O == Doings \cup {"from", "erase"}
           P == {<<"put", "CONFIG">>}
           R == {<<"put", "PROFILE">>}
           PR == P \cup R
           BA == Batch("BETA") \cup Batch("BATCH")
           GC == Goals2 \cup {<<"from", "AUTOEXEC">>}
           W1 == Write("CONFIG", Rewritten(3, "CONFIG"))
           W2 == Unless(Write("PROFILE", Rewritten(3, "PROFILE")))
           BB == wrbatfile(3, "BETA") \o wrbatfile(3, "BATCH")
           B == Unless(BB)
           C == CopyFile("BETA", "AUTOEXEC")
           E == <<Op("erase", "BETA")>>
           L == Write("LASTPHASE", By(run', 3))
           a1 == W1 \o W2
           a2 == a1 \o B
           a3 == a2 \o C
           a4 == a3 \o E
           b1 == Panel \o a4
           b2 == b1 \o Check
           b3 == b2 \o L
<1>1. Part(Panel, 3, Doings, {}, {}) /\ Part(Check, 3, Doings, {}, {})
  BY PlainPart DEF Panel, Check, Doings, Plain
<1>2. Part(W1, 3, Doings, F, P) /\ Part(W2, 3, Doings, F, R)
  <2>1. Doings \subseteq Doings /\ 3 \in 1..3 /\ "PROFILE" \in F /\ "CONFIG" \in F /\ "unless" \in Doings
    BY DEF Calm, Files, Users, Doings
  <2>2. Part(W1, 3, Doings, F, P) /\ Part(Write("PROFILE", Rewritten(3, "PROFILE")), 3, Doings, F, R)
    BY <2>1, RewritePart
  <2> QED
    BY <2>1, <2>2, UnlessPart
<1>3. /\ Doings \cap {"from", "erase"} = {} /\ F \subseteq Calm /\ "unless" \in Doings
      /\ BA \subseteq Batch("BETA") \cup Batch("BATCH") /\ PR \subseteq P \cup R
      /\ Goals2 \subseteq PR \cup BA /\ GC \subseteq Goals2 \cup {<<"from", "AUTOEXEC">>}
      /\ Goals3 \subseteq GC \cup {<<"erase", "BETA">>}
      /\ \A K : K \subseteq {} \cup K /\ K \subseteq K \cup {}
  BY DEF Doings, Goals2, Goals3
<1>4. Part(B, 3, Doings, F, BA)
  <2>1. /\ Part(wrbatfile(3, "BETA"), 3, Doings, F, Batch("BETA"))
        /\ Part(wrbatfile(3, "BATCH"), 3, Doings, F, Batch("BATCH"))
    BY BatPart
  <2> HIDE DEF F, BA
  <2>2. Part(BB, 3, Doings, F, BA)
    BY <1>3, <2>1, PartNext
  <2> HIDE DEF BB
  <2> QED
    BY <1>3, <2>2, UnlessPart
<1>5. Part(C, 3, {"trunc", "from"}, {"AUTOEXEC"}, {<<"from", "AUTOEXEC">>})
  BY CopyPart
<1>6. Part(E, 3, {"erase"}, {}, {<<"erase", "BETA">>})
  BY ErasePart
<1>7. Part(L, 3, Doings, {"LASTPHASE"}, {<<"put", "LASTPHASE">>})
  <2>1. /\ By(run', 3) \in Content /\ By(run', 3) # None /\ By(run', 3) # Cut
        /\ By(run', 3) \in {Cut, By(run', 3)}
    BY Contents
  <2>2. "LASTPHASE" \in Files /\ "LASTPHASE" \in {"LASTPHASE"}
    BY DEF Files
  <2>3. {"trunc", "put"} \subseteq Doings
    BY DEF Doings
  <2> QED
    BY <2>1, <2>2, <2>3, WritePart
<1>8. /\ Fits(Doings, F, {"trunc", "from"}, {"AUTOEXEC"})
      /\ Fits(Q, F3, {"erase"}, {})
      /\ Fits(Doings, {}, O, F3)
      /\ Fits(O, F3, Doings, {})
      /\ Fits(O, F3, Doings, {"LASTPHASE"})
  BY DEF Fits, Doings, Calm
<1>9. /\ Doings \cup {"trunc", "from"} \subseteq Q /\ Q \cup {"erase"} \subseteq O
      /\ Doings \cup O \subseteq O /\ O \cup Doings \subseteq O /\ O \cup Reboots \subseteq Ops3
      /\ F \cup {"AUTOEXEC"} \subseteq F3 /\ F3 \cup {} \subseteq F3 /\ {} \cup F3 \subseteq F3
      /\ F3 \cup {"LASTPHASE"} \subseteq Files
  BY DEF Ops3, Doings, Reboots, Calm, Files, Users
<1> HIDE DEF F, F3, Q, O, P, R, PR, BA, GC, W1, W2, BB, B, C, E, L, a1, a2, a3, a4, b1, b2, b3
<1>10. Part(a1, 3, Doings, F, PR)
  BY <1>2, <1>3, PartNext DEF a1
<1>11. Part(a2, 3, Doings, F, Goals2)
  BY <1>3, <1>4, <1>10, PartNext DEF a2
<1>12. Part(a3, 3, Q, F3, GC)
  BY <1>3, <1>5, <1>8, <1>9, <1>11, PartJoin DEF a3
<1>13. Part(a4, 3, O, F3, Goals3)
  BY <1>3, <1>6, <1>8, <1>9, <1>12, PartJoin DEF a4
<1>14. Part(b1, 3, O, F3, Goals3)
  BY <1>1, <1>3, <1>8, <1>9, <1>13, PartJoin DEF b1
<1>15. Part(b2, 3, O, F3, Goals3)
  BY <1>1, <1>3, <1>8, <1>9, <1>14, PartJoin DEF b2
<1>16. Part(b3, 3, O, Files, Goals3)
  <2>1. Goals3 \subseteq Goals3 \cup {<<"put", "LASTPHASE">>}
    OBVIOUS
  <2> QED
    BY <1>7, <1>8, <1>9, <1>15, <2>1, PartJoin DEF b3
<1>17. Part(b3 \o Check \o <<Op("reboot", "")>>, 3, O \cup Reboots, Files, Goals3)
  BY <1>16, Closed
<1>18. O \cup Reboots = Ops3
  BY DEF O, Ops3, Reboots, Doings
<1>19. pass3 = b3 \o Check \o <<Op("reboot", "")>>
  BY DEF pass3, wrfiles3, W1, W2, BB, B, C, E, L, a1, a2, a3, a4, b1, b2, b3
<1> QED
  BY <1>17, <1>18, <1>19

-----------------------------------------------------------------------------
(* A phase begins.                                                         *)

\* What the steps bring about that are left after a step.
LEMMA Progressing ==
  ASSUME NEW u, u = todo', NEW p, p = Pass', NEW S, S = ToSet(u),
         Arranged(u), Outcome(S, p)',
         p = 1 => Outcome1(S)', p = 2 => Outcome2(S)', p = 3 => Outcome3(S)'
  PROVE  Progress(todo, Pass)'
<1>1. Arranged(todo)'
  BY DEF Arranged
<1>2. Outcome(ToSet(todo), Pass)'
  BY DEF Outcome, Work, Copies
<1>3. Pass' = 1 => Outcome1(ToSet(todo))'
  BY DEF Outcome1, Copies
<1>4. Pass' = 2 => Outcome2(ToSet(todo))'
  BY DEF Outcome2
<1>5. Pass' = 3 => Outcome3(ToSet(todo))'
  BY DEF Outcome3, Copies, Work
<1> QED
  BY <1>1, <1>2, <1>3, <1>4, <1>5 DEF Progress

\* What the list of a phase is good for.
LEMMA PartOutcome ==
  ASSUME NEW p \in 1..3, NEW s, NEW O, NEW F, NEW G, Part(s, p, O, F, G),
         SomeCut => "torn" \in spoilt',
         \A f \in Rewrites(p) : disk'[f] = Cut \/ <<"put", f>> \in G,
         NEW S, S = ToSet(s)
  PROVE  Arranged(s) /\ Outcome(S, p)'
<1>1. \A x \in S : Rightly(x, p)
  BY DEF Part
<1>2. ASSUME NEW x \in S, x.op = "put"
      PROVE  x.data \in Work(p)' /\ (x.data = Cut => "torn" \in spoilt' /\ x.file # "LASTPHASE")
  BY <1>1, <1>2 DEF Rightly, Work
<1>3. ASSUME NEW f \in Rewrites(p)
      PROVE  disk'[f] \in Work(p)' \/ \E x \in S : Puts(x, f)
  <2>1. CASE disk'[f] = Cut
    BY <2>1 DEF Work
  <2>2. CASE <<"put", f>> \in G
    <3>1. PICK x \in S : x.op = <<"put", f>>[1] /\ x.file = <<"put", f>>[2]
      BY <2>2 DEF Part
    <3>2. <<"put", f>>[1] = "put" /\ <<"put", f>>[2] = f
      OBVIOUS
    <3> QED
      BY <3>1, <3>2 DEF Puts
  <2> QED
    BY <1>3, <2>1, <2>2
<1> QED
  BY <1>2, <1>3 DEF Part, Outcome

\* A goal that is met.
LEMMA Met ==
  ASSUME NEW s, NEW p, NEW O, NEW F, NEW G, Part(s, p, O, F, G), NEW S, S = ToSet(s), NEW o, NEW f,
         <<o, f>> \in G
  PROVE  \E x \in S : x.op = o /\ x.file = f
<1>1. PICK x \in S : x.op = <<o, f>>[1] /\ x.file = <<o, f>>[2]
  BY DEF Part
<1> QED
  BY <1>1

\* A phase begins over what the one before it has left.
LEMMA Begun ==
  ASSUME RestoreInv, OnCourse, at \in {"dos", "launcher"}, NEW p \in 1..3, run' \in 0..MaxRuns,
         check_lastphase(p), p # 1 => disk["BETA"] # None
  PROVE  Progress(todo, Pass)'
<1>1. /\ todo' = PassSteps(p) /\ Pass' = p /\ UNCHANGED before
      /\ disk' = disk \/ disk' = [disk EXCEPT !["LASTPHASE"] = Cut]
      /\ spoilt \subseteq spoilt'
  BY DEF check_lastphase
<1>2. \A g \in Files : g # "LASTPHASE" => disk'[g] = disk[g]
  <2>1. TypeInv /\ "LASTPHASE" \in Files /\ Cut \in Content
    BY Contents DEF RestoreInv, BackupInv, Files
  <2> QED
    BY <1>1, <2>1, DiskTypes
<1>3. SomeCut => "torn" \in spoilt'
  <2>1. SomeCut => "torn" \in spoilt
    BY DEF SomeCut, OnCourse, NoneCut, Refilled
  <2> QED
    BY <1>1, <2>1
<1>4. \A f \in {"BETA", "BATCH"} : p # 1 => disk[f] # None /\ disk'[f] = disk[f]
  <2>1. NoneGone /\ "BATCH" \in Users /\ "BATCH" \in Files /\ "BETA" \in Files
    BY DEF RestoreInv, Users, Files
  <2> QED
    BY <1>2, <2>1 DEF NoneGone
<1>5. \A f \in {"BETA", "BATCH"} : p # 1 => disk'[f] = Cut \/ <<"put", f>> \in Batch(f)
  BY <1>4 DEF Batch
<1>6. PICK u, S : u = todo' /\ S = ToSet(u)
  OBVIOUS
<1>7. CASE p = 1
  <2>1. u = pass1 /\ Part(u, 1, Ops1, Files \ {"BATCH"}, Goals1)
    BY <1>1, <1>6, <1>7, Pass1Part DEF PassSteps
  <2>2. Arranged(u) /\ Outcome(S, 1)'
    <3>1. \A f \in Rewrites(1) : <<"put", f>> \in Goals1
      BY DEF Rewrites, Goals1
    <3> QED
      BY <1>3, <1>6, <2>1, <3>1, PartOutcome
  <2>3. Creating'
    <3>1. Begins(u, Op("create", ""))
      BY <1>1, <1>6, <1>7, PassProper
    <3>2. Op("create", "").op = "create"
      BY DEF Op, Line
    <3> QED
      BY <1>6, <3>1, <3>2 DEF Begins, Creating
  <2>4. Copies(S)
    <3>1. <<"from", "BETA">> \in Goals1
      BY DEF Goals1
    <3>2. \E x \in S : x.op = "from" /\ x.file = "BETA"
      BY <1>6, <2>1, <3>1, Met
    <3> QED
      BY <3>2 DEF Copies
  <2>5. \A x \in S : x.op \in Ops1 /\ (Writes(x) => x.file # "BATCH") /\ Rightly(x, 1)
    BY <1>6, <2>1 DEF Part
  <2>6. \A x \in S : x.op # "erase" /\ ~WritesTo(x, "BATCH") /\ ~Puts(x, "BETA")
    BY <2>5 DEF Ops1, Doings, WritesTo, Puts, Rightly
  <2>7. \A x \in S : x.op = "from" => x.src = "AUTOEXEC" /\ x.file = "BETA"
    BY <2>5 DEF Rightly
  <2>8. Outcome1(S)'
    BY <2>3, <2>4, <2>6, <2>7 DEF Outcome1, Copies
  <2> QED
    BY <1>1, <1>6, <1>7, <2>2, <2>8, Progressing
<1>8. CASE p = 2
  <2>1. u = pass2 /\ Part(u, 2, Ops2, Files, Goals2)
    BY <1>1, <1>6, <1>8, Pass2Part DEF PassSteps
  <2>2. Arranged(u) /\ Outcome(S, 2)'
    <3>1. \A f \in Rewrites(2) : disk'[f] = Cut \/ <<"put", f>> \in Goals2
      BY <1>5, <1>8 DEF Rewrites, Goals2
    <3> QED
      BY <1>3, <1>6, <2>1, <3>1, PartOutcome
  <2>3. \A x \in S : x.op \in Ops2
    BY <1>6, <2>1 DEF Part
  <2>4. Outcome2(S)'
    BY <2>3 DEF Outcome2, Ops2, Doings
  <2> QED
    BY <1>1, <1>6, <1>8, <2>2, <2>4, Progressing
<1>9. CASE p = 3
  <2>1. u = pass3 /\ Part(u, 3, Ops3, Files, Goals3)
    BY <1>1, <1>6, <1>9, Pass3Part DEF PassSteps
  <2>2. Arranged(u) /\ Outcome(S, 3)'
    <3>1. \A f \in Rewrites(3) : disk'[f] = Cut \/ <<"put", f>> \in Goals3
      BY <1>5, <1>9 DEF Rewrites, Goals2, Goals3
    <3> QED
      BY <1>3, <1>6, <2>1, <3>1, PartOutcome
  <2>3. \A x \in S : x.op \in Ops3 /\ Rightly(x, 3)
    BY <1>6, <2>1 DEF Part
  <2>4. \A x \in S : x.op # "create" /\ ~Puts(x, "AUTOEXEC")
    BY <2>3 DEF Ops3, Doings, Puts, Rightly
  <2>5. \A x \in S : x.op = "from" => x.src = "BETA" /\ x.file = "AUTOEXEC"
    BY <2>3 DEF Rightly
  <2>6. /\ \E x \in S : x.op = "from" /\ x.file = "AUTOEXEC"
        /\ \E x \in S : x.op = "erase" /\ x.file = "BETA"
    <3>1. <<"from", "AUTOEXEC">> \in Goals3 /\ <<"erase", "BETA">> \in Goals3
      BY DEF Goals3
    <3> QED
      BY <1>6, <2>1, <3>1, Met
  <2>7. disk'["BETA"] \in Work(3)' \/ \E x \in S : Puts(x, "BETA")
    <3>1. CASE disk'["BETA"] = Cut
      BY <3>1 DEF Work
    <3>2. CASE <<"put", "BETA">> \in Goals3
      <4>1. \E x \in S : x.op = "put" /\ x.file = "BETA"
        BY <1>6, <2>1, <3>2, Met
      <4> QED
        BY <4>1 DEF Puts
    <3>3. "BETA" \in {"BETA", "BATCH"} /\ Batch("BETA") \subseteq Goals3
      BY DEF Goals2, Goals3
    <3> QED
      BY <1>5, <1>9, <3>1, <3>2, <3>3
  <2>8. Outcome3(S)'
    BY <2>4, <2>5, <2>6, <2>7 DEF Outcome3, Copies
  <2> QED
    BY <1>1, <1>6, <1>9, <2>2, <2>8, Progressing
<1> QED
  BY <1>7, <1>8, <1>9

-----------------------------------------------------------------------------
(* A phase goes on.                                                        *)

\* PREMAXIM is created by the first step of a phase only.
LEMMA CreatedOnce ==
  ASSUME TypeInv, Backups, at = "maximize", NEW u, u = Tail(todo), u # <<>>
  PROVE  u[1].op # "create"
<1>1. /\ todo \in Seq(Step) /\ todo # <<>> /\ Len(todo) \in Nat
      /\ Tails(todo, u, Len(todo))
  BY AtHead
<1>2. PICK n : n = Len(todo)
  OBVIOUS
<1>3. /\ DOMAIN todo = 1..n /\ u \in Seq(Step) /\ Len(u) = n - 1 /\ n \in Nat
      /\ \A i \in 1..(n - 1) : u[i] = todo[i + 1]
  BY <1>1, <1>2 DEF Tails
<1>4. Len(u) # 0 /\ Len(u) \in Nat
  BY <1>3, EmptySeq, LenProperties
<1>5. 1 \in 1..(n - 1) /\ 1 + 1 \in 1..n /\ 1 + 1 # 1
  <2>1. n - 1 \in Nat /\ n - 1 # 0
    BY <1>3, <1>4
  <2> QED
    BY <1>3, <2>1
<1>6. u[1] = todo[1 + 1] /\ 1 + 1 \in DOMAIN todo
  BY <1>3, <1>5
<1>7. \A i \in DOMAIN todo : todo[i].op = "create" => i = 1
  BY <1>1 DEF Backups, Safe
<1> QED
  BY <1>5, <1>6, <1>7

\* The step of a phase that has met no error.
LEMMA Ahead ==
  ASSUME PhaseInv, Undisturbed, at = "maximize", NEW x, x = todo[1], NEW u, u = Tail(todo),
         NEW T, T = ToSet(u)
  PROVE  /\ x \in Step /\ ToSet(todo) = {x} \cup T /\ Pass \in 1..3
         /\ todo # <<>> /\ (u # <<>> => u[1].op # "create")
         /\ ~AnyError =>
              /\ Arranged(u) /\ \A y \in T : MayFollow(x, y)
              /\ x.op = "trunc" => u # <<>> /\ Refills(u[1], x)
              /\ Outcome({x} \cup T, Pass)
              /\ Pass = 1 => Outcome1({x} \cup T)
              /\ Pass = 2 => Outcome2({x} \cup T)
              /\ Pass = 3 => Outcome3({x} \cup T)
<1>1. TypeInv /\ Backups /\ InPhase
  BY DEF PhaseInv, RestoreInv, BackupInv, Undisturbed, OnCourse
<1>2. /\ todo \in Seq(Step) /\ todo # <<>> /\ x \in Step /\ Len(todo) \in Nat
      /\ Tails(todo, u, Len(todo))
  BY <1>1, AtHead
<1>3. ToSet(todo) = {x} \cup T
  <2>1. PICK n : n = Len(todo)
    OBVIOUS
  <2>2. /\ n >= 1 /\ DOMAIN todo = 1..n /\ DOMAIN u = 1..(n - 1) /\ n \in Nat
        /\ \A i \in 1..(n - 1) : u[i] = todo[i + 1]
        /\ \A i \in 1..n : i = 1 \/ (i - 1 \in 1..(n - 1) /\ todo[i] = u[i - 1])
    BY <1>2, <2>1 DEF Tails
  <2>3. 1 \in 1..n /\ \A i \in 1..(n - 1) : i + 1 \in 1..n
    BY <2>2
  <2>4. ASSUME NEW y \in ToSet(todo)
        PROVE  y \in {x} \cup T
    <3>1. PICK i \in 1..n : y = todo[i]
      BY <2>2 DEF ToSet
    <3>2. CASE i = 1
      BY <3>1, <3>2
    <3>3. CASE i # 1
      <4>1. i - 1 \in DOMAIN u /\ y = u[i - 1]
        BY <2>2, <3>1, <3>3
      <4> QED
        BY <4>1 DEF ToSet
    <3> QED
      BY <3>2, <3>3
  <2>5. {x} \cup T \subseteq ToSet(todo)
    BY <2>2, <2>3 DEF ToSet
  <2> QED
    BY <2>4, <2>5
<1>4. u # <<>> => u[1].op # "create"
  BY <1>1, CreatedOnce
<1>5. ASSUME ~AnyError
      PROVE  Arranged(todo) /\ Outcome({x} \cup T, Pass)
             /\ (Pass = 1 => Outcome1({x} \cup T)) /\ (Pass = 2 => Outcome2({x} \cup T))
             /\ (Pass = 3 => Outcome3({x} \cup T))
  BY <1>1, <1>3, <1>5 DEF InPhase, Progress
<1>6. ASSUME ~AnyError
      PROVE  /\ Arranged(u) /\ \A y \in T : MayFollow(x, y)
             /\ x.op = "trunc" => u # <<>> /\ Refills(u[1], x)
  BY <1>2, <1>5, <1>6, TailArranged
<1>7. Pass \in 1..3
  BY <1>1 DEF InPhase
<1> QED
  BY <1>2, <1>3, <1>4, <1>5, <1>6, <1>7

\* What a step leaves to be put.
LEMMA OutcomeAfter ==
  ASSUME NEW p \in 1..3, NEW x, NEW T, Outcome({x} \cup T, p), UNCHANGED <<run, spoilt>>,
         \A f \in Rewrites(p) : disk'[f] \in Work(p) \/ (disk'[f] = disk[f] /\ ~Puts(x, f))
  PROVE  Outcome(T, p)'
<1>1. Work(p)' = Work(p)
  BY DEF Work
<1>2. \A y \in T : y.op = "put" =>
         y.data \in Work(p) /\ (y.data = Cut => "torn" \in spoilt' /\ y.file # "LASTPHASE")
  BY DEF Outcome
<1>3. ASSUME NEW f \in Rewrites(p)
      PROVE  disk'[f] \in Work(p) \/ \E y \in T : Puts(y, f)
  <2>1. disk[f] \in Work(p) \/ \E y \in {x} \cup T : Puts(y, f)
    BY DEF Outcome
  <2> QED
    BY <2>1
<1> QED
  BY <1>1, <1>2, <1>3 DEF Outcome

\* A file is opened, or written, in phase 1 and in phase 3.
LEMMA Outcome1After ==
  ASSUME TypeInv, NEW x, NEW T, Outcome1({x} \cup T), ~Creating, ~Creating', UNCHANGED before,
         x.op \in {"trunc", "put"}, \A y \in T : MayFollow(x, y),
         x.file \in Files, NEW v \in Content, disk' = [disk EXCEPT ![x.file] = v],
         x.op = "trunc" => v = Cut
  PROVE  Outcome1(T)'
<1>1. /\ "BETA" \in Files /\ "BATCH" \in Files /\ "AUTOEXEC" \in Files
      /\ disk'[x.file] = v /\ \A g \in Files : g # x.file => disk'[g] = disk[g]
  BY DiskTypes DEF Files, Users
<1>2. x.file # "BATCH" /\ (x.file = "BETA" => v = Cut)
  BY DEF Outcome1, WritesTo, Writes, Puts
<1>3. /\ \A y \in T : y.op # "erase" /\ ~WritesTo(y, "BATCH") /\ ~Puts(y, "BETA")
      /\ \A y \in T : y.op = "from" => y.src = "AUTOEXEC" /\ y.file = "BETA"
  BY DEF Outcome1
<1>4. Copies({x} \cup T) <=> Copies(T)
  BY DEF Copies
<1>5. Copies(T) \/ disk'["BETA"] \in {Cut, before["AUTOEXEC"]}
  <2>1. Copies(T) \/ disk["BETA"] \in {Cut, before["AUTOEXEC"]}
    BY <1>4 DEF Outcome1
  <2> QED
    BY <1>1, <1>2, <2>1
<1>6. disk'["BATCH"] = before["BATCH"]
  BY <1>1, <1>2 DEF Outcome1
<1>7. ASSUME Copies(T)
      PROVE  disk'["AUTOEXEC"] = before["AUTOEXEC"]
  <2>1. x.file # "AUTOEXEC"
    <3>1. PICK y \in T : y.op = "from" /\ y.src = "AUTOEXEC"
      BY <1>3, <1>7 DEF Copies
    <3>2. ~WritesTo(x, "AUTOEXEC")
      BY <3>1 DEF MayFollow
    <3> QED
      BY <3>2 DEF WritesTo, Writes
  <2>2. disk["AUTOEXEC"] = before["AUTOEXEC"]
    BY <1>4, <1>7 DEF Outcome1
  <2> QED
    BY <1>1, <2>1, <2>2
<1>8. before'["AUTOEXEC"] = before["AUTOEXEC"] /\ before'["BATCH"] = before["BATCH"]
  OBVIOUS
<1> QED
  BY <1>3, <1>5, <1>6, <1>7, <1>8 DEF Outcome1, Copies

LEMMA Outcome3After ==
  ASSUME TypeInv, NEW x, NEW T, Outcome3({x} \cup T), UNCHANGED run,
         x.op \in {"trunc", "put"}, x.file \in Files, NEW v \in Content,
         disk' = [disk EXCEPT ![x.file] = v], v \in Work(3)
  PROVE  Outcome3(T)'
<1>1. /\ "BETA" \in Files /\ "AUTOEXEC" \in Files /\ Work(3)' = Work(3)
      /\ disk'[x.file] = v /\ \A g \in Files : g # x.file => disk'[g] = disk[g]
  BY DiskTypes DEF Files, Users, Work
<1>2. /\ \A y \in T : y.op # "create" /\ ~Puts(y, "AUTOEXEC")
      /\ \A y \in T : y.op = "from" => y.src = "BETA" /\ y.file = "AUTOEXEC"
  BY DEF Outcome3
<1>3. Copies({x} \cup T) <=> Copies(T)
  BY DEF Copies
<1>4. Copies(T) \/ disk'["AUTOEXEC"] \in Work(3)
  <2>1. Copies(T) \/ disk["AUTOEXEC"] \in Work(3)
    BY <1>3 DEF Outcome3
  <2> QED
    BY <1>1, <2>1
<1>5. ASSUME Copies(T)
      PROVE  disk'["BETA"] \in Work(3) \/ \E y \in T : Puts(y, "BETA")
  <2>1. disk["BETA"] \in Work(3) \/ \E y \in {x} \cup T : Puts(y, "BETA")
    BY <1>3, <1>5 DEF Outcome3
  <2>2. Puts(x, "BETA") => x.file = "BETA"
    BY DEF Puts
  <2> QED
    BY <1>1, <2>1, <2>2
<1>6. \/ \E y \in T : y.op = "erase"
      \/ disk'["BETA"] = None /\ \A y \in T : ~WritesTo(y, "BETA")
  <2>1. CASE \E y \in {x} \cup T : y.op = "erase"
    BY <2>1
  <2>2. CASE disk["BETA"] = None /\ \A y \in {x} \cup T : ~WritesTo(y, "BETA")
    <3>1. x.file # "BETA"
      BY <2>2 DEF WritesTo, Writes
    <3> QED
      BY <1>1, <2>2, <3>1
  <2> QED
    BY <2>1, <2>2 DEF Outcome3
<1> QED
  BY <1>1, <1>2, <1>4, <1>5, <1>6 DEF Outcome3, Copies

\* LASTPHASE stays true while a phase rewrites the files: it names the phase
\* before this one.
LEMMA StillTruthful ==
  ASSUME PhaseInv, Undisturbed, at = "maximize", UNCHANGED <<run, before>>,
         todo[1].op \notin Closing,
         NEW f \in Files, f # "LASTPHASE", NEW v \in Content, disk' = [disk EXCEPT ![f] = v],
         f = "AUTOEXEC" \/ v \in Work(Pass) \/ (f = "BETA" /\ v = None) \/ Pass = 1
  PROVE  /\ Truthful' /\ ~Says(run, Pass)
         /\ \A r, q : Says(r, q)' <=> Says(r, q)
         /\ disk'["LASTPHASE"] = disk["LASTPHASE"]
<1>1. TypeInv /\ Truthful /\ InPhase
  BY DEF PhaseInv, RestoreInv, BackupInv, OnCourse
<1>2. /\ disk'[f] = v /\ \A g \in Files : g # f => disk'[g] = disk[g]
      /\ "LASTPHASE" \in Files /\ Users \subseteq Files /\ "BETA" \in Files
      /\ \A g \in {"CONFIG", "PROFILE", "BATCH"} : g \in Files
  BY <1>1, DiskTypes DEF Files, Users
<1>3. disk'["LASTPHASE"] = disk["LASTPHASE"]
  BY <1>2
<1>4. \A r, q : Says(r, q)' <=> Says(r, q)
  BY <1>3 DEF Says
<1>5. todo[1] \in ToSet(todo)
  <2>1. PICK x, u, T : x = todo[1] /\ u = Tail(todo) /\ T = ToSet(u)
    OBVIOUS
  <2>2. ToSet(todo) = {x} \cup T
    BY <2>1, Ahead
  <2> QED
    BY <2>1, <2>2
<1>6. ~Says(run, Pass)
  BY <1>1, <1>5 DEF InPhase
<1>7. run \in 0..MaxRuns /\ Pass \in 1..3
  BY <1>1 DEF TypeInv, TypeOK, InPhase
<1>8. ASSUME NEW q \in 1..3, Says(run, q)
      PROVE  (q = 1 /\ Pass = 2) \/ (q = 2 /\ Pass = 3)
  <2>1. disk["LASTPHASE"] # Cut
    BY <1>7, <1>8, Contents DEF Says
  <2>2. PICK r \in 0..MaxRuns : Says(r, LastPhase(Pass))
    <3>1. disk["LASTPHASE"] = Cut \/ Says(run, Pass) \/ \E r \in 0..MaxRuns : Says(r, LastPhase(Pass))
      BY <1>1 DEF InPhase
    <3> QED
      BY <1>6, <2>1, <3>1
  <2>3. q = LastPhase(Pass)
    <3>1. By(run, q) = By(r, LastPhase(Pass))
      BY <1>8, <2>2 DEF Says
    <3>2. PICK o : o = LastPhase(Pass)
      OBVIOUS
    <3>3. By(run, q) = By(r, o) => q = o
      BY Contents
    <3> QED
      BY <3>1, <3>2, <3>3
  <2>4. Pass # 1
    <3>1. Pass = 1 => q = 3
      BY <2>3 DEF LastPhase
    <3>2. Pass = 1 => ~Says(run, 3)
      BY <1>1 DEF InPhase
    <3> QED
      BY <1>8, <3>1, <3>2
  <2>5. q = Pass - 1
    BY <2>3, <2>4 DEF LastPhase
  <2> QED
    BY <1>7, <2>4, <2>5
<1>9. ASSUME NEW q \in 1..3, Says(run, q)
      PROVE  Reached(q)'
  <2>1. Reached(q)
    BY <1>1, <1>9 DEF Truthful
  <2>2. \A o : Work(o)' = Work(o)
    BY DEF Work
  <2>3. CASE q = 1 /\ Pass = 2
    <3>1. /\ \A g \in {"CONFIG", "PROFILE"} : disk'[g] \in Work(1) \cup Work(2)
          /\ disk'["BATCH"] \in {before["BATCH"]} \cup Work(2)
          /\ disk'["BETA"] \in {before["AUTOEXEC"], None} \cup Work(2)
      <4>1. /\ \A g \in {"CONFIG", "PROFILE"} : disk[g] \in Work(1) \cup Work(2)
            /\ disk["BATCH"] \in {before["BATCH"]} \cup Work(2)
            /\ disk["BETA"] \in {before["AUTOEXEC"], None} \cup Work(2)
        BY <2>1, <2>3 DEF Reached
      <4>2. f = "AUTOEXEC" \/ v \in Work(2) \/ (f = "BETA" /\ v = None)
        BY <2>3
      <4> QED
        BY <1>2, <4>1, <4>2
    <3> QED
      BY <2>2, <2>3, <3>1 DEF Reached
  <2>4. CASE q = 2 /\ Pass = 3
    <3>1. /\ \A g \in {"CONFIG", "PROFILE", "BATCH"} : disk'[g] \in Work(2) \cup Work(3)
          /\ disk'["BETA"] \in {None} \cup Work(2) \cup Work(3)
      <4>1. /\ \A g \in {"CONFIG", "PROFILE", "BATCH"} : disk[g] \in Work(2) \cup Work(3)
            /\ disk["BETA"] \in {None} \cup Work(2) \cup Work(3)
        BY <2>1, <2>4 DEF Reached
      <4>2. f = "AUTOEXEC" \/ v \in Work(3) \/ (f = "BETA" /\ v = None)
        BY <2>4
      <4> QED
        BY <1>2, <4>1, <4>2
    <3> QED
      BY <2>2, <2>4, <3>1 DEF Reached
  <2> QED
    BY <1>8, <1>9, <2>3, <2>4
<1>10. \A q \in 1..3, r \in 0..MaxRuns : Says(r, q)' => r <= run' /\ (q < 3 => r = run')
  BY <1>1, <1>4 DEF Truthful
<1>11. \A q \in 1..3 : Says(run, q)' => Reached(q)'
  BY <1>4, <1>9
<1>12. Truthful'
  BY <1>10, <1>11 DEF Truthful, Says
<1> QED
  BY <1>3, <1>4, <1>6, <1>12

\* The phase goes on if its steps do what is left to be done.
LEMMA StillInPhase ==
  ASSUME InPhase, UNCHANGED <<run, Pass>>, disk'["LASTPHASE"] = disk["LASTPHASE"],
         ~Says(run, Pass), ~AnyError' => Progress(todo, Pass)'
  PROVE  InPhase'
<1>1. Pass' = Pass /\ run' = run /\ \A r, q : Says(r, q)' <=> Says(r, q)
  BY DEF Says
<1>2. ~Says(run, Pass)'
  BY <1>1 DEF Says
<1>3. disk'["LASTPHASE"] = Cut \/ \E r \in 0..MaxRuns : Says(r, LastPhase(Pass))
  BY DEF InPhase
<1>4. disk'["LASTPHASE"] = Cut \/ \E r \in 0..MaxRuns : Says(r, LastPhase(Pass))'
  BY <1>1, <1>3 DEF Says
<1>5. Pass' \in 1..3 /\ (Pass' = 1 => ~Says(run, 3)')
  BY <1>1 DEF InPhase, Says
<1> QED
  BY <1>2, <1>4, <1>5 DEF InPhase, Says

\* A file is opened.
LEMMA TruncateOn ==
  ASSUME PhaseInv, Undisturbed, ~Full, at = "maximize", Truncate
  PROVE  OnCourse'
<1>1. PICK x, u, T : x = todo[1] /\ u = Tail(todo) /\ T = ToSet(u)
  OBVIOUS
<1>2. /\ TypeInv /\ Truthful /\ NoneCut /\ InPhase /\ ErrorEnds
      /\ run \in 0..MaxRuns
  BY DEF PhaseInv, RestoreInv, BackupInv, OnCourse, TypeInv, TypeOK
<1>3. /\ Doing("trunc") /\ todo' = u /\ at' = at
      /\ UNCHANGED <<Pass, AnyError, run, before, spoilt>>
      /\ disk' = [disk EXCEPT ![Next1.file] = Cut]
  BY <1>1 DEF Truncate, StepDone, ram, history
<1>4. /\ x \in Step /\ Next1 = x /\ x.op = "trunc" /\ x.file \in Files /\ 1 \in DOMAIN todo
      /\ Cut \in Content
  BY <1>1, <1>2, <1>3, DoingHead, StepFields, Contents
<1>5. ~AnyError
  BY <1>1, <1>2, <1>4 DEF ErrorEnds
<1>6. /\ Pass \in 1..3 /\ Arranged(u) /\ \A y \in T : MayFollow(x, y)
      /\ u # <<>> /\ Refills(u[1], x) /\ u[1].op # "create"
      /\ Outcome({x} \cup T, Pass)
      /\ Pass = 1 => Outcome1({x} \cup T)
      /\ Pass = 2 => Outcome2({x} \cup T)
      /\ Pass = 3 => Outcome3({x} \cup T)
  BY <1>1, <1>4, <1>5, Ahead, ZenonT(60)
<1>7. disk' = [disk EXCEPT ![x.file] = Cut] /\ UNCHANGED run /\ UNCHANGED before /\ UNCHANGED spoilt
      /\ UNCHANGED Pass
  BY <1>3, <1>4
<1>8. /\ disk'[x.file] = Cut /\ \A g \in Files : g # x.file => disk'[g] = disk[g]
  BY <1>2, <1>4, <1>7, DiskTypes
<1>9. ~Creating /\ ~Creating'
  BY <1>1, <1>3, <1>4, <1>6 DEF Creating
<1>10. Progress(todo, Pass)'
  <2>1. \A o : Cut \in Work(o)
    BY DEF Work
  <2>2. Rewrites(Pass) \subseteq Files
    BY <1>6 DEF Rewrites, Files, Users
  <2>3. Outcome(T, Pass)'
    <3>1. ~Puts(x, x.file)
      BY <1>4 DEF Puts
    <3>2. \A f \in Rewrites(Pass) : disk'[f] \in Work(Pass) \/ (disk'[f] = disk[f] /\ ~Puts(x, f))
      BY <1>4, <1>8, <2>1, <2>2 DEF Puts
    <3>3. PICK p : p = Pass
      OBVIOUS
    <3>4. Outcome(T, p)'
      BY <1>6, <1>7, <3>2, <3>3, OutcomeAfter
    <3> QED
      BY <1>7, <3>3, <3>4 DEF Outcome, Work
  <2>4. Pass = 1 => Outcome1(T)'
    BY <1>2, <1>4, <1>6, <1>7, <1>9, Outcome1After
  <2>5. Pass = 2 => Outcome2(T)'
    BY <1>6 DEF Outcome2
  <2>6. Pass = 3 => Outcome3(T)'
    BY <1>2, <1>4, <1>6, <1>7, <2>1, Outcome3After
  <2> QED
    BY <1>1, <1>3, <1>6, <1>7, <2>3, <2>4, <2>5, <2>6, Progressing
<1>11. NoneCut'
  <2>1. SUFFICES ASSUME "torn" \notin spoilt, NEW g \in Users \cup {"BETA"}, disk'[g] = Cut
                 PROVE  Refilled(g)'
    BY <1>7 DEF NoneCut
  <2>2. g = x.file
    <3>1. disk[g] # Cut
      BY <1>1, <1>2, <1>4, <2>1 DEF NoneCut, Refilled
    <3>2. g \in Files
      BY DEF Files
    <3> QED
      BY <1>8, <2>1, <3>1, <3>2
  <2> QED
    BY <1>3, <1>6, <2>2 DEF Refilled, Refills
<1>12. CASE x.file # "LASTPHASE"
  <2>1. todo[1].op \notin Closing /\ Cut \in Work(Pass)
    BY <1>1, <1>4 DEF Closing, Work
  <2>2. Truthful' /\ ~Says(run, Pass) /\ disk'["LASTPHASE"] = disk["LASTPHASE"]
    BY <1>4, <1>7, <1>12, <2>1, StillTruthful
  <2>3. InPhase'
    BY <1>2, <1>7, <1>10, <2>2, StillInPhase
  <2> QED
    BY <1>11, <2>2, <2>3 DEF OnCourse
<1>13. CASE x.file = "LASTPHASE"
  <2>1. disk'["LASTPHASE"] = Cut
    BY <1>8, <1>13
  <2>2. \A r \in 0..MaxRuns, q \in 1..3 : ~Says(r, q)'
    BY <2>1, Contents DEF Says
  <2>3. \A q \in 1..3 : ~Says(run, q)'
    BY <1>2, <1>7, <2>1, Contents DEF Says
  <2>4. Truthful'
    BY <2>2, <2>3 DEF Truthful
  <2>5. ~Says(run, Pass)' /\ ~Says(run, 3)'
    BY <1>6, <1>7, <2>3 DEF Says
  <2>6. InPhase'
    BY <1>6, <1>7, <1>10, <2>1, <2>5 DEF InPhase
  <2> QED
    BY <1>11, <2>4, <2>6 DEF OnCourse
<1> QED
  BY <1>12, <1>13

\* The phase is recorded: it has come to its end.
LEMMA Recording ==
  ASSUME PhaseInv, Undisturbed, ~Full, at = "maximize", Put, todo[1].file = "LASTPHASE",
         NEW u, u = Tail(todo), NEW T, T = ToSet(u),
         Progress(todo, Pass)'
  PROVE  Truthful' /\ InPhase'
<1>1. PICK x, p : x = todo[1] /\ p = Pass
  OBVIOUS
<1>2. TypeInv /\ ErrorEnds /\ run \in 0..MaxRuns
  BY DEF PhaseInv, RestoreInv, BackupInv, TypeInv, TypeOK
<1>3. /\ Doing("put") /\ todo' = u
      /\ UNCHANGED <<Pass, run, before, spoilt>>
      /\ disk' = [disk EXCEPT ![Next1.file] = IF AnyError THEN Cut ELSE Next1.data]
  BY DEF Put, StepDone, Failing, history
<1>4. /\ x \in Step /\ Next1 = x /\ x.op = "put" /\ x.file = "LASTPHASE" /\ 1 \in DOMAIN todo
      /\ x.data \in Content
  BY <1>1, <1>2, <1>3, DoingHead, StepFields
<1>5. ~AnyError
  BY <1>1, <1>2, <1>4 DEF ErrorEnds
<1>6. /\ p \in 1..3 /\ \A y \in T : MayFollow(x, y)
      /\ Outcome({x} \cup T, p)
      /\ p = 1 => Outcome1({x} \cup T)
      /\ p = 3 => Outcome3({x} \cup T)
  BY <1>1, <1>4, <1>5, Ahead
<1>7. \A y \in T : y.op \in Closing
  BY <1>4, <1>6 DEF MayFollow, Puts
<1>8. x.data = By(run, p)
  BY <1>4, <1>6 DEF Outcome, Work
<1>9. /\ disk' = [disk EXCEPT !["LASTPHASE"] = By(run, p)]
      /\ run' = run /\ before' = before /\ Pass' = p
  BY <1>1, <1>3, <1>4, <1>5, <1>8
<1>10. /\ disk'["LASTPHASE"] = By(run, p)
       /\ \A g \in Users \cup {"BETA"} : disk'[g] = disk[g]
  <2>1. /\ "LASTPHASE" \in Files /\ By(run, p) \in Content
        /\ \A g \in Users \cup {"BETA"} : g \in Files /\ g # "LASTPHASE"
    BY <1>2, <1>6, Contents DEF Files, Users
  <2> QED
    BY <1>2, <1>9, <2>1, DiskTypes
<1>11. Says(run, p)' /\ \A r, q : Says(r, q)' => r = run /\ q = p
  BY <1>9, <1>10, Contents DEF Says
<1>12. \A f \in Rewrites(p) : disk[f] \in Work(p)
  <2>1. SUFFICES ASSUME NEW f \in Rewrites(p)
                 PROVE  disk[f] \in Work(p)
    OBVIOUS
  <2>2. disk[f] \in Work(p) \/ \E y \in {x} \cup T : Puts(y, f)
    BY <1>6 DEF Outcome
  <2>3. ~Puts(x, f)
    BY <1>4, <1>6 DEF Puts, Rewrites
  <2>4. \A y \in T : ~Puts(y, f)
    BY <1>7 DEF Puts, Closing
  <2> QED
    BY <2>2, <2>3, <2>4
<1>13. ~Copies({x} \cup T) /\ ~(\E y \in {x} \cup T : y.op = "erase")
  BY <1>4, <1>7 DEF Copies, Closing
<1>14. \A o : Work(o)' = Work(o)
  BY <1>9 DEF Work
<1>15. Reached(p)'
  <2>1. CASE p = 1
    <3>1. disk["BETA"] \in {Cut, before["AUTOEXEC"]} /\ disk["BATCH"] = before["BATCH"]
      <4>1. ~Creating
        BY <1>1, <1>4 DEF Creating
      <4>2. Outcome1({x} \cup T)
        BY <1>6, <2>1
      <4> QED
        BY <1>13, <4>1, <4>2 DEF Outcome1
    <3>2. disk["CONFIG"] \in Work(1) /\ disk["PROFILE"] \in Work(1) /\ Cut \in Work(2)
      BY <1>12, <2>1 DEF Rewrites, Work
    <3>3. /\ \A g \in {"CONFIG", "PROFILE"} : disk'[g] \in Work(1) \cup Work(2)
          /\ disk'["BATCH"] \in {before["BATCH"]} \cup Work(2)
          /\ disk'["BETA"] \in {before["AUTOEXEC"], None} \cup Work(2)
      BY <1>10, <3>1, <3>2 DEF Users
    <3> QED
      BY <1>9, <1>14, <2>1, <3>3 DEF Reached
  <2>2. CASE p = 2
    <3>1. \A g \in {"CONFIG", "PROFILE", "BATCH", "BETA"} : disk'[g] \in Work(2)
      BY <1>10, <1>12, <2>2 DEF Rewrites, Users
    <3> QED
      BY <1>14, <2>2, <3>1 DEF Reached
  <2>3. CASE p = 3
    <3>1. disk["AUTOEXEC"] \in Work(3) /\ disk["BETA"] = None
      BY <1>6, <1>13, <2>3 DEF Outcome3
    <3>2. \A g \in {"CONFIG", "PROFILE", "BATCH"} : disk[g] \in Work(3)
      BY <1>12, <2>3 DEF Rewrites
    <3>3. (\A g \in Users : disk'[g] \in Work(3)) /\ disk'["BETA"] = None
      BY <1>10, <3>1, <3>2 DEF Users
    <3> QED
      BY <1>14, <2>3, <3>3 DEF Reached
  <2> QED
    BY <1>6, <2>1, <2>2, <2>3
<1>16. Truthful'
  <2>1. \A q \in 1..3, r \in 0..MaxRuns : Says(r, q)' => r <= run' /\ (q < 3 => r = run')
    BY <1>2, <1>9, <1>11
  <2>2. \A q \in 1..3 : Says(run, q)' => Reached(q)'
    BY <1>9, <1>11, <1>15 DEF Says
  <2> QED
    BY <2>1, <2>2 DEF Truthful
<1>17. InPhase'
  <2>1. Says(run, Pass)'
    BY <1>9, <1>11 DEF Says
  <2>2. Pass' = 1 => ~Says(run, 3)'
    <3>1. By(run, p) = By(run, 3) => p = 3
      BY Contents
    <3>2. disk'["LASTPHASE"] = By(run', 3) => p = 3
      BY <1>9, <1>10, <3>1
    <3> QED
      BY <1>9, <3>2 DEF Says
  <2>3. \A y \in ToSet(todo') : y.op \in Closing
    BY <1>3, <1>7
  <2> QED
    BY <1>6, <1>9, <2>1, <2>2, <2>3 DEF InPhase
<1> QED
  BY <1>16, <1>17

\* A file is written.
LEMMA PutOn ==
  ASSUME PhaseInv, Undisturbed, ~Full, at = "maximize", Put
  PROVE  OnCourse'
<1>1. PICK x, u, T : x = todo[1] /\ u = Tail(todo) /\ T = ToSet(u)
  OBVIOUS
<1>2. TypeInv /\ NoneCut /\ InPhase /\ ErrorEnds
  BY DEF PhaseInv, RestoreInv, BackupInv, OnCourse
<1>3. /\ Doing("put") /\ todo' = u /\ at' = at
      /\ UNCHANGED <<Pass, AnyError, run, before, spoilt>>
      /\ disk' = [disk EXCEPT ![Next1.file] = IF AnyError THEN Cut ELSE Next1.data]
  BY <1>1 DEF Put, StepDone, Failing, history
<1>4. /\ x \in Step /\ Next1 = x /\ x.op = "put" /\ x.file \in Files /\ 1 \in DOMAIN todo
      /\ x.data \in Content
  BY <1>1, <1>2, <1>3, DoingHead, StepFields
<1>5. ~AnyError
  BY <1>1, <1>2, <1>4 DEF ErrorEnds
<1>6. /\ Pass \in 1..3 /\ Arranged(u) /\ \A y \in T : MayFollow(x, y)
      /\ u # <<>> => u[1].op # "create"
      /\ Outcome({x} \cup T, Pass)
      /\ Pass = 1 => Outcome1({x} \cup T)
      /\ Pass = 2 => Outcome2({x} \cup T)
      /\ Pass = 3 => Outcome3({x} \cup T)
  BY <1>1, <1>5, Ahead
<1>7. disk' = [disk EXCEPT ![x.file] = x.data] /\ UNCHANGED run /\ UNCHANGED before /\ UNCHANGED spoilt
      /\ UNCHANGED Pass
  BY <1>3, <1>4, <1>5
<1>8. /\ disk'[x.file] = x.data /\ \A g \in Files : g # x.file => disk'[g] = disk[g]
  BY <1>2, <1>4, <1>7, DiskTypes
<1>9. ~Creating /\ ~Creating'
  BY <1>1, <1>3, <1>4, <1>6 DEF Creating
<1>10. x.data \in Work(Pass) /\ (x.data = Cut => "torn" \in spoilt)
  BY <1>4, <1>6 DEF Outcome
<1>11. Progress(todo, Pass)'
  <2>1. Rewrites(Pass) \subseteq Files
    BY <1>6 DEF Rewrites, Files, Users
  <2>2. Outcome(T, Pass)'
    <3>1. \A f \in Rewrites(Pass) : disk'[f] \in Work(Pass) \/ (disk'[f] = disk[f] /\ ~Puts(x, f))
      BY <1>4, <1>8, <1>10, <2>1 DEF Puts
    <3>2. PICK p : p = Pass
      OBVIOUS
    <3>3. Outcome(T, p)'
      BY <1>6, <1>7, <3>1, <3>2, OutcomeAfter
    <3> QED
      BY <1>7, <3>2, <3>3 DEF Outcome, Work
  <2>3. Pass = 1 => Outcome1(T)'
    <3>1. x.op \in {"trunc", "put"} /\ (x.op = "trunc" => x.data = Cut)
      BY <1>4
    <3> QED
      BY <1>2, <1>4, <1>6, <1>7, <1>9, <3>1, Outcome1After
  <2>4. Pass = 2 => Outcome2(T)'
    BY <1>6 DEF Outcome2
  <2>5. Pass = 3 => Outcome3(T)'
    <3>1. x.op \in {"trunc", "put"}
      BY <1>4
    <3> QED
      BY <1>2, <1>4, <1>6, <1>7, <1>10, <3>1, Outcome3After
  <2> QED
    BY <1>1, <1>3, <1>6, <1>7, <2>2, <2>3, <2>4, <2>5, Progressing
<1>12. NoneCut'
  <2>1. SUFFICES ASSUME "torn" \notin spoilt, NEW g \in Users \cup {"BETA"}, disk'[g] = Cut
                 PROVE  FALSE
    BY <1>7 DEF NoneCut
  <2>2. g \in Files
    BY DEF Files
  <2>3. g = x.file
    <3>1. disk[g] = Cut => g = x.file
      BY <1>1, <1>2, <2>1 DEF NoneCut, Refilled
    <3> QED
      BY <1>8, <2>1, <2>2, <3>1
  <2> QED
    BY <1>8, <1>10, <2>1, <2>3
<1>13. CASE x.file # "LASTPHASE"
  <2>1. todo[1].op \notin Closing
    BY <1>1, <1>4 DEF Closing
  <2>2. Truthful' /\ ~Says(run, Pass) /\ disk'["LASTPHASE"] = disk["LASTPHASE"]
    BY <1>4, <1>7, <1>10, <1>13, <2>1, StillTruthful
  <2>3. InPhase'
    BY <1>2, <1>7, <1>11, <2>2, StillInPhase
  <2> QED
    BY <1>12, <2>2, <2>3 DEF OnCourse
<1>14. CASE x.file = "LASTPHASE"
  <2>1. Truthful' /\ InPhase'
    BY <1>1, <1>11, <1>14, Recording
  <2> QED
    BY <1>12, <2>1 DEF OnCourse
<1> QED
  BY <1>13, <1>14

\* A file is copied.
LEMMA CopyfileOn ==
  ASSUME PhaseInv, Undisturbed, ~Full, at = "maximize", copyfile
  PROVE  OnCourse'
<1>1. PICK x, u, T : x = todo[1] /\ u = Tail(todo) /\ T = ToSet(u)
  OBVIOUS
<1>2. TypeInv /\ NoneCut /\ InPhase /\ ErrorEnds
  BY DEF PhaseInv, RestoreInv, BackupInv, OnCourse
<1>3. /\ Doing("from") /\ todo' = u /\ at' = at
      /\ UNCHANGED <<Pass, AnyError, run, before, spoilt>>
      /\ disk' = [disk EXCEPT ![Next1.file] = disk[Next1.src]]
  BY <1>1 DEF copyfile, StepDone, Failing, history
<1>4. /\ x \in Step /\ Next1 = x /\ x.op = "from" /\ 1 \in DOMAIN todo
      /\ x.file \in {"AUTOEXEC", "BETA"} /\ x.src \in {"AUTOEXEC", "BETA"}
  BY <1>1, <1>2, <1>3, DoingHead, StepFields
<1>5. ~AnyError
  BY <1>1, <1>2, <1>4 DEF ErrorEnds
<1>6. /\ Pass \in 1..3 /\ Arranged(u) /\ \A y \in T : MayFollow(x, y)
      /\ u # <<>> => u[1].op # "create"
      /\ Outcome({x} \cup T, Pass)
      /\ Pass = 1 => Outcome1({x} \cup T)
      /\ Pass = 2 => Outcome2({x} \cup T)
      /\ Pass = 3 => Outcome3({x} \cup T)
  BY <1>1, <1>5, Ahead
<1>7. disk' = [disk EXCEPT ![x.file] = disk[x.src]] /\ UNCHANGED run /\ UNCHANGED before
      /\ UNCHANGED spoilt /\ UNCHANGED Pass
  BY <1>3, <1>4
<1>8. /\ disk[x.src] \in Content /\ x.file \in Files
      /\ disk'[x.file] = disk[x.src] /\ \A g \in Files : g # x.file => disk'[g] = disk[g]
      /\ "BATCH" \in Files /\ "AUTOEXEC" \in Files /\ "BETA" \in Files
  <2>1. x.file \in Files /\ x.src \in Files /\ "BATCH" \in Files /\ "AUTOEXEC" \in Files /\ "BETA" \in Files
    BY <1>4 DEF Files, Users
  <2>2. disk[x.src] \in Content
    BY <1>2, <2>1 DEF TypeInv, TypeOK
  <2>3. PICK v : v = disk[x.src]
    OBVIOUS
  <2>4. disk' = [disk EXCEPT ![x.file] = v] /\ v \in Content
    BY <1>7, <2>2, <2>3
  <2> QED
    BY <1>2, <2>1, <2>2, <2>3, <2>4, DiskTypes
<1>9. ~Creating /\ ~Creating' /\ Copies({x} \cup T)
  BY <1>1, <1>3, <1>4, <1>6 DEF Creating, Copies
<1>10. Pass # 2
  BY <1>4, <1>6 DEF Outcome2
<1>11. /\ Pass = 1 => x.src = "AUTOEXEC" /\ x.file = "BETA"
       /\ Pass = 3 => x.src = "BETA" /\ x.file = "AUTOEXEC"
  BY <1>4, <1>6 DEF Outcome1, Outcome3
<1>12. x.src # x.file
  BY <1>6, <1>10, <1>11
<1>13. Outcome(T, Pass)'
  <2>1. x.file \notin Rewrites(Pass) /\ Rewrites(Pass) \subseteq Files
    BY <1>6, <1>10, <1>11 DEF Rewrites, Files, Users
  <2>2. \A f \in Rewrites(Pass) : disk'[f] \in Work(Pass) \/ (disk'[f] = disk[f] /\ ~Puts(x, f))
    BY <1>4, <1>8, <2>1 DEF Puts
  <2>3. PICK p : p = Pass
    OBVIOUS
  <2>4. Outcome(T, p)'
    BY <1>6, <1>7, <2>2, <2>3, OutcomeAfter
  <2> QED
    BY <1>7, <2>3, <2>4 DEF Outcome, Work
<1>14. ASSUME Pass = 1
       PROVE  Outcome1(T)'
  <2>1. /\ Outcome1({x} \cup T) /\ x.src = "AUTOEXEC" /\ x.file = "BETA"
    BY <1>6, <1>11, <1>14
  <2>2. disk["AUTOEXEC"] = before["AUTOEXEC"] /\ disk["BATCH"] = before["BATCH"]
    BY <1>9, <2>1 DEF Outcome1
  <2>3. /\ \A y \in T : y.op # "erase" /\ ~WritesTo(y, "BATCH") /\ ~Puts(y, "BETA")
        /\ \A y \in T : y.op = "from" => y.src = "AUTOEXEC" /\ y.file = "BETA"
    BY <2>1 DEF Outcome1
  <2>4. /\ disk'["BETA"] = before'["AUTOEXEC"] /\ disk'["BATCH"] = before'["BATCH"]
        /\ disk'["AUTOEXEC"] = before'["AUTOEXEC"]
    BY <1>7, <1>8, <2>1, <2>2
  <2> QED
    BY <1>9, <2>3, <2>4 DEF Outcome1
<1>15. ASSUME Pass = 3
       PROVE  Outcome3(T)'
  <2>1. /\ Outcome3({x} \cup T) /\ x.src = "BETA" /\ x.file = "AUTOEXEC"
    BY <1>6, <1>11, <1>15
  <2>2. \A y \in T : ~WritesTo(y, "BETA")
    BY <1>4, <1>6, <2>1 DEF MayFollow
  <2>3. disk["BETA"] \in Work(3)
    <3>1. disk["BETA"] \in Work(3) \/ \E y \in {x} \cup T : Puts(y, "BETA")
      BY <1>9, <2>1 DEF Outcome3
    <3>2. \A y \in T : ~Puts(y, "BETA")
      BY <2>2 DEF Puts, WritesTo, Writes
    <3>3. ~Puts(x, "BETA")
      BY <1>4 DEF Puts
    <3> QED
      BY <3>1, <3>2, <3>3
  <2>4. /\ \A y \in T : y.op # "create" /\ ~Puts(y, "AUTOEXEC")
        /\ \A y \in T : y.op = "from" => y.src = "BETA" /\ y.file = "AUTOEXEC"
    BY <2>1 DEF Outcome3
  <2>5. disk'["AUTOEXEC"] \in Work(3) /\ disk'["BETA"] \in Work(3) /\ Work(3)' = Work(3)
    BY <1>7, <1>8, <2>1, <2>3 DEF Work
  <2>6. \/ \E y \in T : y.op = "erase"
        \/ disk'["BETA"] = None
    <3>1. (\E y \in {x} \cup T : y.op = "erase") \/ disk["BETA"] = None
      BY <2>1 DEF Outcome3
    <3> QED
      BY <1>4, <1>8, <2>1, <3>1
  <2> QED
    BY <2>2, <2>4, <2>5, <2>6 DEF Outcome3
<1>16. Progress(todo, Pass)'
  BY <1>1, <1>3, <1>6, <1>7, <1>10, <1>13, <1>14, <1>15, Progressing
<1>17. NoneCut'
  <2>1. SUFFICES ASSUME "torn" \notin spoilt, NEW g \in Users \cup {"BETA"}, disk'[g] = Cut
                 PROVE  FALSE
    BY <1>7 DEF NoneCut
  <2>2. g \in Files /\ x.src \in Users \cup {"BETA"}
    BY <1>4 DEF Files, Users
  <2>3. \A h \in Users \cup {"BETA"} : disk[h] = Cut => x.file = h
    BY <1>1, <1>2, <2>1 DEF NoneCut, Refilled
  <2> QED
    BY <1>8, <1>12, <2>1, <2>2, <2>3
<1>18. Truthful' /\ ~Says(run, Pass) /\ disk'["LASTPHASE"] = disk["LASTPHASE"]
  <2>1. todo[1].op \notin Closing
    BY <1>1, <1>4 DEF Closing
  <2>2. x.file = "AUTOEXEC" \/ Pass = 1
    BY <1>6, <1>10, <1>11
  <2>3. x.file # "LASTPHASE"
    BY <1>4
  <2> QED
    BY <1>7, <1>8, <2>1, <2>2, <2>3, StillTruthful
<1>19. InPhase'
  BY <1>2, <1>7, <1>16, <1>18, StillInPhase
<1> QED
  BY <1>17, <1>18, <1>19 DEF OnCourse

\* AUTOEXEC.ABETA is erased, at the end of the last phase or after an error.
LEMMA EraseOn ==
  ASSUME PhaseInv, Undisturbed, at = "maximize", Erase
  PROVE  OnCourse'
<1>1. PICK x, u, T : x = todo[1] /\ u = Tail(todo) /\ T = ToSet(u)
  OBVIOUS
<1>2. TypeInv /\ NoneCut /\ InPhase
  BY DEF PhaseInv, RestoreInv, BackupInv, OnCourse
<1>3. /\ Doing("erase") /\ todo' = u /\ at' = at
      /\ UNCHANGED <<Pass, AnyError, run, before, spoilt>>
      /\ disk' = [disk EXCEPT ![Next1.file] = None]
  BY <1>1 DEF Erase, StepDone, ram, history
<1>4. x \in Step /\ Next1 = x /\ x.op = "erase" /\ x.file = "BETA"
  BY <1>1, <1>2, <1>3, DoingHead
<1>5. disk' = [disk EXCEPT !["BETA"] = None] /\ UNCHANGED run /\ UNCHANGED before
      /\ UNCHANGED spoilt /\ UNCHANGED Pass
  BY <1>3, <1>4
<1>6. /\ None \in Content /\ None # Cut /\ "BETA" \in Files /\ "BETA" # "LASTPHASE"
      /\ disk'["BETA"] = None /\ \A g \in Files : g # "BETA" => disk'[g] = disk[g]
  <2>1. None \in Content /\ None # Cut /\ "BETA" \in Files
    BY Contents DEF Files
  <2> QED
    BY <1>2, <1>5, <2>1, DiskTypes
<1>7. Pass \in 1..3
  BY <1>2 DEF InPhase
<1>8. ASSUME ~AnyError
      PROVE  Progress(todo, Pass)'
  <2>1. /\ Arranged(u) /\ \A y \in T : MayFollow(x, y)
        /\ Outcome({x} \cup T, Pass)
        /\ Pass = 1 => Outcome1({x} \cup T)
        /\ Pass = 2 => Outcome2({x} \cup T)
        /\ Pass = 3 => Outcome3({x} \cup T)
    BY <1>1, <1>8, Ahead
  <2>2. Pass = 3
    BY <1>4, <1>7, <2>1 DEF Outcome1, Outcome2
  <2>3. \A y \in T : y.op # "from" /\ ~WritesTo(y, "BETA")
    BY <1>4, <2>1 DEF MayFollow
  <2>4. Outcome3({x} \cup T) /\ ~Copies({x} \cup T)
    BY <1>4, <2>1, <2>2, <2>3 DEF Copies
  <2>5. Outcome(T, 3)'
    <3>1. \A f \in Rewrites(3) : f \in Files /\ f # "BETA"
      BY DEF Rewrites, Files, Users
    <3>2. \A f \in Rewrites(3) : disk'[f] \in Work(3) \/ (disk'[f] = disk[f] /\ ~Puts(x, f))
      BY <1>4, <1>6, <3>1 DEF Puts
    <3>3. Outcome({x} \cup T, 3) /\ 3 \in 1..3
      BY <2>1, <2>2
    <3> QED
      BY <1>5, <3>2, <3>3, OutcomeAfter
  <2>6. Outcome3(T)'
    <3>1. /\ \A y \in T : y.op # "create" /\ ~Puts(y, "AUTOEXEC")
          /\ disk["AUTOEXEC"] \in Work(3)
      BY <2>4 DEF Outcome3
    <3>2. "AUTOEXEC" \in Files /\ Work(3)' = Work(3)
      BY <1>5 DEF Files, Users, Work
    <3>3. disk'["AUTOEXEC"] \in Work(3)
      BY <1>6, <3>1, <3>2
    <3>4. ~Copies(T)
      BY <2>3 DEF Copies
    <3> QED
      BY <1>6, <2>3, <3>1, <3>2, <3>3, <3>4 DEF Outcome3, Copies
  <2> QED
    <3>1. PICK p : p = 3 /\ p # 1 /\ p # 2
      OBVIOUS
    <3>2. p = Pass' /\ Outcome(T, p)' /\ Outcome3(T)'
      BY <1>5, <2>2, <2>5, <2>6, <3>1
    <3> QED
      BY <1>1, <1>3, <2>1, <3>1, <3>2, Progressing
<1>9. NoneCut'
  <2>1. SUFFICES ASSUME "torn" \notin spoilt, NEW g \in Users \cup {"BETA"}, disk'[g] = Cut
                 PROVE  FALSE
    BY <1>5 DEF NoneCut
  <2>2. disk[g] # Cut
    BY <1>1, <1>2, <1>4, <2>1 DEF NoneCut, Refilled
  <2>3. g \in Files
    BY DEF Files
  <2> QED
    BY <1>6, <2>1, <2>2, <2>3
<1>10. Truthful' /\ ~Says(run, Pass) /\ disk'["LASTPHASE"] = disk["LASTPHASE"]
  <2>1. todo[1].op \notin Closing
    BY <1>1, <1>4 DEF Closing
  <2>2. PICK f, v : f = "BETA" /\ v = None
    OBVIOUS
  <2>3. /\ f \in Files /\ f # "LASTPHASE" /\ v \in Content /\ disk' = [disk EXCEPT ![f] = v]
        /\ f = "BETA" /\ v = None
    BY <1>5, <1>6, <2>2
  <2> QED
    BY <1>5, <2>1, <2>3, StillTruthful
<1>11. InPhase'
  BY <1>2, <1>3, <1>5, <1>8, <1>10, StillInPhase
<1> QED
  BY <1>9, <1>10, <1>11 DEF OnCourse

\* A step that writes no file.
LEMMA QuietOn ==
  ASSUME PhaseInv, Undisturbed, at = "maximize", UNCHANGED <<at, disk, run, Pass, spoilt>>,
         todo[1].op \notin {"put", "from"},
         UNCHANGED before \/ (Pass = 1 /\ todo[1].op = "create"),
         todo' = Tail(todo) \/ todo[1].op \notin Closing,
         ~AnyError' => Progress(todo, Pass)'
  PROVE  OnCourse'
<1>1. PICK x, u, T : x = todo[1] /\ u = Tail(todo) /\ T = ToSet(u)
  OBVIOUS
<1>2. Truthful /\ NoneCut /\ InPhase /\ run \in 0..MaxRuns
  BY DEF PhaseInv, RestoreInv, BackupInv, TypeInv, TypeOK, OnCourse
<1>3. ToSet(todo) = {x} \cup T /\ Pass \in 1..3
  BY <1>1, Ahead
<1>4. \A r, q : Says(r, q)' <=> Says(r, q)
  BY DEF Says
<1>5. x.op \notin Closing => ~Says(run, Pass)
  BY <1>2, <1>3 DEF InPhase
<1>6. Truthful'
  <2>1. \A q \in 1..3, r \in 0..MaxRuns : Says(r, q)' => r <= run' /\ (q < 3 => r = run')
    BY <1>2, <1>4 DEF Truthful
  <2>2. ASSUME NEW q \in 1..3, Says(run, q)
        PROVE  Reached(q)'
    <3>1. CASE UNCHANGED before
      <4>1. Reached(q)
        BY <1>2, <2>2 DEF Truthful
      <4>2. \A o : Work(o)' = Work(o)
        BY DEF Work
      <4> QED
        BY <3>1, <4>1, <4>2 DEF Reached
    <3>2. CASE Pass = 1 /\ x.op = "create"
      <4>1. ~Says(run, 1) /\ ~Says(run, 3)
        BY <1>2, <1>5, <3>2 DEF InPhase, Closing
      <4>2. disk["LASTPHASE"] # Cut
        BY <1>2, <2>2, Contents DEF Says
      <4>3. disk["LASTPHASE"] = Cut \/ Says(run, Pass) \/ \E r \in 0..MaxRuns : Says(r, LastPhase(Pass))
        BY <1>2 DEF InPhase
      <4>4. PICK r \in 0..MaxRuns : Says(r, LastPhase(Pass))
        BY <3>2, <4>1, <4>2, <4>3
      <4>5. LastPhase(Pass) = 3
        BY <3>2 DEF LastPhase
      <4>6. By(run, q) = By(r, 3)
        BY <2>2, <4>4, <4>5 DEF Says
      <4>7. By(run, q) = By(r, 3) => q = 3
        BY Contents
      <4> QED
        BY <2>2, <4>1, <4>6, <4>7
    <3> QED
      BY <1>1, <3>1, <3>2
  <2>3. \A q \in 1..3 : Says(run, q)' => Reached(q)'
    BY <1>4, <2>2
  <2> QED
    BY <2>1, <2>3 DEF Truthful, Says
<1>7. NoneCut'
  BY <1>1, <1>2 DEF NoneCut, Refilled
<1>8. InPhase'
  <2>1. Says(run, Pass)' => \A y \in ToSet(todo') : y.op \in Closing
    <3>1. CASE x.op \notin Closing
      BY <1>4, <1>5, <3>1 DEF Says
    <3>2. CASE todo' = u
      <4>1. Says(run, Pass) => \A y \in T : y.op \in Closing
        BY <1>2, <1>3 DEF InPhase
      <4> QED
        BY <1>1, <1>4, <3>2, <4>1 DEF Says
    <3> QED
      BY <1>1, <3>1, <3>2
  <2>2. disk'["LASTPHASE"] = Cut \/ Says(run, Pass)' \/ \E r \in 0..MaxRuns : Says(r, LastPhase(Pass))'
    <3>1. disk["LASTPHASE"] = Cut \/ Says(run, Pass) \/ \E r \in 0..MaxRuns : Says(r, LastPhase(Pass))
      BY <1>2 DEF InPhase
    <3> QED
      BY <3>1 DEF Says
  <2>3. Pass' \in 1..3 /\ (Pass' = 1 => ~Says(run, 3)')
    BY <1>2, <1>3 DEF InPhase, Says
  <2> QED
    BY <2>1, <2>2, <2>3 DEF InPhase, Says
<1> QED
  BY <1>6, <1>7, <1>8 DEF OnCourse

\* It is done, and gone.
LEMMA QuietProgress ==
  ASSUME PhaseInv, Undisturbed, at = "maximize", ~AnyError, todo' = Tail(todo),
         UNCHANGED <<disk, run, Pass, spoilt, before>>,
         todo[1].op \notin {"trunc", "put", "from", "erase", "create"}
  PROVE  Progress(todo, Pass)'
<1>1. PICK x, u, T : x = todo[1] /\ u = Tail(todo) /\ T = ToSet(u)
  OBVIOUS
<1>2. /\ Pass \in 1..3 /\ Arranged(u) /\ (u # <<>> => u[1].op # "create")
      /\ Outcome({x} \cup T, Pass)
      /\ Pass = 1 => Outcome1({x} \cup T)
      /\ Pass = 2 => Outcome2({x} \cup T)
      /\ Pass = 3 => Outcome3({x} \cup T)
  BY <1>1, Ahead
<1>3. ~Creating /\ ~Creating'
  BY <1>1, <1>2 DEF Creating
<1>4. Copies({x} \cup T) <=> Copies(T)
  BY <1>1 DEF Copies
<1>5. \A f : ~Puts(x, f)
  BY <1>1 DEF Puts
<1>6. Outcome(T, Pass)'
  <2>1. PICK p : p = Pass
    OBVIOUS
  <2>2. Outcome(T, p)'
    BY <1>2, <1>5, <2>1, OutcomeAfter
  <2> QED
    BY <2>1, <2>2 DEF Outcome, Work
<1>7. Pass = 1 => Outcome1(T)'
  <2>1. Outcome1({x} \cup T) => Outcome1(T)'
    BY <1>3, <1>4 DEF Outcome1, Copies
  <2> QED
    BY <1>2, <2>1
<1>8. Pass = 2 => Outcome2(T)'
  BY <1>2 DEF Outcome2
<1>9. Pass = 3 => Outcome3(T)'
  <2>1. ASSUME Outcome3({x} \cup T)
        PROVE  Outcome3(T)'
    <3>1. /\ \A y \in T : y.op # "create" /\ ~Puts(y, "AUTOEXEC")
          /\ \A y \in T : y.op = "from" => y.src = "BETA" /\ y.file = "AUTOEXEC"
          /\ Copies(T) \/ disk["AUTOEXEC"] \in Work(3)
      BY <1>4, <2>1 DEF Outcome3
    <3>2. Copies(T) => disk["BETA"] \in Work(3) \/ \E y \in T : Puts(y, "BETA")
      BY <1>4, <1>5, <2>1 DEF Outcome3
    <3>3. \/ \E y \in T : y.op = "erase"
          \/ disk["BETA"] = None /\ \A y \in T : ~WritesTo(y, "BETA")
      BY <1>1, <2>1 DEF Outcome3
    <3> QED
      BY <3>1, <3>2, <3>3 DEF Outcome3, Copies, Work
  <2> QED
    BY <1>2, <2>1
<1> QED
  BY <1>1, <1>2, <1>6, <1>7, <1>8, <1>9, Progressing

\* PREMAXIM is created: what the files are now is what they were before.
LEMMA CreateOn ==
  ASSUME PhaseInv, Undisturbed, at = "maximize", restbatcreate
  PROVE  OnCourse' /\ Pass = 1
<1>1. PICK x, u, T : x = todo[1] /\ u = Tail(todo) /\ T = ToSet(u)
  OBVIOUS
<1>2. TypeInv /\ ErrorEnds
  BY DEF PhaseInv, RestoreInv, BackupInv
<1>3. /\ Doing("create") /\ todo' = u /\ at' = at
      /\ UNCHANGED <<disk, Pass, AnyError, run, spoilt>>
      /\ before' = [f \in Users |-> disk[f]]
  BY <1>1 DEF restbatcreate, StepDone, ram
<1>4. x.op = "create" /\ 1 \in DOMAIN todo
  BY <1>1, <1>2, <1>3, DoingHead
<1>5. ~AnyError
  BY <1>1, <1>2, <1>4 DEF ErrorEnds
<1>6. /\ Pass \in 1..3 /\ Arranged(u) /\ (u # <<>> => u[1].op # "create") /\ todo # <<>>
      /\ Outcome({x} \cup T, Pass)
      /\ Pass = 1 => Outcome1({x} \cup T)
      /\ Pass = 2 => Outcome2({x} \cup T)
      /\ Pass = 3 => Outcome3({x} \cup T)
  BY <1>1, <1>5, Ahead
<1>7. Pass = 1
  BY <1>4, <1>6 DEF Outcome2, Outcome3
<1>8. Creating /\ ~Creating'
  BY <1>1, <1>3, <1>4, <1>6 DEF Creating
<1>9. Progress(todo, Pass)'
  <2>1. PICK p : p = 1 /\ p \in 1..3 /\ p # 2 /\ p # 3
    OBVIOUS
  <2>2. Outcome(T, p)'
    <3>1. \A f : ~Puts(x, f)
      BY <1>4 DEF Puts
    <3> QED
      BY <1>3, <1>6, <1>7, <2>1, <3>1, OutcomeAfter
  <2>3. Outcome1({x} \cup T) /\ Copies({x} \cup T)
    BY <1>6, <1>7, <1>8 DEF Outcome1
  <2>4. Copies(T)
    BY <1>4, <2>3 DEF Copies
  <2>5. "BATCH" \in Users /\ "AUTOEXEC" \in Users
    BY DEF Users
  <2>6. disk'["BATCH"] = before'["BATCH"] /\ disk'["AUTOEXEC"] = before'["AUTOEXEC"]
    BY <1>3, <2>5
  <2>7. /\ \A y \in T : y.op # "erase" /\ ~WritesTo(y, "BATCH") /\ ~Puts(y, "BETA")
        /\ \A y \in T : y.op = "from" => y.src = "AUTOEXEC" /\ y.file = "BETA"
    BY <2>3 DEF Outcome1
  <2>8. Outcome1(T)'
    BY <1>8, <2>4, <2>6, <2>7 DEF Outcome1, Copies
  <2>9. p = Pass'
    BY <1>3, <1>7, <2>1
  <2> QED
    BY <1>1, <1>3, <1>6, <2>1, <2>2, <2>8, <2>9, Progressing
<1> QED
  <2>1. todo[1].op \notin {"put", "from"} /\ (Pass = 1 /\ todo[1].op = "create")
    BY <1>1, <1>4, <1>7
  <2>2. todo' = Tail(todo) /\ UNCHANGED <<at, disk, run, Pass, spoilt>>
    BY <1>1, <1>3
  <2> QED
    BY <1>9, <2>1, <2>2, QuietOn

\* The other steps of a phase.
LEMMA OthersOn ==
  ASSUME PhaseInv, Undisturbed, ~Full, at = "maximize",
         savefile \/ restbatappend \/ SkipIfError \/ CheckError \/ Ask
  PROVE  OnCourse'
<1>1. TypeInv /\ ErrorEnds
  BY DEF PhaseInv, RestoreInv, BackupInv
<1>2. PICK o \in {"save", "line", "unless", "check", "abort", "panel"} :
        /\ Doing(o) /\ UNCHANGED <<at, disk, run, Pass, spoilt, before>>
        /\ o = "save" => savefile
        /\ o = "line" => restbatappend
        /\ o = "unless" => SkipIfError
        /\ o \in {"check", "abort"} => CheckError
        /\ o = "panel" => Ask
  BY DEF savefile, restbatappend, SkipIfError, CheckError, Ask, StepDone, Fail, ram, history
<1>3. todo[1].op = o /\ 1 \in DOMAIN todo
  BY <1>1, <1>2, DoingHead
<1>4. ~AnyError
  BY <1>1, <1>2, <1>3 DEF ErrorEnds
<1>5. todo' = Tail(todo) \/ (o = "panel" /\ AnyError')
  <2>1. o = "save" => todo' = Tail(todo)
    BY <1>2 DEF savefile, StepDone
  <2>2. o = "line" => todo' = Tail(todo)
    BY <1>2 DEF restbatappend, StepDone
  <2>3. o = "unless" => todo' = Tail(todo)
    BY <1>2, <1>4 DEF SkipIfError
  <2>4. o \in {"check", "abort"} => todo' = Tail(todo)
    BY <1>2, <1>4 DEF CheckError, StepDone
  <2>5. o = "panel" => todo' = Tail(todo) \/ AnyError'
    BY <1>2 DEF Ask, StepDone
  <2> QED
    BY <1>2, <2>1, <2>2, <2>3, <2>4, <2>5
<1>6. ~AnyError' => Progress(todo, Pass)'
  <2>1. todo[1].op \notin {"trunc", "put", "from", "erase", "create"}
    BY <1>2, <1>3
  <2>2. todo' = Tail(todo) => Progress(todo, Pass)'
    BY <1>2, <1>4, <2>1, QuietProgress
  <2> QED
    BY <1>5, <2>2
<1>7. todo[1].op \notin {"put", "from"}
  BY <1>2, <1>3
<1>8. todo' = Tail(todo) \/ todo[1].op \notin Closing
  BY <1>3, <1>5 DEF Closing
<1> QED
  BY <1>2, <1>6, <1>7, <1>8, QuietOn

\* Between the phases.
LEMMA Resting ==
  ASSUME Truthful, UNCHANGED <<disk, run, before>>, at' # "maximize",
         "torn" \notin spoilt' => \A f \in Users \cup {"BETA"} : disk[f] # Cut
  PROVE  OnCourse'
<1>1. \A r, q : Says(r, q)' <=> Says(r, q)
  BY DEF Says
<1>2. \A q \in 1..3 : Reached(q) => Reached(q)'
  <2>1. \A o : Work(o)' = Work(o)
    BY DEF Work
  <2> QED
    BY <2>1 DEF Reached
<1>3. \A q \in 1..3, r \in 0..MaxRuns : Says(r, q)' => r <= run' /\ (q < 3 => r = run')
  BY <1>1 DEF Truthful
<1>4. \A q \in 1..3 : Says(run, q)' => Reached(q)'
  <2>1. \A q \in 1..3 : Says(run, q) => Reached(q)
    BY DEF Truthful
  <2> QED
    BY <1>2, <2>1 DEF Says
<1>5. Truthful'
  BY <1>3, <1>4 DEF Truthful, Says
<1> QED
  BY <1>5 DEF OnCourse, NoneCut

\* The next phase.
LEMMA LaunchOn ==
  ASSUME PhaseInv, Undisturbed, Launch, at' # "premaxim"
  PROVE  /\ OnCourse' /\ at' = "maximize" /\ at = "launcher"
         /\ \E p \in {2, 3} : /\ todo' = PassSteps(p) /\ Pass' = p
                              /\ UNCHANGED <<disk, run, before, spoilt>>
                              /\ Says(run, p - 1) /\ Reached(p - 1)
<1>1. TypeInv /\ Backups /\ OnCourse /\ Truthful /\ NoneCut /\ RestoreInv /\ run \in 0..MaxRuns
  BY DEF PhaseInv, RestoreInv, BackupInv, Undisturbed, TypeInv, TypeOK, OnCourse
<1>2. at = "launcher"
  BY DEF Launch
<1>3. PICK p : p = disk["AUTOEXEC"][2] + 1
  OBVIOUS
<1>4. disk["BETA"] # None /\ UNCHANGED run /\ check_lastphase(p)
  BY <1>3 DEF Launch, Premaxim
<1>5. p \in {2, 3}
  BY <1>1, <1>2, <1>3, NextPhase
<1>6. p = 2 \/ p = 3
  BY <1>5
<1>7. disk["LASTPHASE"] # None
  BY <1>1, <1>2, <1>4 DEF Backups, Undisturbed
<1>8. p \in 1..3 /\ p # 1 /\ LastPhase(p) = p - 1 /\ p - 1 \in 1..3 /\ p - 1 < 3
  BY <1>6 DEF LastPhase
<1>9. PICK r \in 0..MaxRuns : Says(r, p - 1)
  <2>1. RightPhase(p)
    BY <1>4, <1>7 DEF check_lastphase
  <2> QED
    BY <1>8, <2>1 DEF RightPhase, Says
<1>10. r = run
  BY <1>1, <1>8, <1>9 DEF Truthful
<1>11. Says(run, p - 1) /\ Reached(p - 1)
  BY <1>1, <1>8, <1>9, <1>10 DEF Truthful
<1>12. /\ todo' = PassSteps(p) /\ Pass' = p /\ at' = "maximize"
       /\ UNCHANGED <<disk, run, before, spoilt>>
  BY <1>4, <1>7, <1>8 DEF check_lastphase, Undisturbed
<1>13. Progress(todo, Pass)'
  BY <1>1, <1>2, <1>4, <1>8, <1>12, Begun
<1>14. \A s, q : Says(s, q)' <=> Says(s, q)
  BY <1>12 DEF Says
<1>15. ~Says(run, p)
  <2>1. By(run, p) = By(run, p - 1) => p = p - 1
    BY Contents
  <2>2. p # p - 1
    BY <1>6
  <2> QED
    BY <1>11, <2>1, <2>2 DEF Says
<1>16. InPhase'
  <2>1. Pass' \in 1..3 /\ Pass' # 1 /\ LastPhase(Pass') = p - 1
    BY <1>8, <1>12
  <2>2. ~Says(run, Pass)'
    BY <1>12, <1>15 DEF Says
  <2>3. \E s \in 0..MaxRuns : Says(s, LastPhase(Pass))'
    BY <1>9, <1>12, <2>1 DEF Says
  <2> QED
    BY <1>13, <2>1, <2>2, <2>3 DEF InPhase, Says
<1>17. Truthful'
  <2>1. \A o : Work(o)' = Work(o)
    BY <1>12 DEF Work
  <2>2. \A q \in 1..3 : Says(run, q)' => Reached(q)'
    BY <1>1, <1>12, <2>1 DEF Truthful, Says, Reached
  <2>3. \A q \in 1..3, s \in 0..MaxRuns : Says(s, q)' => s <= run' /\ (q < 3 => s = run')
    BY <1>1, <1>12 DEF Truthful, Says
  <2> QED
    BY <2>2, <2>3 DEF Truthful, Says
<1>18. NoneCut'
  BY <1>1, <1>2, <1>12 DEF NoneCut, Refilled
<1> QED
  BY <1>2, <1>5, <1>11, <1>12, <1>16, <1>17, <1>18 DEF OnCourse

\* The first phase.
LEMMA StartOn ==
  ASSUME PhaseInv, StartMaximize, Undisturbed'
  PROVE  OnCourse'
<1>1. /\ at = "dos" /\ run' = run + 1 /\ run < MaxRuns /\ check_lastphase(1)
  BY DEF StartMaximize
<1>2. /\ at' = "maximize" /\ todo' = PassSteps(1) /\ Pass' = 1 /\ AnyError' = FALSE
      /\ UNCHANGED before /\ spoilt \subseteq spoilt'
      /\ disk["LASTPHASE"] = None \/ RightPhase(1)
      /\ disk["LASTPHASE"] = None => disk' = [disk EXCEPT !["LASTPHASE"] = Cut]
      /\ disk["LASTPHASE"] # None => disk' = disk
  BY <1>1 DEF check_lastphase
<1>3. Undisturbed
  BY <1>1, <1>2 DEF Undisturbed
<1>4. TypeInv /\ OnCourse /\ Truthful /\ NoneCut /\ RestoreInv
  BY <1>3 DEF PhaseInv, RestoreInv, BackupInv, OnCourse
<1>5. run \in 0..MaxRuns /\ run' \in 0..MaxRuns /\ run < run'
  BY <1>1, <1>4, BoundsAssumption DEF TypeInv, TypeOK
<1>6. Progress(todo, Pass)'
  <2>1. PICK p : p = 1 /\ p \in 1..3
    OBVIOUS
  <2> QED
    BY <1>1, <1>4, <1>5, <2>1, Begun
<1>7. /\ "LASTPHASE" \in Files /\ Cut \in Content /\ Cut # None
      /\ disk["LASTPHASE"] = None => disk'["LASTPHASE"] = Cut
      /\ \A g \in Users \cup {"BETA"} : disk'[g] = disk[g]
  <2>1. "LASTPHASE" \in Files /\ Cut \in Content /\ Cut # None
    BY Contents DEF Files
  <2>2. \A g \in Users \cup {"BETA"} : g \in Files /\ g # "LASTPHASE"
    BY DEF Files, Users
  <2> QED
    BY <1>2, <1>4, <2>1, <2>2, DiskTypes
<1>8. disk'["LASTPHASE"] = Cut \/ \E r \in 0..MaxRuns : r <= run /\ disk'["LASTPHASE"] = By(r, 3)
  <2>1. CASE disk["LASTPHASE"] = None
    BY <1>7, <2>1
  <2>2. CASE disk["LASTPHASE"] # None
    <3>1. LastPhase(1) = 3
      BY DEF LastPhase
    <3>2. PICK r \in 0..MaxRuns : disk["LASTPHASE"] = By(r, 3)
      BY <1>2, <2>2, <3>1 DEF RightPhase
    <3>3. Says(r, 3) /\ 3 \in 1..3
      BY <3>2 DEF Says
    <3>4. r <= run
      BY <1>4, <3>3 DEF Truthful
    <3> QED
      BY <1>2, <2>2, <3>2, <3>4
  <2> QED
    BY <2>1, <2>2
<1>9. ASSUME NEW r \in 0..MaxRuns, NEW q \in 1..3, disk'["LASTPHASE"] = By(r, q)
      PROVE  q = 3 /\ r <= run /\ r # run'
  <2>1. By(r, q) # Cut
    BY Contents
  <2>2. PICK s \in 0..MaxRuns : s <= run /\ disk'["LASTPHASE"] = By(s, 3)
    BY <1>8, <1>9, <2>1
  <2>3. By(r, q) = By(s, 3) => r = s /\ q = 3
    BY Contents
  <2>4. r = s /\ q = 3
    BY <1>9, <2>2, <2>3
  <2>5. s <= run => s # run'
    BY <1>5
  <2> QED
    BY <2>2, <2>4, <2>5
<1>10. Truthful'
  <2>1. \A q \in 1..3 : ~Says(run, q)'
    BY <1>5, <1>9 DEF Says
  <2>2. \A q \in 1..3, r \in 0..MaxRuns : Says(r, q)' => r <= run' /\ (q < 3 => r = run')
    <3>1. \A r \in 0..MaxRuns : r <= run => r <= run'
      BY <1>5
    <3>2. ~(3 < 3)
      OBVIOUS
    <3> QED
      BY <1>9, <3>1, <3>2 DEF Says
  <2> QED
    BY <2>1, <2>2 DEF Truthful
<1>11. NoneCut'
  BY <1>1, <1>2, <1>4, <1>7 DEF NoneCut, Refilled
<1>12. InPhase'
  <2>1. LastPhase(Pass') = 3 /\ Pass' = 1 /\ 1 \in 1..3 /\ 3 \in 1..3
    BY <1>2 DEF LastPhase
  <2>2. ~Says(run, 1)' /\ ~Says(run, 3)'
    BY <1>5, <1>9, <2>1 DEF Says
  <2>3. disk'["LASTPHASE"] = Cut \/ \E r \in 0..MaxRuns : Says(r, LastPhase(Pass))'
    BY <1>8, <2>1 DEF Says
  <2>4. ~Says(run, Pass)'
    BY <2>1, <2>2 DEF Says
  <2> QED
    BY <1>6, <2>1, <2>2, <2>3, <2>4 DEF InPhase, Says
<1> QED
  BY <1>10, <1>11, <1>12 DEF OnCourse

\* What the machine and its user do besides.
LEMMA RestOn ==
  ASSUME PhaseInv, Undisturbed',
         \/ maxout \/ Reboot \/ Restored \/ RestoredThenAutoexec \/ Boot
         \/ Interrupt \/ Crash \/ StartPremaxim \/ Restart
  PROVE  OnCourse'
<1>1. TypeInv
  BY DEF PhaseInv, RestoreInv, BackupInv
<1>2. ASSUME Undisturbed, UNCHANGED <<disk, run, before>>, at' # "maximize",
             at # "maximize" \/ todo[1].op \notin {"put", "from"},
             "torn" \notin spoilt' => "torn" \notin spoilt
      PROVE  OnCourse'
  <2>1. Truthful /\ NoneCut
    BY <1>2 DEF PhaseInv, OnCourse
  <2>2. "torn" \notin spoilt' => \A f \in Users \cup {"BETA"} : disk[f] # Cut
    BY <1>2, <2>1 DEF NoneCut, Refilled
  <2> QED
    BY <1>2, <2>1, <2>2, Resting
<1>3. CASE maxout \/ Reboot
  <2>1. PICK o \in {"out", "reboot"} : Doing(o)
    BY <1>3 DEF maxout, Reboot
  <2>2. at = "maximize" /\ todo[1].op = o
    BY <1>1, <2>1, DoingHead DEF Restoring
  <2>3. UNCHANGED <<disk, run, before, spoilt>> /\ at' # "maximize"
    BY <1>3 DEF maxout, Reboot, Premaxim, Prompt, history
  <2>4. Undisturbed
    BY <2>2, <2>3 DEF Undisturbed
  <2> QED
    BY <1>2, <2>1, <2>2, <2>3, <2>4
<1>4. CASE Restored \/ RestoredThenAutoexec
  <2>1. disk["LASTPHASE"] = None
    BY <1>1, <1>4, EndOfPremaxim DEF Restored, RestoredThenAutoexec
  <2>2. /\ UNCHANGED <<disk, run, before>> /\ Torn \subseteq spoilt'
        /\ Premaxim("autoexec") \/ Prompt
    BY <1>4 DEF Restored, RestoredThenAutoexec
  <2>3. at' # "maximize"
    BY <2>2 DEF Premaxim, Prompt
  <2>4. \A r \in 0..MaxRuns, q \in 1..3 : ~Says(r, q)
    BY <2>1, Contents DEF Says
  <2>5. run \in 0..MaxRuns
    BY <1>1 DEF TypeInv, TypeOK
  <2>6. Truthful
    BY <2>4, <2>5 DEF Truthful
  <2>7. "torn" \notin spoilt' => \A f \in Users \cup {"BETA"} : disk[f] # Cut
    BY <2>2 DEF Torn
  <2> QED
    BY <2>2, <2>3, <2>6, <2>7, Resting
<1>5. CASE Boot \/ Restart
  <2>1. /\ UNCHANGED <<disk, run, before, spoilt>> /\ at \in {"boot", "dos"}
        /\ at' # "maximize"
    BY <1>5 DEF Boot, Restart, Premaxim, Prompt, history
  <2>2. Undisturbed
    BY <2>1 DEF Undisturbed
  <2> QED
    BY <1>2, <2>1, <2>2
<1>6. CASE Interrupt
  <2>1. /\ UNCHANGED <<disk, run, before>> /\ at \in {"launcher", "premaxim"} /\ at' = "dos"
        /\ spoilt \subseteq spoilt' /\ (at = "premaxim" => "halfway" \in spoilt')
        /\ (at # "premaxim" => spoilt' = spoilt)
    BY <1>6 DEF Interrupt, Prompt
  <2>2. Undisturbed
    BY <2>1 DEF Undisturbed
  <2>3. at # "maximize"
    BY <2>1
  <2> QED
    BY <1>2, <2>1, <2>2, <2>3 DEF Undisturbed
<1>7. CASE Crash
  <2>1. /\ UNCHANGED <<disk, run, before>> /\ at' = "boot"
        /\ spoilt \subseteq spoilt' /\ (at = "premaxim" => "halfway" \in spoilt')
        /\ Torn \subseteq spoilt'
    BY <1>7 DEF Crash
  <2>2. Undisturbed
    BY <2>1 DEF Undisturbed
  <2>3. "torn" \notin spoilt' => \A f \in Users \cup {"BETA"} : disk[f] # Cut
    BY <2>1 DEF Torn
  <2>4. Truthful
    BY <2>2 DEF PhaseInv, OnCourse
  <2>5. at' # "maximize"
    BY <2>1
  <2> QED
    BY <2>1, <2>3, <2>4, <2>5, Resting
<1>8. CASE StartPremaxim
  BY <1>8 DEF StartPremaxim, Premaxim, Undisturbed
<1> QED
  BY <1>3, <1>4, <1>5, <1>6, <1>7, <1>8

\* Nothing happens.
LEMMA OnCourseStill ==
  ASSUME OnCourse, UNCHANGED vars
  PROVE  OnCourse'
<1>1. UNCHANGED <<disk, at, todo, Pass, AnyError, run, before, spoilt>>
  BY DEF vars, ram, history
<1>2. Truthful'
  BY <1>1 DEF OnCourse, Truthful, Says, Reached, Work
<1>3. NoneCut'
  BY <1>1 DEF OnCourse, NoneCut, Refilled
<1>4. ASSUME at = "maximize"
      PROVE  InPhase'
  <2>1. InPhase
    BY <1>4 DEF OnCourse
  <2>2. ~AnyError => Progress(todo, Pass)'
    <3>1. ASSUME Progress(todo, Pass)
          PROVE  Progress(todo, Pass)'
      <4>1. PICK u, p, S : u = todo /\ p = Pass /\ S = ToSet(u)
        OBVIOUS
      <4>2. /\ Arranged(u) /\ Outcome(S, p)
            /\ p = 1 => Outcome1(S)
            /\ p = 2 => Outcome2(S)
            /\ p = 3 => Outcome3(S)
        BY <3>1, <4>1 DEF Progress
      <4>3. Outcome(S, p)'
        BY <1>1, <4>2 DEF Outcome, Work
      <4>4. (Creating' <=> Creating) /\ Work(3)' = Work(3)
        BY <1>1 DEF Creating, Work
      <4>5. p = 1 => Outcome1(S)'
        BY <1>1, <4>2, <4>4 DEF Outcome1
      <4>6. p = 2 => Outcome2(S)'
        BY <4>2 DEF Outcome2
      <4>7. p = 3 => Outcome3(S)'
        BY <1>1, <4>2, <4>4 DEF Outcome3
      <4>8. u = todo' /\ p = Pass'
        BY <1>1, <4>1
      <4> QED
        BY <4>1, <4>2, <4>3, <4>5, <4>6, <4>7, <4>8, Progressing
    <3> QED
      BY <2>1, <3>1 DEF InPhase
  <2>3. \A r, q : Says(r, q)' <=> Says(r, q)
    BY <1>1 DEF Says
  <2>4. Says(run, Pass)' => \A y \in ToSet(todo') : y.op \in Closing
    BY <1>1, <2>1, <2>3 DEF InPhase, Says
  <2>5. disk'["LASTPHASE"] = Cut \/ Says(run, Pass)' \/ \E r \in 0..MaxRuns : Says(r, LastPhase(Pass))'
    <3>1. disk["LASTPHASE"] = Cut \/ Says(run, Pass) \/ \E r \in 0..MaxRuns : Says(r, LastPhase(Pass))
      BY <2>1 DEF InPhase
    <3> QED
      BY <1>1, <3>1 DEF Says
  <2>6. Pass' \in 1..3 /\ (Pass' = 1 => ~Says(run, 3)') /\ (~AnyError' => ~AnyError)
    BY <1>1, <2>1 DEF InPhase, Says
  <2> QED
    BY <1>1, <2>2, <2>4, <2>5, <2>6 DEF InPhase, Says
<1> QED
  BY <1>1, <1>2, <1>3, <1>4 DEF OnCourse

LEMMA PhaseStays ==
  ASSUME ~Full
  PROVE  PhaseInv /\ [Next]_vars => PhaseInv'
<1>1. SUFFICES ASSUME PhaseInv, [Next]_vars, Undisturbed'
               PROVE  OnCourse'
  BY RestoreStays DEF PhaseInv
<1>2. ASSUME UNCHANGED <<at, spoilt>>, at \in {"maximize", "premaxim"}
      PROVE  Undisturbed /\ at = "maximize"
  BY <1>1, <1>2 DEF Undisturbed
<1>3. CASE UNCHANGED vars
  <2>1. Undisturbed
    BY <1>1, <1>3 DEF Undisturbed, vars, history
  <2>2. OnCourse
    BY <1>1, <2>1 DEF PhaseInv
  <2> QED
    BY <1>3, <2>2, OnCourseStill
<1>4. CASE restbatcreate \/ savefile \/ restbatappend \/ Truncate \/ Put \/ Copy \/ copyfile
           \/ Erase \/ SkipIfError \/ CheckError \/ Ask
  <2>1. UNCHANGED <<at, spoilt>> /\ at \in {"maximize", "premaxim"}
    BY <1>4 DEF restbatcreate, savefile, restbatappend, Truncate, Put, Copy, copyfile, Erase,
           SkipIfError, CheckError, Ask, StepDone, Fail, Doing, history
  <2>2. Undisturbed /\ at = "maximize"
    BY <1>2, <2>1
  <2>3. ~Copy
    <3>1. TypeInv
      BY <1>1 DEF PhaseInv, RestoreInv, BackupInv
    <3>2. ~Doing("copy")
      BY <2>2, <3>1, DoingHead
    <3> QED
      BY <3>2 DEF Copy
  <2>4. CASE restbatcreate
    BY <1>1, <2>2, <2>4, CreateOn
  <2>5. CASE savefile \/ restbatappend \/ SkipIfError \/ CheckError \/ Ask
    BY <1>1, <2>2, <2>5, OthersOn
  <2>6. CASE Truncate
    BY <1>1, <2>2, <2>6, TruncateOn
  <2>7. CASE Put
    BY <1>1, <2>2, <2>7, PutOn
  <2>8. CASE copyfile
    BY <1>1, <2>2, <2>8, CopyfileOn
  <2>9. CASE Erase
    BY <1>1, <2>2, <2>9, EraseOn
  <2> QED
    BY <1>4, <2>3, <2>4, <2>5, <2>6, <2>7, <2>8, <2>9
<1>5. CASE Launch
  <2>1. UNCHANGED spoilt \/ at' = "maximize"
    BY <1>5 DEF Launch, check_lastphase, history
  <2>2. spoilt \subseteq spoilt' /\ at = "launcher"
    BY <1>5 DEF Launch, check_lastphase, history
  <2>3. Undisturbed /\ at' # "premaxim"
    BY <1>1, <2>2 DEF Undisturbed
  <2> QED
    BY <1>1, <1>5, <2>3, LaunchOn
<1>6. CASE StartMaximize
  BY <1>1, <1>6, StartOn
<1>7. CASE \/ maxout \/ Reboot \/ Restored \/ RestoredThenAutoexec \/ Boot
           \/ Interrupt \/ Crash \/ StartPremaxim \/ Restart
  BY <1>1, <1>7, RestOn
<1> QED
  BY <1>1, <1>3, <1>4, <1>5, <1>6, <1>7 DEF Next, Machine

LEMMA PhaseInit ==
  Init => PhaseInv
<1>1. SUFFICES ASSUME Init
               PROVE  OnCourse
  BY RestoreInit DEF PhaseInv
<1>2. /\ at = "dos" /\ run = 0
      /\ disk = [f \in Files |-> IF f \in Users THEN By(0, 3) ELSE None]
  BY <1>1 DEF Init
<1>3. 0 \in 0..MaxRuns /\ By(0, 3) # Cut /\ None # Cut
  BY BoundsAssumption, Contents
<1>4. disk["LASTPHASE"] = None
  BY <1>2 DEF Files, Users
<1>5. \A r \in 0..MaxRuns, q \in 1..3 : ~Says(r, q)
  BY <1>4, Contents DEF Says
<1>6. Truthful
  BY <1>2, <1>3, <1>5 DEF Truthful
<1>7. \A f \in Users \cup {"BETA"} : disk[f] # Cut
  <2>1. Users \cup {"BETA"} \subseteq Files
    BY DEF Files
  <2> QED
    BY <1>2, <1>3, <2>1
<1> QED
  BY <1>2, <1>6, <1>7 DEF OnCourse, NoneCut

LEMMA PhaseInvHolds ==
  ASSUME ~Full
  PROVE  Spec => []PhaseInv
  BY PhaseInit, PhaseStays, PTL DEF Spec

\* A file that is empty is being written, and is not while LASTPHASE says that
\* the last phase is through.
LEMMA NoneRefilled ==
  ASSUME PhaseInv, Undisturbed, Says(run, 3), NEW f, Refilled(f)
  PROVE  FALSE
<1>1. /\ TypeInv /\ run \in 0..MaxRuns
      /\ at = "maximize" /\ todo # <<>> /\ todo[1].op \in {"put", "from"}
  BY DEF PhaseInv, RestoreInv, BackupInv, TypeInv, TypeOK, Refilled
<1>2. InPhase
  BY <1>1 DEF PhaseInv, OnCourse
<1>3. todo[1] \in ToSet(todo)
  <2>1. todo \in Seq(Step)
    BY <1>1 DEF TypeInv, TodoShape
  <2>2. 1 \in DOMAIN todo
    BY <1>1, <2>1, EmptySeq, LenProperties
  <2> QED
    BY <2>2 DEF ToSet
<1>4. ~Says(run, Pass)
  BY <1>1, <1>2, <1>3 DEF InPhase, Closing
<1>5. disk["LASTPHASE"] # Cut
  <2>1. By(run, 3) # Cut
    BY <1>1, Contents
  <2> QED
    BY <2>1 DEF Says
<1>6. PICK r \in 0..MaxRuns : Says(r, LastPhase(Pass))
  BY <1>2, <1>4, <1>5 DEF InPhase
<1>7. LastPhase(Pass) = 3
  <2>1. By(r, LastPhase(Pass)) = By(run, 3)
    BY <1>6 DEF Says
  <2>2. By(r, LastPhase(Pass)) = By(run, 3) => LastPhase(Pass) = 3
    BY Contents
  <2> QED
    BY <2>1, <2>2
<1>8. Pass = 1
  <2>1. Pass \in 1..3
    BY <1>2 DEF InPhase
  <2> QED
    BY <1>7, <2>1 DEF LastPhase
<1> QED
  BY <1>2, <1>8 DEF InPhase

\* Unless the disk is full, when LASTPHASE says that the last phase of the run
\* is through, every file of the user's is the work of that phase, and the
\* launcher and AUTOEXEC.ABETA are gone, wherever the machine was switched off
\* if no file was being written and PREMAXIM was not broken off.
THEOREM FinishHolds ==
  ASSUME ~Full
  PROVE  Spec => []FinishedIsWhole
<1>1. ASSUME PhaseInv, Says(run, 3), spoilt \cap CutShort = {}, at # "premaxim"
      PROVE  (\A f \in Users : disk[f] = By(run, 3)) /\ disk["BETA"] = None
  <2>1. Undisturbed /\ "torn" \notin spoilt
    BY <1>1 DEF Undisturbed, CutShort
  <2>2. Truthful /\ NoneCut
    BY <1>1, <2>1 DEF PhaseInv, OnCourse
  <2>3. Reached(3)
    BY <1>1, <2>2 DEF Truthful
  <2>4. (\A f \in Users : disk[f] \in Work(3)) /\ disk["BETA"] = None
    BY <2>3 DEF Reached
  <2>5. \A f \in Users : disk[f] # Cut
    BY <1>1, <2>1, <2>2, NoneRefilled DEF NoneCut
  <2> QED
    BY <2>4, <2>5 DEF Work
<1>2. PhaseInv => FinishedIsWhole
  BY <1>1 DEF FinishedIsWhole, Says
<1> QED
  BY <1>2, PhaseInvHolds, PTL

\* Unless the disk is full, a launcher starts a phase only over the files that
\* the phase before it has left, or that the phase has itself rewritten before
\* the machine was switched off: no file is one phase behind or one ahead.
THEOREM PhasesFollow ==
  ASSUME ~Full
  PROVE  Spec => OverItsPhase
<1> DEFINE Follows ==
      \A f \in {"CONFIG", "PROFILE", "BETA", "BATCH"} :
         \/ \E p \in {Pass' - 1, Pass'} : disk[f] = By(run, p)
         \/ Pass' = 2 /\ f = "BATCH" /\ disk[f] = before[f]
         \/ Pass' = 2 /\ f = "BETA" /\ disk[f] = before["AUTOEXEC"]
<1>1. ASSUME PhaseInv, Launch, at' = "maximize", spoilt \cap CutShort = {}
      PROVE  Follows
  <2>1. at = "launcher"
    BY <1>1 DEF Launch
  <2>2. Undisturbed /\ "torn" \notin spoilt
    BY <1>1, <2>1 DEF Undisturbed, CutShort
  <2>3. PICK p \in {2, 3} : Pass' = p /\ Reached(p - 1)
    BY <1>1, <2>2, LaunchOn
  <2>4. NoneCut
    BY <1>1, <2>2 DEF PhaseInv, OnCourse
  <2>5. \A f \in Users \cup {"BETA"} : disk[f] # Cut
    BY <2>1, <2>2, <2>4 DEF NoneCut, Refilled
  <2>6. disk["BETA"] # None
    BY <1>1 DEF Launch, Premaxim
  <2>7. {"CONFIG", "PROFILE", "BETA", "BATCH"} \subseteq Users \cup {"BETA"}
    BY DEF Users
  <2>8. CASE p = 2
    <3>1. Reached(1)
      BY <2>3, <2>8
    <3>2. /\ disk["CONFIG"] \in Work(1) \cup Work(2) /\ disk["PROFILE"] \in Work(1) \cup Work(2)
          /\ disk["BATCH"] \in {before["BATCH"]} \cup Work(2)
          /\ disk["BETA"] \in {before["AUTOEXEC"], None} \cup Work(2)
      BY <3>1 DEF Reached
    <3>3. Pass' = 2 /\ Pass' - 1 = 1
      BY <2>3, <2>8
    <3> QED
      BY <2>5, <2>6, <2>7, <3>2, <3>3 DEF Work
  <2>9. CASE p = 3
    <3>1. Reached(2)
      BY <2>3, <2>9
    <3>2. /\ disk["CONFIG"] \in Work(2) \cup Work(3) /\ disk["PROFILE"] \in Work(2) \cup Work(3)
          /\ disk["BATCH"] \in Work(2) \cup Work(3)
          /\ disk["BETA"] \in {None} \cup Work(2) \cup Work(3)
      BY <3>1 DEF Reached
    <3>3. Pass' = 3 /\ Pass' - 1 = 2
      BY <2>3, <2>9
    <3> QED
      BY <2>5, <2>6, <2>7, <3>2, <3>3 DEF Work
  <2> QED
    BY <2>3, <2>8, <2>9
<1>2. PhaseInv => [Launch /\ at' = "maximize" /\ spoilt \cap CutShort = {} => Follows]_vars
  BY <1>1
<1> QED
  BY <1>2, PhaseInvHolds, PTL DEF OverItsPhase

-----------------------------------------------------------------------------
(* PREMAXIM is made anew.                                                  *)

\* The user's files are those that some run has finished, or cut.
Finishes(c) == c = Cut \/ \E r \in 0..run : c = By(r, 3)
Whole(files) == \A f \in Users : Finishes(files[f])

\* They are when a run begins, and when LASTPHASE is not there, unless
\* PREMAXIM was broken off or has copied what it should not.
Orderly == spoilt \cap {"over", "again", "wrong"} = {}
BeginsWhole ==
    /\ Whole(before)
    /\ Creating => Whole(disk)
    /\ at # "premaxim" /\ disk["LASTPHASE"] = None /\ "halfway" \notin spoilt => Whole(disk)
WholeInv == PhaseInv /\ (Orderly => BeginsWhole)

\* A later run does not take anything away.
LEMMA WholeLater ==
  ASSUME run \in Nat, run' \in Nat, run <= run', NEW a, NEW b, \A f \in Users : b[f] = a[f],
         Whole(a)
  PROVE  Whole(b)'
<1>1. \A r \in 0..run : r \in 0..run'
  OBVIOUS
<1>2. \A f \in Users : a[f] = Cut \/ \E r \in 0..run : a[f] = By(r, 3)
  BY DEF Whole, Finishes
<1>3. \A f \in Users : b[f] = Cut \/ \E r \in 0..run' : b[f] = By(r, 3)
  BY <1>1, <1>2
<1> QED
  BY <1>3 DEF Whole, Finishes

\* Only MAXIMIZE creates PREMAXIM, and LASTPHASE is there as long as it runs.
LEMMA OutsideMaximize ==
  PhaseInv /\ Orderly =>
     /\ at # "maximize" => ~Creating
     /\ at = "maximize" => disk["LASTPHASE"] # None
<1> SUFFICES ASSUME PhaseInv, Orderly
             PROVE  /\ at # "maximize" => ~Creating
                    /\ at = "maximize" => disk["LASTPHASE"] # None
  OBVIOUS
<1>1. TypeInv /\ Backups
  BY DEF PhaseInv, RestoreInv, BackupInv, Orderly
<1>2. CASE at = "premaxim"
  <2>1. /\ \A i \in DOMAIN todo : todo[i].op \in Restoring
        /\ todo \in Seq(Step) /\ todo # <<>> /\ Len(todo) \in Nat
    BY <1>1, <1>2, AtHead DEF TypeInv, TodoShape
  <2>2. 1 \in DOMAIN todo
    BY <2>1, EmptySeq, LenProperties
  <2> QED
    BY <1>1, <1>2, <2>1, <2>2 DEF Creating, Restoring, Backups
<1>3. CASE at \notin {"maximize", "premaxim"}
  <2>1. todo = <<>>
    BY <1>1, <1>3 DEF TypeInv, TypeOK
  <2> QED
    BY <1>3, <2>1 DEF Creating
<1> QED
  BY <1>1, <1>2, <1>3 DEF Backups

\* What a step has to keep.
LEMMA StillWhole ==
  ASSUME PhaseInv', Orderly', BeginsWhole, UNCHANGED <<run, before>>, run \in Nat,
         at' = "maximize" => ~Creating',
         at' \notin {"maximize", "premaxim"} /\ disk'["LASTPHASE"] = None
           /\ "halfway" \notin spoilt' => UNCHANGED disk /\ Whole(disk)
  PROVE  BeginsWhole'
<1>1. Whole(before)'
  BY WholeLater DEF BeginsWhole
<1>2. (PhaseInv /\ Orderly =>
         /\ at # "maximize" => ~Creating
         /\ at = "maximize" => disk["LASTPHASE"] # None)'
  BY OutsideMaximize, PTL
<1>3. ~Creating' /\ (at' = "maximize" => disk'["LASTPHASE"] # None)
  BY <1>2
<1>4. ASSUME at' # "premaxim", disk'["LASTPHASE"] = None, "halfway" \notin spoilt'
      PROVE  Whole(disk)'
  BY <1>3, <1>4, WholeLater
<1> QED
  BY <1>1, <1>3, <1>4 DEF BeginsWhole

\* The steps of MAXIMIZE and of PREMAXIM.
LEMMA StepsWhole ==
  ASSUME ~Full, WholeInv, PhaseInv', Orderly', run \in Nat,
         \/ savefile \/ restbatappend \/ Truncate \/ Put \/ Copy \/ copyfile \/ Erase
         \/ SkipIfError \/ CheckError \/ Ask
  PROVE  BeginsWhole'
<1>1. /\ UNCHANGED <<at, run, before, spoilt>> /\ at \in {"maximize", "premaxim"}
  BY DEF savefile, restbatappend, Truncate, Put, Copy, copyfile, Erase,
         SkipIfError, CheckError, Ask, StepDone, Fail, Doing, history
<1>2. BeginsWhole
  BY <1>1 DEF WholeInv, Orderly
<1>3. TypeInv /\ ErrorEnds /\ Backups
  BY <1>1 DEF WholeInv, PhaseInv, RestoreInv, BackupInv, Orderly
<1>4. ASSUME at = "maximize"
      PROVE  ~Creating'
  <2>1. PICK u : u = Tail(todo)
    OBVIOUS
  <2>2. u # <<>> => u[1].op # "create"
    BY <1>3, <1>4, <2>1, CreatedOnce
  <2>3. todo' = u => ~Creating'
    BY <2>2 DEF Creating
  <2>4. ~Copy
    <3>1. ~Doing("copy")
      BY <1>3, <1>4, DoingHead
    <3> QED
      BY <3>1 DEF Copy
  <2>5. CASE savefile \/ restbatappend \/ Truncate \/ Put \/ copyfile \/ Erase
    BY <2>1, <2>3, <2>5 DEF savefile, restbatappend, Truncate, Put, copyfile, Erase, StepDone
  <2>6. CASE SkipIfError \/ CheckError
    <3>1. PICK o \in {"unless", "check", "abort"} : Doing(o)
      BY <2>6 DEF SkipIfError, CheckError
    <3>2. todo[1].op = o /\ 1 \in DOMAIN todo
      BY <1>3, <3>1, DoingHead
    <3>3. ~AnyError
      BY <1>3, <1>4, <3>2 DEF ErrorEnds
    <3>4. todo' = Tail(todo)
      BY <2>6, <3>3 DEF SkipIfError, CheckError, StepDone
    <3> QED
      BY <2>1, <2>3, <3>4
  <2>7. CASE Ask
    <3>1. PICK b : b = Bottom
      OBVIOUS
    <3>2. b[1].op = "erase"
      BY <3>1 DEF Bottom, Op, Line
    <3>3. todo' = u \/ todo' = b
      BY <2>1, <2>7, <3>1 DEF Ask, StepDone, Fail
    <3> QED
      BY <2>3, <3>2, <3>3 DEF Creating
  <2> QED
    BY <2>4, <2>5, <2>6, <2>7
<1> QED
  BY <1>1, <1>2, <1>4, StillWhole

\* PREMAXIM is created.
LEMMA CreateWhole ==
  ASSUME WholeInv, PhaseInv', Orderly', run \in Nat, restbatcreate
  PROVE  BeginsWhole'
<1>1. /\ Doing("create") /\ UNCHANGED <<at, disk, run, spoilt>>
      /\ before' = [f \in Users |-> disk[f]]
  BY DEF restbatcreate, StepDone, ram
<1>2. BeginsWhole /\ TypeInv
  BY <1>1 DEF WholeInv, Orderly, PhaseInv, RestoreInv, BackupInv
<1>3. at = "maximize" /\ Creating
  <2>1. /\ todo[1].op = "create" /\ at \in {"maximize", "premaxim"}
        /\ at = "premaxim" => "create" \in Restoring
    BY <1>1, <1>2, DoingHead
  <2>2. todo # <<>>
    BY <1>1 DEF Doing
  <2> QED
    BY <2>1, <2>2 DEF Creating, Restoring
<1>4. Whole(disk)
  BY <1>2, <1>3 DEF BeginsWhole
<1>5. Whole(disk)'
  BY <1>1, <1>4, WholeLater
<1>6. \A f \in Users : before'[f] = disk[f]
  BY <1>1
<1>7. Whole(before)'
  BY <1>1, <1>4, <1>6, WholeLater
<1> QED
  BY <1>5, <1>7 DEF BeginsWhole

\* What the machine and its user do, MAXIMIZE aside.
LEMMA RestWhole ==
  ASSUME WholeInv, PhaseInv', Orderly', run \in Nat,
         \/ maxout \/ Reboot \/ Restored \/ RestoredThenAutoexec \/ Boot
         \/ Interrupt \/ Crash \/ StartPremaxim \/ Restart
         \/ Launch /\ at' = "premaxim"
  PROVE  BeginsWhole'
<1>1. /\ UNCHANGED <<disk, run, before>> /\ at' # "maximize" /\ Orderly
      /\ Restored \/ RestoredThenAutoexec \/ spoilt \subseteq spoilt'
  BY DEF maxout, Reboot, Restored, RestoredThenAutoexec, Boot, Interrupt, Crash,
         StartPremaxim, Restart, Launch, check_lastphase, Premaxim, Prompt, Orderly, history
<1>2. BeginsWhole /\ PhaseInv /\ TypeInv
  BY <1>1 DEF WholeInv, PhaseInv, RestoreInv, BackupInv
<1>3. ASSUME at' # "premaxim", disk["LASTPHASE"] = None, "halfway" \notin spoilt'
      PROVE  Whole(disk)
  <2>1. at # "maximize"
    BY <1>1, <1>2, <1>3, OutsideMaximize
  <2>2. ASSUME at # "premaxim", "halfway" \notin spoilt
        PROVE  Whole(disk)
    BY <1>2, <1>3, <2>2 DEF BeginsWhole
  <2>3. CASE maxout \/ Reboot
    <3>1. PICK o \in {"out", "reboot"} : Doing(o)
      BY <2>3 DEF maxout, Reboot
    <3>2. at = "maximize"
      BY <1>2, <3>1, DoingHead DEF Restoring
    <3> QED
      BY <2>1, <3>2
  <2>4. CASE Restored \/ RestoredThenAutoexec
    <3>1. RestoreInv
      BY <1>2 DEF PhaseInv
    <3>2. Wrong \subseteq spoilt' /\ "over" \notin spoilt
      BY <1>1, <2>4 DEF Restored, RestoredThenAutoexec, Orderly
    <3>3. "wrong" \notin spoilt'
      BY DEF Orderly
    <3>4. \A f \in Users : LastCopy(f)
      BY <3>2, <3>3 DEF Wrong
    <3>5. \A f \in Users : disk[f] = before[f]
      BY <2>4, <3>1, <3>2, <3>4, EndRestores
    <3>6. Whole(before)
      BY <1>2 DEF BeginsWhole
    <3> QED
      BY <3>5, <3>6 DEF Whole
  <2>5. CASE Boot \/ StartPremaxim \/ Restart \/ (Launch /\ at' = "premaxim")
    <3>1. at # "premaxim" /\ spoilt \subseteq spoilt'
      BY <2>5 DEF Boot, StartPremaxim, Restart, Launch, check_lastphase, history
    <3> QED
      BY <1>3, <2>2, <3>1
  <2>6. CASE Interrupt \/ Crash
    <3>1. at = "premaxim" => "halfway" \in spoilt'
      BY <2>6 DEF Interrupt, Crash
    <3>2. spoilt \subseteq spoilt'
      BY <2>6 DEF Interrupt, Crash
    <3> QED
      BY <1>3, <2>2, <3>1, <3>2
  <2> QED
    BY <1>3, <2>3, <2>4, <2>5, <2>6
<1> QED
  BY <1>1, <1>2, <1>3, StillWhole

\* A launcher goes on with a run, and PREMAXIM stays.
LEMMA LaunchWhole ==
  ASSUME WholeInv, PhaseInv', Orderly', run \in Nat, Launch, at' = "maximize"
  PROVE  BeginsWhole'
<1>1. /\ UNCHANGED <<run, before>> /\ spoilt \subseteq spoilt' /\ at = "launcher"
      /\ "halfway" \in spoilt => "over" \in spoilt'
      /\ AnyError' = FALSE
  BY DEF Launch, check_lastphase, Premaxim
<1>2. Orderly
  BY <1>1 DEF Orderly
<1>3. BeginsWhole /\ PhaseInv
  BY <1>2 DEF WholeInv
<1>4. Undisturbed
  BY <1>1 DEF Undisturbed, Orderly
<1>5. OnCourse' /\ Pass' \in {2, 3}
  BY <1>3, <1>4, LaunchOn
<1>6. Progress(todo, Pass)'
  BY <1>1, <1>5 DEF OnCourse, InPhase
<1>7. \A x \in ToSet(todo') : x.op # "create"
  BY <1>5, <1>6 DEF Progress, Outcome2, Outcome3
<1>8. ~Creating'
  <2>1. TypeInv'
    BY DEF PhaseInv, RestoreInv, BackupInv
  <2>2. PICK s : s = todo'
    OBVIOUS
  <2>3. s \in Seq(Step)
    BY <2>1, <2>2 DEF TypeInv, TodoShape
  <2>4. s # <<>> => 1 \in DOMAIN s
    BY <2>3, EmptySeq, LenProperties
  <2>5. s # <<>> => s[1] \in ToSet(s)
    BY <2>4 DEF ToSet
  <2> QED
    BY <1>7, <2>2, <2>5 DEF Creating
<1> QED
  BY <1>1, <1>3, <1>8, StillWhole

\* A run begins.
LEMMA StartWhole ==
  ASSUME WholeInv, PhaseInv', Orderly', StartMaximize
  PROVE  BeginsWhole'
<1>1. /\ at = "dos" /\ run' = run + 1 /\ at' = "maximize" /\ UNCHANGED before
      /\ spoilt \subseteq spoilt'
      /\ "halfway" \in spoilt => "over" \in spoilt'
      /\ disk["LASTPHASE"] \notin {None, By(run, 3)} => "again" \in spoilt'
      /\ disk' = disk \/ disk' = [disk EXCEPT !["LASTPHASE"] = Cut]
  BY DEF StartMaximize, check_lastphase
<1>2. Orderly
  BY <1>1 DEF Orderly
<1>3. BeginsWhole /\ PhaseInv /\ TypeInv
  BY <1>2 DEF WholeInv, PhaseInv, RestoreInv, BackupInv
<1>4. Undisturbed /\ "halfway" \notin spoilt
  BY <1>1 DEF Undisturbed, Orderly
<1>5. run \in Nat /\ run' \in Nat /\ run <= run'
  BY <1>1, <1>3, BoundsAssumption DEF TypeInv, TypeOK
<1>6. Whole(disk)
  <2>1. disk["LASTPHASE"] = None \/ disk["LASTPHASE"] = By(run, 3)
    BY <1>1 DEF Orderly
  <2>2. CASE disk["LASTPHASE"] = None
    BY <1>1, <1>3, <1>4, <2>2 DEF BeginsWhole
  <2>3. CASE disk["LASTPHASE"] = By(run, 3)
    <3>1. Reached(3)
      BY <1>3, <1>4, <2>3 DEF PhaseInv, OnCourse, Truthful, Says
    <3>2. run \in 0..run
      BY <1>5
    <3>3. \A f \in Users : disk[f] = Cut \/ disk[f] = By(run, 3)
      BY <3>1 DEF Reached, Work
    <3> QED
      BY <3>2, <3>3 DEF Whole, Finishes
  <2> QED
    BY <2>1, <2>2, <2>3
<1>7. \A f \in Users : disk'[f] = disk[f]
  <2>1. "LASTPHASE" \in Files /\ Cut \in Content /\ \A f \in Users : f \in Files /\ f # "LASTPHASE"
    BY Contents DEF Files, Users
  <2> QED
    BY <1>1, <1>3, <2>1, DiskTypes
<1>8. Whole(disk)' /\ Whole(before)'
  BY <1>1, <1>3, <1>5, <1>6, <1>7, WholeLater DEF BeginsWhole
<1> QED
  BY <1>8 DEF BeginsWhole

LEMMA WholeStays ==
  ASSUME ~Full
  PROVE  WholeInv /\ [Next]_vars => WholeInv'
<1>1. SUFFICES ASSUME WholeInv, [Next]_vars, PhaseInv', Orderly'
               PROVE  BeginsWhole'
  BY PhaseStays DEF WholeInv
<1>2. run \in Nat
  BY <1>1 DEF WholeInv, PhaseInv, RestoreInv, BackupInv, TypeInv, TypeOK
<1>3. CASE UNCHANGED vars
  <2>1. UNCHANGED <<disk, at, todo, run, before, spoilt>>
    BY <1>3 DEF vars, history
  <2> QED
    BY <1>1, <2>1 DEF WholeInv, BeginsWhole, Orderly, Whole, Finishes, Creating
<1>4. CASE restbatcreate
  BY <1>1, <1>2, <1>4, CreateWhole
<1>5. CASE \/ savefile \/ restbatappend \/ Truncate \/ Put \/ Copy \/ copyfile \/ Erase
           \/ SkipIfError \/ CheckError \/ Ask
  BY <1>1, <1>2, <1>5, StepsWhole
<1>6. CASE \/ maxout \/ Reboot \/ Restored \/ RestoredThenAutoexec \/ Boot
           \/ Interrupt \/ Crash \/ StartPremaxim \/ Restart
  BY <1>1, <1>2, <1>6, RestWhole
<1>7. CASE Launch
  <2>1. at' = "premaxim" \/ at' = "maximize"
    BY <1>7 DEF Launch, check_lastphase, Premaxim
  <2> QED
    BY <1>1, <1>2, <1>7, <2>1, LaunchWhole, RestWhole
<1>8. CASE StartMaximize
  BY <1>1, <1>8, StartWhole
<1> QED
  BY <1>1, <1>3, <1>4, <1>5, <1>6, <1>7, <1>8 DEF Next, Machine

LEMMA WholeInit ==
  Init => WholeInv
<1>1. SUFFICES ASSUME Init
               PROVE  BeginsWhole
  BY PhaseInit DEF WholeInv
<1>2. /\ run = 0 /\ before = [f \in Users |-> By(0, 3)]
      /\ disk = [f \in Files |-> IF f \in Users THEN By(0, 3) ELSE None]
  BY <1>1 DEF Init
<1>3. 0 \in 0..run /\ \A f \in Users : before[f] = By(0, 3) /\ disk[f] = By(0, 3)
  BY <1>2 DEF Files
<1> QED
  BY <1>3 DEF BeginsWhole, Whole, Finishes

\* Unless the disk is full, PREMAXIM is made anew only when every file of the
\* user's is one that some run has finished, if nothing was cut short, no run
\* was begun anew before its end, and PREMAXIM has copied no wrong backup.
THEOREM RunsStartWhole ==
  ASSUME ~Full
  PROVE  Spec => RunStartsWhole
<1>1. ASSUME WholeInv, restbatcreate, spoilt = {}
      PROVE  \A f \in Users : \E r \in 0..run : disk[f] = By(r, 3)
  <2>1. PhaseInv /\ BeginsWhole /\ TypeInv
    BY <1>1 DEF WholeInv, Orderly, PhaseInv, RestoreInv, BackupInv
  <2>2. Doing("create")
    BY <1>1 DEF restbatcreate
  <2>3. at = "maximize" /\ todo # <<>> /\ todo[1].op = "create"
    <3>1. /\ todo[1].op = "create" /\ at \in {"maximize", "premaxim"}
          /\ at = "premaxim" => "create" \in Restoring
      BY <2>1, <2>2, DoingHead
    <3> QED
      BY <2>2, <3>1 DEF Doing, Restoring
  <2>4. Whole(disk)
    BY <2>1, <2>3 DEF BeginsWhole, Creating
  <2>5. NoneCut
    BY <1>1, <2>1, <2>3 DEF PhaseInv, OnCourse, Undisturbed
  <2>6. \A f \in Users : disk[f] # Cut
    BY <1>1, <2>3, <2>5 DEF NoneCut, Refilled
  <2> QED
    BY <2>4, <2>6 DEF Whole, Finishes
<1>2. WholeInv => [restbatcreate /\ spoilt = {} =>
                     \A f \in Users : \E r \in 0..run : disk[f] = By(r, 3)]_vars
  BY <1>1
<1>3. Spec => []WholeInv
  BY WholeInit, WholeStays, PTL DEF Spec
<1> QED
  BY <1>2, <1>3, PTL DEF RunStartsWhole

=============================================================================
