------------------------------- MODULE Phases -------------------------------
(***************************************************************************)
(* The three phases of MAXIMIZE (MAXIMIZE/MAXIMIZE.C, PASS1.C, PASS2.C,    *)
(* PASS3.C, REBOOT.C).  Each phase rewrites CONFIG.SYS, the profile and    *)
(* the batch files and restarts the machine; AUTOEXEC.BAT is replaced by a *)
(* launcher that starts the next phase, and its own text lives in          *)
(* AUTOEXEC.ABETA until the last phase copies it back.  The file LASTPHASE *)
(* says which phase ran last.  PREMAXIM.BAT, a batch file that grows while *)
(* files are saved, copies them back.                                      *)
(*                                                                         *)
(* What MAXIMIZE does to the disk is a list of steps; a phase is the list  *)
(* that it has still to do.  The machine can be switched off between any   *)
(* two of them, and a file that is being written is empty until it is      *)
(* closed.  Only who wrote a file matters, and in which run and phase.     *)
(***************************************************************************)
EXTENDS Naturals, Sequences, SequencesExt

CONSTANTS
    MaxRuns,        \* bound: how often the user starts MAXIMIZE
    MaxCrashes,     \* bound: how often the machine is switched off
    Full            \* the disk may be full

ASSUME BoundsAssumption == MaxRuns \in Nat /\ MaxCrashes \in Nat /\ Full \in BOOLEAN

Users == {"CONFIG", "PROFILE", "AUTOEXEC", "BATCH"}
Files == Users \cup {"BETA", "LASTPHASE"}

\* What a file holds: the work of a phase of a run.  The user's own files
\* are those that run 0 has finished.
None == <<>>
Cut == <<0>>
By(r, p) == <<r, p>>
Content == {None, Cut} \cup ((0..MaxRuns) \X (1..3))

VARIABLES
    disk,           \* what each file holds
    premaxim,       \* the lines of PREMAXIM.BAT that erase or copy a file
    at,             \* what the machine is doing
    todo,           \* the steps left of the program that runs
    Pass,
    AnyError,
    SavedFiles,     \* the backup that savefile made of each file
    run,            \* history: bound
    crashes,        \* history: bound
    before,         \* history: the user's files when PREMAXIM was created
    spoilt          \* history: what was cut short, see below

\* A file was being written when the machine went off; PREMAXIM was broken
\* off; a phase was begun although PREMAXIM had been.  The first phase was
\* begun anew although the run before it had not come to its end; PREMAXIM
\* has copied a backup of what a file was later on.
CutShort == {"torn", "halfway", "over"}
Harm == CutShort \cup {"again", "wrong"}

ram == <<Pass, AnyError, SavedFiles>>
history == <<run, crashes, before, spoilt>>
vars == <<disk, premaxim, at, todo, ram, history>>

Line(o, f, c) == [op |-> o, file |-> f, data |-> c]
Op(o, f) == Line(o, f, None)

Unless(ops) == <<[op |-> "unless", n |-> Len(ops)]>> \o ops
Panel == <<Op("panel", "")>>
Check == <<Op("check", "")>>
Abort == <<Op("abort", "")>>

\* A program that rewrites a file writes what it has read of it: of a file
\* that was cut there is nothing left.
Rewritten(p, f) == IF disk[f] = Cut THEN Cut ELSE By(run', p)
Write(f, c) == <<Op("trunc", f), Line("put", f, c)>>
CopyFile(from, to) == <<Op("trunc", to), [op |-> "from", file |-> to, src |-> from]>>
Backup(f) == <<Op("save", f), Op("line", f)>>

doreboot(p) ==
    Panel \o Write("AUTOEXEC", By(run', p)) \o Check
          \o Write("LASTPHASE", By(run', p)) \o Check \o <<Op("reboot", "")>>

\* Mutant of pass1: the profile is saved after it has been written.
pass1_SavesLate ==
    <<Op("create", "")>> \o Panel
    \o Write("PROFILE", Rewritten(1, "PROFILE")) \o Backup("PROFILE") \o Check
    \o Backup("CONFIG") \o Check \o Write("CONFIG", Rewritten(1, "CONFIG")) \o Check
    \o CopyFile("AUTOEXEC", "BETA") \o Backup("AUTOEXEC") \o Check \o doreboot(1)

\* Mutant of pass1: AUTOEXEC.BAT, which has a copy anyway, is not saved.
pass1_TrustsBeta ==
    <<Op("create", "")>> \o Panel
    \o Backup("PROFILE") \o Check \o Write("PROFILE", Rewritten(1, "PROFILE"))
    \o Backup("CONFIG") \o Check \o Write("CONFIG", Rewritten(1, "CONFIG")) \o Check
    \o CopyFile("AUTOEXEC", "BETA") \o doreboot(1)

pass1 ==
    <<Op("create", "")>>
    \o Panel
    \o Backup("PROFILE") \o Check \o Write("PROFILE", Rewritten(1, "PROFILE"))
    \o Backup("CONFIG") \o Check \o Write("CONFIG", Rewritten(1, "CONFIG")) \o Check
    \o CopyFile("AUTOEXEC", "BETA")
    \o Backup("AUTOEXEC") \o Check
    \o doreboot(1)

\* A batch file with no line left is not marked, and is not written.
wrbatfile(p, f) ==
    IF disk[f] \in {None, Cut} THEN <<>>
    ELSE Check \o (IF p = 2 /\ f # "BETA" THEN Backup(f) ELSE <<>>)
               \o Write(f, By(run', p)) \o Abort

\* Mutant of pass2: the profile is written when everything else is done.
pass2_ProfileLast ==
    Panel \o Write("CONFIG", Rewritten(2, "CONFIG"))
    \o wrbatfile(2, "BETA") \o wrbatfile(2, "BATCH") \o Check \o Panel
    \o SubSeq(doreboot(2), 1, Len(doreboot(2)) - 1)
    \o Write("PROFILE", Rewritten(2, "PROFILE")) \o <<Op("reboot", "")>>

pass2 ==
    Panel
    \o Write("CONFIG", Rewritten(2, "CONFIG"))
    \o wrbatfile(2, "BETA") \o wrbatfile(2, "BATCH") \o Check
    \o Panel
    \o Write("PROFILE", Rewritten(2, "PROFILE"))
    \o doreboot(2)

wrfiles3 ==
    Write("CONFIG", Rewritten(3, "CONFIG"))
    \o Unless(Write("PROFILE", Rewritten(3, "PROFILE")))
    \o Unless(wrbatfile(3, "BETA") \o wrbatfile(3, "BATCH"))
    \o CopyFile("BETA", "AUTOEXEC") \o <<Op("erase", "BETA")>>

\* Mutant of pass3: the phase is recorded before its files are written.
pass3_RecordsFirst ==
    Panel \o Write("LASTPHASE", By(run', 3)) \o Check
          \o wrfiles3 \o Check \o <<Op("reboot", "")>>

pass3 ==
    Panel \o wrfiles3 \o Check
          \o Write("LASTPHASE", By(run', 3)) \o Check \o <<Op("reboot", "")>>

PassSteps(p) == CASE p = 1 -> pass1 [] p = 2 -> pass2 [] p = 3 -> pass3

\* The phase that has to be the last one for this one to go on.
LastPhase(p) == IF p = 1 THEN 3 ELSE p - 1
RightPhase(p) == \E r \in 0..MaxRuns : disk["LASTPHASE"] = By(r, LastPhase(p))

\* check_lastphase, and the phase with its steps.  A file that is not there
\* is created, whatever the phase.
check_lastphase(p) ==
    /\ disk["LASTPHASE"] = None \/ RightPhase(p)
    /\ disk' = IF disk["LASTPHASE"] = None
               THEN [disk EXCEPT !["LASTPHASE"] = Cut] ELSE disk
    /\ at' = "maximize"
    /\ todo' = PassSteps(p)
    /\ Pass' = p
    /\ AnyError' = FALSE
    /\ SavedFiles' = [f \in Users |-> None]
    /\ spoilt' = spoilt
          \cup (IF "halfway" \in spoilt THEN {"over"} ELSE {})
          \cup (IF p = 1 /\ disk["LASTPHASE"] \notin {None, By(run, 3)} THEN {"again"} ELSE {})
    /\ UNCHANGED <<premaxim, crashes, before>>

\* PREMAXIM.BAT is run, and what comes after it.
Premaxim(after) ==
    /\ at' = "premaxim"
    /\ todo' = Append(premaxim, Op(after, ""))
    /\ AnyError' = FALSE

\* Mutant of Prompt: what was left to do is not forgotten.
Prompt_KeepsTodo == at' = "dos" /\ UNCHANGED todo /\ AnyError' = FALSE
Prompt == at' = "dos" /\ todo' = <<>> /\ AnyError' = FALSE

-----------------------------------------------------------------------------
(* The steps of MAXIMIZE and of PREMAXIM.                                  *)

Next1 == Head(todo)
Doing(o) == at \in {"maximize", "premaxim"} /\ todo # <<>> /\ Next1.op = o
StepDone == todo' = Tail(todo) /\ UNCHANGED at
Failing == Full /\ at = "maximize"

\* Mutant of restbatcreate: the copy of AUTOEXEC.BAT is left on the disk.
restbatcreate_KeepsBeta ==
    /\ Doing("create") /\ StepDone
    /\ premaxim' = <<Op("erase", "LASTPHASE")>>
    /\ before' = [f \in Users |-> disk[f]]
    /\ UNCHANGED <<disk, ram, run, crashes, spoilt>>

\* restbatcreate: PREMAXIM.BAT begins with the lines that erase LASTPHASE
\* and AUTOEXEC.ABETA.
restbatcreate ==
    /\ Doing("create") /\ StepDone
    /\ premaxim' = <<Op("erase", "LASTPHASE"), Op("erase", "BETA")>>
    /\ before' = [f \in Users |-> disk[f]]
    /\ UNCHANGED <<disk, ram, run, crashes, spoilt>>

\* savefile copies the file to a name that is still free.  On a full disk
\* the copy fails, and SavedFiles stays as it was.
savefile ==
    /\ Doing("save") /\ StepDone
    /\ \/ /\ SavedFiles' = [SavedFiles EXCEPT ![Next1.file] = disk[Next1.file]]
          /\ UNCHANGED AnyError
       \/ /\ Failing
          /\ AnyError' = TRUE
          /\ UNCHANGED SavedFiles
    /\ UNCHANGED <<disk, premaxim, Pass, history>>

\* restbatappend
restbatappend ==
    /\ Doing("line") /\ StepDone
    /\ premaxim' = Append(premaxim, Line("copy", Next1.file, SavedFiles[Next1.file]))
    /\ UNCHANGED <<disk, ram, history>>

\* A file is opened for writing, and is empty from then on.
Truncate ==
    /\ Doing("trunc") /\ StepDone
    /\ disk' = [disk EXCEPT ![Next1.file] = Cut]
    /\ UNCHANGED <<premaxim, ram, history>>

\* The file is written and closed.  Nothing is written after an error.  On a
\* full disk the file stays cut; the library may not notice until it closes
\* the file, and no caller looks at what fclose returns.
Put ==
    /\ Doing("put") /\ StepDone
    /\ \/ disk' = [disk EXCEPT ![Next1.file] = IF AnyError THEN Cut ELSE Next1.data]
          /\ UNCHANGED AnyError
       \/ /\ Failing
          /\ AnyError' \in (IF Next1.file = "AUTOEXEC" THEN {TRUE} ELSE {TRUE, AnyError})
          /\ UNCHANGED disk
    /\ UNCHANGED <<premaxim, Pass, SavedFiles, history>>

\* A line of PREMAXIM copies a backup; one that names none copies nothing.
Copy ==
    /\ Doing("copy") /\ UNCHANGED at
    /\ \/ Next1.data = None /\ todo' = Tail(todo) /\ UNCHANGED disk
       \/ /\ Next1.data # None
          /\ disk' = [disk EXCEPT ![Next1.file] = Cut]
          /\ todo' = <<Line("put", Next1.file, Next1.data)>> \o Tail(todo)
    /\ UNCHANGED <<premaxim, ram, history>>

\* copyfile
copyfile ==
    /\ Doing("from") /\ StepDone
    /\ \/ /\ disk' = [disk EXCEPT ![Next1.file] = disk[Next1.src]]
          /\ UNCHANGED AnyError
       \/ /\ Failing
          /\ AnyError' = TRUE
          /\ UNCHANGED disk
    /\ UNCHANGED <<premaxim, Pass, SavedFiles, history>>

Erase ==
    /\ Doing("erase") /\ StepDone
    /\ disk' = [disk EXCEPT ![Next1.file] = None]
    /\ UNCHANGED <<premaxim, ram, history>>

\* What follows is skipped after an error.
SkipIfError ==
    /\ Doing("unless") /\ UNCHANGED at
    /\ todo' = IF AnyError THEN SubSeq(todo, 2 + Next1.n, Len(todo)) ELSE Tail(todo)
    /\ UNCHANGED <<disk, premaxim, ram, history>>

\* After an error the phase ends at its bottom, where restmsg removes
\* AUTOEXEC.ABETA; do_error leaves the program at once.
Bottom == <<Op("erase", "BETA"), Op("out", "")>>
Fail(rest) == todo' = rest /\ UNCHANGED at

CheckError ==
    /\ Doing("check") \/ Doing("abort")
    /\ IF ~AnyError THEN StepDone
       ELSE Fail(IF Next1.op = "check" THEN Bottom ELSE <<Op("out", "")>>)
    /\ UNCHANGED <<disk, premaxim, ram, history>>

\* A panel or a browse window: the user goes on, or presses ESC.
Ask ==
    /\ Doing("panel")
    /\ \/ StepDone /\ UNCHANGED AnyError
       \/ Fail(Bottom) /\ AnyError' = TRUE
    /\ UNCHANGED <<disk, premaxim, Pass, SavedFiles, history>>

Launcher == \E r \in 1..MaxRuns, p \in 1..2 : disk["AUTOEXEC"] = By(r, p)

\* maxout after an error.  Phase 1 runs PREMAXIM itself; the others return to
\* the launcher, which does it if its text is still there.
maxout ==
    /\ Doing("out")
    /\ IF Pass = 1 \/ Launcher THEN Premaxim("dos") ELSE Prompt
    /\ UNCHANGED <<disk, premaxim, Pass, SavedFiles, history>>

Reboot ==
    /\ Doing("reboot")
    /\ at' = "boot" /\ todo' = <<>>
    /\ UNCHANGED <<disk, premaxim, ram, history>>

\* The lines that copy a file, and whether the last one copies what it was.
CopiesOf(f) == {i \in DOMAIN premaxim : premaxim[i].op = "copy" /\ premaxim[i].file = f}
LastCopy(f) ==
    \A i \in CopiesOf(f) : (\A j \in CopiesOf(f) : j <= i) => premaxim[i].data = before[f]

Torn == IF \E f \in Users \cup {"BETA"} : disk[f] = Cut THEN {"torn"} ELSE {}
Wrong == IF \E f \in Users : ~LastCopy(f) THEN {"wrong"} ELSE {}

\* The end of PREMAXIM, which leaves nothing half restored.
Restored ==
    /\ Doing("dos")
    /\ Prompt
    /\ spoilt' = (spoilt \cap {"over", "again", "wrong"}) \cup Torn \cup Wrong
    /\ UNCHANGED <<disk, premaxim, Pass, SavedFiles, run, crashes, before>>

\* ERRMAXIM without an argument starts AUTOEXEC.BAT after the restore.  A
\* launcher finds that 386MAX is not there, and starts ERRMAXIM.
RestoredThenAutoexec ==
    /\ Doing("autoexec")
    /\ IF Launcher THEN Premaxim("autoexec") ELSE Prompt
    /\ spoilt' = (spoilt \cap {"over", "again", "wrong"}) \cup Torn \cup Wrong
    /\ UNCHANGED <<disk, premaxim, Pass, SavedFiles, run, crashes, before>>

-----------------------------------------------------------------------------
(* The machine and its user.                                               *)

\* CONFIG.SYS is processed, then AUTOEXEC.BAT.  386MAX may fail to install,
\* and does when there is nothing in CONFIG.SYS.
Boot ==
    /\ at = "boot"
    /\ \/ ~Launcher /\ Prompt
       \/ Launcher /\ disk["CONFIG"] # Cut /\ at' = "launcher" /\ UNCHANGED <<todo, AnyError>>
       \/ Launcher /\ Premaxim("autoexec")
    /\ UNCHANGED <<disk, premaxim, Pass, SavedFiles, history>>

\* BATPROC processes AUTOEXEC.ABETA, then the launcher starts the next phase.
\* If either fails it runs PREMAXIM.
Launch ==
    /\ at = "launcher"
    /\ LET p == disk["AUTOEXEC"][2] + 1
       IN  \/ disk["BETA"] # None /\ UNCHANGED run /\ check_lastphase(p)
           \/ /\ Premaxim("dos")
              /\ UNCHANGED <<disk, premaxim, Pass, SavedFiles, history>>

\* The user breaks off a batch file.
Interrupt ==
    /\ at \in {"launcher", "premaxim"}
    /\ Prompt
    /\ spoilt' = spoilt \cup (IF at = "premaxim" THEN {"halfway"} ELSE {})
    /\ UNCHANGED <<disk, premaxim, Pass, SavedFiles, run, crashes, before>>

\* The machine is switched off.
Crash ==
    /\ crashes < MaxCrashes
    /\ at \in {"launcher", "maximize", "premaxim"}
    /\ crashes' = crashes + 1
    /\ at' = "boot" /\ todo' = <<>>
    /\ Pass' = 0 /\ AnyError' = FALSE
    /\ SavedFiles' = [f \in Users |-> None]
    /\ spoilt' = spoilt
          \cup (IF at = "premaxim" THEN {"halfway"} ELSE {})
          \cup Torn
    /\ UNCHANGED <<disk, premaxim, run, before>>

\* The user starts MAXIMIZE, PREMAXIM or the machine.
StartMaximize ==
    /\ at = "dos" /\ run < MaxRuns
    /\ run' = run + 1
    /\ check_lastphase(1)

StartPremaxim ==
    /\ at = "dos" /\ premaxim # <<>>
    /\ Premaxim("dos")
    /\ UNCHANGED <<disk, premaxim, Pass, SavedFiles, history>>

Restart ==
    /\ at = "dos"
    /\ at' = "boot"
    /\ UNCHANGED <<disk, premaxim, todo, ram, history>>

Init ==
    /\ disk = [f \in Files |-> IF f \in Users THEN By(0, 3) ELSE None]
    /\ premaxim = <<>>
    /\ at = "dos" /\ todo = <<>>
    /\ Pass = 0 /\ AnyError = FALSE
    /\ SavedFiles = [f \in Users |-> None]
    /\ run = 0 /\ crashes = 0
    /\ before = [f \in Users |-> By(0, 3)]
    /\ spoilt = {}

Machine ==
    \/ restbatcreate \/ savefile \/ restbatappend
    \/ Truncate \/ Put \/ Copy \/ copyfile \/ Erase
    \/ SkipIfError \/ CheckError \/ Ask \/ maxout \/ Reboot
    \/ Restored \/ RestoredThenAutoexec
    \/ Boot \/ Launch

Next == Machine \/ Interrupt \/ Crash \/ StartMaximize \/ StartPremaxim \/ Restart

Spec == Init /\ [][Next]_vars /\ WF_vars(Machine)

-----------------------------------------------------------------------------
(* Properties.                                                             *)

\* The type invariant.
TypeOK ==
    /\ disk \in [Files -> Content]
    /\ \A l \in ToSet(premaxim) : l.op \in {"erase", "copy"} /\ l.file \in Files
    /\ at \in {"dos", "boot", "launcher", "maximize", "premaxim"}
    /\ (todo = <<>>) <=> at \in {"dos", "boot", "launcher"}
    /\ Pass \in 0..3 /\ AnyError \in BOOLEAN
    /\ SavedFiles \in [Users -> Content]
    /\ before \in [Users -> Content]
    /\ run \in 0..MaxRuns /\ crashes \in 0..MaxCrashes /\ spoilt \subseteq Harm

\* A file of the user's that is no longer what it was when the run began has
\* a line in PREMAXIM that names a backup of what it was, wherever the
\* machine was switched off (savefile and restbatappend come before every
\* first write).
BackedUp ==
    \A f \in Users :
        disk[f] # before[f] /\ "over" \notin spoilt =>
            \E i \in CopiesOf(f) : premaxim[i].data = before[f]

\* When PREMAXIM has run to its end a file is what it was, if of the lines
\* that copy it the last one names the right backup, and LASTPHASE and
\* AUTOEXEC.ABETA are gone.
RestoredWhole ==
    [][Restored \/ RestoredThenAutoexec =>
        /\ \A f \in Users : LastCopy(f) /\ "over" \notin spoilt => disk[f] = before[f]
        /\ disk["LASTPHASE"] = None /\ disk["BETA"] = None]_vars

\* A phase goes past check_lastphase only over files that the phase before
\* it has left, or that it has itself rewritten before the machine was
\* switched off: no file is one phase behind or one ahead.
OverItsPhase ==
    [][Launch /\ at' = "maximize" /\ spoilt \cap CutShort = {} =>
        /\ \A f \in {"CONFIG", "PROFILE", "BETA", "BATCH"} :
            \/ \E p \in {Pass' - 1, Pass'} : disk[f] = By(run, p)
            \/ Pass' = 2 /\ f = "BATCH" /\ disk[f] = before[f]
            \/ Pass' = 2 /\ f = "BETA" /\ disk[f] = before["AUTOEXEC"]]_vars

\* Of the lines that copy a file the last one has the last word, and names a
\* backup of what the file was: "at any time ... Qualitas MAX runs
\* PREMAXIM.BAT to restore your system to the way it was before you began
\* Maximize" (MAXHELP/MAXHELP.RUS:593).
PremaximRestores == \A f \in Users : LastCopy(f)

\* PREMAXIM is made anew only when the user's files are whole: a run that did
\* not come to its end is restored or finished first (LASTPHASE).  Excepted
\* are a restore that was broken off, which has erased LASTPHASE first, one
\* that has copied the wrong backup, and what StartsWhole is about.
RunStartsWhole ==
    [][restbatcreate /\ spoilt = {} =>
        \A f \in Users : \E r \in 0..run : disk[f] = By(r, 3)]_vars

\* The same of a run that was cut short in its first phase: "Check to see if
\* we're restarting in the middle of a previous invocation"
\* (MAXIMIZE/MAXIMIZE.C:477).  But LASTPHASE says until the end of the first
\* phase what the last phase of the run before it has written there.
StartsWhole ==
    [][restbatcreate /\ spoilt \subseteq {"again"} =>
        \A f \in Users : \E r \in 0..run : disk[f] = By(r, 3)]_vars

\* When LASTPHASE says that the last phase is through, it is: every file is
\* the work of that phase, and launcher and AUTOEXEC.ABETA are gone.
FinishedIsWhole ==
    disk["LASTPHASE"] = By(run, 3) /\ spoilt \cap CutShort = {} /\ at # "premaxim" =>
        /\ \A f \in Users : disk[f] = By(run, 3)
        /\ disk["BETA"] = None

\* Whatever fails, the machine comes back to the prompt: restarting does not
\* go on for ever.  (It does if PREMAXIM was made anew over a launcher.)
ComesBack == []<>(at = "dos" \/ spoilt \cap {"over", "again"} # {})

=============================================================================
