-------------------------- MODULE OutputRunProofs ---------------------------
(***************************************************************************)
(* A dumpex run implements the file store for every set of names, every    *)
(* command line and every generated name: whatever fails or is killed, and *)
(* whoever else writes, a name never holds an incomplete file, the dump is *)
(* never replaced and another file only under --force.                     *)
(***************************************************************************)
EXTENDS OutputRun, TLAPS

\* What each phase of a write has established.  The early check of --extract's
\* target must survive until the commit, which does not repeat it.
Phases ==
    /\ cur \notin Outputs => step = "begin"
    /\ cur \in Outputs /\ step # "begin" => Given(cur)
    /\ step = "begin" => tries = 0
    /\ Running /\ step = "commit" => temp[cur] = "full"
    /\ cur \in Outputs /\ IsDir(cur) => tries < Len(AutoNames[cur])
    /\ cur = "extract" /\ step \in {"write", "commit"} => fs[run.target["extract"]] # Dump

IInv == TypeOK /\ Phases

LEMMA RunFields ==
    ASSUME run \in Requests
    PROVE  /\ run.mode \in Modes /\ run.force \in BOOLEAN
           /\ run.target \in [Outputs -> Targets]
           /\ run.target["extract"] # Directory
BY PathsAssumption

\* A name that is tried is a file name.
LEMMA NameIsPath ==
    ASSUME TypeOK, Phases, cur \in Outputs, Given(cur)
    PROVE  Name(cur) \in Paths
<1>1. run.target[cur] \in Targets /\ run.target["extract"] # Directory
  BY RunFields DEF TypeOK
<1>2. CASE IsDir(cur)
  <2>1. cur \in {"json", "txt"}
    BY <1>1, <1>2 DEF IsDir, Outputs
  <2>2. AutoNames[cur] \in Seq(Paths)
    BY <2>1, PathsAssumption
  <2>3. tries + 1 \in 1..Len(AutoNames[cur])
    <3>1. tries \in Nat /\ tries < Len(AutoNames[cur])
      BY <1>2 DEF TypeOK, Phases
    <3>2. Len(AutoNames[cur]) \in Nat
      BY <2>2
    <3> QED BY <3>1, <3>2
  <2>4. AutoNames[cur][tries + 1] \in Paths
    BY <2>2, <2>3
  <2> QED BY <1>2, <2>4 DEF Name
<1>3. CASE ~IsDir(cur)
  BY <1>1, <1>3 DEF Name, IsDir, Given, Targets
<1> QED BY <1>2, <1>3

\* Unlinking takes a file away or leaves it stuck; the others it does not touch.
LEMMA UnlinkLeaves ==
    ASSUME TypeOK, NEW outs \in SUBSET Outputs, Unlink(outs)
    PROVE  /\ temp' \in [Outputs -> {"none", "partial", "full", "stuck"}]
           /\ \A o \in outs : temp'[o] \in {"none", "stuck"}
           /\ \A o \in Outputs : o \notin outs \/ temp[o] = "none" => temp'[o] = temp[o]
<1>1. PICK stuck \in SUBSET {o \in outs : temp[o] # "none"} :
          temp' = [o \in Outputs |-> IF o \in stuck THEN "stuck"
                                    ELSE IF o \in outs THEN "none" ELSE temp[o]]
  BY DEF Unlink
<1> QED BY <1>1 DEF TypeOK

\* What is left of a run that ends here.
LEMMA AbortKeeps ==
    ASSUME IInv, NEW how \in {"refused", "failed"}, Abort(how), late' \in BOOLEAN
    PROVE  IInv'
<1>1. /\ fs' = fs /\ run' = run /\ cur' = cur /\ step' = step /\ tries' = tries
      /\ written' = written /\ exit' = how
      /\ temp' \in [Outputs -> {"none", "partial", "full", "stuck"}]
  BY UnlinkLeaves DEF Abort, IInv
<1>2. TypeOK'
  BY <1>1 DEF IInv, TypeOK
<1>3. ~Running'
  BY <1>1 DEF Running
<1>4. Phases'
  BY <1>1, <1>3 DEF IInv, Phases, Given, IsDir
<1> QED BY <1>2, <1>4 DEF IInv

\* Going on to the next output leaves the files and the command line alone.
LEMMA MoveOnKeeps ==
    ASSUME IInv, TypeOK', run' = run, step' = "begin", tries' = 0
    PROVE  IInv'
<1>1. cur' \in Outputs /\ IsDir(cur)' => 0 < Len(AutoNames[cur'])
  <2> SUFFICES ASSUME cur' \in Outputs, IsDir(cur)' PROVE 0 < Len(AutoNames[cur'])
    OBVIOUS
  <2>1. cur' \in {"json", "txt"}
    BY RunFields DEF IInv, TypeOK, IsDir, Outputs
  <2>2. AutoNames[cur'] \in Seq(Paths) /\ AutoNames[cur'] # <<>>
    BY <2>1, PathsAssumption
  <2> QED BY <2>2
<1> QED BY <1>1 DEF IInv, Phases

LEMMA FailsKeeps ==
    ASSUME IInv, NEW o \in Outputs, Fails(o), late' \in BOOLEAN
    PROVE  IInv'
<1>1. CASE Abort("failed")
  BY <1>1, AbortKeeps
<1>2. CASE ~Abort("failed")
  <2>1. /\ temp' \in [Outputs -> {"none", "partial", "full", "stuck"}]
        /\ cur' = After(o) /\ step' = "begin" /\ tries' = 0
        /\ fs' = fs /\ run' = run /\ written' = written /\ exit' = exit
    BY <1>2, UnlinkLeaves DEF Fails, IInv
  <2>2. After(o) \in Outputs \union {"end"}
    BY DEF After, Outputs
  <2>3. TypeOK'
    BY <2>1, <2>2 DEF IInv, TypeOK
  <2> QED BY <2>1, <2>3, MoveOnKeeps
<1> QED BY <1>1, <1>2

------------------------------------------------------------------------------
THEOREM InitHolds == Init => IInv
<1> SUFFICES ASSUME Init PROVE IInv
  OBVIOUS
<1>1. fs \in [Paths -> {Absent, Other, Partial, Dump, Baseline} \union Outputs]
  BY DEF Init
<1>2. TypeOK
  BY <1>1 DEF Init, TypeOK
<1>3. Phases
  BY DEF Init, Phases, Outputs
<1> QED BY <1>2, <1>3 DEF IInv

LEMMA UpFrontKeeps == ASSUME IInv, UpFront PROVE IInv'
<1>1. CASE \E how \in {"refused", "failed"} : Abort(how)
  BY <1>1, AbortKeeps DEF UpFront, IInv, TypeOK
<1>2. CASE ~\E how \in {"refused", "failed"} : Abort(how)
  <2>1. /\ cur' = "command" /\ cur = "start"
        /\ temp' = IF Given("txt") THEN [temp EXCEPT !["txt"] = "partial"] ELSE temp
        /\ UNCHANGED <<fs, run, step, tries, written, exit, late>>
    BY <1>2 DEF UpFront, OpenTee
  <2>2. temp' \in [Outputs -> {"none", "partial", "full", "stuck"}]
    BY <2>1 DEF IInv, TypeOK
  <2>3. TypeOK'
    BY <2>1, <2>2 DEF IInv, TypeOK
  <2>4. step = "begin" /\ tries = 0
    BY <2>1 DEF IInv, Phases, Outputs
  <2> QED BY <2>1, <2>3, <2>4, MoveOnKeeps
<1> QED BY <1>1, <1>2

LEMMA CommandKeeps == ASSUME IInv, Command PROVE IInv'
<1>1. CASE Abort("failed")
  BY <1>1, AbortKeeps DEF Command, IInv, TypeOK
<1>2. CASE ~Abort("failed")
  <2>1. /\ cur = "command" /\ cur' = "extract"
        /\ UNCHANGED <<fs, run, step, tries, temp, written, exit, late>>
    BY <1>2 DEF Command
  <2>2. step = "begin" /\ tries = 0
    BY <2>1 DEF IInv, Phases, Outputs
  <2>3. TypeOK'
    BY <2>1 DEF IInv, TypeOK, Outputs
  <2> QED BY <2>1, <2>2, <2>3, MoveOnKeeps
<1> QED BY <1>1, <1>2

LEMMA SkipKeeps == ASSUME IInv, Skip PROVE IInv'
<1>1. /\ cur \in Outputs /\ ~Given(cur) /\ cur' = After(cur)
      /\ UNCHANGED <<fs, run, step, tries, temp, written, late, exit>>
  BY DEF Skip
<1>2. step = "begin" /\ tries = 0
  BY <1>1 DEF IInv, Phases
<1>3. After(cur) \in Outputs \union {"end"}
  BY <1>1 DEF After, Outputs
<1>4. TypeOK'
  BY <1>1, <1>3 DEF IInv, TypeOK
<1> QED BY <1>1, <1>2, <1>4, MoveOnKeeps

LEMMA MakeTempKeeps == ASSUME IInv, MakeTemp PROVE IInv'
<1>1. cur \in Outputs /\ Given(cur) /\ step = "begin" /\ late' = late /\ late \in BOOLEAN
  BY DEF MakeTemp, IInv, TypeOK
<1>2. CASE Abort("refused")
  BY <1>1, <1>2, AbortKeeps
<1>3. CASE Fails(cur)
  BY <1>1, <1>3, FailsKeeps
<1>4. CASE ~Abort("refused") /\ ~Fails(cur)
  <2>1. /\ ~(cur = "extract" /\ fs[run.target[cur]] \in Protected(cur))
        /\ temp' = [temp EXCEPT ![cur] = "partial"] /\ step' = "write"
        /\ UNCHANGED <<fs, run, cur, tries, written, exit>>
    BY <1>4 DEF MakeTemp
  <2>2. TypeOK'
    BY <1>1, <2>1 DEF IInv, TypeOK
  <2>3. cur = "extract" => fs[run.target["extract"]] # Dump
    BY <2>1 DEF Protected
  <2>4. Phases'
    BY <1>1, <2>1, <2>3 DEF IInv, Phases, Given, IsDir
  <2> QED BY <2>2, <2>4 DEF IInv
<1> QED BY <1>2, <1>3, <1>4

LEMMA WriteTempKeeps == ASSUME IInv, WriteTemp PROVE IInv'
<1>1. cur \in Outputs /\ step = "write" /\ late' = late /\ late \in BOOLEAN
  BY DEF WriteTemp, IInv, TypeOK
<1>2. CASE Fails(cur)
  BY <1>1, <1>2, FailsKeeps
<1>3. CASE exit' = "failed" /\ UNCHANGED <<fs, run, cur, step, tries, temp, written>>
  BY <1>1, <1>3 DEF IInv, TypeOK, Phases, Given, IsDir
<1>4. CASE /\ temp' = [temp EXCEPT ![cur] = "full"] /\ step' = "commit"
           /\ UNCHANGED <<fs, run, cur, tries, written, exit>>
  <2>1. TypeOK'
    BY <1>1, <1>4 DEF IInv, TypeOK
  <2>2. temp'[cur'] = "full"
    BY <1>1, <1>4 DEF IInv, TypeOK
  <2>3. Phases'
    BY <1>1, <1>4, <2>2 DEF IInv, Phases, Given, IsDir
  <2> QED BY <2>1, <2>3 DEF IInv
<1> QED BY <1>2, <1>3, <1>4 DEF WriteTemp

LEMMA RefuseProtectedKeeps == ASSUME IInv, RefuseProtected PROVE IInv'
BY AbortKeeps DEF RefuseProtected, IInv, TypeOK

\* A commit publishes this run's own complete content under a name it may use.
LEMMA CommitPublishes ==
    ASSUME IInv, Allowed
    PROVE  /\ cur \in Outputs /\ Given(cur) /\ Name(cur) \in Paths
           /\ ContentOf(cur) = cur
           /\ fs[Name(cur)] # Dump
<1>1. cur \in Outputs /\ Given(cur) /\ temp[cur] = "full"
  BY DEF Allowed, IInv, Phases
<1>2. Name(cur) \in Paths /\ ContentOf(cur) = cur
  BY <1>1, NameIsPath DEF IInv, ContentOf
<1>3. CASE cur = "extract"
  <2>1. Name(cur) = run.target["extract"]
    BY <1>3, RunFields DEF IInv, TypeOK, Name, IsDir
  <2> QED BY <1>1, <1>2, <1>3, <2>1 DEF Allowed, IInv, Phases
<1>4. CASE cur # "extract"
  <2>1. Dump \in Protected(cur)
    BY <1>1, <1>4 DEF Protected, Outputs
  <2> QED BY <1>1, <1>2, <1>4, <2>1 DEF Allowed
<1> QED BY <1>3, <1>4

LEMMA ReplaceKeeps == ASSUME IInv, Replace PROVE IInv'
<1>1. cur \in Outputs /\ Given(cur) /\ Name(cur) \in Paths /\ ContentOf(cur) = cur
  BY CommitPublishes DEF Replace
<1>2. /\ fs' = [fs EXCEPT ![Name(cur)] = cur]
      /\ temp' = [temp EXCEPT ![cur] = "none"] /\ step' = "committed"
      /\ UNCHANGED <<run, cur, tries, written, late, exit>>
  BY <1>1 DEF Replace
<1>3. TypeOK'
  BY <1>1, <1>2 DEF IInv, TypeOK
<1>4. Phases'
  BY <1>1, <1>2 DEF IInv, Phases, Given, IsDir
<1> QED BY <1>3, <1>4 DEF IInv

LEMMA LinkKeeps == ASSUME IInv, Link PROVE IInv'
<1>1. cur \in Outputs /\ Given(cur) /\ Name(cur) \in Paths /\ ContentOf(cur) = cur
  BY CommitPublishes DEF Link
<1>2. /\ fs' = [fs EXCEPT ![Name(cur)] = cur] /\ step' = "committed"
      /\ UNCHANGED <<run, cur, tries, temp, written, late, exit>>
  BY <1>1 DEF Link
<1>3. TypeOK'
  BY <1>1, <1>2 DEF IInv, TypeOK
<1>4. Phases'
  BY <1>1, <1>2 DEF IInv, Phases, Given, IsDir
<1> QED BY <1>3, <1>4 DEF IInv

LEMMA LinkExistsKeeps == ASSUME IInv, LinkExists PROVE IInv'
<1>1. CASE \E how \in {"refused", "failed"} : Abort(how)
  BY <1>1, AbortKeeps DEF LinkExists, IInv, TypeOK
<1>2. CASE Fails(cur)
  BY <1>2, FailsKeeps DEF LinkExists, Allowed, IInv, TypeOK
<1>3. CASE ~(\E how \in {"refused", "failed"} : Abort(how)) /\ ~Fails(cur)
  <2>1. /\ IsDir(cur) /\ tries + 1 < Len(AutoNames[cur]) /\ tries' = tries + 1
        /\ cur \in Outputs /\ step = "commit"
        /\ UNCHANGED <<fs, run, cur, step, temp, written, exit, late>>
    BY <1>3 DEF LinkExists, Allowed
  <2>2. TypeOK'
    BY <2>1 DEF IInv, TypeOK
  <2>3. Phases'
    BY <2>1 DEF IInv, Phases, Given, IsDir, Running
  <2> QED BY <2>2, <2>3 DEF IInv
<1> QED BY <1>1, <1>2, <1>3

LEMMA SettleKeeps == ASSUME IInv, Settle PROVE IInv'
<1>1. cur \in Outputs /\ step = "committed" /\ Given(cur)
  BY DEF Settle, IInv, Phases
<1>2. CASE Fails(cur) /\ late' = TRUE
  BY <1>1, <1>2, FailsKeeps
<1>3. CASE Reported(cur) /\ UNCHANGED <<fs, late>>
  <2>1. Name(cur) \in Paths
    BY <1>1, NameIsPath DEF IInv
  <2>2. After(cur) \in Outputs \union {"end"}
    BY <1>1 DEF After, Outputs
  <2>3. /\ run' = run /\ step' = "begin" /\ tries' = 0 /\ exit' = exit
        /\ written' = [written EXCEPT ![cur] = Name(cur)]
        /\ temp' = [temp EXCEPT ![cur] = "none"] /\ cur' = After(cur)
    BY <1>3 DEF Reported
  <2>4. TypeOK'
    BY <1>1, <1>3, <2>1, <2>2, <2>3 DEF IInv, TypeOK
  <2> QED BY <2>3, <2>4, MoveOnKeeps
<1> QED BY <1>2, <1>3 DEF Settle

LEMMA EndKeeps == ASSUME IInv, Finish \/ Killed PROVE IInv'
<1>1. /\ UNCHANGED <<fs, run, cur, step, tries, temp, written, late>>
      /\ exit' \in {"ok", "killed"}
  BY DEF Finish, Killed
<1> QED BY <1>1 DEF IInv, TypeOK, Phases, Given, IsDir, Running

LEMMA OtherProcessKeeps == ASSUME IInv, OtherProcess PROVE IInv'
<1>1. PICK p \in Paths : fs[p] = Absent /\ fs' = [fs EXCEPT ![p] = Other]
  BY DEF OtherProcess
<1>2. UNCHANGED <<run, cur, step, tries, temp, written, late, exit>>
  BY DEF OtherProcess
<1>3. TypeOK'
  BY <1>1, <1>2 DEF IInv, TypeOK
<1>4. cur = "extract" /\ step \in {"write", "commit"} => fs'[run.target["extract"]] # Dump
  <2> SUFFICES ASSUME cur = "extract", step \in {"write", "commit"}
               PROVE  fs'[run.target["extract"]] # Dump
    OBVIOUS
  <2>1. fs[run.target["extract"]] # Dump
    BY DEF IInv, Phases
  <2>2. Other # Dump
    BY ContentsAssumption
  <2> QED BY <1>1, <2>1, <2>2 DEF IInv, TypeOK
<1>5. Phases'
  BY <1>2, <1>4 DEF IInv, Phases, Given, IsDir, Running
<1> QED BY <1>3, <1>5 DEF IInv

LEMMA StepKeeps == IInv /\ [Next]_vars => IInv'
<1> SUFFICES ASSUME IInv, [Next]_vars PROVE IInv'
  OBVIOUS
<1>1. CASE CommitRaises
  <2>1. cur \in Outputs /\ Fails(cur) /\ late' \in BOOLEAN
    BY <1>1 DEF CommitRaises, Allowed, IInv, TypeOK
  <2> QED BY <2>1, FailsKeeps
<1>2. CASE UNCHANGED vars
  BY <1>2 DEF vars, IInv, TypeOK, Phases, Given, IsDir, Running
<1> QED BY <1>1, <1>2, UpFrontKeeps, CommandKeeps, SkipKeeps, MakeTempKeeps, WriteTempKeeps,
           RefuseProtectedKeeps, ReplaceKeeps, LinkKeeps, LinkExistsKeeps, SettleKeeps,
           EndKeeps, OtherProcessKeeps DEF Next, Process

LEMMA IInvHolds == Spec => []IInv
BY InitHolds, StepKeeps, PTL DEF Spec

\* The run's phases, files and results are what TypeOK says, for any command
\* line: in particular an output is reported at a file name.
THEOREM TypeCorrect == Spec => []TypeOK
<1>1. IInv => TypeOK
  BY DEF IInv
<1> QED BY <1>1, IInvHolds, PTL

------------------------------------------------------------------------------
LEMMA FilesInit == Init => Files!Init
<1> SUFFICES ASSUME Init PROVE Files!Init
  OBVIOUS
<1>1. run.force \in BOOLEAN
  BY RunFields DEF Init
<1>2. fs \in [Paths -> (Outputs \union {Other, Baseline}) \union {Absent, Dump}]
  BY DEF Init
<1> QED BY <1>1, <1>2 DEF Files!Init

LEMMA FilesStep == IInv /\ [Next]_vars => [Files!Next]_(Files!vars)
<1> SUFFICES ASSUME IInv, [Next]_vars PROVE [Files!Next]_(Files!vars)
  OBVIOUS
<1> USE DEF Files!vars
<1>1. CASE Replace
  <2>1. cur \in Outputs /\ Name(cur) \in Paths /\ ContentOf(cur) = cur /\ fs[Name(cur)] # Dump
    BY <1>1, CommitPublishes DEF Replace
  <2>2. run.force /\ fs' = [fs EXCEPT ![Name(cur)] = cur] /\ run' = run
    BY <1>1, <2>1 DEF Replace
  <2>3. Files!Publish(Name(cur), cur)
    BY <2>1, <2>2 DEF Files!Publish
  <2> QED BY <2>1, <2>3 DEF Files!Next
<1>2. CASE Link
  <2>1. cur \in Outputs /\ Name(cur) \in Paths /\ ContentOf(cur) = cur /\ fs[Name(cur)] # Dump
    BY <1>2, CommitPublishes DEF Link
  <2>2. fs[Name(cur)] = Absent /\ fs' = [fs EXCEPT ![Name(cur)] = cur] /\ run' = run
    BY <1>2, <2>1 DEF Link
  <2>3. Files!Publish(Name(cur), cur)
    BY <2>1, <2>2 DEF Files!Publish
  <2> QED BY <2>1, <2>3 DEF Files!Next
<1>3. CASE OtherProcess
  <2>1. PICK p \in Paths : fs[p] = Absent /\ fs' = [fs EXCEPT ![p] = Other]
    BY <1>3 DEF OtherProcess
  <2>2. run' = run /\ Absent # Dump
    BY <1>3, ContentsAssumption DEF OtherProcess
  <2>3. Files!Publish(p, Other)
    BY <2>1, <2>2 DEF Files!Publish
  <2> QED BY <2>3 DEF Files!Next
<1>4. CASE ~Replace /\ ~Link /\ ~OtherProcess
  <2>1. fs' = fs /\ run' = run
    BY <1>4 DEF Next, Process, vars, UpFront, Command, Skip, MakeTemp, WriteTemp, RefuseProtected,
                LinkExists, CommitRaises, Settle, Finish, Killed, OpenTee, Fails, Reported, Abort
  <2> QED BY <2>1
<1> QED BY <1>1, <1>2, <1>3, <1>4

\* The abstract promise about files holds of the whole run, with every failure
\* and every crash: safe_io's commits are its only steps that touch a name.
THEOREM RunImplementsFiles == Spec => FilesSpec
<1>1. IInv /\ [Next]_vars => [Files!Next]_(Files!vars)
  BY FilesStep
<1> QED BY <1>1, FilesInit, IInvHolds, PTL DEF Spec, FilesSpec, Files!Spec

------------------------------------------------------------------------------
\* The outputs whose turn is over.
Done(c) == CASE c = "json" -> {"extract"}
             [] c = "txt"  -> {"extract", "json"}
             [] c = "end"  -> Outputs
             [] OTHER      -> {}

\* NoOrphanOutput is not inductive: that an output appears only under the name
\* its report will give needs that nothing of it existed before its commit.
OnlyItsName ==
    \A o \in Outputs, p \in Paths :
        fs[p] = o => \/ late
                     \/ o \in Done(cur) /\ written[o] = p
                     \/ cur = o /\ step = "committed" /\ p = Name(o)

LEMMA DoneGrows ==
    ASSUME NEW o \in Outputs
    PROVE  Done(o) \subseteq Done(After(o)) /\ o \in Done(After(o)) /\ o \notin Done(o)
BY DEF Done, After, Outputs

LEMMA OnlyItsNameInit == Init => OnlyItsName
<1> SUFFICES ASSUME Init, NEW o \in Outputs, NEW p \in Paths PROVE fs[p] # o
  BY DEF OnlyItsName
<1>1. fs[p] \in {Dump, Baseline, Absent}
  BY DEF Init
<1> QED BY <1>1, ContentsAssumption

\* Steps that touch no file and no report, and do not leave a committed output.
LEMMA QuietKeeps ==
    ASSUME IInv, OnlyItsName, UNCHANGED <<fs, run, written, late>>,
           \/ UNCHANGED <<cur, step, tries>>
           \/ step # "committed" /\ Done(cur) \subseteq Done(cur')
    PROVE  OnlyItsName'
<1> SUFFICES ASSUME NEW o \in Outputs, NEW p \in Paths, fs'[p] = o
             PROVE  \/ late'
                    \/ o \in Done(cur') /\ written'[o] = p
                    \/ cur' = o /\ step' = "committed" /\ p = Name(o)'
  BY DEF OnlyItsName
<1>1. \/ late
      \/ o \in Done(cur) /\ written[o] = p
      \/ cur = o /\ step = "committed" /\ p = Name(o)
  BY DEF OnlyItsName
<1>2. CASE UNCHANGED <<cur, step, tries>>
  BY <1>1, <1>2 DEF Name, IsDir
<1>3. CASE step # "committed" /\ Done(cur) \subseteq Done(cur')
  BY <1>1, <1>3
<1> QED BY <1>2, <1>3

LEMMA FailsQuiet ==
    ASSUME IInv, OnlyItsName, cur \in Outputs, Fails(cur), step # "committed", late' = late
    PROVE  OnlyItsName'
<1>1. CASE Abort("failed")
  BY <1>1, QuietKeeps DEF Abort
<1>2. CASE ~Abort("failed")
  BY <1>2, QuietKeeps, DoneGrows DEF Fails
<1> QED BY <1>1, <1>2

LEMMA CommitOwned ==
    ASSUME IInv, OnlyItsName, cur \in Outputs, Name(cur) \in Paths, step = "commit",
           fs' = [fs EXCEPT ![Name(cur)] = cur], step' = "committed",
           UNCHANGED <<run, cur, tries, written, late>>
    PROVE  OnlyItsName'
<1> SUFFICES ASSUME NEW o \in Outputs, NEW p \in Paths, fs'[p] = o
             PROVE  \/ late'
                    \/ o \in Done(cur') /\ written'[o] = p
                    \/ cur' = o /\ step' = "committed" /\ p = Name(o)'
  BY DEF OnlyItsName
<1>1. Name(o)' = Name(o)
  BY DEF Name, IsDir
<1>2. CASE p = Name(cur)
  BY <1>1, <1>2 DEF IInv, TypeOK
<1>3. CASE p # Name(cur)
  BY <1>3 DEF IInv, TypeOK, OnlyItsName
<1> QED BY <1>2, <1>3

LEMMA SettleOwned == ASSUME IInv, OnlyItsName, Settle PROVE OnlyItsName'
<1>1. cur \in Outputs /\ step = "committed"
  BY DEF Settle
<1>2. CASE late' = TRUE
  BY <1>2 DEF OnlyItsName
<1>3. CASE Reported(cur) /\ UNCHANGED <<fs, late>>
  <2>1. /\ written' = [written EXCEPT ![cur] = Name(cur)] /\ cur' = After(cur)
        /\ UNCHANGED <<fs, run, late>>
    BY <1>3 DEF Reported
  <2>2. Done(cur) \subseteq Done(cur') /\ cur \in Done(cur') /\ cur \notin Done(cur)
    BY <1>1, <2>1, DoneGrows
  <2> QED BY <1>1, <2>1, <2>2 DEF OnlyItsName, IInv, TypeOK
<1> QED BY <1>2, <1>3 DEF Settle

LEMMA OnlyItsNameStep == IInv /\ OnlyItsName /\ [Next]_vars => OnlyItsName'
<1> SUFFICES ASSUME IInv, OnlyItsName, [Next]_vars PROVE OnlyItsName'
  OBVIOUS
<1>1. CASE UpFront
  BY <1>1, QuietKeeps DEF UpFront, OpenTee, Abort, Done, IInv, Phases, Outputs
<1>2. CASE Command
  BY <1>2, QuietKeeps DEF Command, Abort, Done, IInv, Phases, Outputs
<1>3. CASE Skip
  BY <1>3, QuietKeeps, DoneGrows DEF Skip, IInv, Phases
<1>4. CASE MakeTemp
  BY <1>4, QuietKeeps, FailsQuiet DEF MakeTemp, Abort
<1>5. CASE WriteTemp
  BY <1>5, QuietKeeps, FailsQuiet DEF WriteTemp
<1>6. CASE RefuseProtected \/ LinkExists
  BY <1>6, QuietKeeps, FailsQuiet DEF RefuseProtected, LinkExists, Allowed, Abort
<1>7. CASE Replace
  BY <1>7, CommitPublishes, CommitOwned DEF Replace, Allowed
<1>8. CASE Link
  BY <1>8, CommitPublishes, CommitOwned DEF Link, Allowed
<1>9. CASE CommitRaises
  BY <1>9, FailsQuiet DEF CommitRaises, Allowed
<1>10. CASE Settle
  BY <1>10, SettleOwned
<1>11. CASE Finish \/ Killed \/ UNCHANGED vars
  BY <1>11, QuietKeeps DEF Finish, Killed, vars
<1>12. CASE OtherProcess
  <2>1. PICK q \in Paths : fs' = [fs EXCEPT ![q] = Other]
    BY <1>12 DEF OtherProcess
  <2>2. UNCHANGED <<run, cur, step, tries, written, late>>
    BY <1>12 DEF OtherProcess
  <2>3. \A o \in Outputs, p \in Paths : fs'[p] = o => fs[p] = o /\ Name(o)' = Name(o)
    BY <2>1, <2>2, ContentsAssumption DEF IInv, TypeOK, Name, IsDir
  <2> QED BY <2>2, <2>3 DEF OnlyItsName
<1> QED BY <1>1, <1>2, <1>3, <1>4, <1>5, <1>6, <1>7, <1>8, <1>9, <1>10, <1>11, <1>12
           DEF Next, Process

\* Whatever fails, a file this run created is the one it reports, unless the
\* error came after the commit: no write leaves a file nobody owns up to.
THEOREM NoOrphans == Spec => []NoOrphanOutput
<1>1. IInv /\ OnlyItsName => NoOrphanOutput
  BY DEF OnlyItsName, NoOrphanOutput
<1> QED BY <1>1, InitHolds, StepKeeps, OnlyItsNameInit, OnlyItsNameStep, PTL DEF Spec
------------------------------------------------------------------------------
\* A temporary file belongs to the output being written, is the tee's, or is that
\* of an artifact the run gave up and could not unlink.
TempsOpen ==
    Running => \A o \in Outputs :
        temp[o] # "none" => \/ o = cur /\ step # "begin"
                            \/ o = "txt" /\ Given("txt") /\ cur \notin {"start", "end"}
                            \/ o = "extract" /\ run.mode = "report" /\ temp[o] = "stuck"

\* Past the start, no two chosen names are the same.
Distinct ==
    cur # "start" => \A o, q \in Outputs :
        o # q /\ Given(o) /\ Given(q) /\ ~IsDir(o) /\ ~IsDir(q) => run.target[o] # run.target[q]

\* The tee has replaced it, or is about to say so.
Took(o) == /\ run.force /\ o # "txt" /\ (IsDir(o) \/ IsDir("txt")) /\ fs[written[o]] = "txt"
           /\ \/ written["txt"] = written[o]
              \/ cur = "txt" /\ step = "committed" /\ Name("txt") = written[o]

\* What has been reported is still where it was reported, unless the tee took it.
Kept == \A o \in Outputs : written[o] # NoPath =>
            /\ o \in Done(cur) /\ (~IsDir(o) => written[o] = run.target[o])
            /\ fs[written[o]] = o \/ Took(o)

\* What was asked for has been reported when its turn is over.
Answered == \A o \in Done(cur) :
                Given(o) /\ written[o] = NoPath => o = "extract" /\ run.mode = "report"

Committed == cur \in Outputs /\ step = "committed" => fs[Name(cur)] = cur

Settling == TempsOpen /\ TempsTidied /\ Distinct /\ Kept /\ Answered /\ Committed

LEMMA DoneAfter == ASSUME NEW o \in Outputs PROVE Done(After(o)) = Done(o) \union {o}
BY DEF Done, After, Outputs

LEMMA SettlingInit == ASSUME Init PROVE Settling
<1>1. /\ cur = "start" /\ step = "begin" /\ exit = "running"
      /\ \A o \in Outputs : temp[o] = "none" /\ written[o] = NoPath
  BY DEF Init
<1>2. TempsOpen /\ TempsTidied /\ Distinct /\ Kept /\ Committed
  BY <1>1 DEF TempsOpen, TempsTidied, Ended, Distinct, Kept, Committed
<1>3. Answered
  BY <1>1 DEF Answered, Done
<1> QED BY <1>2, <1>3 DEF Settling

------------------------------------------------------------------------------
\* An exception unlinks every temporary file it can, or just the artifact's own.
LEMMA AbortTemps ==
    ASSUME IInv, Running, TempsOpen, TempsTidied, NEW how \in {"refused", "failed"}, Abort(how)
    PROVE  TempsOpen' /\ TempsTidied'
<1>1. exit' = how /\ UNCHANGED <<cur, step, run, written>>
  BY DEF Abort
<1>2. /\ \A o \in {cur, "txt"} \intersect Outputs : temp'[o] \in {"none", "stuck"}
      /\ \A o \in Outputs : o \notin {cur, "txt"} \/ temp[o] = "none" => temp'[o] = temp[o]
  BY UnlinkLeaves DEF Abort, IInv
<1>3. \A o \in Outputs : temp'[o] \in {"none", "stuck"}
  BY <1>2 DEF TempsOpen
<1>4. \A o \in Outputs : written'[o] # NoPath => temp'[o] = "none"
  BY <1>1, <1>2 DEF TempsTidied
<1> QED BY <1>1, <1>3, <1>4 DEF TempsOpen, TempsTidied, Running

LEMMA FailsTemps ==
    ASSUME IInv, TempsOpen, TempsTidied, Running, cur \in Outputs, Fails(cur)
    PROVE  TempsOpen' /\ TempsTidied'
<1>1. CASE Abort("failed")
  BY <1>1, AbortTemps
<1>2. CASE ~Abort("failed")
  <2>1. /\ cur = "extract" /\ run.mode = "report" /\ Unlink({"extract"})
        /\ cur' = "json" /\ exit' = "running" /\ UNCHANGED <<run, written>>
    BY <1>2 DEF Fails, After, Running
  <2>2. /\ temp'["extract"] \in {"none", "stuck"}
        /\ \A o \in Outputs : o # "extract" \/ temp[o] = "none" => temp'[o] = temp[o]
    BY <2>1, UnlinkLeaves DEF IInv, Outputs
  <2>3. TempsOpen'
    BY <2>1, <2>2 DEF TempsOpen, Given, Outputs
  <2> QED BY <2>1, <2>2, <2>3 DEF TempsTidied, Ended
<1> QED BY <1>1, <1>2

\* Nothing a run opened is forgotten.
LEMMA TempsStep ==
    ASSUME IInv, TempsOpen, TempsTidied, Kept, [Next]_vars PROVE TempsOpen' /\ TempsTidied'
<1>0. temp \in [Outputs -> {"none", "partial", "full", "stuck"}]
  BY DEF IInv, TypeOK
<1>1. CASE UpFront
  <2>1. CASE Abort("refused") \/ Abort("failed")
    BY <1>1, <2>1, AbortTemps DEF UpFront
  <2>2. CASE /\ cur' = "command" /\ temp' = IF Given("txt") THEN [temp EXCEPT !["txt"] = "partial"] ELSE temp
             /\ UNCHANGED <<fs, run, step, tries, written, exit>>
    <3>1. Running /\ \A o \in Outputs : written[o] = NoPath
      BY <1>1 DEF UpFront, Kept, Done
    <3>2. \A o \in Outputs : temp'[o] # "none" => \/ temp[o] # "none" /\ temp'[o] = temp[o]
                                                  \/ o = "txt" /\ Given("txt")
      <4>1. CASE Given("txt")
        BY <1>0, <2>2, <4>1
      <4>2. CASE ~Given("txt")
        BY <2>2, <4>2
      <4> QED BY <4>1, <4>2
    <3> QED BY <1>1, <2>2, <3>1, <3>2 DEF UpFront, Outputs, TempsOpen, TempsTidied, Ended, Running, Given
  <2> QED BY <1>1, <2>1, <2>2 DEF UpFront, OpenTee
<1>2. CASE Command
  <2>1. CASE Abort("failed")
    BY <1>2, <2>1, AbortTemps DEF Command
  <2>2. CASE cur' = "extract" /\ UNCHANGED <<fs, run, step, tries, temp, written, exit>>
    BY <1>2, <2>2 DEF Command, TempsOpen, TempsTidied, Ended, Running, Given, Outputs
  <2> QED BY <1>2, <2>1, <2>2 DEF Command
<1>3. CASE Skip
  <2>1. /\ Running /\ cur \in Outputs /\ ~Given(cur) /\ cur' = After(cur)
        /\ UNCHANGED <<run, step, temp, written, exit>>
    BY <1>3 DEF Skip
  <2>2. step = "begin"
    BY <2>1 DEF IInv, Phases
  <2>3. Given("txt") => After(cur) \notin {"start", "end"}
    BY <2>1 DEF After, Outputs
  <2> QED BY <2>1, <2>2, <2>3 DEF TempsOpen, TempsTidied, Ended, Running, Given
<1>4. CASE MakeTemp
  <2>1. CASE Abort("refused")
    BY <1>4, <2>1, AbortTemps DEF MakeTemp
  <2>2. CASE /\ temp' = [temp EXCEPT ![cur] = "partial"] /\ step' = "write"
             /\ UNCHANGED <<fs, run, cur, tries, written, exit>>
    <3>1. Running /\ \A o \in Outputs : o # cur => temp'[o] = temp[o]
      BY <1>0, <1>4, <2>2 DEF MakeTemp
    <3>2. written[cur] = NoPath
      BY <1>4 DEF MakeTemp, Kept, Done, Outputs
    <3> QED BY <2>2, <3>1, <3>2 DEF TempsOpen, TempsTidied, Ended, Running, Given
  <2>3. CASE Fails(cur)
    BY <1>4, <2>3, FailsTemps DEF MakeTemp
  <2> QED BY <1>4, <2>1, <2>2, <2>3 DEF MakeTemp
<1>5. CASE WriteTemp
  <2>1. Running /\ cur \in Outputs /\ step = "write"
    BY <1>5 DEF WriteTemp
  <2>2. CASE /\ temp' = [temp EXCEPT ![cur] = "full"] /\ step' = "commit"
             /\ UNCHANGED <<fs, run, cur, tries, written, exit>>
    <3>1. \A o \in Outputs : o # cur => temp'[o] = temp[o]
      BY <1>0, <2>2
    <3>2. written[cur] = NoPath
      BY <2>1 DEF Kept, Done, Outputs
    <3> QED BY <2>1, <2>2, <3>1, <3>2 DEF TempsOpen, TempsTidied, Ended, Running, Given
  <2>3. CASE Fails(cur)
    BY <2>1, <2>3, FailsTemps
  <2>4. CASE cur = "txt" /\ exit' = "failed" /\ UNCHANGED <<fs, run, cur, step, tries, temp, written>>
    <3>1. \A o \in Outputs : temp[o] \in {"none", "stuck"} \/ o = "txt"
      BY <2>1, <2>4 DEF TempsOpen
    <3> QED BY <2>1, <2>4, <3>1 DEF TempsOpen, TempsTidied, Running
  <2> QED BY <1>5, <2>2, <2>3, <2>4 DEF WriteTemp
<1>6. CASE RefuseProtected
  BY <1>6, AbortTemps DEF RefuseProtected
<1>7. CASE Replace
  <2>1. \A o \in Outputs : temp'[o] # "none" => temp'[o] = temp[o] /\ o # cur
    BY <1>0, <1>7 DEF Replace
  <2> QED BY <1>7, <2>1 DEF Replace, Allowed, TempsOpen, TempsTidied, Ended, Running, Given
<1>8. CASE Link
  BY <1>8 DEF Link, Allowed, TempsOpen, TempsTidied, Ended, Running, Given
<1>9. CASE LinkExists
  <2>1. CASE Abort("refused") \/ Abort("failed")
    BY <1>9, <2>1, AbortTemps DEF LinkExists, Allowed
  <2>2. CASE UNCHANGED <<fs, run, cur, step, temp, written, exit>>
    BY <1>9, <2>2 DEF TempsOpen, TempsTidied, Ended, Running, Given
  <2>3. CASE Fails(cur)
    BY <1>9, <2>3, FailsTemps DEF LinkExists, Allowed
  <2> QED BY <1>9, <2>1, <2>2, <2>3 DEF LinkExists
<1>10. CASE CommitRaises
  BY <1>10, FailsTemps DEF CommitRaises, Allowed
<1>11. CASE Settle
  <2>1. Running /\ cur \in Outputs
    BY <1>11 DEF Settle
  <2>2. CASE Reported(cur)
    <3>1. /\ temp' = [temp EXCEPT ![cur] = "none"] /\ cur' = After(cur)
          /\ written' = [written EXCEPT ![cur] = Name(cur)] /\ UNCHANGED <<run, exit>>
      BY <2>2 DEF Reported
    <3>2. \A o \in Outputs : /\ temp'[o] # "none" => temp'[o] = temp[o] /\ o # cur
                             /\ o # cur => written'[o] = written[o]
      BY <1>0, <3>1 DEF IInv, TypeOK
    <3>3. cur # "txt" => After(cur) \notin {"start", "end"}
      BY <2>1 DEF After, Outputs
    <3>4. TempsOpen'
      <4>1. \A o \in Outputs : temp'[o] # "none" =>
                \/ o = "txt" /\ Given("txt") /\ cur \notin {"start", "end"} /\ cur # "txt"
                \/ o = "extract" /\ run.mode = "report" /\ temp'[o] = "stuck"
        BY <2>1, <3>2 DEF TempsOpen
      <4> QED BY <3>1, <3>3, <4>1 DEF TempsOpen, Given
    <3>5. \A o \in Outputs : written'[o] # NoPath => temp'[o] = "none"
      BY <3>2 DEF TempsTidied
    <3> QED BY <2>1, <3>1, <3>4, <3>5 DEF TempsTidied, Ended, Running
  <2>3. CASE Fails(cur)
    BY <2>1, <2>3, FailsTemps
  <2> QED BY <1>11, <2>2, <2>3 DEF Settle
<1>12. CASE Finish
  <2>1. /\ Running /\ cur = "end" /\ exit' = "ok" /\ UNCHANGED <<run, cur, step, temp, written>>
    BY <1>12 DEF Finish
  <2>2. \A o \in Outputs : temp[o] # "none" => o = "extract" /\ run.mode = "report" /\ temp[o] = "stuck"
    BY <2>1 DEF TempsOpen, Outputs
  <2> QED BY <2>1, <2>2 DEF TempsOpen, TempsTidied, Running
<1>13. CASE Killed
  BY <1>13 DEF Killed, TempsOpen, TempsTidied, Ended, Running
<1>14. CASE OtherProcess \/ UNCHANGED vars
  BY <1>14 DEF OtherProcess, vars, TempsOpen, TempsTidied, Ended, Running, Given
<1> QED BY <1>1, <1>2, <1>3, <1>4, <1>5, <1>6, <1>7, <1>8, <1>9, <1>10, <1>11, <1>12, <1>13, <1>14
        DEF Next, Process

------------------------------------------------------------------------------
\* The comparison of the chosen names is made once, before anything is created.
LEMMA DistinctStep == ASSUME IInv, Distinct, [Next]_vars PROVE Distinct'
<1>1. CASE UpFront
  <2>1. CASE cur' = cur /\ run' = run
    BY <2>1 DEF Distinct, Given, IsDir
  <2>2. CASE ~(cur' = cur /\ run' = run)
    <3>1. /\ OpenTee /\ run' = run
          /\ \A o, q \in {x \in Outputs : Given(x) /\ ~IsDir(x)} : o # q => run.target[o] # run.target[q]
      BY <1>1, <2>2 DEF UpFront, OpenTee, Abort
    <3> QED BY <3>1 DEF Distinct, Given, IsDir
  <2> QED BY <2>1, <2>2
<1>2. CASE ~UpFront
  <2>1. run' = run /\ (cur' = cur \/ cur # "start")
    BY <1>2 DEF Next, Process, Command, Skip, MakeTemp, WriteTemp, RefuseProtected, Replace, Link,
                LinkExists, CommitRaises, Settle, Finish, Killed, OtherProcess, Allowed, Fails,
                Abort, Reported, Outputs, vars
  <2> QED BY <2>1 DEF Distinct, Given, IsDir
<1> QED BY <1>1, <1>2

------------------------------------------------------------------------------
\* Steps that touch no file and no report.
LEMMA QuietSettles ==
    ASSUME Kept, Answered, Committed, UNCHANGED <<fs, run, written>>, Done(cur) \subseteq Done(cur'),
           \A o \in Done(cur') : o \in Done(cur) \/ ~Given(o) \/ (o = "extract" /\ run.mode = "report"),
           \/ UNCHANGED <<cur, step, tries>>
           \/ step' # "committed" /\ (step # "committed" \/ cur # "txt")
    PROVE  Kept' /\ Answered' /\ Committed'
<1>1. Kept'
  <2>1. \A o \in Outputs : Took(o) => Took(o)'
    BY DEF Took, Name, IsDir
  <2> QED BY <2>1 DEF Kept, IsDir
<1>2. Answered'
  BY DEF Answered, Given
<1>3. Committed'
  BY DEF Committed, Name, IsDir
<1> QED BY <1>1, <1>2, <1>3

LEMMA FailsSettles ==
    ASSUME Kept, Answered, Committed, cur \in Outputs, Fails(cur), UNCHANGED fs
    PROVE  Kept' /\ Answered' /\ Committed'
<1>1. CASE Abort("failed")
  BY <1>1, QuietSettles DEF Abort
<1>2. CASE ~Abort("failed")
  <2>1. /\ cur = "extract" /\ run.mode = "report" /\ cur' = After(cur) /\ step' = "begin"
        /\ UNCHANGED <<fs, run, written>>
    BY <1>2 DEF Fails
  <2>2. Done(cur') = Done(cur) \union {"extract"}
    BY <2>1, DoneAfter
  <2> QED BY <2>1, <2>2, QuietSettles
<1> QED BY <1>1, <1>2

\* What has been reported is there until the tee comes.
LEMMA ReportedIsThere ==
    ASSUME Kept, cur # "txt", "txt" \notin Done(cur), NEW o \in Outputs, written[o] # NoPath
    PROVE  fs[written[o]] = o
<1>1. written["txt"] = NoPath
  BY DEF Kept, Outputs
<1> QED BY <1>1 DEF Kept, Took

\* A commit under --force replaces something this run has reported in one case: the
\* document refuses the artifact by its content, the tee only what it was compared with.
LEMMA ForceSpares ==
    ASSUME IInv, Distinct, Kept, run.force, cur \in Outputs, Given(cur),
           cur = "extract" \/ fs[Name(cur)] \notin Protected(cur),
           NEW o \in Outputs, written[o] # NoPath, written[o] = Name(cur)
    PROVE  cur = "txt" /\ o # "txt" /\ (IsDir(o) \/ IsDir("txt"))
<1>1. o \in Done(cur) /\ (~IsDir(o) => written[o] = run.target[o])
  BY DEF Kept
<1>2. CASE cur = "extract"
  BY <1>1, <1>2 DEF Done
<1>3. CASE cur = "json"
  <2>1. o = "extract"
    BY <1>1, <1>3 DEF Done
  <2>2. "extract" \in Protected("json")
    BY <2>1 DEF Protected
  <2>3. fs[written[o]] = o
    BY <1>3, ReportedIsThere DEF Done
  <2> QED BY <1>3, <2>1, <2>2, <2>3
<1>4. CASE cur = "txt"
  <2>1. o \in {"extract", "json"}
    BY <1>1, <1>4 DEF Done
  <2>2. CASE ~IsDir(o) /\ ~IsDir("txt")
    <3>1. run.target[o] = run.target["txt"]
      BY <1>1, <1>4, <2>2 DEF IsDir, Name
    <3>2. Given(o)
      BY <1>1, <2>2 DEF Given
    <3>3. cur # "start" /\ "txt" \in Outputs /\ o # "txt"
      BY <1>4, <2>1 DEF Outputs
    <3> QED BY <1>4, <2>2, <3>1, <3>2, <3>3 DEF Distinct
  <2> QED BY <1>4, <2>1, <2>2
<1> QED BY <1>2, <1>3, <1>4 DEF Outputs

\* A commit keeps every report it does not replace, and is itself to be reported.
LEMMA CommitSettles ==
    ASSUME IInv, Kept, Answered, cur \in Outputs, Name(cur) \in Paths, step = "commit",
           fs' = [fs EXCEPT ![Name(cur)] = cur], step' = "committed",
           UNCHANGED <<run, cur, tries, written>>,
           \A o \in Outputs : written[o] # NoPath /\ written[o] = Name(cur)
               => run.force /\ cur = "txt" /\ o # "txt" /\ (IsDir(o) \/ IsDir("txt"))
    PROVE  Kept' /\ Answered' /\ Committed'
<1>1. /\ fs \in [Paths -> {Absent, Other, Partial, Dump, Baseline} \union Outputs]
      /\ written \in [Outputs -> Paths \union {NoPath}]
  BY DEF IInv, TypeOK
<1>2. Name(cur)' = Name(cur) /\ \A o \in Outputs : IsDir(o)' = IsDir(o)
  BY DEF Name, IsDir
<1>3. Kept'
  <2> SUFFICES ASSUME NEW o \in Outputs, written[o] # NoPath
               PROVE  /\ o \in Done(cur) /\ (~IsDir(o) => written[o] = run.target[o])
                      /\ fs'[written[o]] = o \/ Took(o)'
    BY <1>2 DEF Kept
  <2>1. /\ o \in Done(cur) /\ (~IsDir(o) => written[o] = run.target[o])
        /\ fs[written[o]] = o \/ Took(o)
    BY DEF Kept
  <2>2. CASE written[o] = Name(cur)
    <3>1. /\ run.force /\ cur = "txt" /\ o # "txt" /\ (IsDir(o) \/ IsDir("txt"))
          /\ fs'[written[o]] = "txt"
      BY <1>1, <2>2
    <3> QED BY <1>2, <2>1, <2>2, <3>1 DEF Took, Outputs
  <2>3. CASE written[o] # Name(cur)
    <3>1. written[o] \in Paths /\ fs'[written[o]] = fs[written[o]]
      BY <1>1, <2>3
    <3> QED BY <1>2, <2>1, <3>1 DEF Took, Outputs
  <2> QED BY <2>2, <2>3
<1>4. Answered'
  BY DEF Answered, Given
<1>5. Committed'
  BY <1>1, <1>2 DEF Committed
<1> QED BY <1>3, <1>4, <1>5

\* The report of a commit gives the name that was used.
LEMMA ReportSettles ==
    ASSUME IInv, Kept, Answered, Committed, cur \in Outputs, step = "committed",
           Reported(cur), UNCHANGED fs
    PROVE  Kept' /\ Answered' /\ Committed'
<1>1. /\ written' = [written EXCEPT ![cur] = Name(cur)] /\ cur' = After(cur) /\ step' = "begin"
      /\ UNCHANGED <<fs, run>>
  BY DEF Reported
<1>2. written \in [Outputs -> Paths \union {NoPath}] /\ Given(cur)
  BY DEF IInv, TypeOK, Phases
<1>3. Done(cur') = Done(cur) \union {cur} /\ cur \notin Done(cur)
  BY <1>1, DoneAfter, DoneGrows
<1>4. fs[Name(cur)] = cur /\ (~IsDir(cur) => Name(cur) = run.target[cur])
  BY DEF Committed, Name
<1>5. Name(cur) \in Paths /\ NoPath \notin Paths
  BY <1>2, NameIsPath, PathsAssumption DEF IInv
<1>6. \A o \in Outputs : o # cur => written'[o] = written[o]
  BY <1>1, <1>2
<1>7. written'[cur] = Name(cur)
  BY <1>1, <1>2
<1>8. Kept'
  <2> SUFFICES ASSUME NEW o \in Outputs, written'[o] # NoPath
               PROVE  /\ o \in Done(cur') /\ (~IsDir(o) => written'[o] = run.target[o])
                      /\ fs[written'[o]] = o \/ Took(o)'
    BY <1>1 DEF Kept, IsDir
  <2>1. CASE o = cur
    BY <1>3, <1>4, <1>7, <2>1
  <2>2. CASE o # cur
    <3>1. /\ o \in Done(cur) /\ (~IsDir(o) => written[o] = run.target[o])
          /\ fs[written[o]] = o \/ Took(o)
      BY <1>6, <2>2 DEF Kept
    <3>2. cur = "txt" => written["txt"] = NoPath
      BY <1>3 DEF Kept
    <3>3. Took(o) => Took(o)'
      BY <1>1, <1>6, <1>7, <2>2, <3>2 DEF Took, IsDir, Outputs
    <3> QED BY <1>3, <1>6, <2>2, <3>1, <3>3
  <2> QED BY <2>1, <2>2
<1>9. Answered'
  <2> SUFFICES ASSUME NEW o \in Done(cur'), Given(o), written'[o] = NoPath
               PROVE  o = "extract" /\ run.mode = "report"
    BY <1>1 DEF Answered, Given
  <2>1. o # cur /\ o \in Done(cur) /\ o \in Outputs
    BY <1>3, <1>5, <1>7 DEF Done, Outputs
  <2> QED BY <1>6, <2>1 DEF Answered
<1>10. Committed'
  BY <1>1 DEF Committed
<1> QED BY <1>8, <1>9, <1>10

\* Every step keeps the reports true.
LEMMA KeptStep ==
    ASSUME IInv, Distinct, Kept, Answered, Committed, [Next]_vars
    PROVE  Kept' /\ Answered' /\ Committed'
<1>1. CASE UpFront
  <2>1. cur = "start" /\ step = "begin"
    BY <1>1 DEF UpFront, IInv, Phases, Outputs
  <2>2. Done(cur) = {} /\ cur' \in {"start", "command"} /\ UNCHANGED <<fs, run, written, step>>
    BY <1>1, <2>1 DEF UpFront, OpenTee, Abort, Done
  <2>3. Done(cur') = {}
    BY <2>2 DEF Done
  <2> QED BY <2>1, <2>2, <2>3, QuietSettles
<1>2. CASE Command
  <2>1. cur = "command" /\ step = "begin"
    BY <1>2 DEF Command, IInv, Phases, Outputs
  <2>2. Done(cur) = {} /\ cur' \in {"command", "extract"} /\ UNCHANGED <<fs, run, written, step>>
    BY <1>2, <2>1 DEF Command, Abort, Done
  <2>3. Done(cur') = {}
    BY <2>2 DEF Done
  <2> QED BY <2>1, <2>2, <2>3, QuietSettles
<1>3. CASE Skip
  <2>1. /\ cur \in Outputs /\ ~Given(cur) /\ cur' = After(cur) /\ UNCHANGED <<fs, run, written, step>>
    BY <1>3 DEF Skip
  <2>2. Done(cur') = Done(cur) \union {cur} /\ step = "begin"
    BY <2>1, DoneAfter DEF IInv, Phases
  <2> QED BY <2>1, <2>2, QuietSettles
<1>4. CASE MakeTemp
  <2>1. cur \in Outputs /\ step = "begin"
    BY <1>4 DEF MakeTemp
  <2>2. CASE Fails(cur)
    BY <2>1, <2>2, FailsSettles DEF Fails, Abort
  <2>3. CASE ~Fails(cur)
    <3>1. UNCHANGED <<fs, run, cur, tries, written>> /\ step' \in {"begin", "write"}
      BY <1>4, <2>1, <2>3 DEF MakeTemp, Abort
    <3> QED BY <2>1, <3>1, QuietSettles
  <2> QED BY <2>2, <2>3
<1>5. CASE WriteTemp
  <2>1. cur \in Outputs /\ step = "write"
    BY <1>5 DEF WriteTemp
  <2>2. CASE Fails(cur)
    BY <2>1, <2>2, FailsSettles DEF Fails, Abort
  <2>3. CASE ~Fails(cur)
    <3>1. UNCHANGED <<fs, run, cur, tries, written>> /\ step' \in {"write", "commit"}
      BY <1>5, <2>1, <2>3 DEF WriteTemp
    <3> QED BY <2>1, <3>1, QuietSettles
  <2> QED BY <2>2, <2>3
<1>6. CASE RefuseProtected
  BY <1>6, QuietSettles DEF RefuseProtected, Abort
<1>7. CASE Replace
  <2>1. /\ Allowed /\ run.force /\ cur \in Outputs /\ step = "commit" /\ step' = "committed"
        /\ fs' = [fs EXCEPT ![Name(cur)] = ContentOf(cur)] /\ UNCHANGED <<run, cur, tries, written>>
    BY <1>7 DEF Replace, Allowed
  <2>2. Given(cur) /\ ContentOf(cur) = cur
    BY <2>1 DEF IInv, Phases, ContentOf, Allowed
  <2>3. Name(cur) \in Paths
    BY <2>1, <2>2, NameIsPath DEF IInv
  <2>4. \A o \in Outputs : written[o] # NoPath /\ written[o] = Name(cur)
            => run.force /\ cur = "txt" /\ o # "txt" /\ (IsDir(o) \/ IsDir("txt"))
    <3>1. run.force
      BY <1>7 DEF Replace
    <3> QED BY <2>1, <2>2, <3>1, ForceSpares DEF Allowed
  <2> QED BY <2>1, <2>2, <2>3, <2>4, CommitSettles
<1>8. CASE Link
  <2>1. /\ Allowed /\ cur \in Outputs /\ step = "commit" /\ step' = "committed" /\ fs[Name(cur)] = Absent
        /\ fs' = [fs EXCEPT ![Name(cur)] = ContentOf(cur)] /\ UNCHANGED <<run, cur, tries, written>>
    BY <1>8 DEF Link, Allowed
  <2>2. Given(cur) /\ ContentOf(cur) = cur
    BY <2>1 DEF IInv, Phases, ContentOf, Allowed
  <2>3. Name(cur) \in Paths
    BY <2>1, <2>2, NameIsPath DEF IInv
  <2>4. \A o \in Outputs : written[o] # NoPath => written[o] # Name(cur)
    BY <2>1, ContentsAssumption DEF Kept, Took, Outputs
  <2> QED BY <2>1, <2>2, <2>3, <2>4, CommitSettles
<1>9. CASE LinkExists
  <2>1. cur \in Outputs /\ step = "commit" /\ UNCHANGED fs
    BY <1>9 DEF LinkExists, Allowed, Abort, Fails
  <2>2. CASE Fails(cur)
    BY <2>1, <2>2, FailsSettles
  <2>3. CASE ~Fails(cur)
    <3>1. UNCHANGED <<fs, run, cur, step, written>>
      BY <1>9, <2>3 DEF LinkExists, Abort
    <3> QED BY <2>1, <3>1, QuietSettles
  <2> QED BY <2>2, <2>3
<1>10. CASE CommitRaises
  BY <1>10, FailsSettles DEF CommitRaises, Allowed, Fails, Abort
<1>11. CASE Settle
  <2>1. cur \in Outputs /\ step = "committed"
    BY <1>11 DEF Settle
  <2>2. CASE Reported(cur) /\ UNCHANGED fs
    BY <2>1, <2>2, ReportSettles
  <2>3. CASE Fails(cur)
    BY <2>1, <2>3, FailsSettles DEF Fails, Abort
  <2> QED BY <1>11, <2>2, <2>3 DEF Settle
<1>12. CASE Finish \/ Killed \/ UNCHANGED vars
  BY <1>12, QuietSettles DEF Finish, Killed, vars
<1>13. CASE OtherProcess
  <2>1. PICK p \in Paths : fs[p] = Absent /\ fs' = [fs EXCEPT ![p] = Other]
    BY <1>13 DEF OtherProcess
  <2>2. UNCHANGED <<run, cur, step, tries, temp, written>>
    BY <1>13 DEF OtherProcess
  <2>3. \A q, o : o \in Outputs /\ fs[q] = o => fs'[q] = o
    BY <2>1, ContentsAssumption DEF IInv, TypeOK
  <2>4. Kept'
    <3> SUFFICES ASSUME NEW o \in Outputs, written[o] # NoPath
                 PROVE  /\ o \in Done(cur) /\ (~IsDir(o) => written[o] = run.target[o])
                        /\ fs'[written[o]] = o \/ Took(o)'
      BY <2>2 DEF Kept, IsDir
    <3>1. /\ o \in Done(cur) /\ (~IsDir(o) => written[o] = run.target[o])
          /\ fs[written[o]] = o \/ Took(o)
      BY DEF Kept
    <3>2. Took(o) => Took(o)'
      BY <2>2, <2>3 DEF Took, Name, IsDir, Outputs
    <3> QED BY <2>3, <3>1, <3>2
  <2>6. Committed'
    <3> SUFFICES ASSUME cur \in Outputs, step = "committed" PROVE fs'[Name(cur)] = cur
      BY <2>2 DEF Committed, Name, IsDir
    <3>1. fs[Name(cur)] = cur
      BY DEF Committed
    <3> QED BY <3>1, <2>3
  <2>5. Answered'
    BY <2>2 DEF Answered, Given
  <2> QED BY <2>4, <2>5, <2>6
<1> QED BY <1>1, <1>2, <1>3, <1>4, <1>5, <1>6, <1>7, <1>8, <1>9, <1>10, <1>11, <1>12, <1>13
        DEF Next, Process

\* A run that comes to its end says what it did.
LEMMA DeliveredStep ==
    ASSUME IInv, Settling, Delivered, [Next]_vars, Settling' PROVE Delivered'
<1>1. CASE Finish
  <2>1. cur' = "end" /\ UNCHANGED <<fs, run, written>>
    BY <1>1 DEF Finish
  <2>2. Done(cur') = Outputs
    BY <2>1 DEF Done
  <2>3. \A o \in Outputs : Took(o)' => TeeTook(o)'
    BY <1>1 DEF Finish, Took, TeeTook
  <2> QED BY <2>1, <2>2, <2>3 DEF Settling, Kept, Answered, Delivered, Given
<1>2. CASE ~Finish
  <2>1. exit' # "ok" \/ UNCHANGED vars
    BY <1>2 DEF Next, Process, UpFront, OpenTee, Command, Skip, MakeTemp, WriteTemp, RefuseProtected,
                Replace, Link, LinkExists, CommitRaises, Settle, Killed, OtherProcess, Allowed, Fails,
                Abort, Reported, Running
  <2> QED BY <2>1 DEF Delivered, TeeTook, IsDir, Given, vars
<1> QED BY <1>1, <1>2

\* However a run ends by itself, it leaves no temporary file but one the system
\* refused to unlink and a tee's that would not close; and when it ends well, what
\* was asked for is delivered and still there, or, under --force and with a target
\* that is a directory, replaced by the tee of the same name.
THEOREM RunsSettle == Spec => []RunSettled
<1>1. Init => IInv /\ Settling /\ Delivered
  <2>1. Init => exit = "running"
    BY DEF Init
  <2> QED BY <2>1, InitHolds, SettlingInit DEF Delivered
<1>2. IInv /\ Settling /\ Delivered /\ [Next]_vars => (IInv /\ Settling /\ Delivered)'
  BY StepKeeps, TempsStep, DistinctStep, KeptStep, DeliveredStep DEF Settling
<1>3. IInv /\ Settling /\ Delivered => RunSettled
  BY DEF Settling, RunSettled
<1> QED BY <1>1, <1>2, <1>3, PTL DEF Spec

===============================================================================
