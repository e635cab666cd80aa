------------------------------ MODULE OutputRun ------------------------------
(***************************************************************************)
(* The files of one dumpex run: cli.main's output-path checks, the --txt   *)
(* tee, the --extract/--report artifact and the --json document, each      *)
(* written through core/safe_io.  Other processes create files meanwhile,  *)
(* and the run can be killed between any two file-system calls.            *)
(***************************************************************************)
EXTENDS Integers, Sequences

CONSTANTS
    Paths,         \* file names, symbolic links resolved
    Absent,        \* no file has that name
    Other,         \* content this run did not write
    Partial,       \* a temporary file's incomplete content
    Dump,          \* content of the dump under analysis
    Baseline,      \* content of --diff's second dump
    NoPath,        \* the flag was not given
    Directory,     \* the target is a directory: the name is generated
    AutoNames,     \* output -> the generated names, in the order they are tried
    Requests       \* the command lines considered

Outputs == {"extract", "json", "txt"}
Modes   == {"extract", "report", "diff"}
Targets == Paths \union {NoPath, Directory}

ASSUME PathsAssumption ==
    /\ {NoPath, Directory} \intersect Paths = {} /\ NoPath # Directory
    /\ AutoNames \in [{"json", "txt"} -> Seq(Paths) \ {<<>>}]
    /\ Requests \subseteq [mode: Modes, force: BOOLEAN, target: [Outputs -> Targets]]
    /\ \A r \in Requests : r.target["extract"] # Directory

ASSUME ContentsAssumption ==
    /\ Absent   \notin {Other, Partial, Dump, Baseline} \union Outputs
    /\ Other    \notin {Partial, Dump, Baseline} \union Outputs
    /\ Partial  \notin {Dump, Baseline} \union Outputs
    /\ Dump     \notin {Baseline} \union Outputs
    /\ Baseline \notin Outputs

VARIABLES
    fs,        \* what each name holds
    run,       \* the command line
    cur,       \* the output being written, or the phase between outputs
    step,      \* how far its write has got
    tries,     \* generated names refused so far
    temp,      \* this run's temporary file for each output; "stuck": not unlinked
    written,   \* where each output was reported written
    late,      \* history: a commit succeeded and then raised
    exit       \* how the run ended

vars == <<fs, run, cur, step, tries, temp, written, late, exit>>

Init ==
    /\ run \in Requests
    /\ \E d, e \in Paths : /\ d # e
                           /\ fs = [p \in Paths |-> IF p = d THEN Dump
                                      ELSE IF p = e /\ run.mode = "diff" THEN Baseline
                                      ELSE Absent]
    /\ cur = "start" /\ step = "begin" /\ tries = 0
    /\ temp = [o \in Outputs |-> "none"]
    /\ written = [o \in Outputs |-> NoPath]
    /\ late = FALSE /\ exit = "running"

Running  == exit = "running"
Given(o) == run.target[o] # NoPath
IsDir(o) == run.target[o] = Directory
Name(o)  == IF IsDir(o) THEN AutoNames[o][tries + 1] ELSE run.target[o]

\* The contents each writer refuses to replace: the tee is built with the
\* primary dump only; the collector adds the second dump and every artifact.
Protected(o) == CASE o = "extract" -> {Dump}
                  [] o = "txt"     -> {Dump}
                  [] o = "json"    -> {Dump, Baseline}
                                      \union (IF written["extract"] # NoPath THEN {"extract"} ELSE {})

\* Mutant: nobody unlinks the temporary files.
AbortLeaking(how) == exit' = how /\ UNCHANGED <<fs, run, cur, step, tries, temp, written>>

\* Every handler swallows an error of its own os.unlink: the file then stays.
Unlink(outs) ==
    \E stuck \in SUBSET {o \in outs : temp[o] # "none"} :
        temp' = [o \in Outputs |-> IF o \in stuck THEN "stuck"
                                  ELSE IF o \in outs THEN "none" ELSE temp[o]]

\* An exception or sys.exit unwinds through every handler: the temporary file
\* being committed is unlinked, the tee is abandoned.
Abort(how) ==
    /\ exit' = how
    /\ Unlink({cur, "txt"} \intersect Outputs)
    /\ UNCHANGED <<fs, run, cur, step, tries, written>>

\* The tee's temporary file exists from before the command to the end.
OpenTee ==
    \/ /\ cur' = "command"
       /\ temp' = IF Given("txt") THEN [temp EXCEPT !["txt"] = "partial"] ELSE temp
       /\ UNCHANGED <<fs, run, step, tries, written, exit>>
    \/ Given("txt") /\ Abort("failed")

\* Mutant: the run's own outputs are not compared with each other.
UpFrontDumpsOnly ==
    /\ Running /\ cur = "start"
    /\ IF \E o \in Outputs : Given(o) /\ ~IsDir(o) /\ fs[run.target[o]] \in {Dump, Baseline}
       THEN Abort("refused")
       ELSE OpenTee
    /\ UNCHANGED late

\* main(): an exact target may be neither a dump nor another exact target.
UpFront ==
    /\ Running /\ cur = "start"
    /\ LET exact == {o \in Outputs : Given(o) /\ ~IsDir(o)}
           clash == \/ \E o \in exact : fs[run.target[o]] \in {Dump, Baseline}
                    \/ \E o, q \in exact : o # q /\ run.target[o] = run.target[q]
       IN  IF clash THEN Abort("refused")
           ELSE OpenTee
    /\ UNCHANGED late

After(o) == CASE o = "extract" -> "json" [] o = "json" -> "txt" [] o = "txt" -> "end"

\* _run: the command itself may fail before any output is written.
Command == /\ Running /\ cur = "command"
           /\ \/ Abort("failed")
              \/ cur' = "extract" /\ UNCHANGED <<fs, run, step, tries, temp, written, exit>>
           /\ UNCHANGED late

Skip == /\ Running /\ cur \in Outputs /\ ~Given(cur)
        /\ cur' = After(cur)
        /\ UNCHANGED <<fs, run, step, tries, temp, written, late, exit>>

\* Any exception of an artifact write is a diagnostic for --report, fatal for
\* --extract; of a document write, always fatal.
Fails(o) == IF o = "extract" /\ run.mode = "report"
            THEN /\ Unlink({o})
                 /\ cur' = After(o) /\ step' = "begin" /\ tries' = 0
                 /\ UNCHANGED <<fs, run, written, exit>>
            ELSE Abort("failed")

\* Create the temporary file beside the target (the tee's exists already);
\* write_output_bytes checks its exact path first, the others when they commit.
MakeTemp ==
    /\ Running /\ cur \in Outputs /\ Given(cur) /\ step = "begin"
    /\ IF cur = "extract" /\ fs[run.target[cur]] \in Protected(cur)
       THEN Abort("refused")
       ELSE \/ /\ temp' = [temp EXCEPT ![cur] = "partial"]
               /\ step' = "write"
               /\ UNCHANGED <<fs, run, cur, tries, written, exit>>
            \/ cur # "txt" /\ Fails(cur)
    /\ UNCHANGED late

\* Fill and close the temporary file.  When closing the tee's fails, nobody is
\* left to abandon it: finalize() runs outside main()'s handler.
WriteTemp ==
    /\ Running /\ cur \in Outputs /\ step = "write"
    /\ \/ /\ temp' = [temp EXCEPT ![cur] = "full"]
          /\ step' = "commit"
          /\ UNCHANGED <<fs, run, cur, tries, written, exit>>
       \/ cur # "txt" /\ Fails(cur)
       \/ /\ cur = "txt" /\ exit' = "failed"
          /\ UNCHANGED <<fs, run, cur, step, tries, temp, written>>
    /\ UNCHANGED late

ContentOf(o) == IF temp[o] = "full" THEN o ELSE Partial

\* Mutant: the requested path is reported instead of the generated one.
ReportedAsAsked(o) == /\ written' = [written EXCEPT ![o] = run.target[o]]
                      /\ temp' = [temp EXCEPT ![o] = "none"]
                      /\ cur' = After(o) /\ step' = "begin" /\ tries' = 0
                      /\ UNCHANGED <<run, exit>>

Reported(o) == /\ written' = [written EXCEPT ![o] = Name(o)]
               /\ temp' = [temp EXCEPT ![o] = "none"]
               /\ cur' = After(o) /\ step' = "begin" /\ tries' = 0
               /\ UNCHANGED <<run, exit>>

\* check_not_dump_path at the literal name, except in write_output_bytes.
RefuseProtected ==
    /\ Running /\ cur \in Outputs /\ step = "commit"
    /\ cur # "extract" /\ fs[Name(cur)] \in Protected(cur)
    /\ Abort("refused") /\ UNCHANGED late

Allowed == /\ Running /\ cur \in Outputs /\ step = "commit"
           /\ cur = "extract" \/ fs[Name(cur)] \notin Protected(cur)

\* --force: os.replace consumes the temporary file in the same step.
Replace == /\ Allowed /\ run.force
           /\ fs' = [fs EXCEPT ![Name(cur)] = ContentOf(cur)]
           /\ temp' = [temp EXCEPT ![cur] = "none"] /\ step' = "committed"
           /\ UNCHANGED <<run, cur, tries, written, late, exit>>

\* Mutant: os.rename instead of os.link replaces what another process created.
RenameOver == /\ Allowed /\ ~run.force
              /\ fs' = [fs EXCEPT ![Name(cur)] = ContentOf(cur)]
              /\ step' = "committed"
              /\ UNCHANGED <<run, cur, tries, temp, written, late, exit>>

\* os.link: atomic, and exclusive.
Link == /\ Allowed /\ ~run.force /\ fs[Name(cur)] = Absent
        /\ fs' = [fs EXCEPT ![Name(cur)] = ContentOf(cur)]
        /\ step' = "committed"
        /\ UNCHANGED <<run, cur, tries, temp, written, late, exit>>

\* Mutant: the generated names are tried over and over.
RetryForEver ==
    /\ Allowed /\ ~run.force /\ fs[Name(cur)] # Absent
    /\ IF ~IsDir(cur) THEN Abort("refused")
       ELSE /\ tries' = (tries + 1) % Len(AutoNames[cur])
            /\ UNCHANGED <<fs, run, cur, step, temp, written, exit>>
    /\ UNCHANGED late

\* The name is taken: a generated name has successors, a chosen one has not and
\* is refused once the temporary file is unlinked.
LinkExists ==
    /\ Allowed /\ ~run.force /\ fs[Name(cur)] # Absent
    /\ IF ~IsDir(cur) THEN \/ Abort("refused") /\ temp'[cur] = "none"
                           \/ Fails(cur)
       ELSE IF tries + 1 < Len(AutoNames[cur])
       THEN tries' = tries + 1 /\ UNCHANGED <<fs, run, cur, step, temp, written, exit>>
       ELSE Abort("failed")
    /\ UNCHANGED late

\* link or replace itself raises: no hard links here, permission denied.
CommitRaises == Allowed /\ Fails(cur) /\ UNCHANGED late

\* Unlink a linked temporary name and read the file back to report it; should
\* either raise, the committed file stays, and the temporary name may.
Settle == /\ Running /\ cur \in Outputs /\ step = "committed"
          /\ \/ Reported(cur) /\ UNCHANGED <<fs, late>>
             \/ ~(cur = "extract" /\ run.force) /\ Fails(cur) /\ late' = TRUE

Finish == /\ Running /\ cur = "end"
          /\ exit' = "ok"
          /\ UNCHANGED <<fs, run, cur, step, tries, temp, written, late>>

\* The process is killed: nothing is cleaned up.
Killed == /\ Running /\ exit' = "killed"
          /\ UNCHANGED <<fs, run, cur, step, tries, temp, written, late>>

\* Another process (another dumpex, an editor) creates a file.
OtherProcess == /\ Running
                /\ \E p \in Paths : fs[p] = Absent /\ fs' = [fs EXCEPT ![p] = Other]
                /\ UNCHANGED <<run, cur, step, tries, temp, written, late, exit>>

Process == \/ UpFront \/ Command \/ Skip \/ MakeTemp \/ WriteTemp \/ RefuseProtected
           \/ Replace \/ Link \/ LinkExists \/ CommitRaises \/ Settle \/ Finish

Next == Process \/ Killed \/ OtherProcess

Spec == Init /\ [][Next]_vars

\* The run is one sequential process the operating system keeps scheduling.
FairSpec == Spec /\ WF_vars(Process)

------------------------------------------------------------------------------
\* Only these contents ever appear under a name, and only the run's own phases
\* occur; an output is reported at a file, never at a directory.
TypeOK ==
    /\ run \in Requests
    /\ fs \in [Paths -> {Absent, Other, Partial, Dump, Baseline} \union Outputs]
    /\ cur \in Outputs \union {"start", "command", "end"}
    /\ step \in {"begin", "write", "commit", "committed"}
    /\ tries \in Nat
    /\ temp \in [Outputs -> {"none", "partial", "full", "stuck"}]
    /\ written \in [Outputs -> Paths \union {NoPath}]
    /\ late \in BOOLEAN
    /\ exit \in {"running", "ok", "refused", "failed", "killed"}

\* Every step of the run is a step of the file store: names change content in
\* one step, never to a partial file, never away from the dump, and away from
\* any other file only under --force.
Files == INSTANCE FileStore WITH
            Contents <- Outputs \union {Other, Baseline}, force <- run.force
FilesSpec == Files!Spec

\* A file this run created is one it reports, unless the error came after the
\* commit (or it never got to report at all).
NoOrphanOutput ==
    \A o \in Outputs, p \in Paths :
        fs[p] = o => \/ written[o] = p \/ late
                     \/ cur = o /\ step = "committed"

Ended == exit \in {"ok", "refused", "failed"}

\* A run that ends by itself leaves no temporary file behind but a tee whose
\* closing failed and one the system refused to unlink; a reported output has none,
\* and a run that ends well none but that of an artifact it gave up.
TempsTidied ==
    /\ Ended => \A o \in Outputs :
                  \/ temp[o] \in {"none", "stuck"}
                  \/ o = "txt" /\ cur = "txt" /\ step = "write"
    /\ \A o \in Outputs : written[o] # NoPath \/ (exit = "ok" /\ ~(o = "extract" /\ run.mode = "report"))
                          => temp[o] = "none"

\* Two targets of which one is a directory are never compared: under --force the
\* tee, committed last, replaces an output of the same name.
TeeTook(o) == /\ run.force /\ o # "txt" /\ (IsDir(o) \/ IsDir("txt"))
              /\ written["txt"] = written[o] /\ fs[written[o]] = "txt"

\* A run that ends well reported every output it was asked for, a failed artifact
\* of --report excepted, and each file it reports still holds what it wrote there.
\* check_no_output_collisions promises that for every output; it does not hold of one
\* whose name the run's own tee took (TeeTook), and of no other.
Delivered ==
    exit = "ok" => \A o \in Outputs :
                     /\ Given(o) /\ written[o] = NoPath => o = "extract" /\ run.mode = "report"
                     /\ written[o] # NoPath => fs[written[o]] = o \/ TeeTook(o)

\* What a run leaves behind when it ends: the temporary files it could unlink are
\* gone, and every report is true but for the one replacement the checks let pass.
RunSettled == TempsTidied /\ Delivered

\* Retrying generated names ends: the run always comes to an end.
Terminates == <>(exit # "running")
==============================================================================
