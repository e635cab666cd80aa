------------------------------ MODULE FileStore ------------------------------
(***************************************************************************)
(* What dumpex promises about the files of the directories it writes to,   *)
(* whatever happens to the run: a name goes from one complete content to   *)
(* another in one step, an existing file is replaced only under --force,   *)
(* and the dump under analysis never is.                                   *)
(***************************************************************************)
CONSTANTS Paths, Contents, Absent, Dump

VARIABLES fs,        \* what each name holds
          force      \* --force, fixed for the run

vars == <<fs, force>>

Init == /\ fs \in [Paths -> Contents \union {Absent, Dump}]
        /\ force \in BOOLEAN

\* Some process makes a complete file appear under a name.
Publish(p, c) == /\ fs[p] # Dump
                 /\ fs[p] = Absent \/ force
                 /\ fs' = [fs EXCEPT ![p] = c]
                 /\ UNCHANGED force

Next == \E p \in Paths, c \in Contents : Publish(p, c)

Spec == Init /\ [][Next]_vars
===============================================================================
