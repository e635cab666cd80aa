----------------------------- MODULE MCOutputRun -----------------------------
(* Two names a user can choose and two that dumpex generates for the tee;   *)
(* the dump may sit on any of them, and another process may take any.       *)
EXTENDS OutputRun

CONSTANTS a, b, t1, t2, j1

MCPaths == {a, b, t1, t2, j1}
MCAutoNames == [o \in {"json", "txt"} |-> IF o = "txt" THEN <<t1, t2>> ELSE <<j1>>]

Request(m, f, e, j, t) ==
    [mode |-> m, force |-> f,
     target |-> [o \in Outputs |-> CASE o = "extract" -> e [] o = "json" -> j [] o = "txt" -> t]]

\* Every mode with and without --force; exact, generated and absent targets; and
\* a chosen name that is the one generated for another output.
MCRequests ==
    {Request(m, f, e, j, t) : m \in {"extract", "report"}, f \in BOOLEAN,
                              e \in {a}, j \in {a, b, Directory}, t \in {Directory, NoPath}}
    \union {Request("report", f, NoPath, j, Directory) : f \in BOOLEAN, j \in {a, Directory}}
    \union {Request("diff", f, NoPath, j, t) : f \in BOOLEAN, j \in {a, b, Directory},
                                               t \in {b, NoPath}}
    \union {Request("report", f, t1, b, Directory) : f \in BOOLEAN}
    \union {Request("diff", f, NoPath, t1, Directory) : f \in BOOLEAN}
    \union {Request("diff", f, NoPath, Directory, j1) : f \in BOOLEAN}
==============================================================================
