----------------------------- MODULE MCImageHunts -----------------------------
EXTENDS ImageHunts

Code(va, vsize, raw, rawsize) ==
    [va |-> va, vsize |-> vsize, raw |-> raw, rawsize |-> rawsize, exec |-> TRUE, write |-> FALSE]
Data(va, size) == [Code(va, size, va, size) EXCEPT !.exec = FALSE, !.write = TRUE]

\* Five cells of code with one fixup and a writable cell behind them; preferred base 4.
App == [identity |-> "app", machine |-> "x64", preferred |-> 4, headers |-> 1, image |-> 7,
        sections |-> <<Code(1, 5, 1, 5), Data(6, 1)>>,
        relocs |-> [table |-> "whole", slots |-> {2}], file |-> <<MZ, 2, 0, 2, 0, 1, 2>>]
NextApp == [App EXCEPT !.identity = "next app", !.file = <<MZ, 0, 1, 1, 2, 0, 2>>]
\* A fixup type the walk does not decode, a machine it does not know, and a fixup past
\* the raw data of its section.
OddApp  == [App EXCEPT !.identity = "odd app", !.relocs.table = "odd"]
ArmApp  == [App EXCEPT !.identity = "arm app", !.machine = "other"]
BssApp  == [App EXCEPT !.identity = "bss app", !.image = 8, !.relocs.slots = {2, 7}]
\* Loaded where it wants to be, with a virtual tail; moved by one cell, with a second
\* code section that has no raw data.
Lib == [identity |-> "lib", machine |-> "x64", preferred |-> 13, headers |-> 1, image |-> 4,
        sections |-> <<Code(1, 2, 1, 1)>>, relocs |-> [table |-> "absent", slots |-> {}],
        file |-> <<MZ, 2>>]
Packed == [Lib EXCEPT !.identity = "packed", !.preferred = 12,
                      !.relocs = [table |-> "whole", slots |-> {1}],
                      !.sections = <<Code(1, 1, 1, 1), Code(2, 2, 0, 0)>>]

Mod(name, base, build) == [name |-> name, base |-> base, build |-> build]
Seg(b, n) == [base |-> b, size |-> n, offset |-> b]
Reg(b, n, kind) == [base |-> b, size |-> n, kind |-> kind]
Dump(mods, rs, t, tampered, ips, peb) ==
    [modules |-> mods, regions |-> rs, table |-> t, tampered |-> tampered, ips |-> ips, peb |-> peb]

\* The last cell of the code is no longer executable.
Layout == <<Reg(5, 1, "image-r"), Reg(6, 4, "image-rx"), Reg(10, 2, "image-r")>>
Moved(build) == <<Mod("app", 5, build)>>
Held == <<Seg(5, 7)>>

MCDumps ==
    {Dump(Moved(App), Layout, Held, <<>>, {8}, 5),
     \* three changed ranges, a thread in the second, in the third
     Dump(Moved(App), Layout, Held, 6 :> 0 @@ 8 :> 0 @@ 10 :> 0, {8}, 5),
     Dump(Moved(App), Layout, Held, 6 :> 0 @@ 8 :> 0 @@ 10 :> 0, {10}, 5),
     \* one changed cell, the last; a fixup slot put back to its unrelocated value
     Dump(Moved(App), Layout, Held, 10 :> 0, {}, 5),
     Dump(Moved(App), Layout, Held, 7 :> 0, {6}, 5),
     Dump(Moved(OddApp), Layout, Held, <<>>, {}, 5),
     Dump(Moved(ArmApp), Layout, Held, 8 :> 0, {8}, 5),
     Dump(Moved(BssApp), Layout, Held, <<>>, {}, 5),
     \* a hollowed image base: the header gone, the memory private
     Dump(Moved(App), <<Reg(5, 7, "private-rwx")>>, Held, 5 :> 0, {6}, 5),
     Dump(Moved(App), <<Reg(5, 7, "private-rw")>>, Held, <<>>, {}, 5),
     \* two modules over two segments, one region too large to search
     Dump(Moved(App) \o <<Mod("lib", 13, Lib)>>, <<Reg(5, 7, "image-rx"), Reg(13, 4, "image-rwx")>>,
          <<Seg(5, 7), Seg(13, 4)>>, <<>>, {14}, 13),
     \* untouched, with cells no file holds; a changed cell in a virtual tail
     Dump(<<Mod("lib", 13, Packed)>>, <<Reg(13, 4, "image-rx")>>, <<Seg(13, 4)>>, <<>>, {}, 20),
     Dump(<<Mod("lib", 13, Lib)>>, <<Reg(13, 4, "image-rx")>>, <<Seg(13, 4)>>, 15 :> 2, {15}, 20),
     \* held in part, or not from its start; no module list; no memory info
     Dump(Moved(App), Layout, <<Seg(6, 6)>>, <<>>, {}, 5),
     Dump(Moved(App), Layout, <<Seg(5, 3)>>, <<>>, {}, 5),
     Dump(<<>>, <<Reg(5, 6, "image-rx"), Reg(13, 4, "image-rwx")>>, <<Seg(5, 5), Seg(13, 4)>>, <<>>, {}, 0),
     Dump(Moved(App), <<>>, Held, <<>>, {}, 5)}

File(state, build, cells) == [state |-> state, build |-> build, cells |-> cells]
Whole(build) == File("whole", build, build.file)
Dir(files) == [supplied |-> TRUE, files |-> files]

\* What each dump's build needs, and every way a reference can fail it.
MCRefDirs ==
    {[supplied |-> FALSE, files |-> <<>>], Dir(<<>>),
     Dir("app" :> Whole(NextApp) @@ "lib" :> Whole(Lib)),
     Dir("app" :> File("whole", App, SubSeq(App.file, 1, 4)) @@ "lib" :> File("whole", Lib, <<MZ>>)),
     Dir("app" :> File("unreadable", App, <<>>)), Dir("app" :> File("oversize", App, <<>>)),
     Dir("app" :> File("invalid", App, <<>>))}
    \union {Dir("app" :> Whole(a) @@ "lib" :> Whole(l)) :
              a \in {App, OddApp, ArmApp, BssApp}, l \in {Lib, Packed}}
==============================================================================
