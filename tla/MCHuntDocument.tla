---------------------------- MODULE MCHuntDocument ----------------------------
EXTENDS HuntDocument

Seg(b, n) == [base |-> b, size |-> n, offset |-> b]
Reg(b, n, kind) == [base |-> b, size |-> n, kind |-> kind]
Dump(rs, t, hs, ts) == [regions |-> rs, table |-> t, handles |-> hs, threads |-> ts]

\* A heap region held whole and one held in part, a region a segment shares exactly,
\* a segment over two regions, uncommitted and unheld ranges, missing streams.
MCDumps ==
    {Dump(<<Reg(1, 2, "heap"), Reg(3, 2, "rwx")>>, <<Seg(1, 2), Seg(3, 1)>>, "present", "whole"),
     Dump(<<Reg(1, 3, "heap"), Reg(4, 2, "reserve")>>, <<Seg(1, 3)>>, "present", "unparsed"),
     Dump(<<Reg(1, 2, "heap"), Reg(3, 1, "image")>>, <<Seg(1, 3)>>, "truncated", "gaps"),
     Dump(<<Reg(1, 1, "system"), Reg(2, 2, "rwx"), Reg(5, 2, "heap")>>, <<Seg(2, 2), Seg(2, 1)>>, "failed", "absent"),
     Dump(<<Reg(1, 2, "backed")>>, <<>>, "absent", "absent"),
     Dump(<<>>, <<Seg(1, 1)>>, "present", "absent"),
     Dump(<<>>, <<>>, "absent", "absent")}
MCRosters == {<<"pipe", "cs-beacon">>, <<"cs-beacon", "obfuscation">>, <<"pipe">>}
MCCap == [pass \in AllPasses |-> IF pass \in {"sleep_mask", "pipe"} THEN 3 ELSE 2]
==============================================================================
