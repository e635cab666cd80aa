--------------------------- MODULE MCTargetedRescan ---------------------------
EXTENDS TargetedRescan

Seg(b, n, o) == [base |-> b, size |-> n, offset |-> o]
Reg(b, n, k) == [base |-> b, size |-> n, kind |-> k]

\* Two adjacent segments, a gap, a nested one, an empty one, one past the space.
MCTables ==
    {<<Seg(1, 2, 10), Seg(3, 3, 20)>>,
     <<Seg(4, 2, 10), Seg(1, 2, 20)>>,
     <<Seg(1, 5, 10), Seg(2, 1, 30), Seg(3, 0, 40)>>,
     <<Seg(3, 2, 10), Seg(2, 3, 20), Seg(5, 1, 30)>>,
     <<Seg(1, 3, 10), Seg(4, 5, 20)>>,
     <<Seg(5, 1, 10)>>}
MCRegionLists ==
    {<<Reg(1, 3, k), Reg(4, 2, "free")>> : k \in {"private", "image"}}
    \union {<<Reg(1, 5, k)>> : k \in {"private", "private_rx", "backed", "image_ro", "system",
                                      "mapped"}}
    \union {<<Reg(3, 9, "private")>>}
MCRequests  == {VirtualRange(1, 5), VirtualRange(2, 2), VirtualRange(3, 3), VirtualRange(1, 1)}
MCAnalyzers == {"cs-beacon", "yara", "stomping", "pipe", "obfuscation"}
==============================================================================
