-------------------------------- MODULE Sizes --------------------------------
(***************************************************************************)
(* Lists of sizes, as the scan loops of dumpex.hunt use them: the segments *)
(* that have an extent, and the total of the first n entries.              *)
(***************************************************************************)
EXTENDS Integers, Sequences

\* [seg for seg in segs if seg.size > 0]
WithExtent(sizes) ==
    LET kept[n \in 0..Len(sizes)] == IF n = 0 THEN <<>>
                           ELSE IF sizes[n] > 0 THEN Append(kept[n - 1], sizes[n])
                           ELSE kept[n - 1]
    IN  kept[Len(sizes)]

\* The sum of the first n entries.
Total(sizes, n) ==
    LET sum[k \in 0..Len(sizes)] == IF k = 0 THEN 0 ELSE sum[k - 1] + sizes[k]
    IN  sum[n]
==============================================================================
