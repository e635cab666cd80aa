--------------------------- MODULE MCCsBeaconScan ----------------------------
(* Dumps of at most two segments with an extent, and configurations in which *)
(* each budget is the first to run out on some of them.                      *)
EXTENDS CsBeaconScan

MCDumps == {<<2>>, <<1, 2>>, <<2, 0, 1>>, <<3>>}

Wide == [max_seg_scan |-> 2, max_total_scanned_bytes |-> 9, max_candidates |-> 9,
         max_decoded_bytes |-> 9, max_hits |-> 9, scan_deadline_seconds |-> 9]

MCConfigs == {Wide, [Wide EXCEPT !.max_candidates = 1], [Wide EXCEPT !.max_decoded_bytes = 1],
              [Wide EXCEPT !.max_hits = 1, !.max_candidates = 2],
              [Wide EXCEPT !.scan_deadline_seconds = 0],
              [Wide EXCEPT !.scan_deadline_seconds = -1],
              [Wide EXCEPT !.max_total_scanned_bytes = 2]}
==============================================================================
