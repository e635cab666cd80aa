------------------------------ MODULE MCYaraScan ------------------------------
(* Up to three segments and two rule files; each limit is the first to be    *)
(* reached in one of the configurations, alone or together with the deadline. *)
EXTENDS YaraScan

MCDumps == {<<2>>, <<1, 2>>, <<2, 0, 1>>, <<1, 1, 1>>, <<3, 1>>}

Wide == [max_seg_scan |-> 2, max_total_bytes_scanned |-> 9, max_total_hits |-> 9,
         scan_deadline_seconds |-> 9]

MCConfigs == {Wide, [Wide EXCEPT !.max_total_hits = 1],
              [Wide EXCEPT !.scan_deadline_seconds = 1],
              [Wide EXCEPT !.scan_deadline_seconds = 1, !.max_total_hits = 1],
              [Wide EXCEPT !.max_total_bytes_scanned = 2]}
===============================================================================
