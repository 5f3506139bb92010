---------------------------- MODULE MCFreqSearch ----------------------------
(* Small tables for module FreqSearch: entries of the console's GPU and CPU  *)
(* tables, and one with odd sums, whose midpoints the integer division rounds.*)
EXTENDS FreqSearch

MCTables == {<<3072, 3840, 4608, 5376>>, <<10200, 11220, 12240>>, <<768>>, <<15, 38, 61, 90>>}
MCLimits == {0, 3840, 4608, 11220, 38, NoLimit}
MCRequests == {0, 10, 15, 26, 27, 30, 38, 49, 50, 60, 75, 76, 90, 760, 3070, 3455, 3456, 3457, 3840,
               4224, 4225, 4600, 4992, 5370, 6000, 10200, 10710, 10711, 11220, 12240, 20000}
=============================================================================
