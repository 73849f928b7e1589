--------------------------- MODULE MCStreamCatalog --------------------------
(* An instance of StreamCatalog: three titles share a shard, which is      *)
(* written at two buffered streams; the first is listed by the sources 1   *)
(* and 10, once with a channel number that a string order would misplace.  *)
EXTENDS StreamCatalog

MCSlotOf == [t \in Titles |-> <<IF t = "C" THEN 2 ELSE 1, t>>]
MCSlots == {MCSlotOf[t] : t \in Titles}
MCShardOf == [k \in MCSlots |-> k[1]]
MCRankOf == [t \in Titles |-> CASE t = "A" -> 1 [] t = "B" -> 2 [] t = "C" -> 3 [] OTHER -> 4]
(* A character of "B" is one that sanitizeField maps.                      *)
MCCleanRankOf == [t \in Titles |-> CASE t = "B" -> 5 [] OTHER -> MCRankOf[t]]
MCTitleOf == [l \in Listings |-> CASE l \in {1, 4} -> "A" [] l \in {2, 5} -> "B" [] l = 6 -> "D" [] OTHER -> "C"]
MCSourceOf == [l \in Listings |-> IF l <= 3 THEN "1" ELSE "10"]
MCUrlOf == [l \in Listings |-> l]
MCShowsOf == [l \in Listings |->
                CASE l = 1 -> {"chno"} [] l = 4 -> {"chno", "group"} [] l = 2 -> {"chno"} [] OTHER -> {}]
MCChnoOf == [l \in Listings |-> CASE l = 1 -> 10 [] l = 4 -> 3 [] OTHER -> 9]
MCPrefixed == [i \in Sources |-> IF i = "1" THEN {"1", "10"} ELSE {i}]

=============================================================================
