------------------------- MODULE MC_TrafficHistory -------------------------
(* Two interfaces and three buckets of three units; polls end on and between  *)
(* bucket boundaries, and a sample may span more buckets than one batch of    *)
(* one sample has segments for.                                             *)
EXTENDS TrafficHistory

MCInterfaces == {1, 2}
MCBytes == {5}
MCPollTimes == {3, 5}
MCRetentions == {<<1, 2>>, <<2, 2>>}
=============================================================================
