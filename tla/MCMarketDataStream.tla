------------------------- MODULE MCMarketDataStream -------------------------
(* Small instances of MarketDataStream for TLC. *)
EXTENDS MarketDataStream, TLC

Symmetry == Permutations(Workers) \cup Permutations(Payloads)
=============================================================================
