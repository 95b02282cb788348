--------------------------- MODULE MCMarketStream ---------------------------
(***************************************************************************)
(* Instances of MarketStream for TLC.  Two connections: the present one    *)
(* and one whose ping goroutine has not ended yet.  Both channels have     *)
(* room for one, so that both are often full, and a frame carries up to    *)
(* two updates, so that the reader is held up within a frame.              *)
(***************************************************************************)
EXTENDS MarketStream, TLC

(* For the runs that check no temporal property. *)
ConnSymmetry == Permutations(Conns)
=============================================================================
