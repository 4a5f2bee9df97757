--------------------------- MODULE MCReplayFilter ---------------------------
(* The replay filter on a ring of three blocks of two bits.  Counters reach *)
(* past the limit, and past two laps of the ring.                           *)
EXTENDS ReplayFilter

MCCounters == 0 .. 13
=============================================================================
