----------------------------- MODULE MCAccelMgr -----------------------------
(* A ring of four descriptors and a report queue of four slots, so that    *)
(* three undrained reports fill it, and six frames, which take the ring    *)
(* round into its second lap.  The three jobs, distinguishable, share two  *)
(* channels of the application layer.  The three result blocks have peaks  *)
(* of level 3, 1 and 2, and the divisor is recalibrated every second       *)
(* frame.                                                                  *)
EXTENDS AccelMgr

MCJob == {[chan |-> c, nsamp |-> c + 1, seq |-> 62 + c] : c \in 0 .. 2}
MCResults == <<3900, 1010, 600, 70, 2000, 160>>
=============================================================================
