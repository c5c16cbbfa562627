--------------------------- MODULE MCControlBoard ---------------------------
(* Up to three commands and a history of two, so that one is pushed out    *)
(* while the sockets of others are open.  The first cfg has a timeout of   *)
(* one tick; MCControlBoardClosed.cfg has two commands and two ticks, so   *)
(* that the last connection is made late in its time.                      *)
EXTENDS ControlBoard
=============================================================================
