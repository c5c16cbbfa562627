--------------------------- MODULE MCSourceQueue ---------------------------
(* Two LiDAR PCs and four requests: enough for a request to be enqueued    *)
(* between the end of its predecessor and that predecessor's cleanup while *)
(* a third one of the same source follows.                                 *)
EXTENDS SourceQueue
=============================================================================
