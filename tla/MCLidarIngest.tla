--------------------------- MODULE MCLidarIngest ---------------------------
(* Two LiDAR PCs.  pc1 sends what the handler distinguishes: a vehicle     *)
(* before, during and after wrong-way driving, an end of the situation     *)
(* beside another object or of the same one, an empty snapshot, one with   *)
(* nothing acceptable, one without a time; pc2 sends an alarm.  Times are  *)
(* such that a snapshot can be late, repeated, or later than the           *)
(* inactivity timeout.                                                     *)
EXTENDS LidarIngest, TLC

CONSTANTS pc1, pc2, z1, z2, t1, t2

OneZoneEach == pc1 :> z1 @@ pc2 :> z2
SharedZone == pc1 :> z1 @@ pc2 :> z1

Seen(t, y) == [track |-> t, type |-> y, identified |-> TRUE, vehicle |-> TRUE]
Nameless(y) == [track |-> t1, type |-> y, identified |-> FALSE, vehicle |-> TRUE]
From(s, at, objects) == [source |-> s, at |-> at, objects |-> objects]

MixedSnapshots ==
    {From(pc1, 1, <<Seen(t1, WrongWay)>>),
     From(pc1, 2, <<Seen(t1, NormalDriving)>>),
     From(pc1, 2, <<Seen(t1, SituationEnded)>>),
     From(pc1, 3, <<Seen(t2, SituationEnded), Seen(t1, WrongWay)>>),
     From(pc1, 1, <<Nameless(SituationEnded), Seen(t2, NormalDriving)>>),
     From(pc1, 3, << >>),
     From(pc1, 2, <<Seen(t1, "unsupported")>>),
     From(pc1, 2, <<Seen(t1, WrongWay), Seen(t1, SituationEnded)>>),
     From(pc1, 0, << >>),
     From(pc2, 1, <<Seen(t1, WrongWay)>>),
     From("UNKNOWN", 1, << >>)}

\* For the liveness run: an alarm, an alarm behind another event, a refused
\* snapshot, another source, an unknown source.
FewSnapshots ==
    {From(pc1, 1, <<Seen(t1, WrongWay)>>),
     From(pc1, 3, <<Seen(t2, SituationEnded), Seen(t1, WrongWay)>>),
     From(pc1, 2, <<Seen(t1, "unsupported")>>),
     From(pc2, 1, <<Seen(t1, WrongWay)>>),
     From("UNKNOWN", 1, << >>)}

\* For the run on a shared zone: an alarm of one LiDAR PC, and the end of the
\* situation as the other one sees it.
AlarmAndEnd ==
    {From(pc1, 1, <<Seen(t1, WrongWay)>>),
     From(pc2, 1, <<Seen(t2, WrongWay)>>),
     From(pc2, 2, <<Seen(t2, SituationEnded)>>)}
=============================================================================
