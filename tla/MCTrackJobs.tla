----------------------------- MODULE MCTrackJobs -----------------------------
(* TrackJobs on small instances; the .cfg file chooses the sizes.          *)
EXTENDS TrackJobs

CONSTANTS finalize, traffic

(* finalize queues the analysis; the analysis queues nothing.              *)
MCFollowUps == [k \in Key |-> IF k = finalize THEN Key \ {finalize} ELSE {}]
=============================================================================
