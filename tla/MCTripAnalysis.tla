--------------------------- MODULE MCTripAnalysis ---------------------------
(* The analysis of one trip (TripAnalysis), as an instance whose row and   *)
(* faults have names of their own beside those of a chat.                  *)

CONSTANTS Run, NoRun, Timeout, ReapGrace, MaxStarts, MaxFailures

VARIABLES verdict, age, registry, run, releasing, starts, saved, failures

Analysis == INSTANCE TripAnalysis WITH
    status <- verdict, faults <- failures, MaxFaults <- MaxFailures

ASSUME AnalysisFits == Analysis!AnalysisAssumption

AnalysisSpec == Analysis!FairSpec

(* The properties of the analysis.                                         *)
ReportStands == Analysis!ReportStands
FlagsAreLive == Analysis!FlagsAreLive
ReaperNeverRaces == Analysis!ReaperNeverRaces
EveryAnalysisSettles == Analysis!EveryAnalysisSettles
=============================================================================
