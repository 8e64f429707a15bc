\* Three analyses of a trip, two of their tasks at a time, and dropped requests and
\* restarts.
CONSTANTS
    Run = {r1, r2}
    NoRun = NoRun
    Timeout = 2
    ReapGrace = 1
    MaxStarts = 3
    MaxFailures = 2
SPECIFICATION AnalysisSpec
INVARIANTS ReportStands FlagsAreLive ReaperNeverRaces
PROPERTY EveryAnalysisSettles
