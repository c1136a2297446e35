\* Candles and frames, signals, downloads and simulated trades.
SPECIFICATION MCSpec
CONSTANTS
    Workers = {w1}
    Readers = {m1}
    Late = {}
    MaxLen = 4
    MaxGap = 2
    MaxNow = 8
    s1 = s1
    s2 = s2
INVARIANTS TypeOKMC TailComplete CleanCacheIsSeries EvaluatedInOrder EachCloseOnceMC OwnIndicators SeriesWhole TradesTrue ReportTrue
PROPERTIES DownloadsEnd
CHECK_DEADLOCK FALSE
