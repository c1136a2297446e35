\* The constants are those of the scenario "day"; MCRiskManager has the others.
SPECIFICATION MCSpec
CONSTANTS
    Scenarios = {"day", "skew", "restart"}
    Threads = {t1, t2}
    DayLen = 4
    Cooldown = 1
    MaxLosses = 2
    LossPause = 2
    PctLimit = 30
    UsdtLimit = 4
    StartBalance = 20
    Pnls <- TwoLossesOneWin
    MaxTime = 7
    MaxTrades = 4
    MaxRestarts = 0
    MaxSkew = 0
SYMMETRY Symmetry
INVARIANT TypeOK
PROPERTIES StreakServesPause DailyLossLimit CooldownAfterEveryClose PauseHoldsAllDay
