SPECIFICATION LiveSpec
CONSTANTS
    NProcs = 2
    RowSizes = {1, 2}
    ColumnSizes = {1}
    NSeats = 2
    MaxCode = 1
INVARIANTS TypeOK OneOnFile ServesComplete AnswersItself StopsADaemon PidFileNamesOwner
PROPERTIES RestartKeepsBookings CodesStartAfresh StarterReturns StartSettles SignalStops
