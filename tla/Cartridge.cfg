SPECIFICATION CartridgeSpec
CONSTANTS
    Blocks <- MCBlocks
    Devices = {"small", "large", "clock"}
    Data <- MCData
    Commands = {98, 99, 103}
    Times <- MCTimes
    SavePoints <- MCSavePoints
    None = None
INVARIANTS EepromSaved RtcInStep RtcAnswers
PROPERTY EepromIsAnArray
