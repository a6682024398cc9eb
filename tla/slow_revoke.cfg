\* A license from the file, and the sample's buttons.
SPECIFICATION BridgeSpec
CONSTANTS
  Seats = {1, 2}
  OfflineSeats = {2}
  NoCopy = NoCopy
  BridgeCalls = {"load"}
  MaxUnderWay = 3
  MaxCopies = 2
INVARIANT
  SlowRevokeNeverClobbers
