SPECIFICATION Spec
CONSTANTS
  HalfWord = 32
  Numbers = {0, 1, 2, 3, 4, 6, 31, 32, 63}
  Sizes = {2, 3, 6, 12, 63}
  Corners <- MCCorners
  Regions <- MCRegions
  Pitches <- MCPitches
  Images <- MCImages
  HostArrays <- MCArrays
  Parameters <- MCParams
INVARIANTS TypeOK CopyBufferExact ImageCopiesExact TransfersFitArray LegalCallsPass ArgSizeRight
