CONSTANTS
  MaxInt = 32767
  MiB = 3
  BytesPerMbitMs = 25
  MaxBandwidth = 100
  MaxRTT = 20
  MinMemory = 128
  Bandwidths <- MCBandwidths
  Delays <- MCDelays
  Memories <- MCMemories
SPECIFICATION Spec
INVARIANTS BufferInBounds BufferAsDocumented
