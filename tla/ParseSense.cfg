SPECIFICATION FairSpec
CONSTANTS
  Size = 28
  Buffers <- MCBuffers
  Lengths <- MCLengths
INVARIANTS TypeOK ReadsWithinReport ProgressFromTheRightDescriptor BusyIsNeverIdle WorkIsNeverImagined DecodesAsMeant
PROPERTIES Terminates
