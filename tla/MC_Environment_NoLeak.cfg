\* Base sizes 1, 2 and 4 (a chain of up to three mips), up to three mips
\* asked for, an irradiance factor of 1 or 1/2, and every subset of the
\* mip files present on disk.
CONSTANTS
  Sizes = {1, 2, 4}
  MipCounts = {0, 1, 2, 3}
  IrrDivisors = {1, 2}
  FileTypes = {".hdr", ".tga"}
SPECIFICATION Spec
INVARIANT NoLeak
