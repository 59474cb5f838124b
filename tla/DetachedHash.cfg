\* Files of up to three bytes of CR, LF and another byte; two files on the
\* command line; two names at the prompt, so that a missing file is asked
\* again once.
CONSTANTS
  MaxFileLen = 3
  MaxFiles = 2
  MaxAsks = 2
SPECIFICATION Spec
INVARIANTS Md2Canonical DigestOfAllFiles
\* Each entry point returns once; the process then goes on elsewhere.
CHECK_DEADLOCK FALSE
