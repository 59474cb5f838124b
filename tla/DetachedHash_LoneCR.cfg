\* Files of up to three bytes, so that a file can end in a single CR.
CONSTANTS
  MaxFileLen = 3
  MaxFiles = 2
  MaxAsks = 2
SPECIFICATION Spec
INVARIANT Md2LoneCRConverted
\* Each entry point returns once; the process then goes on elsewhere.
CHECK_DEADLOCK FALSE
