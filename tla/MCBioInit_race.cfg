\* A client thread and a server thread of one process, as in the tests.
CONSTANTS
  Thread = {client, server}
  MaxCalls = 1
SPECIFICATION Spec
INVARIANT ReturnedReadsAndWrites
\* Threads stop after MaxCalls calls.
CHECK_DEADLOCK FALSE
