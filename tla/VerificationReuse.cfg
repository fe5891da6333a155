\* Two clients of the agent, the second with a malformed request; two edits of
\* the workspace; exceptions in the worker.
SPECIFICATION Spec
CONSTANTS
  c1 = c1  c2 = c2  own = own
  Clients = {c1, c2}  Malformed = {c2}
  Own = own  NoRequest = NoRequest
  MaxEdits = 2
  WorkerMayDie = TRUE
INVARIANTS Drained ReuseIsVerified
PROPERTIES AnswersAreFinal RequestAnswered VerdictReached
CHECK_DEADLOCK FALSE
