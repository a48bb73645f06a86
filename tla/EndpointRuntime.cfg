\* A chat request and the requests of two executions with a stop proof, one
\* waiting request per class, under fairness.
SPECIFICATION FairSpec
CONSTANTS
  c1 = c1
  w1 = w1  w2 = w2
  e1 = e1  e2 = e2
  s1 = s1
  NoRequest = NoRequest
  ChatRequests <- Chats
  WorkRequests <- Works
  Executions <- TwoExecutions
  ExecutionOf <- WorkExecution
  Sessions <- OneSession
  SessionOf <- ChatSession
  ChatLimit = 1
  WorkLimit = 1
  StopProof = TRUE
  AcquireTimeout = TRUE
INVARIANT LeaseSound
PROPERTIES
  DispatchSound
  SerialSpec
  CallerAnswered
\* Every call may be over.
CHECK_DEADLOCK FALSE
