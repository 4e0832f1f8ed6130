SPECIFICATION FairSpec
CONSTANTS
  Conns = {c1, c2}
  Kinds = {"keep", "close", "bad"}
  Lengths = {3}
  read_buffer_size = 2
  Busy = c1
  MaxRequests <- MCMaxRequests
INVARIANTS AnswersRight
PROPERTIES ConnServed RequestAnswered GoneClosed
