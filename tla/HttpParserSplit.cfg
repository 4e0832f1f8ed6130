SPECIFICATION Spec
CONSTANTS
  MaxPort = 20
  ULLONG_MAX = 99
  max_header_size = 45
  ReadSizes = {1, 2}
  UrlAlphabet = {"a", "1", "/", "?", "#", "@", ":", "]", "%"}
  UrlLength = 3
  Sources <- MCWritten
CHECK_DEADLOCK FALSE
INVARIANTS RequestSplitExact
