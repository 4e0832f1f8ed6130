SPECIFICATION Spec
CONSTANTS
  MaxPort = 20
  ULLONG_MAX = 99
  max_header_size = 45
  ReadSizes = {1, 2}
  UrlAlphabet = {"a", "1", "/", "?", "#", "@", ":", "]", "%"}
  UrlLength = 3
  Sources <- MCSources
CHECK_DEADLOCK FALSE
INVARIANTS SplitInvariant AssertsHold MessagesExact RejectsMalformed UrlFieldsExact
