CONSTANTS
  n1 = n1
  n2 = n2
  Chains <- SomeChains
  AuthLists <- SomeAuthLists
  Names = {n1, n2}
  passthrough_header = n1
  request_headers = {n1, n2}
  remove_request_headers = {n2}
  response_headers = {n1, n2}
  remove_response_headers = {n1}
SPECIFICATION Spec
INVARIANTS
  TypeOK
  RefusedNotForwarded
  ResponseRefused
  RecordedAtEnd
  RemovedGone
PROPERTY StoppedAnswered
CHECK_DEADLOCK FALSE
