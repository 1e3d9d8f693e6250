SPECIFICATION ToolsSpec
CHECK_DEADLOCK FALSE
CONSTANTS
  product = product
  document = document
  index = index
  red = red
  size = size
  delivery = delivery
  Keys = {red, size, delivery}
  Jobs = {product, document, index}
  Calls = {product, document}
  TextsOf <- TextsOfJobs
  Attempts <- AttemptsOfJobs
  BatchSize = 2
  NoVector = NoVector
  Malformed = Malformed
  Workers = 1
  MaxRuns = 2
INVARIANTS
  VectorsBelong
  Resumable
PROPERTY QueueMoves
