\* Three messages without a payload or with one that does not fit the stream.
CONSTANTS
  NumMessages = 3
  Sizes = {0, 1, 4}
  HeaderSize = 2
  Capacity = 3
SPECIFICATION FairSpec
INVARIANTS TypeOK NothingOutOfPlace
PROPERTIES ImplementsChannel AllDelivered
\* The system stops when every message has been received.
CHECK_DEADLOCK FALSE
