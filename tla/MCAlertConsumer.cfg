CONSTANTS
    MaxLog = 4
    MaxBoots = 3
SPECIFICATION ConsumerSpec
CHECK_DEADLOCK FALSE
INVARIANTS
    CommittedIsHandled
    HandledInOrder
PROPERTIES
    PublishedIsHandled
