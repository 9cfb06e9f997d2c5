\* When a waiting order cannot be handed out.
CONSTANTS
    OrderId = {o1}
    Rider = {1, 2}
    MaxAttempts = 2
SPECIFICATION Spec
INVARIANTS WaitingOrderCanBeAssigned
