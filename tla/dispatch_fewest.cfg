\* Who is given a delivery.
CONSTANTS
    OrderId = {o1, o2}
    Rider = {1, 2}
    MaxAttempts = 2
SPECIFICATION Spec
SYMMETRY Orders
PROPERTIES FewestActive
