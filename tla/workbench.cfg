\* Two tabs on one order and its deliveries.
CONSTANTS
    OrderId = {o1}
    Rider = {1}
    MaxAttempts = 2
    Tab = {t1, t2}
    MaxLate = 1
SPECIFICATION WBSpec
SYMMETRY Tabs
INVARIANTS PagesTypeOK
PROPERTIES StaleActionOnlyCancelsOrCallsBack RefusedForAReason
