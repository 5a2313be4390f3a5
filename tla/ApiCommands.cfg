CONSTANTS
    k1 = k1
    k2 = k2
    a = a
    b = b
    c1 = c1
    c2 = c2
    l1 = l1
    Keys = {k1, k2}
    Callers = {a, b}
    Clients = {c1, c2}
    Locks = {l1}
    LockOf <- SharedLock
    MaxRequests = 3
    u1 = u1
    u2 = u2
    UserOf <- Principal
    Stored <- KeyScopes
    MaxChanges = 2
SPECIFICATION AccessSpec
INVARIANTS AccessIInv BarredIsRefused OneOutcome NeverTooLate
PROPERTY RequestsEnd
CHECK_DEADLOCK FALSE
