CONSTANTS
    d = d  r1 = r1  r2 = r2  c1 = c1  w1 = w1  w2 = w2
    i1 = i1  i2 = i2  i3 = i3
    Dataset = d
    Requests = {r1, r2}
    Cancels = {}
    Workers = {w1, w2}
    Runs = {i1}
    None = None
    Free = Free
    l1 = l1  l2 = l2  u1 = u1  u2 = u2  o1 = o1  o2 = o2
    k1 = k1  k2 = k2  f1 = f1  t1 = t1  t2 = t2  a1 = a1  x1 = x1
    Logins = {l1, l2}
    Changes = {u1, u2}
    Nobody = Nobody
    Operators = {o1, o2}
    Calls = {k1, k2}
    Original = f1
    Absent = Absent
    Tasks = {t1, t2}
    Upstream = {a1}
    Refreshes = {x1}
    MaxFaults = 0
SPECIFICATION ServerSpec
INVARIANTS
    LateWorkerSendsNothing
CHECK_DEADLOCK FALSE
