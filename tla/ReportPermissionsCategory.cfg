CONSTANTS
    a1 = a1  a2 = a2  g1 = g1  d1 = d1  p1 = p1  p2 = p2
    view = view  download = download  stats = stats  kpi = kpi
    Owners = {g1}
    Categories = {d1}
    Reports = {p1}
    View = view
    Implying = {download}
    Plain = {stats}
    MenuKeys = {kpi}
    Admins = {a1, a2}
    None = None
    Unset = Unset
    Idle = Idle
    m = m  n = n
    Menus = {m, n}
    MaxTasks = 2  MaxLeft = 1
    Selectable = {m, n}
SPECIFICATION PermissionsSpec
SYMMETRY PermissionsSymmetry
PROPERTIES
    EveryGrantKeepsView
CHECK_DEADLOCK FALSE
