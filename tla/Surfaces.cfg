\* Surfaces
SPECIFICATION SurfacesSpec
CONSTANTS
    None = None
    Page = {pg1, pg2}
    MaxNode = 2
    IdentOf <- MCIdentOf
    Limit = 1
    Keep = 1
    MaxAge = 0
    MaxClock = 1
    MaxGeneration = 2
    MaxObservations = 2
    blank = blank
    t = t
    base = base
    Blank = blank
    Texts = {blank, t}
    Baselines = {t, base}
    MaxSamples = 4
    Lease = 2
    Required = 2
    Requests = {q1, q2, q3}
    Meant = {q1, q2}
    Wants <- Expectations
    LogLimit = 2
    MaxRecords = 1
    MaxTime = 1
    MaxUnheard = 1
    Element = {e1, e2}
    Source = {u1, u2}
    Length = 3
    MaxTurns = 2
    Label = {la, lb}
    Asked = {la}
    Query = lb
    Name = {f1, f2}
    MaxRenders = 2
    c1 = c1
    c2 = c2
    c3 = c3
    Call <- Calls
    MaxHandles = 1
    MaxTombstones = 1
    Offers <- Offered
    MaxConnections = 2
    pe = pe
    Handle = {h1, h2}
    Pid = {pe}
    Program <- MCProgram
    User = User
    UserApps = {"notepad"}
    Caller = {c1, c2}
    Plan <- MCPlan
SYMMETRY MCSymmetry
INVARIANTS
    JudgedAsSampled RememberedIsOfThisBrowser StoppedMeansClosed HandlesKept AllAnswered
PROPERTIES
    ActsOnTheObserved SparesOthers
CHECK_DEADLOCK FALSE
