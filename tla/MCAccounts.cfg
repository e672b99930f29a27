\* Sign-in, sessions, the library and the guest claim.
SPECIFICATION AccountsSpec
CONSTANTS
    Emails = {e1}
    Ips = {i1}
    Requests = {r1, r2}
    CodeTtl = 2
    SessionTtl = 2
    TouchInterval = 1
    AddressWindow = 2
    SendsPerAddress = 2
    IpWindow = 2
    SendsPerIp = 1
    MaxAttempts = 2
    MaxRequests = 4
    MaxTime = 2
    None = None
    Workers = {w1, w2}
    HeldTerms = {"fall"}
    HeldSections <- MCSections
    Documents <- MCDocuments
    Names <- MCNames
    Courses = {"c", "d"}
    MaxClaimSchedules = 2
    MaxClaimItems = 1
    MaxMade = 7
    MaxVersion = 2
    Free = Free
    GuestStores <- MCGuests
    Quotas <- MCQuotas
SYMMETRY Sym
CHECK_DEADLOCK FALSE
INVARIANTS
    SessionsAreEarned
    FiveGuesses
    IpSendsBounded
    SignedOutStaysOut
    ClaimIsComplete
PROPERTY
    ReplacedWhole
