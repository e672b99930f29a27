SPECIFICATION Spec
CONSTANTS
    None = None
    MaxCents = 18
    MaxDepth = 2
    MaxExprDepth = 2
    MinTermsForSeasonWarning = 4
    Entries = {1, 2, 3, 4, 5}
    Boards <- MCBoards
    Catalog <- MCCatalog
    CatalogYearHeld = 2026
    Limits <- MCLimits
    Tray <- MCTray
    YearsOffered = {2026, 2027}
    HoursTyped = {15}
    OriginsTyped = {"ap"}
    Matriculation <- F27
    MaxEdits = 2
INVARIANTS
    BoardIsOrdered
    MatchingIsMaximum
    MetIsEarned
    HundredMeansMet
    SelfChecksAreTold
    PreviewAgrees
    WarningsCanBeFollowed
    ExclusionsAreFair
PROPERTIES
    NoCardVanishes
CHECK_DEADLOCK FALSE
