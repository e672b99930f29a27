\* A listing and a section feed of two sections of one session.
SPECIFICATION IngestSpec
CONSTANTS
    Codes = {1, 2, 3, 4}
    Writers = {"catalog", "replay", r1, r2}
    Editions = {1, 2}
    SitePages <- MCSitePages
    Reviewers = {r1, r2}
    None = None
    Budgets <- MCBudgets
    Retries = 1
    MaxConsecutiveFailures = 2
    Sections = {1, 2, 3, 4}
    Facts <- MCFacts
    Numbers = {1, 2}
    Pollers = {p1, p2}
    Nobody = Nobody
    Unread = Unread
    Batch = 2
    MaxStamp = 1
    MaxFaults = 1
    MaxPolls = 2
    Crns = {1, 2}
    Associated <- MCAssociated
    Terms <- MCTerms
    Unknown = Unknown
    StaleAfter = 0
    DocBudgets <- MCFeedBudgets
    Catalogs <- MCCatalogs
    Searches <- MCSearches
    Ties <- MCTies
    Keywords = {"k"}
    Attributes = {"AD"}
    MaxOffset = 3
    MaxLimit = 3
    MaxSuggestions = 2
    Unset = Unset
    Turns <- MCTurns
    Feeds <- MCFeeds
    Scenes <- MCFeedScenes
SYMMETRY Sym
CHECK_DEADLOCK FALSE
INVARIANT SessionsDecide
