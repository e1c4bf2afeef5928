\* Two requests at a time: three in a behaviour on the drafts, five on plugins,
\* of the kinds that each plan, or each start, names; or two tabs on a document.
CONSTANTS
    Requests = {a, b}
    a = a
    b = b
    Pages = {1, 2, 3, 4, 5}
    Names = {1, 2}
    Weights = {5, 15}
    Window = 2
    MaxWrites = 3
    Tokens = {"form"}
    Price = 2
    Funds = 6
    Limit = 4
    MaxPlan = 2
    MaxFaults = 1
    Plans <- PlansForTLC
    u = u
    v = v
    A = A
    B = B
    page = page
    up = up
    down = down
    None = None
    Urls <- UrlsForTLC
    Ids <- IdsForTLC
    Types = {page}
    Prefixes = {up, down}
    Overlap <- Nested
    MaxRows = 3
    MaxRequests = 5
    Starts <- StartsForTLC
    Langs = {"en", "fr"}
    Default = "en"
    Tabs = {1, 2}
    MaxOpened = 2
    MaxTyped = 1
    MaxPosts = 2
    MaxLines = 3
    Numbers = {7}
    MaxAdded = 1
SPECIFICATION Parts
INVARIANTS CreatesSound GrantsAreExclusive IssuedOnce
PROPERTIES DraftsAreKept ReorderLandsAsDropped PlansLandAsAdmitted CallsAreAuthorised PostsLandAsShown
\* Once every request is served there is nothing left to do.
CHECK_DEADLOCK FALSE
