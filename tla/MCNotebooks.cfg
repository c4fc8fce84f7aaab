SPECIFICATION Spec
CONSTANTS
    SharedNotebooks = {"n"}
    NotebookFounder = "o"
    Sharers = {"o", "a", "b"}
    OfferedUsers = {"o", "a"}
    OfferKeys = {1, 2}
    OfferAcceptKeys = {1}
    MemberLimit = 1
    OfferBound = 2
    OfferResends = 1
    OwnerTransfers = 1
    OfferHandlers = {1}
    ChatWriters = {"a"}
    MailMessages = {1, 2}
    MailSenders = {1, 2}
    MailAttempts = 2
    MailCrashes = 2
    WebPages = {1, 2}
    RedirectPage = 2
    SessionKeys = {"r"}
    PageHandlers = {1, 2}
    RedirectLimit = 2
    SessionLimit = 1
    SearchWorkers = {1, 2}
    SearchKeys = {"k1", "k2"}
    SearchAttempts = 3
    Retries = {1, 2}
    ChatRetries = {1}
    ImportedSources = {1, 2}
    PinnedSources = 1
    SourceEnders = 2
    SourceRemovals = TRUE
CHECK_DEADLOCK FALSE
INVARIANTS VerdictIsTrue OneImportPerCandidate WaitsForItsSources
PROPERTIES OffersHold ReadyIsFinal OutputsHold
