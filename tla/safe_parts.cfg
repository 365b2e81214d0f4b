\* Two requests of each kind; three refresh tokens and one lost request; two addresses,
\* two tenants and one cut; two services with a check each, and two changes; two
\* checks, two incidents and two ticks for a report; twenty users; three services of
\* the console; pages of two out of four rows, over four ticks; two audited requests,
\* one of whose rows is lost; two organisations, names and tabs.  Requests may end and
\* every bound be used up: then nothing happens.
CONSTANTS
    c1 = c1
    c2 = c2
    e1 = e1
    e2 = e2
    Calls <- TwoRequests
    MaxTokens = 3
    MaxLosses = 1
    Emails <- TwoThings
    Requests <- TwoRequests
    MaxTenants = 2
    MaxCuts = 1
    Monitored <- TwoThings
    Scrapes <- TwoRequests
    MaxStored = 1
    MaxChanges = 2
    Latencies <- TwoLatencies
    MaxResults = 2
    MaxOutages = 2
    EndOfTime = 2
    MaxUsers = 20
    MaxServices = 3
    Limit = 2
    MaxRows = 4
    LastTime = 3
    Actors <- TwoThings
    Audited <- TwoRequests
    MaxAudited = 2
    MaxUnwritten = 1
    Organisations <- TwoThings
    Names = {"Acme", "Globex"}
    Views <- TwoRequests
SYMMETRY Symmetry
SPECIFICATION Spec
CHECK_DEADLOCK FALSE
INVARIANT TypeOK
INVARIANT FamilyHasOneToken
INVARIANT SessionContinues
INVARIANT TenantIsAdministered
INVARIANT ScrapeComplete
INVARIANT ReportIsConsistent
INVARIANT EmptyPageOnlyAfterShrink
INVARIANT SelectionListed
INVARIANT WalkMissesNothing
INVARIANT AuditTellsHistory
INVARIANT NameIsOwn
