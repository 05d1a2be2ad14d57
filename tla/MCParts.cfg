SPECIFICATION PartsSpec
CONSTANTS
    MaxAddress = 2
    Skipped = Skipped
    MaxLines = 2
    Hosts = {h}
    NoHost = NoHost
    Users = {user1, user2}
    NoUser = NoUser
    Values = {on}
    Default = Default
    Paths = {path1, path2}
    Files = {file1}
    Names = {name1, name2}
    FirstName = name1
    MaxJobs = 1
    MaxAlerts = 1
    CharBits = 3
    ByteBits = 4
    HashBytes = 3
    BufferBits = 7
    DigitChar <- MCDigitChar
    u = u
    v = v
    n1 = n1
    n2 = n2
    e1 = e1
    e2 = e2
    e3 = e3
    q1 = q1
    q2 = q2
    NoName = NoName
    DisplayNames = {n1, NoName}
    Splitting = {n1}
    Trackers = {u}
    WellKnownTrackers <- MCWellKnown
    Lengths <- MCLengths
    Uris <- MCUris
    NameOf <- MCNameOf
    MaxAmended = 1
    MaxListed = 2
    Requests = {g1, g2}
    Blank = Blank
    Queries = {q1, q2, Blank}
    Responses <- MCAnswers
    HashOf <- MCHashOf
    NoHash <- MCNone
    NoResults = NoResults
    NoQuery = NoQuery
    MaxSearches = 3
    Urls = {u, v}
    Options = {1}
    Outputs = {out}
    Sources <- MCTorrentSources
    Nothing = Nothing
    Torn = Torn
    UrlLists <- MCUrlLists
    MaxTiers = 2
    MaxDepth = 2
INVARIANTS
    SessionTypeOK
    BlockedForAReason
    OrderlyIsEnough
    LatestSettingsHold
    DirectoryCatchesUp
    NamesCatchUp
    SourcesTypeOK
    DecodedIsExact
    LinksRoundTrip
    ValidLinksAreAdded
    EachIsAnsweredOnce
    PatientSeesItsAnswer
    ErrorTellsResult
    FileIsOfItsCall
    TiersAreKept
PROPERTIES
    MovesAreAnswered
    ResumeFileFollows
    SearchesEnd
