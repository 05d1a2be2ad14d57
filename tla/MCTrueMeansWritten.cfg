SPECIFICATION SourcesSpec
CONSTANTS
    CharBits = 3
    ByteBits = 4
    HashBytes = 3
    BufferBits = 7
    DigitChar <- MCDigitChar
    u = u
    v = v
    n1 = n1
    n2 = n2
    e1 = e1
    e2 = e2
    e3 = e3
    q1 = q1
    q2 = q2
    NoName = NoName
    DisplayNames = {n1, NoName}
    Splitting = {n1}
    Trackers = {u}
    WellKnownTrackers <- MCWellKnown
    Lengths <- MCLengths
    Uris <- MCUris
    NameOf <- MCNameOf
    MaxAmended = 1
    MaxListed = 2
    Requests = {g1, g2}
    Blank = Blank
    Queries = {q1, q2, Blank}
    Responses <- MCAnswers
    HashOf <- MCHashOf
    NoHash <- MCNone
    NoResults = NoResults
    NoQuery = NoQuery
    MaxSearches = 3
    Urls = {u, v}
    Options = {1}
    Outputs = {out}
    Sources <- MCTorrentSources
    Nothing = Nothing
    Torn = Torn
    UrlLists <- MCUrlLists
    MaxTiers = 2
    MaxDepth = 2
INVARIANT
    TrueMeansWritten
