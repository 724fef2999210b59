SPECIFICATION Spec
CONSTANTS
    None = None
    Unset = Unset
    Builtin <- MCBuiltin
    Alias <- MCAlias
    CitiesOf <- MCCitiesOf
    RegionWord <- MCRegionWord
    ClickAmong = 2
    Server = {s1, s2}
    Queries <- MCQueries
    SaveAs <- MCSaveAs
    Shown <- MCShown
    Urls <- MCUrls
    Venue <- MCVenue
    Trips <- MCTrips
    Pages <- MCPages
    Today = 0
    Inode = {1, 2, 3}
    MaxCalls = 3
SYMMETRY Alike
INVARIANTS
    FullestNameWins
    RegisteredIsPriced
    QuoteIsWhatItSays
