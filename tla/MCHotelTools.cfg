SPECIFICATION Spec
CONSTANTS
    None = None
    CityCode <- MCCityCode
    LocusCode <- MCLocusCode
    Today = 0
    Stays <- MCStays
    Fragments <- MCFragments
    Stars <- MCStars
    Responses <- MCResponses
    RatePages <- MCRatePages
    Limit = 2
    MaxCalls = 2
INVARIANTS
    EveryStayInItsPlace
    LinesWereQuoted
    TotalsFollowTheLines
    NeverAllNull
