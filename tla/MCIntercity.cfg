SPECIFICATION LegSpec
CONSTANTS
    None = None
    Unset = Unset
    Arp = 60
    ThisDay = 0
    Day <- MCDays
    Adults <- MCParties
    Routes <- MCRoutes
    AirportOf <- MCAirportOf
    ThreeLetters <- MCThreeLetters
    StationNames <- MCStationNames
    CitiesOf <- MCCitiesOf
    Builtin <- MCBuiltin
    Alias <- MCAlias
    SavedPlaces <- MCSaved
    Streams <- MCStreams
    TrainPages <- MCTrainPages
    Node <- MCNodes
    CabPages <- MCCabPages
    MaxDepth = 3
    MaxResults = 3
    MaxPerMode = 2
INVARIANTS
    DominatedIsFact
    CheapestComesFirst
    OtherDayIsMarked
    NoModeForgotten
    OfferedReachesTraveller
    FlownAsAsked
CHECK_DEADLOCK FALSE
