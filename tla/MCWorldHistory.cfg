SPECIFICATION Spec
CONSTANTS
    IntMax = 127
    RegionNames <- MCRegionNames
    SpeciesNames <- MCNames
    Capacities <- MCCapacities
    Counts <- MCCounts
    Deltas <- MCDeltas
    MaxLog = 2
    MaxRegions = 1
    MaxSpecies = 2
VIEW Life
CONSTRAINT MCOddNamesOneWay
INVARIANTS
    LogAccountsForPopulation
    ReplayReproduces
    ReplayDetectsDivergence
    RoundTripOfReadable
    CutOffIsRefused
PROPERTIES
    CallsAreLimited
