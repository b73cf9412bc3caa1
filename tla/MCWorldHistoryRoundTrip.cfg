SPECIFICATION Spec
CONSTANTS
    IntMax = 127
    RegionNames <- MCGarbage
    SpeciesNames <- MCDog
    Capacities <- MCCapacities
    Counts <- MCCounts
    Deltas <- MCDeltas
    MaxLog = 2
    MaxRegions = 1
    MaxSpecies = 2
INVARIANTS
    RoundTrip
