SPECIFICATION VehicleSpec
CONSTANTS
    Documents <- MCDocuments
    Records <- MCRecords
    Payloads <- MCPayloads
    Units <- MCUnits
    MaxDefinitions = 2
INVARIANTS
    NothingUnverifiedIsFact
    ValueShowsItsBytes
    FallbackIsTheDatasFault
    LookupFindsEverySpelling
    SaysWhatItKnows
