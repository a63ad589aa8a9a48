CONSTANTS
    Profiles = {profile}
    Matches = {match}
    Checkpoints = {tick64, tick128}
    MaxWrites = 3
    W16 = 3
    SomeProfiles <- TwoProfiles
    SomeMatches <- OneMatch
    SomeCheckpoints <- TwoCheckpoints
SPECIFICATION DataSpec
INVARIANTS Durable LatestTrails
PROPERTIES OnlyCurrentWrite LoadsWhatWasSaved
