SPECIFICATION Spec
CONSTANTS
    Series = {s1, s2, s3}
    Stacks = {dsp}
    MaxScopes = 3
    MaxGuards = 1
    MaxHeight = 1
SYMMETRY SeriesSymmetry
INVARIANTS
    TypeOK
    ManualsTracked
    CheckpointsNested
    MarksKeepTheirSeries
    GuardsLive
    SigmaskRestored
PROPERTIES
    FailFreesExactly
