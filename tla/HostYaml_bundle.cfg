SPECIFICATION Spec
CONSTANTS
    Documents <- AllDocuments
    Values <- AllValues
    Replaced <- GeneratedBase
    DiskAnswers <- AllDisks
    MaxDisks = 2
    MaxEdits = 2
INVARIANTS
    TypeOK
    BundleIsOneConfig
    EditsMeanTheSame
