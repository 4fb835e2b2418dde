CONSTANTS
    Name <- MCName
    Catalogs <- MCCatalogs
    NoRule = NoRule
SPECIFICATION Spec
INVARIANT DependenciesFirst
INVARIANT VerdictTrue
PROPERTY SortEnds
CHECK_DEADLOCK FALSE
