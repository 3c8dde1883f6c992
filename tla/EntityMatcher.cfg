\* Every estate of four systems over a menu of five tables; an entity of the
\* vocabulary is declared under its normalized name.
SPECIFICATION MatchSpec
CONSTANTS
    Estates <- MCEstates
    DeclaredLists <- KnownNormalized
    Vocabulary <- MCVocabulary
    Normal <- MCNormal
    Similar <- MCSimilar
    Cap = 4
CHECK_DEADLOCK FALSE
INVARIANTS
    GroupsAreSound
    MethodTellsHow
    NoPairLeftBehind
    NoKnownTableExcluded
