CONSTANTS
    LongMod = 1048576
    ShortMod = 65536
    WordBytes = 4
    Kilo = 8
    A = 727
    M = 524287
    Q = 721
    R = 120
    Text <- MCText
    Letter <- MCLetter
    Directives <- MCDirectives
    Sizes <- MCSizes
    Memory <- MCMemory
    Counts <- MCCounts
    Seeds <- MCSeeds
    Answers <- MCAnswers
SPECIFICATION Spec
INVARIANTS FollowsC99 ReadsBack LengthBounded SizesRead StringsExact GetsConfined IsLehmer
\* the call has returned
CHECK_DEADLOCK FALSE
