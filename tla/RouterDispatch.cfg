SPECIFICATION Spec
CONSTANTS
    Texts <- MCTexts
    MethodSets <- MCMethodSets
    Requests <- MCRequests
    Methods <- MCMethods
    Strings <- MCStrings
    QueryLists <- MCQueryLists
    MaxRoutes = 3
INVARIANTS
    TypeOK
    ExactRouteAnswers
    FallsThroughToARoute
    ParamsAreThere
    AllowIsServed
    MatchIsMeaning
    DecodeIsMeaning
    QueryReadsBack
    MatchBothWays
CHECK_DEADLOCK FALSE
