SPECIFICATION Spec
CONSTANTS
    Texts <- MCTexts
    MethodSets <- MCMethodSets
    Requests <- MCRequests
    Methods <- MCMethods
    Strings <- MCStrings
    QueryLists <- MCQueryLists
    MaxRoutes = 2
INVARIANT ParamsInRequest
CHECK_DEADLOCK FALSE
