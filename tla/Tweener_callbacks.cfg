CONSTANTS
    Scopes = {o1}
    x = x
    y = y
    Properties = {x, y}
    Requests <- FewRequests
    MaxTweens = 3
    MaxTime = 2
    MaxDepth = 2
SPECIFICATION Spec
INVARIANTS
    ListSound
    OneTweenPerProperty
PROPERTIES
    EveryTweenEnds
