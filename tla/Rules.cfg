SPECIFICATION Spec
\* The bound on the requests lets the model stop.
CHECK_DEADLOCK FALSE
CONSTANTS
    a = a
    b = b
    EndsInB = EndsInB
    Deep = Deep
    Spanning = Spanning
    Broken = Broken
    Spanned <- MCSpanned
    Names <- MCNames
    Regexes = {EndsInB, Broken}
    Finds <- MCFinds
    Texts <- MCTexts
    OldTexts <- MCOldTexts
    MaxDepth = 3
    MaxOld = 2
    MaxRules = 3
    MaxListed = 3
    MaxRequests = 2
VIEW MCView
INVARIANTS
    WayToEveryFile
    HiddenReliably
PROPERTIES
    OrdersStayDistinct
    ExcludesOnlyHide
