\* Execution
SPECIFICATION Spec
CONSTANTS
    None = None
    MaxOperations = 100
    Plans <- MCPlans
    Fact = {"url", "done", "modal"}
    Req = {r1, r2}
    Page = {1, 2, 3}
    Element = {1, 2}
    Fits = {2}
    MaxChanges = 2
    LocateTime = 1
    VerifyTime = 1
    WaitTime = 1
    Margin = 1
PROPERTIES
    ActsOnlyWhenAllowed StrikesPrepared VerifiedIsProven PlanEnds
CHECK_DEADLOCK FALSE
