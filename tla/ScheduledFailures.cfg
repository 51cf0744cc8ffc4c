\* One query, executed by the scheduler and by hand, in executions that overlap.
CONSTANTS
    x1 = x1  x2 = x2
    r1 = r1  r2 = r2
    Queries = {1}
    TemplateOf <- SameTemplate
    TextOf <- TextOfItsOwn
    Unapplicable = {}
    Ending = {}
    FirstSchedules = {"open"}
    NewSchedules = {"open"}
    Executions = {x1, x2}
    Refreshers = {r1, r2}
    NoQuery = NoQuery
    MaxReports = 3
    MaxEdits = 0
    ByHand = {1}
SPECIFICATION FairSpec
INVARIANT ExtraStartsAreBounded
PROPERTIES FailureCountSettles ReportingStops
