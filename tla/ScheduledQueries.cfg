\* Two queries with one template, the later one with invalid parameters.
CONSTANTS
    x1 = x1  x2 = x2
    r1 = r1  r2 = r2
    Queries = {1, 2}
    TemplateOf <- SameTemplate
    TextOf <- TextOfItsOwn
    Unapplicable = {2}
    Ending = {1, 2}
    FirstSchedules = {"open", "faulty"}
    NewSchedules = {"open"}
    Executions = {x1}
    Refreshers = {r1}
    NoQuery = NoQuery
    MaxReports = 1
    MaxEdits = 1
    ByHand = {}
SPECIFICATION FairSpec
INVARIANT RemovedStaysQuiet
PROPERTIES DueQueriesRun PastSchedulesGo
