SPECIFICATION Spec
CONSTANTS
    Orgs = {o1, o2}
    Payers = {p1}
    Plans = {"pro", "team"}
    Statuses = {"active", "cancelled"}
    Calls = {c1, c2}
    MaxEvents = 2
    MaxFaults = 0
    NoPayer = NoPayer
SYMMETRY Symmetry
INVARIANT PlanFollowsEvents
