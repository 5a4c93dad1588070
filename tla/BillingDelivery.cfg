SPECIFICATION Spec
CONSTANTS
    Orgs = {o1, o2}
    Payers = {p1}
    Plans = {"pro"}
    Statuses = {"active", "cancelled"}
    Calls = {c1, c2}
    MaxEvents = 2
    MaxFaults = 1
    NoPayer = NoPayer
PROPERTY EventsAreAnswered
