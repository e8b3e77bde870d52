\* One request, nothing fails, but upstream may stall in the middle of a body.
CONSTANTS
    Requests = {q1}
    Population = population
    Good = good
    Bad = bad
    None = None
    Replies = {"described"}
    Downloads = {good}
    Faulty = {}
    Evicting = FALSE
SPECIFICATION StallSpec
PROPERTIES
    PopulationEndsWithItsRequests
CHECK_DEADLOCK FALSE
