\* One person signs out while an answer is on its way.
SPECIFICATION PageSpec
CONSTANTS
    Persons = {p1, p2}
    Nobody = Nobody
INVARIANTS SignOutClears
CHECK_DEADLOCK FALSE
