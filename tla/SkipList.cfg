SPECIFICATION ListSpec
CONSTANTS
    Key = {0, 1, 2, 3}
    Value = {early, due}
    NoValue = NoValue
    head = head
    Nil = Nil
    MaxLevel = 3
    early = early
    due = due
INVARIANTS
    IsSkipList
PROPERTIES
    ImplementsOrderedMap
