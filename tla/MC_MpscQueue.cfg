CONSTANTS
    Producers = {p1, p2, p3}
    Slots = 2
    CounterMod = 4
    MaxPush = 2
    Null = Null
SPECIFICATION Spec
SYMMETRY ProducerSymmetry
INVARIANTS ExclusiveSlot RunInOrder
PROPERTIES ImplementsRing
CHECK_DEADLOCK FALSE
