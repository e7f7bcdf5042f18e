SPECIFICATION Spec
CONSTANTS
    Arrays <- SmallArrays
    LOOPS = 6
INVARIANTS
    RemembersFirstHit
    ReadsContained
PROPERTY NeverMissesTwice
