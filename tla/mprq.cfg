\* Three descriptors: ring order, completion order and the one in main()'s
\* hands can all differ.
SPECIFICATION FairSpec
CONSTANTS
    RQ_NUM_DESC = 3
    ENTRY_SIZE = 2
INVARIANTS
    NoOverrun
    NoDuplicates
    OwnBuffer
PROPERTY BuffersComeBack
