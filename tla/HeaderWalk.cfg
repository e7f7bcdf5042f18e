\* A header of 3 bytes in buckets of 0 to 4, i.e. smaller, equal and larger; six
\* buckets of one byte make first_chunk negative with a whole header to go.
SPECIFICATION Spec
CONSTANTS
    H = 3
    MaxNr = 6
    MaxIovLen = 4
INVARIANTS
    ReadsInBounds
    CountsTornHeaders
