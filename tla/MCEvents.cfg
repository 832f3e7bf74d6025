\* Two streams with any filters, two event kinds, three events, channels of
\* capacity one so that a slow stream overflows. A stream blocked in its
\* select with nothing to receive, or returned, is a final state.
CONSTANTS
    Streams = {s1, s2}
    EventKinds = {container, volume}
    MaxEvents = 3
    BufferSize = 1
SPECIFICATION Spec
CHECK_DEADLOCK FALSE
INVARIANT TypeOK
INVARIANT StreamFaithful
