CONSTANTS
    Sends = {s1, s2}
    Conversations = {conv1, conv2}
    Texts = {hello, more}
    Empty = Empty
    Undefined = Undefined
    Nobody = Nobody
SPECIFICATION Spec
INVARIANT OwnAnswer
CHECK_DEADLOCK FALSE
