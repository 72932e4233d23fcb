CONSTANTS
    s1 = s1
    s2 = s2
    conv1 = conv1
    conv2 = conv2
    hello = hello
    more = more
    Sends = {s1, s2}
    Conversations = {conv1, conv2}
    Texts = {hello, more}
    Empty = Empty
    Undefined = Undefined
    Nobody = Nobody
SPECIFICATION MCFairSpec
INVARIANTS
    TypeOK
    TypedTextIsOwn
    AnswerAttributedOnce
    OkIsStored
PROPERTIES
    SendSettles
CHECK_DEADLOCK FALSE
