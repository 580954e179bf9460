SPECIFICATION Spec
CONSTANTS
    None = None
    Null = Null
    BufSize = 3
INVARIANT
    AnswerAfterRequest
