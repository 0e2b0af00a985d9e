SPECIFICATION Spec
CONSTANTS
    Managers = {internet}
    Handlers = {h1, h2}
    Limits = {2}
    Punctual = FALSE
    NoHandler = NoHandler
INVARIANT AllThreadJoined
