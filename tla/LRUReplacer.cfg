SPECIFICATION Spec
CONSTANTS
    Frames = {0, 1, 2, 3, 4}
    capacity_ = 4
PROPERTY
    ImplementsPolicy
