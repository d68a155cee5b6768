SPECIFICATION Spec
CONSTANTS
    Numbers = {2, 3}
    Alternatives = {1, 2, 8, 9}
    Cells = {1, 2}
    Charset = {1}
INVARIANT PuzzleKeyRight
CHECK_DEADLOCK FALSE
