SPECIFICATION Spec
CONSTANTS
    Version = {1, 2}
    Includes <- IncludesDef
    Lists <- ListsDef
    Given = {"shim"}
    None = None
    Assets = {"logo"}
    Sketch = {s1, s2}
    Sizes = {1, 2}
    Byte = {0, 1}
    NoImage = NoImage
    MaxEdits = 1
    Own = "own"
    MaxEvents = 4
SYMMETRY Launched
INVARIANT ProjectInv
INVARIANT BinaryIsCurrent
INVARIANT ImageIsOwed
PROPERTY SketchUntouched
CHECK_DEADLOCK FALSE
