SPECIFICATION Spec
CONSTANTS
    Size = 4
    Printable <- MCPrintable
INVARIANTS
    TypeOK
    ScreenShowsLine
    ReturnsString
PROPERTIES
    EditorSpec
