CONSTANTS
    a = a  b = b  c = c  h1 = h1  h2 = h2
    Subjects = {a, b, c}
    Catalog <- PlainCatalog
    Schedulable <- PlainSchedule
    Requests = {h1, h2}
    Items = {1}
    MaxId = 2
SPECIFICATION Spec
CHECK_DEADLOCK FALSE
SYMMETRY Symmetry
INVARIANT TypeOK
PROPERTIES
    KeptCourseKeepsItems
    SyncMirrorsSchedule
