CONSTANTS
    a = a  b = b  c = c  h1 = h1  h2 = h2
    Subjects = {a, b, c}
    Catalog <- CrossListedCatalog
    Schedulable <- CrossListed
    Requests = {h1}
    Items = {1}
    MaxId = 3
SPECIFICATION Spec
CHECK_DEADLOCK FALSE
PROPERTY KeptCourseKeepsItems
