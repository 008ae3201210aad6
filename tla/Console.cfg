CONSTANTS
    LiveRows = {2, 3, 4, 5}  MockRows = {1}  FileRows = {6}  TailRows = 3
    Courses <- AllCourses
SPECIFICATION Spec
INVARIANTS
    ShowsTheFile
    RowsBelong
    RateIsTraffic
PROPERTY ConsoleCatchesUp
