\* Two clients, two reports of which one at a time may be open, one moved by hand as the README says.
SPECIFICATION MovedSpec
CONSTANTS
    a = a
    b = b
    fixed = fixed
    wontfix = wontfix
    NoNote = NoNote
    c1 = c1
    c2 = c2
    Reports = {a, b}
    Notes = {fixed, wontfix}
    Clients = {c1, c2}
    MaximumOpenReports = 1
SYMMETRY ClientSymmetry
INVARIANT ReportNeverDeleted
