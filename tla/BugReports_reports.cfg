\* Two clients, two reports of which one at a time may be open, crashes.
SPECIFICATION Spec
CONSTANTS
    a = a
    b = b
    fixed = fixed
    wontfix = wontfix
    NoNote = NoNote
    c1 = c1
    c2 = c2
    Reports = {a, b}
    Notes = {fixed, wontfix}
    Clients = {c1, c2}
    MaximumOpenReports = 1
SYMMETRY ClientSymmetry
INVARIANTS TypeOK OpenReportsCapped ReportKept ResolutionKept KnownReportIsFound ListingIsComplete
