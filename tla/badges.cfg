SPECIFICATION Spec
CONSTANTS
    Requests = {q1, q2}
    Templates = {t1, t2}
    None = None
    MaxId = 2
    MaxChromium = 1
SYMMETRY Symmetry
INVARIANTS LinksLead GeneratingHasRequest FilesMatchAlone
