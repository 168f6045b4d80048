\* The two sides of a face between blocks, with a magnetic field.
SPECIFICATION RowSpec
CONSTANTS
    N = 2
    MaxBad = 2
INVARIANT SharedFacesIdentical
