CONSTANTS
    c1 = c1
    c2 = c2
    Contexts <- MC_Contexts
    Ids <- MC_Known
    Garbage <- MC_Garbage
SPECIFICATION Spec
INVARIANTS
    TypeOK
    OpenCryptorsMatchTable
