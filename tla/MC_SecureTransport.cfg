CONSTANTS
    NULL = NULL
    k1 = k1
    k2 = k2
    k3 = k3
    k4 = k4
    k5 = k5
    KeyIds <- MC_KeyIds
    BlobForms <- MC_BlobForms
    SigLengths <- MC_SigLengths
    Files <- MC_Files
    Buffers <- MC_Buffers
    Passphrases <- MC_Passphrases
    MaxHeld = 2
SPECIFICATION Spec
INVARIANTS
    TypeOK
    KeyReferencesMatchHandles
    CodersReleased
    ContextsDeleted
    MallocOnlyForOutputs
    CFReleasedExceptExecuteResults
CHECK_DEADLOCK FALSE
