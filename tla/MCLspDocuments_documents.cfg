SPECIFICATION FairSpec
CONSTANTS
    Headers = {"h"}
    TranslationUnits = {"c"}
    Texts = {0, 2}
    Versions = {0, 1}
    MaxDocumentBytes = 3
    ClientMaxSessionBytes = 6
CHECK_DEADLOCK FALSE
INVARIANTS
    TypeOK
    DocumentBytesExact
    FileBeforeClangd
    InSync
PROPERTIES
    NothingAfterViolation
    RebuildSeesHeaders
    HeaderUpdateRebuilt
