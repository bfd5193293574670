\* Safety of the user dictionary being edited and of the user history.
SPECIFICATION AnySpec
CONSTANTS
    Id = {1, 2}
    Names = {"a", "b"}
    Entries = {"x", "y"}
    Files <- StoredFiles
    Imports <- ImportedData
    kMaxDictionarySize = 2
    kMaxEntrySize = 2
    kMaxUndoHistory = 2
INVARIANTS
    
    StorageValid
    
    
CHECK_DEADLOCK FALSE
