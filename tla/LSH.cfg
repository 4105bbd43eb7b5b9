CONSTANTS
    Bands = 2
    Width = 2
    Threshold = 1
    Docs <- SomeDocs
    Lifetimes = {0, 2}
SPECIFICATION Spec
INVARIANTS Recall Precision WarmCovers KeysAreBands
