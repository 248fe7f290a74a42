\* Reads through a ring of three, with failing sectors and reading ahead.
SPECIFICATION Spec
CONSTANTS
    NSectors = 5
    CACHE_BUFFER_NBR = 3
    cache_size_min = 2
    MaxRead = 3
    Zero = Zero
INVARIANTS WholeTrue
PROPERTIES ReadEnds
