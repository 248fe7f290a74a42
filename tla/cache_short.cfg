\* As cache: does a read that succeeds hold what was asked for?
SPECIFICATION Spec
CONSTANTS
    NSectors = 5
    CACHE_BUFFER_NBR = 3
    cache_size_min = 2
    MaxRead = 3
    Zero = Zero
INVARIANT ReadExactly
