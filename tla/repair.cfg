\* Two repairs, of a file or of the output of the first, each stopped, left or
\* neither, into the directory of its input or another.
SPECIFICATION Spec
CONSTANTS
    Path = {1, 2}
    Given = {1}
    MaxTries = 2
    MaxRepairs = 2
INVARIANTS OutputAsAnnounced
 
