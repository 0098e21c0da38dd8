\* Two kinds of event, so that a key is written while another is read.
CONSTANTS
    Keys = {play, pause}
    MaxAdds = 2
    MaxStarts = 3
    MaxDay = 2
SPECIFICATION Spec
INVARIANT IInv
INVARIANT AtLeastOnce
INVARIANT AtMostOnce
PROPERTY OncePerDay
CHECK_DEADLOCK FALSE
