\* Does a refill bring what memory holds?
SPECIFICATION Spec
CONSTANTS
    SETS = 1
    WAYS = 1
    FIFO_DEPTH = 2
    WORDS = 2
    Lines = {a, b}
    IndexOf <- AllInSetZero
    Val = {0, 1}
    Zero = 0
    Contents <- Plain
    AtReset <- Cleared
    NoLine = NoLine
PROPERTY RefillsAreExact
