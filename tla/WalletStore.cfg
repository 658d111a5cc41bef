SPECIFICATION StoreSpec
CONSTANTS
    Chars <- MCChars
    Names <- MCNames
    Keys <- MCKeys
    Values = {v}
    MaxDepth = 3
    MaxEntries = 4
PROPERTIES
    Implements
