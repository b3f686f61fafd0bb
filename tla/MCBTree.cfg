SPECIFICATION Spec
CONSTANTS
    Rowid = {1, 2, 3, 4, 5, 6}
    Payload <- MCPayload
    LeafRoom = 2
    NodeRoom = 2
    MaxPages = 24
VIEW View
INVARIANTS TypeOK TreeStaysBalanced PagesHaveOneOwner CursorReadsRows DeletedRowFitsAgain
