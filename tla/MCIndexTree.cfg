SPECIFICATION Spec
CONSTANTS
    KeySize <- MCKeySize
    Spilled = {3, 5}
    Room = 4
    MaxPages = 22
VIEW View
INVARIANTS TypeOK NoPageWithoutCells PagesHaveOneOwner EntriesReadInOrder
