SPECIFICATION Spec
CONSTANTS
    Empty = Empty
    Missing = Missing
    Server = Server
    NoRewrite = NoRewrite
    cur1 = cur1
    ctr1 = ctr1
    product = product
    mod1 = mod1
    mod2 = mod2
    twoWords = twoWords
    n0 = n0
    n1 = n1
    Yes = Yes
    No = No
    Garbage = Garbage
    Modules <- MCModules
    Creates <- MCCreates
    Default <- MCDefault
    Names <- MCNames
    UintSize = 4
    Texts <- MCTexts
    Idents <- MCIdents
    FirstWord <- MCFirstWord
    Contents <- MCContents
    Tables <- MCTables
    MaxBoots = 2
    MaxEdits = 1
    MaxCrashes = 1
CHECK_DEADLOCK FALSE
INVARIANTS
    ConfigInSync
