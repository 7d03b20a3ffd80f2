\* The lists of the portal, and a Graph client that walks a collection, while others write to it.
SPECIFICATION Spec
CONSTANTS
    Rows <- MCRows
    Texts = {all, some}
    NoText = all
    Hits <- MCHits
    PageSize = 1
    MaxTyping = 2
    MaxWrites = 2
    None = None
    New = New
    Members = Members
    RawTops = {Junk, 0, 1, 4}
    RawTokens = {Junk, 1}
    Junk = Junk
    DefaultTop = 2
    MaxTop = 3
CHECK_DEADLOCK FALSE
INVARIANTS
    ListingSound
    
    
    WalkErrsForCause
