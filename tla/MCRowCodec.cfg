\* Rows of up to two columns; only nullable columns hold empty strings.
CONSTANTS
    Schemas <- MCSchemas
    Texts <- MCTexts
    Numbers <- MCNumbers
    Dates <- MCDates
    Word32 = 8
    Word64 = 32
    MaxExact = 8
    Indefinite <- MCIndefinite
    MayBeEmpty = FALSE
    MayBeCut = FALSE
    Modifications <- MCModifications
SPECIFICATION MapsSpec
INVARIANTS
    TypeOK
    ReadsBack
    DayNumbersCount
    
PROPERTIES
    RewriteKeepsBytes
