SPECIFICATION MCSpec
CONSTANTS
    Word = 4096
    Kilo = 512
    Numerals <- MCNumerals
    Scripts <- MCScripts
    DefSyms <- MCDefSyms
    BuiltIn <- MCBuiltIn
    DefaultPlacement <- MCDefaultPlacement
    Rank <- MCRank
    InputSections <- MCInputs
    ObjectSymbols <- MCSymbols
    Spelling <- MCSpelling
    KeyLength = 2
    Base = 128
    Demangled <- MCDemangled
    Links <- AllLinks
    HashOf <- MCHashOf
    ChunkSize = 2
    SectionSymbols = 2
    Optional = 2
    HeaderSize = 8
INVARIANTS
    PlacedByTheScript
    EarlyIsFinal
    TablesAreAsReserved
    LoaderFindsExports
    VersionsAreTheScripts
