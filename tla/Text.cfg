CONSTANTS
    Flags <- MCFlags
    Seeds <- MCSeeds
    Alphabet <- MCAlphabet
    MaxGrowth <- MCMaxGrowth
SPECIFICATION Spec
INVARIANTS
    ParserDecidesGrammar
    RequestsReachTheirHandler
    TextReadsBack
    StatusIsValue
CHECK_DEADLOCK FALSE
