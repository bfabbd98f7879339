SPECIFICATION Spec
CONSTANTS
    BlockOrder <- MC_BlockOrder
    FamilyOrder <- MC_FamilyOrder
    Downstream <- MC_Downstream
    Texts <- MC_Texts
    ForeignFamily = "fam99"
INVARIANTS
    TypeOK
    OneNextRequest
    AcquireBeforeDownstream
    SequentialBlocks
    EveryCellOnce
\* every cell of the order has been carried out: the walk is over
CHECK_DEADLOCK FALSE
