SPECIFICATION FairSpec
CONSTANTS
    Rules <- ThreeRules
    NoRule = NoRule
    table_entries = 4
    expn_table_entries = 3
    DstHash <- CrossingDst
    SrcHash <- CrossingSrc
    AllowDuplicates = TRUE
    MaxFailures = 1
INVARIANTS
    TableSound
PROPERTIES
    ImplementsNatRules
    AddsAnswered
