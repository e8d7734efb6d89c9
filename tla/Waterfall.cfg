\* One call of WaterfallEngine.evaluate on every input of the MC module.
SPECIFICATION Spec
CONSTANTS
    None = None
    Customers = {}
    Assets <- MCAssets
    RuleLists <- MCRuleLists
    Records <- MCRecords
    BalanceSheets <- MCBalanceSheets
INVARIANTS
    LoopInvariant
    LoopComputesEvaluate
    MoreMoneyStillPays
    FilterFindsWhatItNames
