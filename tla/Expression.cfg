CONSTANTS
    Width = 4
    Decls <- MCDecls
    Params <- MCParams
    LocalOf <- MCLocalOf
    ArrayOfLists = "a"
    Machines <- MCMachines
    Input <- MCInput
SPECIFICATION Spec
INVARIANTS
    TreeIsTheGrammars
    FoldingKeepsMeaning
    CodeKeepsMeaning
    TranslatorAssertionsHold
    InitialisersFillTheArray
CHECK_DEADLOCK FALSE
