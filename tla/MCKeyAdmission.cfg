SPECIFICATION Spec
CONSTANTS
    s1 = s1
    s2 = s2
    Slots = {s1, s2}
    RPM = 2
    TPM = 1
    Window = 2
    MaxBudget = 2
    MaxCost = 2
SYMMETRY Symmetry
INVARIANTS BudgetBounded RateBounded MeteredOnce
PROPERTY ImplementsLedger
