CONSTANTS
    app1 = app1
    app2 = app2
    game1 = game1
    App = App
    Game = Game
    Processes = {App, Game}
    Handles = {app1, app2, game1}
    ProcessOf <- MCProcessOf
    Budgets <- MCBudgets
SPECIFICATION Spec
CHECK_DEADLOCK FALSE
CONSTRAINT OneOwner
SYMMETRY HandleSymmetry
INVARIANTS NothingIsLost CurrentIsWhole NumbersAreFresh OneOwnerUnlessDropped
