CONSTANTS
    IntMax = 3
    Exprs <- SomeExprs
    FromClauses <- SomeFromClauses
    Height <- SomeHeights
    MaxRows = 1
    Bootstrap <- BootTables
    Selects <- SomeSelects
    Inserts <- SomeInserts
    Updates <- SomeUpdates
    Deletes <- SomeDeletes
    CreateTables <- SomeCreateTables
SPECIFICATION Spec
INVARIANTS TypeOK PrintedTyped PrintedIsEvaluated
PROPERTIES StrictStatementsSucceed UpdateSimultaneous EffectsOfDeath
