SPECIFICATION Spec
CONSTANTS
    Modules <- ModulesDef
    Runtime <- RuntimeDef
    Families <- FamiliesDef
INVARIANTS
    ImportsRunFirst
    CyclesAreReal
    AwaitsAreFound
    WrappersAreClosed
PROPERTY
    EffectsReachImporters
