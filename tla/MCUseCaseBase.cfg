SPECIFICATION Spec
CONSTANTS
    h1 = h1
    h2 = h2
    Entities <- MCEntities
    Scenarios <- MCScenarios
    Featured <- MCFeatured
    Handlers <- MCHandlers
    MaxConnections = 2
    MaxEvents = 5
INVARIANTS
    TypeOK
    ListCurrent
    IndexValid
    ApplicationInformed
SYMMETRY Symmetry
