SPECIFICATION Spec
CONSTANTS
    Names = {"house", "dwelling", "school", "schools", "lyceum", "campus", "park", "garden",
             "garden_a", "garden_o", "zone", "anybuilding", "offset", "wall", "houses", "parks",
             "kindergarten", "allzones"}
    Stem <- MCStem
    Aliases <- MCAliases
    House = "house"
    Residences = {"house", "houses", "dwelling"}
    GenericBuildings = {"anybuilding"}
    MeasureLabels = {"offset"}
    BuildingParts = {"wall"}
    MinDistance = 3
    Inflected <- MCInflected
    AllZones = "allzones"
    Kindergarten = "kindergarten"
    School = "school"
    MaxCandidates = 2
    Questions <- MCQuestions
INVARIANTS
    StrictestApplied
    
    PlansAsRead
    OrderFree
    GroupsAreNorms
    NothingHidden
    ConflictsAreExact
    
    KindTellsDirection
CHECK_DEADLOCK FALSE
