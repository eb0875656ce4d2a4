SPECIFICATION FairSpec
CONSTANTS
    ModuleTypes <- MCModuleTypes
    Loadable <- MCLoadable
    ApiOf <- MCApiOf
    ModuleIsA <- MCModuleIsA
    EventManager = "apis::event_manager"
    FirstManager = "modules::event_manager"
    MaxObjects = 4
    MaxDepth = 2
    ComponentTypes <- MCComponentTypes
    ComponentBase <- MCComponentBase
    DerivedFrom <- MCDerivedFrom
    NoComponent = NoComponent
INVARIANTS CacheCoherent Owned
PROPERTIES NotReplaced ManagerLast ReferencesStay DestructionEnds
CHECK_DEADLOCK FALSE
