------------------------------ MODULE MCContext ------------------------------
(***************************************************************************)
(* Two implementations of the event manager, two other modules, and a      *)
(* component with two types derived from it.                               *)
(***************************************************************************)
EXTENDS Context

MCModuleTypes == {"apis::event_manager", "modules::event_manager", "own_manager",
                  "apis::connection", "modules::connection", "apis::other", "other"}
MCLoadable == {"modules::event_manager", "own_manager", "modules::connection", "other"}
MCApiOf ==
    [t \in MCModuleTypes |->
        CASE t \in {"apis::event_manager", "modules::event_manager", "own_manager"} -> "apis::event_manager"
          [] t \in {"apis::connection", "modules::connection"} -> "apis::connection"
          [] OTHER -> "apis::other"]
MCModuleIsA == {p \in MCModuleTypes \X MCModuleTypes : p[2] = p[1] \/ p[2] = MCApiOf[p[1]]}

MCComponentTypes == {"base", "left", "right"}
MCComponentBase == [t \in MCComponentTypes |-> "base"]
MCDerivedFrom == {p \in MCComponentTypes \X MCComponentTypes : p[2] = p[1] \/ p[2] = "base"}
===============================================================================
