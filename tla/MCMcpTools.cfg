SPECIFICATION Spec
CONSTANT Names = {"x", "entries"}
INVARIANT ToolsActAsTheirRoutes
CHECK_DEADLOCK FALSE
