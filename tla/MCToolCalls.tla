---------------------------- MODULE MCToolCalls ----------------------------
(* ToolCalls with the tools of every connector, for TLC.                    *)
EXTENDS ToolCalls, WorkplaceTools, BusinessTools

CONSTANT c1

(* registry.register_all_tools, after server._setup_connectors.             *)
AllTools == ToolsOfWorkplace \cup ToolsOfBusiness
=============================================================================
