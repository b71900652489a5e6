---------------------------- MODULE MCInterfaces ----------------------------
(***************************************************************************)
(* The calls of the clients, with an account for the MCP server that may   *)
(* also approve.                                                           *)
(***************************************************************************)
EXTENDS Interfaces

MCAccounts ==
    [jarvis |-> [permissions |-> {"project.read", "request.dispatch", "workflow.approve"},
                 all |-> TRUE, projects |-> {"own"}],
     mcp |-> [permissions |-> {"project.read", "request.dispatch", "workflow.approve"},
              all |-> FALSE, projects |-> {"own"}],
     cli |-> [permissions |-> {"project.admin"}, all |-> TRUE, projects |-> {"own"}]]
=============================================================================
