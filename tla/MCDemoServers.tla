---------------------------- MODULE MCDemoServers ----------------------------
(* Two clients and the six programs, each with room for one connection or   *)
(* for two.                                                                  *)
EXTENDS DemoServers
==============================================================================
