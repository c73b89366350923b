----------------------------- MODULE MCPackages ------------------------------
EXTENDS Packages

CONSTANTS mgr, app, sys

MCAppId == [p \in Pkg |-> CASE p = mgr -> 1 [] p = app -> 2 [] OTHER -> 3]
MCPeer == {<<0, 2>>, <<10, 1>>}

=============================================================================
