------------------------------ MODULE MCBridge -------------------------------
(***************************************************************************)
(* Instances of Bridge.                                                    *)
(***************************************************************************)
EXTENDS Bridge, TLC

PostOnly == [op : {"post"}, on : Record]

PostAndQuery == PostOnly \cup [op : {"query"}, on : Package]

\* Callers, processes and sockets are interchangeable.
Interchangeable == Permutations(Caller) \cup Permutations(Proc) \cup Permutations(Conn)

=============================================================================
