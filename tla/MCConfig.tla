------------------------------ MODULE MCConfig -------------------------------
(***************************************************************************)
(* Instances of Config.                                                    *)
(***************************************************************************)
EXTENDS Config

CONSTANTS p1

\* One request of each kind, with a retention value below its bound.
MCAsked ==
    {[op |-> "mute", on |-> p1, set |-> [f \in {<<p1, "mute">>} |-> s]] : s \in Scope}
        \cup {[op |-> "app", on |-> p1, set |-> [f \in {<<p1, "ignore">>} |-> TRUE]]}
        \cup {[op |-> "global", set |-> [f \in {<<All, "debug">>, <<All, "kept">>} |->
                  IF f[2] = "debug" THEN TRUE ELSE 0]]}
        \cup {[op |-> "takeover", set |-> [f \in {<<All, "takeover">>} |-> TRUE]]}

MCCrashes ==
    {[pkg |-> p1, kind |-> "java", system |-> FALSE, main |-> TRUE, handled |-> FALSE,
      front |-> None]}

=============================================================================
