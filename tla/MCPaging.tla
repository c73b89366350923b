------------------------------ MODULE MCPaging -------------------------------
EXTENDS Paging

MCTraits ==
    [g \in Group |-> [pkg |-> g % 2, kind |-> IF g = 3 THEN "anr" ELSE "java", user |-> 0,
                      system |-> g > 1, installed |-> g # 2, main |-> TRUE, handled |-> FALSE,
                      says |-> {}]]

Everything == [packages |-> {}, kinds |-> {}, users |-> {}, from |-> {}, to |-> {},
               apps |-> TRUE, processes |-> TRUE, main |-> FALSE, handled |-> FALSE,
               query |-> {}]

MCFilter == {Everything, [Everything EXCEPT !.apps = FALSE, !.to = {2}]}

=============================================================================
