------------------------------ MODULE MCEvidence ------------------------------
(***************************************************************************)
(* Pairs of deaths that are easy to confuse: the same process of two users,*)
(* and two processes of one package.  The first pid and the second user    *)
(* are the last ones that activity_user_and_pid tells apart.               *)
(***************************************************************************)
EXTENDS Evidence

Death(kind, process, pid, user, stack) ==
    [kind |-> kind, process |-> process, pid |-> pid, uid |-> user * PerUser + 10007,
     class |-> IF kind = "Native" THEN "SIGSEGV" ELSE "Broken",
     stack |-> stack, line |-> 1]

\* A clone of the app dies as well, or another process of its package.
Clones(k, stack) ==
    <<Death(k, "app:remote", 1000, 0, stack), Death(k, "app:remote", 1001, 999, stack)>>

Neighbours(k, stack) ==
    <<Death(k, "app:remote", 1000, 999, stack), Death(k, "app", 1002, 999, stack)>>

Plain == <<"framework", "app">>

\* A C++ function, and one of a library in an APK: the halves name them apart.
Native == <<"method(int)", "mapped">>

TwoDeaths ==
    {Clones(k, Plain) : k \in Kind} \cup {Neighbours(k, Plain) : k \in Kind}
        \cup {Clones("Native", Native)}

\* How the text prints them.
Prints == [m \in Method |-> CASE m = "method(int)" -> "signature"
                             [] m = "mapped" -> "offset"
                             [] OTHER -> "plain"]

\* Both processes are of one package.
Packages == [p \in Process |-> "app"]

\* Whatever these artefacts can become.
AllFragments ==
    {FragmentOf(a) : a \in UNION {Written(i, s[i], i \in Flawed) :
                                    i \in {1, 2}, s \in Scenario}} \ {None}

===============================================================================
