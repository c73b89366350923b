---------------------------- MODULE MCCrashStore -----------------------------
(***************************************************************************)
(* Instances of CrashStore: two applications, with and without a stack.    *)
(***************************************************************************)
EXTENDS CrashStore

Died(process, at, payload) ==
    [kind |-> "Java", process |-> process, user |-> 0, at |-> at, payload |-> payload]

\* Time 0 is the epoch a device without a set clock reports.
TwoApps ==
    {Died("app", 0, "present"), Died("app", 1, "absent"), Died("other", 0, "present")}

=============================================================================
