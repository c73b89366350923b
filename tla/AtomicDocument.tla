--------------------------- MODULE AtomicDocument ----------------------------
(***************************************************************************)
(* What the configuration promises its clients: one document, to which     *)
(* updates are applied whole and one after the other.  An update names the *)
(* fields it changes and leaves every other field as it finds it at the    *)
(* moment it takes effect.  An update that is given up leaves no trace.    *)
(*                                                                         *)
(* The document in force is kept from time to time.  A power failure       *)
(* brings back the one that was kept last.  Somebody may leave the         *)
(* document unreadable from outside, once; the next update then begins     *)
(* from the defaults.                                                      *)
(***************************************************************************)
CONSTANTS
    Client,     \* who updates the document
    Update,     \* functions from some of the fields to new values
    Default,    \* the document before any update
    Unreadable, \* in place of a document that was spoilt
    Within(_),  \* the document with its values brought into their bounds
    None        \* no update

VARIABLES
    doc,        \* the document
    kept,       \* what a power failure leaves of it
    wanted,     \* each client's update that has not taken effect
    outside     \* the document was spoilt from outside

adVars == <<doc, kept, wanted, outside>>

Patched(d, u) == [f \in DOMAIN d |-> IF f \in DOMAIN u THEN u[f] ELSE d[f]]

\* The document an update begins from.
Legible(d) == IF d = Unreadable THEN Default ELSE d

ADInit ==
    /\ doc = Default
    /\ kept = Default
    /\ wanted = [c \in Client |-> None]
    /\ outside = FALSE

\* An unreadable document may be put aside now.
Want(c) ==
    /\ wanted[c] = None
    /\ \E u \in Update : wanted' = [wanted EXCEPT ![c] = u]
    /\ doc' \in {doc, Legible(doc)}
    /\ UNCHANGED <<kept, outside>>

Commit(c) ==
    /\ wanted[c] # None
    /\ doc' = Within(Patched(Legible(doc), wanted[c]))
    /\ wanted' = [wanted EXCEPT ![c] = None]
    /\ UNCHANGED <<kept, outside>>

GiveUp ==
    /\ \E cs \in SUBSET Client :
        wanted' = [c \in Client |-> IF c \in cs THEN None ELSE wanted[c]]
    /\ UNCHANGED <<doc, kept, outside>>

Keep ==
    /\ kept' = doc
    /\ UNCHANGED <<doc, wanted, outside>>

LosePower ==
    /\ doc' = kept
    /\ wanted' = [c \in Client |-> None]
    /\ UNCHANGED <<kept, outside>>

Spoil ==
    /\ ~outside /\ outside' = TRUE
    /\ doc' = Unreadable
    /\ UNCHANGED <<kept, wanted>>

ADNext == GiveUp \/ Keep \/ LosePower \/ Spoil \/ \E c \in Client : Want(c) \/ Commit(c)

ADSpec == ADInit /\ [][ADNext]_adVars

=============================================================================
