---------------------------- MODULE MCIngestLoop -----------------------------
(***************************************************************************)
(* Instances of IngestLoop.  Time is scaled: a window of 4 stands for ten  *)
(* seconds, a skew of 1 for two, a settle of 1 for a quarter of one.       *)
(***************************************************************************)
EXTENDS IngestLoop

Fragm(src, q, kind, user, pid, at, payload, file) ==
    [source |-> src, quality |-> q, kind |-> kind, process |-> "app",
     user |-> user, pid |-> pid, at |-> at, payload |-> payload, file |-> file]

\* A native death of user 0 whose event does not know the pid, and a native
\* death of user 10 whose tombstone does not know the user.
NativeEvidence ==
    {Fragm("EVENTS",    Structured, "Native", 0,    0, 1, "absent", None),
     Fragm("TOMBSTONE", Protobuf,   "Native", None, 7, 2, "present", None),
     Fragm("DROPBOX",   Structured, "Native", 10,   7, 2, "present", None)}

\* An ANR: its event, two appends to its dump and another dump.
AnrEvidence ==
    {Fragm("EVENTS",   Structured, "Anr", 0,    9, 1, "absent", None),
     Fragm("ANR_FILE", Artifact,   "Anr", None, 9, 2, "present", "anr_1"),
     Fragm("ANR_FILE", Artifact,   "Anr", None, 9, 4, "present", "anr_1"),
     Fragm("ANR_FILE", Artifact,   "Anr", None, 9, 3, "present", "anr_2")}

\* A Java exception the application may have handled itself.
JavaEvidence ==
    {Fragm("EVENTS",       Structured, "Java", 0,    5, 2, "absent", None),
     Fragm("CRASH_BUFFER", Text,       "Java", None, 5, 1, "present", None)}

\* Its DropBox entry, later than the skew.
LateEvidence == {Fragm("DROPBOX", Structured, "Java", 0, 5, 3, "present", None)}

MixedEvidence == NativeEvidence \cup AnrEvidence \cup JavaEvidence \cup LateEvidence

\* The configuration does not capture self-handled exceptions.
NoSelfHandled == {<<"Java", "app", TRUE>>}

=============================================================================
