-------------------------- MODULE MCIngestPipeline ---------------------------
(***************************************************************************)
(* Instances of IngestPipeline, with the time scale of MCIngestLoop.       *)
(***************************************************************************)
EXTENDS IngestPipeline

Log(src, q, kind, user, pid, at, payload, death) ==
    [source |-> src, quality |-> q, kind |-> kind, process |-> "app",
     user |-> user, pid |-> pid, at |-> at, payload |-> payload, file |-> None,
     path |-> None, death |-> death]

File(src, q, kind, user, pid, at, path, death) ==
    [source |-> src, quality |-> q, kind |-> kind, process |-> "app",
     user |-> user, pid |-> pid, at |-> at, payload |-> "present",
     file |-> IF src = "ANR_FILE" THEN path ELSE None, path |-> path, death |-> death]

\* One uncaught exception of a process of the owner, in both logs and DropBox.
OwnerDeath ==
    {Log("EVENTS", Structured, "Java", 0, 5, 2, "absent", 1),
     Log("CRASH_BUFFER", Text, "Java", None, 5, 2, "present", 1),
     File("DROPBOX", Structured, "Java", 0, 5, 3, "drop_1", 1)}

\* The condition of OneRecordPerDeath is met by it.
ASSUME OwnerDeathIsTold == Fragment = OwnerDeath => Told(1)

\* An ANR whose dump is first closed while it is still blank.
BlankDump == {File("ANR_FILE", Artifact, "Anr", None, 9, 2, "anr_1", 2)}

AnrDeath ==
    BlankDump \cup
    {Log("EVENTS", Structured, "Anr", 0, 9, 2, "absent", 2),
     File("ANR_FILE", Artifact, "Anr", None, 9, 3, "anr_1", 2)}

=============================================================================
