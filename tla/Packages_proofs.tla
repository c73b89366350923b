-------------------------- MODULE Packages_proofs ----------------------------
(***************************************************************************)
(* The safety of the package index, for every set of packages, slots and   *)
(* crashing names, however often the device, the daemon and its threads    *)
(* change in between.                                                      *)
(***************************************************************************)
EXTENDS Packages, TLAPS

-----------------------------------------------------------------------------
(* The inductive invariant.                                                *)

Steps ==
    {"list", "paths", "flags", "install", "done", "off", "sleep", "replace", "names", "apply",
     "retry", "check", "inherit", "again", "served"}

\* A list that was read holds every package that was there when the device booted.
Lists == {list \in SUBSET Pkg : list = {} \/ Pkg \ Fresh \subseteq list}

\* What an index calls a system package is one: PackageManager said so, or the
\* partition did.
Index ==
    [list : Lists, path : [Pkg -> Nat], system : SUBSET SystemPkg, known : BOOLEAN]

ThreadState ==
    [at : Steps, uid : Peer \cup {Nobody}, list : SUBSET Pkg, paths : [Pkg -> Nat],
     built : Index]

PkTypes ==
    /\ dir \in [Pkg -> Nat] /\ index \in Index
    /\ reader \in [Reader -> ThreadState]
    /\ listener \in Peer \cup {Nobody}

\* What was there at boot stays.
StaysInstalled == \A p \in Pkg \ Fresh : dir[p] # 0

\* A thread between two of its reads holds a whole list.
ReadsOneList == \A t \in Reader : reader[t].at \in {"paths", "flags"} => reader[t].list \in Lists

\* A verdict that calls a third-party app a system app is a miss of the index.
Justified(name, verdict) ==
    name \in Pkg \ SystemPkg /\ verdict.system => name \in Fresh /\ ~verdict.installed

CrashOK == crash # NoCrash => Justified(crash.name, crash.verdict)

VerdictsOK == \A n \in DOMAIN verdicts : Justified(n, verdicts[n])

PkInv == PkTypes /\ StaysInstalled /\ ReadsOneList /\ CrashOK /\ VerdictsOK

-----------------------------------------------------------------------------
(* The operators on an index.                                              *)

LEMMA BuildIndexOK ==
    ASSUME NEW list \in Lists, NEW paths \in [Pkg -> Nat], NEW system \in SUBSET SystemPkg
    PROVE  BuildIndex(list, paths, system) \in Index
  BY PackagesAssumption DEF BuildIndex, Index, Lists

LEMMA NoIndexOK == NoIndex \in Index
<1>1. [p \in Pkg |-> 0] \in [Pkg -> Nat] /\ {} \in Lists
  BY DEF Lists
<1>2. QED
  BY <1>1, BuildIndexOK DEF NoIndex

LEMMA InheritOK ==
    ASSUME NEW ix \in Index, NEW previous \in Index
    PROVE  InheritSystemFlags(ix, previous) \in Index
  BY DEF InheritSystemFlags, Index

\* An index that misses a package was read before it was installed.
LEMMA ClassifyOK ==
    ASSUME NEW ix \in Index, NEW name
    PROVE  Justified(name, ClassifyPackage(ix, name))
  BY DEF ClassifyPackage, Justified, Index, Lists

LEMMA RestingOK ==
    ASSUME NEW at \in Steps
    PROVE  Resting(at) \in ThreadState /\ Resting(at).at = at
  BY NoIndexOK DEF Resting, ThreadState

-----------------------------------------------------------------------------
(* Threads: a step of one thread that leaves the records alone.            *)

LEMMA Readers == /\ "start" \in Reader /\ "complete" \in Reader /\ Slot \subseteq Reader
                 /\ "start" \notin Slot /\ "complete" \notin Slot
  BY PackagesAssumption DEF Reader

LEMMA ThreadStepOK ==
    ASSUME PkInv, NEW t \in Reader, NEW state \in ThreadState,
           reader' = [reader EXCEPT ![t] = state], index' \in Index,
           UNCHANGED <<dir, listener, crash, verdicts>>,
           state.at \in {"paths", "flags"} => state.list \in Lists
    PROVE  PkInv'
<1>1. PkTypes' /\ StaysInstalled'
  BY DEF PkInv, PkTypes, StaysInstalled
<1>2. CrashOK' /\ VerdictsOK'
  BY DEF PkInv, CrashOK, VerdictsOK, Justified
<1>3. ReadsOneList'
  BY DEF PkInv, PkTypes, ReadsOneList
<1>4. QED
  BY <1>1, <1>2, <1>3 DEF PkInv

LEMMA ReadsOK ==
    ASSUME PkInv, NEW t \in Reader, Reads(t)
    PROVE  PkInv'
<1>0. /\ reader[t] \in ThreadState /\ reader \in [Reader -> ThreadState]
      /\ dir \in [Pkg -> Nat] /\ index \in Index
  BY DEF PkInv, PkTypes
<1>1. ASSUME ReadList(t) PROVE PkInv'
  <2>1. CASE reader' = [reader EXCEPT ![t] = Resting(OnFailure(t))]
    <3>1. OnFailure(t) \in {"list", "sleep", "retry"}
      BY DEF OnFailure
    <3>2. Resting(OnFailure(t)) \in ThreadState /\ Resting(OnFailure(t)).at = OnFailure(t)
      BY <3>1, RestingOK DEF Steps
    <3>3. QED
      BY <1>0, <1>1, <2>1, <3>1, <3>2, ThreadStepOK DEF ReadList
  <2>2. CASE reader' = [reader EXCEPT ![t].at = "paths", ![t].list = {p \in Pkg : dir[p] # 0}]
    <3> DEFINE next == [reader[t] EXCEPT !.at = "paths", !.list = {p \in Pkg : dir[p] # 0}]
    <3>1. next \in ThreadState /\ next.at = "paths" /\ next.list \in Lists
      BY <1>0 DEF ThreadState, Steps, PkInv, StaysInstalled, Lists
    <3>2. reader' = [reader EXCEPT ![t] = next]
      BY <1>0, <2>2 DEF ThreadState
    <3> HIDE DEF next
    <3>3. QED
      BY <1>0, <1>1, <3>1, <3>2, ThreadStepOK DEF ReadList
  <2>3. QED
    BY <1>1, <2>1, <2>2 DEF ReadList
<1>2. ASSUME ReadCodePaths(t) PROVE PkInv'
  <2> DEFINE next == [reader[t] EXCEPT !.at = "flags",
                                       !.paths = IF device = "up" THEN dir ELSE reader[t].paths]
  <2>1. next \in ThreadState /\ next.at = "flags" /\ next.list \in Lists
    BY <1>0, <1>2 DEF ThreadState, Steps, PkInv, ReadsOneList, ReadCodePaths
  <2>2. reader' = [reader EXCEPT ![t] = next]
    BY <1>0, <1>2 DEF ReadCodePaths, ThreadState
  <2> HIDE DEF next
  <2>3. QED
    BY <1>0, <1>2, <2>1, <2>2, ThreadStepOK DEF ReadCodePaths
<1>3. ASSUME ReadSystemPackages(t) PROVE PkInv'
  <2> DEFINE system == IF device = "up" THEN {p \in SystemPkg : dir[p] # 0} ELSE {}
             ix == BuildIndex(reader[t].list, reader[t].paths, system)
             next == [reader[t] EXCEPT !.at = OnBuilt(t, ix), !.built = ix,
                                       !.list = {}, !.paths = [p \in Pkg |-> 0]]
  <2>1. ix \in Index
    <3>1. reader[t].list \in Lists /\ reader[t].paths \in [Pkg -> Nat]
      BY <1>0, <1>3 DEF ThreadState, PkInv, ReadsOneList, ReadSystemPackages
    <3>2. system \in SUBSET SystemPkg
      OBVIOUS
    <3>3. QED
      BY <3>1, <3>2, BuildIndexOK
  <2>2. reader' = [reader EXCEPT ![t] = next]
    BY <1>0, <1>3 DEF ReadSystemPackages, ThreadState
  <2>3. UNCHANGED <<dir, listener, index, crash, verdicts>>
    BY <1>3 DEF ReadSystemPackages
  <2> HIDE DEF ix
  <2>4. OnBuilt(t, ix) \in {"install", "replace", "sleep", "inherit"}
    BY DEF OnBuilt
  <2>5. next \in ThreadState /\ next.at = OnBuilt(t, ix)
    <3>1. OnBuilt(t, ix) \in Steps
      BY <2>4 DEF Steps
    <3>2. QED
      BY <1>0, <2>1, <3>1 DEF ThreadState
  <2> HIDE DEF next
  <2>6. QED
    BY <1>0, <2>2, <2>3, <2>4, <2>5, ThreadStepOK
<1>4. QED
  BY <1>1, <1>2, <1>3 DEF Reads

-----------------------------------------------------------------------------
(* The other actions.                                                      *)

LEMMA StartDaemonOK ==
    ASSUME PkInv, StartDaemon
    PROVE  PkInv'
<1>0. reader["start"].built \in Index
  BY Readers DEF PkInv, PkTypes, ThreadState
<1>1. \A t \in Reader : reader'[t] \in ThreadState /\ reader'[t].at \in {"done", "sleep", "retry"}
  <2>1. /\ Resting("done") \in ThreadState /\ Resting("done").at = "done"
        /\ Resting("sleep") \in ThreadState /\ Resting("sleep").at = "sleep"
        /\ Resting("retry") \in ThreadState /\ Resting("retry").at = "retry"
    BY RestingOK DEF Steps
  <2>2. QED
    BY <2>1 DEF StartDaemon
<1>2. PkTypes' /\ StaysInstalled'
  BY <1>0, <1>1 DEF PkInv, PkTypes, StaysInstalled, StartDaemon
<1>3. CrashOK' /\ VerdictsOK'
  BY DEF PkInv, CrashOK, VerdictsOK, Justified, StartDaemon
<1>4. ReadsOneList'
  BY <1>1 DEF ReadsOneList
<1>5. QED
  BY <1>2, <1>3, <1>4 DEF PkInv

LEMMA TryAgainOK ==
    ASSUME PkInv, TryAgain
    PROVE  PkInv'
<1>1. PICK at \in {"done", "list"} : reader' = [reader EXCEPT !["complete"] = Resting(at)]
  BY DEF TryAgain
<1>2. Resting(at) \in ThreadState /\ Resting(at).at = at
  BY RestingOK DEF Steps
<1>3. QED
  BY <1>1, <1>2, Readers, ThreadStepOK DEF TryAgain, PkInv, PkTypes

LEMMA CompleteOK ==
    ASSUME PkInv, Complete
    PROVE  PkInv'
<1>1. Resting("names") \in ThreadState /\ Resting("names").at = "names"
  BY RestingOK DEF Steps
<1>2. reader["complete"].built \in Index
  BY Readers DEF PkInv, PkTypes, ThreadState
<1>3. QED
  BY <1>1, <1>2, Readers, ThreadStepOK DEF Complete

LEMMA ReclassifyReadOK ==
    ASSUME PkInv, ReclassifyRead
    PROVE  PkInv'
<1> DEFINE next == [Resting("apply") EXCEPT !.list = index.list \cap DOMAIN verdicts,
                                            !.built = index]
<1>0. index \in Index /\ index.list \in SUBSET Pkg
  BY DEF PkInv, PkTypes, Index, Lists
<1>1. /\ Resting("done") \in ThreadState /\ Resting("done").at = "done"
      /\ Resting("apply") \in ThreadState /\ Resting("apply").at = "apply"
  BY RestingOK DEF Steps
<1>2. next \in ThreadState /\ next.at = "apply"
  BY <1>0, <1>1 DEF ThreadState
<1>3. \/ reader' = [reader EXCEPT !["complete"] = Resting("done")]
      \/ reader' = [reader EXCEPT !["complete"] = next]
  BY DEF ReclassifyRead
<1> HIDE DEF next
<1>4. QED
  BY <1>0, <1>1, <1>2, <1>3, Readers, ThreadStepOK DEF ReclassifyRead

LEMMA ReclassifyApplyOK ==
    ASSUME PkInv, ReclassifyApply
    PROVE  PkInv'
<1>1. Resting("done") \in ThreadState /\ Resting("done").at = "done"
  BY RestingOK DEF Steps
<1>2. reader["complete"].built \in Index
  BY Readers DEF PkInv, PkTypes, ThreadState
<1>3. VerdictsOK'
  BY <1>2 DEF PkInv, VerdictsOK, Justified, ReclassifyApply, ApplyFlags, Index
<1>4. PkTypes' /\ StaysInstalled'
  BY <1>1, Readers DEF PkInv, PkTypes, StaysInstalled, ReclassifyApply
<1>5. CrashOK'
  BY DEF PkInv, CrashOK, Justified, ReclassifyApply
<1>6. ReadsOneList'
  BY <1>1, Readers DEF PkInv, PkTypes, ReadsOneList, ReclassifyApply
<1>7. QED
  BY <1>3, <1>4, <1>5, <1>6 DEF PkInv

LEMMA AuthenticatesOK ==
    ASSUME PkInv, NEW s \in Slot, Authenticates(s) \/ Disconnect(s)
    PROVE  PkInv'
<1>0. /\ s \in Reader /\ s # "start" /\ s # "complete"
      /\ reader[s] \in ThreadState /\ reader \in [Reader -> ThreadState]
      /\ reader[s].built \in Index /\ reader[s].uid \in Peer \cup {Nobody}
      /\ index \in Index /\ listener \in Peer \cup {Nobody}
  BY Readers DEF PkInv, PkTypes, ThreadState
<1>1. /\ Resting("retry") \in ThreadState /\ Resting("retry").at = "retry"
      /\ Resting("check") \in ThreadState /\ Resting("check").at = "check"
      /\ Resting("again") \in ThreadState /\ Resting("again").at = "again"
  BY RestingOK DEF Steps
<1>2. \A at \in {"served", "list"} : /\ [reader[s] EXCEPT !.at = at] \in ThreadState
                                    /\ [reader[s] EXCEPT !.at = at].at = at
  BY <1>0 DEF ThreadState, Steps
<1>3. ASSUME Connect(s) PROVE PkInv'
  <2> DEFINE next == [Resting("check") EXCEPT !.uid = listener]
  <2>1. next \in ThreadState /\ next.at = "check"
    BY <1>0, <1>1 DEF ThreadState
  <2>2. reader' = [reader EXCEPT ![s] = next]
    BY <1>3 DEF Connect
  <2> HIDE DEF next
  <2>3. QED
    BY <1>0, <1>3, <2>1, <2>2, ThreadStepOK DEF Connect
<1>4. ASSUME CheckFirst(s) PROVE PkInv'
  <2>1. \/ reader' = [reader EXCEPT ![s] = [reader[s] EXCEPT !.at = "served"]]
        \/ reader' = [reader EXCEPT ![s] = [reader[s] EXCEPT !.at = "list"]]
        \/ reader' = [reader EXCEPT ![s] = Resting("retry")]
    BY <1>0, <1>4 DEF CheckFirst
  <2>2. QED
    BY <1>0, <1>1, <1>2, <1>4, <2>1, ThreadStepOK DEF CheckFirst
<1>5. ASSUME InstallRead(s) PROVE PkInv'
  <2> DEFINE ix == InheritSystemFlags(reader[s].built, index)
             next == [reader[s] EXCEPT !.at = "replace", !.built = ix]
  <2>1. ix \in Index
    BY <1>0, InheritOK
  <2>2. reader' = [reader EXCEPT ![s] = next]
    BY <1>0, <1>5 DEF InstallRead, ThreadState
  <2> HIDE DEF ix
  <2>3. next \in ThreadState /\ next.at = "replace"
    BY <1>0, <2>1 DEF ThreadState, Steps
  <2> HIDE DEF next
  <2>4. QED
    BY <1>0, <1>5, <2>1, <2>2, <2>3, ThreadStepOK DEF InstallRead
<1>6. ASSUME InstallWrite(s) PROVE PkInv'
  <2> DEFINE next == [Resting("again") EXCEPT !.uid = reader[s].uid]
  <2>1. next \in ThreadState /\ next.at = "again"
    BY <1>0, <1>1 DEF ThreadState
  <2>2. reader' = [reader EXCEPT ![s] = next] /\ index' \in Index
    BY <1>0, <1>6 DEF InstallWrite
  <2> HIDE DEF next
  <2>3. QED
    BY <1>0, <1>6, <2>1, <2>2, ThreadStepOK DEF InstallWrite
<1>7. ASSUME CheckAgain(s) PROVE PkInv'
  <2>1. \/ reader' = [reader EXCEPT ![s] = [reader[s] EXCEPT !.at = "served"]]
        \/ reader' = [reader EXCEPT ![s] = Resting("retry")]
    BY <1>0, <1>7 DEF CheckAgain
  <2>2. QED
    BY <1>0, <1>1, <1>2, <1>7, <2>1, ThreadStepOK DEF CheckAgain
<1>8. ASSUME Disconnect(s) PROVE PkInv'
  BY <1>0, <1>1, <1>8, ThreadStepOK DEF Disconnect
<1>9. QED
  BY <1>3, <1>4, <1>5, <1>6, <1>7, <1>8 DEF Authenticates

LEMMA IngestOK ==
    ASSUME PkInv,
           (\E n \in Crashing : EnrichRecord(n)) \/ (\E i \in Include : StoreRecord(i))
    PROVE  PkInv'
<1>1. PkTypes' /\ StaysInstalled' /\ ReadsOneList'
  BY DEF PkInv, PkTypes, StaysInstalled, ReadsOneList, EnrichRecord, StoreRecord
<1>2. ASSUME NEW n \in Crashing, EnrichRecord(n) PROVE CrashOK' /\ VerdictsOK'
  <2>1. Justified(n, ClassifyPackage(index, n))
    BY ClassifyOK DEF PkInv, PkTypes
  <2>2. crash'.name = n /\ crash'.verdict = ClassifyPackage(index, n)
    BY <1>2 DEF EnrichRecord
  <2>3. CrashOK'
    BY <2>1, <2>2 DEF CrashOK, Justified
  <2>4. VerdictsOK'
    BY <1>2 DEF PkInv, VerdictsOK, Justified, EnrichRecord
  <2>5. QED
    BY <2>3, <2>4
<1>3. ASSUME NEW i \in Include, StoreRecord(i) PROVE CrashOK' /\ VerdictsOK'
  <2>1. CrashOK'
    BY <1>3 DEF CrashOK, StoreRecord
  <2>2. VerdictsOK'
    BY <1>3 DEF PkInv, CrashOK, VerdictsOK, Justified, StoreRecord
  <2>3. QED
    BY <2>1, <2>2
<1>4. QED
  BY <1>1, <1>2, <1>3 DEF PkInv

LEMMA WorldOK ==
    ASSUME PkInv,
           (\E p \in Pkg : Move(p)) \/ DeviceChanges \/ (\E u \in Peer : Listen(u)) \/ Tick
    PROVE  PkInv'
<1>1. /\ UNCHANGED <<index, reader, crash, verdicts>>
      /\ dir' \in [Pkg -> Nat] /\ listener' \in Peer \cup {Nobody} /\ StaysInstalled'
  BY DEF PkInv, PkTypes, StaysInstalled, Move, DeviceChanges, Listen, Tick
<1>2. QED
  BY <1>1 DEF PkInv, PkTypes, CrashOK, VerdictsOK, ReadsOneList, Justified

LEMMA AsleepOK ==
    /\ Asleep \in [Reader -> ThreadState] /\ Asleep["start"].at = "list"
    /\ \A t \in Reader \ {"start"} : Asleep[t].at = "off"
<1>1. /\ Resting("list") \in ThreadState /\ Resting("list").at = "list"
      /\ Resting("off") \in ThreadState /\ Resting("off").at = "off"
  BY RestingOK DEF Steps
<1>2. QED
  BY <1>1, Readers DEF Asleep

LEMMA DaemonDiesOK ==
    ASSUME PkInv, DaemonDies
    PROVE  PkInv'
<1>1. PkTypes' /\ StaysInstalled'
  BY AsleepOK, NoIndexOK DEF PkInv, PkTypes, StaysInstalled, DaemonDies
<1>2. CrashOK' /\ VerdictsOK'
  BY DEF PkInv, CrashOK, VerdictsOK, Justified, DaemonDies
<1>3. ReadsOneList'
  BY AsleepOK DEF ReadsOneList, DaemonDies
<1>4. QED
  BY <1>1, <1>2, <1>3 DEF PkInv

LEMMA PkInitOK == PkInit => PkInv
<1> SUFFICES ASSUME PkInit PROVE PkInv
  OBVIOUS
<1>1. PkTypes /\ StaysInstalled
  BY AsleepOK, NoIndexOK DEF PkInit, PkTypes, StaysInstalled
<1>2. CrashOK /\ VerdictsOK
  BY DEF PkInit, CrashOK, VerdictsOK
<1>3. ReadsOneList
  BY AsleepOK DEF PkInit, ReadsOneList
<1>4. QED
  BY <1>1, <1>2, <1>3 DEF PkInv

-----------------------------------------------------------------------------
(* The theorems.                                                           *)

\* The invariant holds of every state: whatever list a thread read or an index
\* holds has every package that was there at boot, so a miss is a package that
\* came later, and an index never flags a package on its own account.
THEOREM PkInvariance == PkSpec => []PkInv
<1>1. PkInv /\ [PkNext]_pkVars => PkInv'
  <2> SUFFICES ASSUME PkInv, [PkNext]_pkVars PROVE PkInv'
    OBVIOUS
  <2>1. CASE UNCHANGED pkVars
    BY <2>1 DEF PkInv, PkTypes, StaysInstalled, ReadsOneList, CrashOK, VerdictsOK, Justified,
       pkVars
  <2>2. CASE PkNext
    BY <2>2, ReadsOK, StartDaemonOK, TryAgainOK, CompleteOK, ReclassifyReadOK,
       ReclassifyApplyOK, AuthenticatesOK, IngestOK, WorldOK, DaemonDiesOK DEF PkNext
  <2>3. QED
    BY <2>1, <2>2
<1>2. QED
  BY <1>1, PkInitOK, PTL DEF PkSpec

\* For every set of packages and every history of the device, the index and the
\* daemon: a third-party app is called a system app's only by a miss of an index
\* that was read before it was installed, and the group then says that no such
\* package is installed (enrich_record, reclassify_stored_packages).
THEOREM MisfiledAreNew == PkSpec => []OnlyNewAppsAreMisfiled
<1>1. PkInv => OnlyNewAppsAreMisfiled
  BY DEF PkInv, VerdictsOK, Justified, OnlyNewAppsAreMisfiled
<1>2. QED
  BY <1>1, PkInvariance, PTL

=============================================================================
