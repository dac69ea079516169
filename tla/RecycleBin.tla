------------------------------ MODULE RecycleBin ------------------------------
(* The recycle bin (recycle_bin_service.py, recycle_bin_handlers.py): what is  *)
(* deleted becomes a row with a snapshot, from which it can be restored until  *)
(* its deadline; an hourly task destroys what is due.  A stored file outlives  *)
(* the row of its resource in the bin, and is given back to the storage quota  *)
(* (storage_quota_service.py) when it is destroyed.  A handler is cut between  *)
(* what it reads and its commit, the task also at each effect outside its      *)
(* transaction.                                                                *)
EXTENDS Integers, FiniteSets, FiniteSetsExt

CONSTANTS
  Docs,          \* resources, each uploaded once
  Size,          \* bytes of their files, 0 for a resource without one
  Quota,
  NoDoc,
  MaxItems,      \* bound of the model: rows of the bin
  Workers,       \* threads that serve requests
  Scanners,      \* processes that run the task
  MaxFaults      \* bound of the model: failed deletions and releases, and lost processes

ASSUME RecycleAssumption ==
  /\ Size \in [Docs -> Nat] /\ Quota \in Nat /\ MaxFaults \in Nat
  /\ MaxItems \in Nat /\ NoDoc \notin Docs /\ IsFiniteSet(Docs)

VARIABLES
  born,       \* resources that have been uploaded
  live,       \* resources with a row of their own
  object,     \* resources whose file is stored
  used,       \* used_bytes of the account
  bin,        \* rows of the bin
  job,        \* what each worker has read
  scan,       \* where each run of the task is
  faults,
  doubled,    \* resources deleted, or restored from one row, by two requests at once
  straddled,  \* resources whose deadline passed while they were restored
  unreleased  \* resources marked as destroyed although their bytes were not given back

data == <<born, live, object, used>>
history == <<doubled, straddled, unreleased>>
vars == <<data, bin, job, scan, faults, history>>

Items == 1 .. MaxItems   \* their ids, in the order of their creation
NoItem == 0

Absent == [doc |-> NoDoc, status |-> "absent", due |-> FALSE]
Idle == [op |-> "none", doc |-> NoDoc, item |-> NoItem]
Resting == [pc |-> "rest", batch |-> {}, item |-> NoItem, marked |-> {}, session |-> "removed"]

Init ==
  /\ born = {} /\ live = {} /\ object = {} /\ used = 0
  /\ bin = [i \in Items |-> Absent]
  /\ job = [w \in Workers |-> Idle]
  /\ scan = [s \in Scanners |-> Resting]
  /\ faults = 0 /\ doubled = {} /\ straddled = {} /\ unreleased = {}

NewId == Cardinality({i \in Items : bin[i] # Absent}) + 1
Pending(i) == bin[i].status = "pending"
PendingOf(d) == {i \in Items : Pending(i) /\ bin[i].doc = d}
Bytes(ds) == MapThenSumSet(LAMBDA d : Size[d], ds)
Fault == faults < MaxFaults /\ faults' = faults + 1

-----------------------------------------------------------------------------
(* Requests                                                                  *)

\* consume_quota and the creation of the row, which Uploads has in detail.
Upload(d) ==
  /\ d \notin born /\ used + Size[d] <= Quota
  /\ born' = born \cup {d} /\ live' = live \cup {d}
  /\ object' = IF Size[d] > 0 THEN object \cup {d} ELSE object
  /\ used' = used + Size[d]
  /\ UNCHANGED <<bin, job, scan, faults, history>>

Holds(w, op, d, i) == job' = [job EXCEPT ![w] = [op |-> op, doc |-> d, item |-> i]]
Leave(w) == job' = [job EXCEPT ![w] = Idle]

\* The snapshot.
DeleteRead(w, d) ==
  /\ job[w] = Idle /\ d \in live
  /\ Holds(w, "delete", d, NoItem)
  /\ UNCHANGED <<data, bin, scan, faults, history>>

\* The new row, and the deletion, which may find nothing to delete any more.
DeleteCommit(w) ==
  /\ job[w].op = "delete"
  /\ NewId \in Items
  /\ bin' = [bin EXCEPT ![NewId] = [doc |-> job[w].doc, status |-> "pending", due |-> FALSE]]
  /\ live' = live \ {job[w].doc}
  /\ doubled' = IF job[w].doc \in live THEN doubled ELSE doubled \cup {job[w].doc}
  /\ Leave(w)
  /\ UNCHANGED <<born, object, used, scan, faults, straddled, unreleased>>

\* Mutant of RestoreRead: what is due may be restored as long as it is pending.
RestoreReadDue(w, i) ==
  /\ job[w] = Idle /\ Pending(i)
  /\ Holds(w, "restore", bin[i].doc, i)
  /\ UNCHANGED <<data, bin, scan, faults, history>>

\* Status and deadline are read without a lock.
RestoreRead(w, i) ==
  /\ job[w] = Idle /\ Pending(i) /\ ~bin[i].due
  /\ Holds(w, "restore", bin[i].doc, i)
  /\ UNCHANGED <<data, bin, scan, faults, history>>

Restorable(w) == job[w].doc \notin live /\ bin[job[w].item].status # "gone"

\* Mutant of RestoreCommit: the row of the bin is not marked.
RestoreCommitUnmarked(w) ==
  /\ job[w].op = "restore" /\ Restorable(w)
  /\ live' = live \cup {job[w].doc} /\ UNCHANGED bin
  /\ Leave(w)
  /\ UNCHANGED <<born, object, used, scan, faults, history>>

\* The row comes back under its own key, and the status is overwritten.
RestoreCommit(w) ==
  /\ job[w].op = "restore" /\ Restorable(w)
  /\ live' = live \cup {job[w].doc}
  /\ bin' = [bin EXCEPT ![job[w].item].status = "restored"]
  /\ doubled' = IF Pending(job[w].item) THEN doubled ELSE doubled \cup {job[w].doc}
  /\ Leave(w)
  /\ UNCHANGED <<born, object, used, scan, faults, straddled, unreleased>>

\* The resource is there already, or the row of the bin is not any more.
RestoreRefused(w) ==
  /\ job[w].op = "restore" /\ ~Restorable(w)
  /\ Leave(w)
  /\ UNCHANGED <<data, bin, scan, faults, history>>

\* cleanup_expired_records deletes the rows of what was destroyed.
Cleanup ==
  /\ \E i \in Items : bin[i].status = "expired"
  /\ bin' = [i \in Items |-> IF bin[i].status = "expired" THEN [bin[i] EXCEPT !.status = "gone"] ELSE bin[i]]
  /\ UNCHANGED <<data, job, scan, faults, history>>

-----------------------------------------------------------------------------
(* purge_expired                                                             *)

Going(s, r) == scan' = [scan EXCEPT ![s] = r]

\* A commit: what the session has changed, or nothing if a changed row is gone.
Stale(marked) == \E i \in marked : bin[i].status = "gone"
Flushed(marked) ==
  IF Stale(marked) THEN bin
  ELSE [i \in Items |-> IF i \in marked THEN [bin[i] EXCEPT !.status = "expired"] ELSE bin[i]]

PurgeRead(s) ==
  /\ scan[s].pc = "rest"
  /\ LET due == {i \in Items : Pending(i) /\ bin[i].due} IN
       /\ due # {}
       /\ Going(s, [Resting EXCEPT !.pc = "next", !.batch = due, !.session = "attached"])
  /\ UNCHANGED <<data, bin, job, faults, history>>

\* The next row, in any order; one without a file is only marked, if its session still knows it.
PurgeNext(s, i) ==
  /\ scan[s].pc = "next" /\ i \in scan[s].batch
  /\ LET rest == [scan[s] EXCEPT !.batch = scan[s].batch \ {i}] IN
       Going(s, IF Size[bin[i].doc] > 0 THEN [rest EXCEPT !.pc = "object", !.item = i]
                ELSE IF rest.session = "attached" THEN [rest EXCEPT !.marked = scan[s].marked \cup {i}]
                ELSE rest)
  /\ UNCHANGED <<data, bin, job, faults, history>>

\* Mutant of PurgeObject: the row of a file that could not be deleted is marked as well.
PurgeObjectAnyway(s) ==
  /\ scan[s].pc = "object"
  /\ \/ object' = object \ {bin[scan[s].item].doc} /\ UNCHANGED faults
        /\ Going(s, [scan[s] EXCEPT !.pc = "release"])
     \/ Fault /\ UNCHANGED object
        /\ Going(s, [scan[s] EXCEPT !.pc = "next", !.item = NoItem, !.marked = scan[s].marked \cup {scan[s].item}])
  /\ UNCHANGED <<born, live, used, bin, job, history>>

\* Mutant of PurgeObject: the row is committed as expired before its bytes are given back.
PurgeObjectFirst(s) ==
  /\ scan[s].pc = "object"
  /\ object' = object \ {bin[scan[s].item].doc}
  /\ bin' = [bin EXCEPT ![scan[s].item].status = "expired"]
  /\ Going(s, [scan[s] EXCEPT !.pc = "release"])
  /\ UNCHANGED <<born, live, used, job, faults, history>>

\* The file is deleted, if it is still there; when that fails the row stays pending.
PurgeObject(s) ==
  /\ scan[s].pc = "object"
  /\ \/ object' = object \ {bin[scan[s].item].doc} /\ UNCHANGED faults
        /\ Going(s, [scan[s] EXCEPT !.pc = "release"])
     \/ Fault /\ UNCHANGED object /\ Going(s, [scan[s] EXCEPT !.pc = "next", !.item = NoItem])
  /\ UNCHANGED <<born, live, used, bin, job, history>>

Released(s) == [scan[s] EXCEPT !.pc = "next", !.item = NoItem]

\* release_usage commits, which writes what was marked before, and removes the
\* session: what is marked from now on, the row of this file too, is never written.
PurgeRelease(s) ==
  /\ scan[s].pc = "release" /\ scan[s].session # "failed" /\ ~Stale(scan[s].marked)
  /\ used' = Max({used - Size[bin[scan[s].item].doc], 0})
  /\ bin' = Flushed(scan[s].marked)
  /\ Going(s, [Released(s) EXCEPT !.marked = {}, !.session = "removed"])
  /\ UNCHANGED <<born, live, object, job, faults, history>>

\* _release_storage_quota logs a release that fails, and the row counts as destroyed: it
\* is marked when the service was not to be had, and its bytes stay counted ...
ReleaseMissed(s) ==
  /\ scan[s].pc = "release" /\ Fault
  /\ IF scan[s].session = "attached"
     THEN /\ Going(s, [Released(s) EXCEPT !.marked = scan[s].marked \cup {scan[s].item}])
          /\ unreleased' = unreleased \cup {bin[scan[s].item].doc}
     ELSE Going(s, Released(s)) /\ UNCHANGED unreleased
  /\ UNCHANGED <<data, bin, job, doubled, straddled>>

\* ... a statement that fails aborts the transaction, and what follows in it fails as well;
\* a commit that fails expires the rows, and the task ends with the next one it looks at.
ReleaseAborted(s) ==
  /\ scan[s].pc = "release"
  /\ \/ /\ Fault \/ (scan[s].session = "failed" /\ UNCHANGED faults)
        /\ Going(s, [Released(s) EXCEPT !.marked = {}, !.session = "failed"])
     \/ /\ Fault \/ (Stale(scan[s].marked) /\ UNCHANGED faults)
        /\ Going(s, Resting)
  /\ UNCHANGED <<data, bin, job, history>>

PurgeEnd(s) ==
  /\ scan[s].pc = "next" /\ scan[s].batch = {}
  /\ bin' = Flushed(scan[s].marked)
  /\ Going(s, Resting)
  /\ UNCHANGED <<data, job, faults, history>>

-----------------------------------------------------------------------------
(* Time and crashes                                                          *)

Restoring(i) == \E w \in Workers : job[w].op = "restore" /\ job[w].item = i

Deadline(i) ==
  /\ Pending(i) /\ ~bin[i].due
  /\ bin' = [bin EXCEPT ![i].due = TRUE]
  /\ straddled' = IF Restoring(i) THEN straddled \cup {bin[i].doc} ELSE straddled
  /\ UNCHANGED <<data, job, scan, faults, doubled, unreleased>>

ProcessLost ==
  /\ Fault
  /\ \/ \E w \in Workers : job[w] # Idle /\ Leave(w) /\ UNCHANGED scan
     \/ \E s \in Scanners : scan[s] # Resting /\ Going(s, Resting) /\ UNCHANGED job
  /\ UNCHANGED <<data, bin, history>>

Request(w) ==
  \/ \E d \in Docs : DeleteRead(w, d)
  \/ \E i \in Items : RestoreRead(w, i)
  \/ DeleteCommit(w) \/ RestoreCommit(w) \/ RestoreRefused(w)

Purge(s) ==
  \/ PurgeRead(s) \/ PurgeObject(s) \/ PurgeEnd(s)
  \/ PurgeRelease(s) \/ ReleaseMissed(s) \/ ReleaseAborted(s)
  \/ \E i \in Items : PurgeNext(s, i)

Next ==
  \/ \E d \in Docs : Upload(d)
  \/ \E w \in Workers : Request(w)
  \/ \E s \in Scanners : Purge(s)
  \/ \E i \in Items : Deadline(i)
  \/ Cleanup \/ ProcessLost

Spec == Init /\ [][Next]_vars

\* The task comes round every hour and goes on as long as its process lives.
Fairness == \A s \in Scanners : WF_vars(Purge(s))
FairSpec == Spec /\ Fairness

-----------------------------------------------------------------------------
TypeOK ==
  /\ live \subseteq born /\ object \subseteq born /\ born \subseteq Docs
  /\ used \in 0 .. Quota
  /\ \A i \in Items : bin[i] = Absent \/
       bin[i] \in [doc : born, status : {"pending", "restored", "expired", "gone"}, due : BOOLEAN]
  /\ \A w \in Workers : job[w] = Idle \/
       /\ job[w].doc \in born
       /\ \/ job[w].op = "delete" /\ job[w].item = NoItem
          \/ job[w].op = "restore" /\ job[w].item \in Items
  /\ scan \in [Scanners -> [pc : {"rest", "next", "object", "release"}, batch : SUBSET Items,
                            item : Items \cup {NoItem}, marked : SUBSET Items,
                            session : {"attached", "removed", "failed"}]]
  /\ faults \in 0 .. MaxFaults
  /\ doubled \subseteq born /\ straddled \subseteq born /\ unreleased \subseteq born

Retained(d) == d \in live \/ \E i \in PendingOf(d) : ~bin[i].due

Whole(d) == Retained(d) /\ Size[d] > 0 => d \in object

\* Nothing is lost before its deadline: what was uploaded is in use, in the bin, or was due.
\* And the file of what is in use, or can still be restored, is there, because nothing is
\* restored of what may be destroyed (_check_expire_deadline); this half leaves out a
\* resource that two requests deleted or restored at once, or whose deadline passed while
\* it was restored, which may lose its file (WholeOnce, WholeInTime).
Kept ==
  \A d \in born :
    /\ d \in live \/ \E i \in Items : bin[i].doc = d /\ (Pending(i) \/ bin[i].due)
    /\ d \notin doubled \cup straddled => Whole(d)

\* A resource is in use or once in the bin, whoever deletes and restores at the same time.
OnePlace ==
  \A d \in Docs \ doubled :
    /\ Cardinality(PendingOf(d)) <= 1
    /\ d \in live => PendingOf(d) = {}

\* Nobody is charged for what is gone: each byte that is counted is stored, or belongs to
\* a row that will be taken again, or to one whose release was missed, although deletions
\* and releases fail and processes are lost, as long as no deadline passed while its row
\* was restored.
Charged ==
  straddled = {} =>
    used <= Bytes({d \in born : d \in object \/ d \in unreleased \/ \E i \in PendingOf(d) : bin[i].due})

\* What is due is destroyed in the end, although deletions and releases fail and processes are lost.
Destroyed ==
  \A i \in Items : Pending(i) /\ bin[i].due ~> bin[i].doc \notin object \/ bin[i].status = "restored"

-----------------------------------------------------------------------------
(* What the comments say and the code does not do.                           *)

(* recycle_bin_handlers.py:603: no bytes are given back twice, so that what  *)
(* is stored is counted.                                                     *)
Counted == used >= Bytes(object)

(* storage_quota_service.py:6: every upload is checked against the quota, so *)
(* that what is stored stays within it.                                      *)
WithinQuota == Bytes(object) <= Quota

(* storage_quota_service.py:269: what is destroyed is given back, so that it  *)
(* is not charged for ever.                                                   *)
GivenBack ==
  straddled = {} => used <= Bytes({d \in born : d \in object \/ \E i \in PendingOf(d) : bin[i].due})

(* recycle_bin_service.py:5: what is restored is whole.  It is not when its  *)
(* deadline passes meanwhile, nor when it was deleted twice.                 *)
WholeInTime == \A d \in born \ doubled : Whole(d)
WholeOnce == \A d \in born \ straddled : Whole(d)
=============================================================================
