------------------------------ MODULE Uploads -------------------------------
(* Chunked uploads of one account (chunked_upload_service.py): the session   *)
(* in Redis, the chunk files on disk, the claim that keeps two completions   *)
(* apart, the storage quota, and the file a completion records.              *)
(*                                                                           *)
(* Each request is executed by a worker; it gives way to the others at every *)
(* access to Redis, to the disk and to the database.  What the service does  *)
(* under the row lock of the quota is one step.                              *)
EXTENDS Integers, FiniteSets, FiniteSetsExt

CONSTANTS
  Sessions,    \* uploads
  Chunks,      \* the chunks of an upload
  Workers,     \* threads that execute the requests
  NoSession,
  Size,        \* total_size: the bytes of an upload, as declared when it begins
  Content,     \* the bytes its chunks are made of, which nothing compares with it
  Quota,       \* resolve_total_quota_bytes
  Reserve,     \* PARSE_RESERVE_BYTES
  MaxTroubles  \* bound of the model: sessions with a chunk sent again, failed
               \* calls, lost processes and expired claims

ASSUME UploadsAssumption ==
  /\ NoSession \notin Sessions
  /\ IsFiniteSet(Workers) /\ IsFiniteSet(Sessions)
  /\ Size \in [Sessions -> Nat \ {0}] /\ Content \in [Sessions -> Nat]
  /\ Quota \in Nat /\ Reserve \in Nat /\ MaxTroubles \in Nat

VARIABLES
  session,    \* the session key
  received,   \* the set of chunks the session has received
  part,       \* the chunk files
  claim,      \* the sessions with a claim key
  used,       \* account_storage_usage.used_bytes
  files,      \* upload_file: how many a session has become
  bytes,      \* upload_file.size: what the files of a session take together
  merged,     \* the size of what each worker has merged and not yet recorded
  torn,       \* the sessions merged without all their bytes
  resent,     \* the sessions with a chunk sent although it was there or under way
  vanished,   \* the sessions found gone by a completion that asked what was missing
  job,        \* what each worker is doing
  faults, lapses

vars == <<session, received, part, claim, used, files, bytes, torn, merged, resent, vanished, job, faults, lapses>>

Idle == [op |-> "none", sid |-> NoSession, chunk |-> 0, pc |-> "idle"]
At(w, op, pc) == job[w].op = op /\ job[w].pc = pc
Starts(w, op, s, pc) == job[w] = Idle /\ job' = [job EXCEPT ![w] = [Idle EXCEPT !.op = op, !.sid = s, !.pc = pc]]
Goes(w, pc) == job' = [job EXCEPT ![w].pc = pc]
Ends(w) == job' = [job EXCEPT ![w] = Idle]
Sid(w) == job[w].sid

Troubles == Cardinality(resent) + faults + lapses

Init ==
  /\ session = [s \in Sessions |-> "none"]
  /\ received = [s \in Sessions |-> {}]
  /\ part = [s \in Sessions |-> [i \in Chunks |-> "none"]]
  /\ claim = {}
  /\ used = 0
  /\ files = [s \in Sessions |-> 0] /\ bytes = [s \in Sessions |-> 0]
  /\ merged = [w \in Workers |-> 0]
  /\ torn = {}
  /\ resent = {}
  /\ vanished = {}
  /\ job = [w \in Workers |-> Idle]
  /\ faults = 0
  /\ lapses = 0

\* The quota is only looked at here; it is taken when the upload is completed.
Begin(s) ==
  /\ session[s] = "none"
  /\ used + Size[s] <= Quota
  /\ session' = [session EXCEPT ![s] = "open"]
  /\ UNCHANGED <<received, part, claim, used, files, bytes, torn, merged, resent, vanished, job, faults, lapses>>

-----------------------------------------------------------------------------
(* save_chunk                                                                *)

Writing(w, s, i) == At(w, "chunk", "open") /\ Sid(w) = s /\ job[w].chunk = i

Sent(s, i) == i \in received[s] \/ \E w \in Workers : job[w].op = "chunk" /\ Sid(w) = s /\ job[w].chunk = i

\* The client sends what is missing, or sends again what it has no answer for.
SaveCheck(w, s, i) ==
  /\ job[w] = Idle /\ session[s] = "open"
  /\ Sent(s, i) => s \notin resent /\ Troubles < MaxTroubles
  /\ resent' = IF Sent(s, i) THEN resent \cup {s} ELSE resent
  /\ job' = [job EXCEPT ![w] = [op |-> "chunk", sid |-> s, chunk |-> i, pc |-> "checked"]]
  /\ UNCHANGED <<session, received, part, claim, used, files, bytes, torn, merged, vanished, faults, lapses>>

\* Opening the file empties it.
SaveOpen(w) ==
  /\ At(w, "chunk", "checked")
  /\ part' = [part EXCEPT ![Sid(w)][job[w].chunk] = "torn"]
  /\ Goes(w, "open")
  /\ UNCHANGED <<session, received, claim, used, files, bytes, torn, merged, resent, vanished, faults, lapses>>

\* The content is there, unless another has emptied the file meanwhile or the
\* directory is gone.
SaveWrite(w) ==
  /\ At(w, "chunk", "open")
  /\ LET s == Sid(w)  i == job[w].chunk
         Emptied == session[s] = "gone" \/ \E v \in Workers \ {w} : Writing(v, s, i)
     IN IF part[s][i] = "none" THEN UNCHANGED part
        ELSE \E c \in (IF Emptied THEN {part[s][i], "whole"} ELSE {"whole"}) :
               part' = [part EXCEPT ![s][i] = c]
  /\ Goes(w, "written")
  /\ UNCHANGED <<session, received, claim, used, files, bytes, torn, merged, resent, vanished, faults, lapses>>

SaveMark(w) ==
  /\ At(w, "chunk", "written")
  /\ received' = IF session[Sid(w)] = "open"
                 THEN [received EXCEPT ![Sid(w)] = @ \cup {job[w].chunk}] ELSE received
  /\ Ends(w)
  /\ UNCHANGED <<session, part, claim, used, files, bytes, torn, merged, resent, vanished, faults, lapses>>

-----------------------------------------------------------------------------
(* complete                                                                  *)

CompleteFind(w, s) ==
  /\ session[s] = "open"
  /\ Starts(w, "complete", s, "found")
  /\ UNCHANGED <<session, received, part, claim, used, files, bytes, torn, merged, resent, vanished, faults, lapses>>

\* Of a session that is gone by now, no chunk is missing.
Missing(s) == IF session[s] = "open" THEN Chunks \ received[s] ELSE {}

CompleteCheck(w) ==
  /\ At(w, "complete", "found")
  /\ IF Missing(Sid(w)) = {} THEN Goes(w, "checked") ELSE Ends(w)
  /\ vanished' = IF session[Sid(w)] = "open" THEN vanished ELSE vanished \cup {Sid(w)}
  /\ UNCHANGED <<session, received, part, claim, used, files, bytes, torn, merged, resent, faults, lapses>>

\* Mutant of Claim: the claim is set, whoever has it.
ClaimAnyway(w) ==
  /\ At(w, "complete", "checked")
  /\ claim' = claim \cup {Sid(w)}
  /\ Goes(w, "claimed")
  /\ UNCHANGED <<session, received, part, used, files, bytes, torn, merged, resent, vanished, faults, lapses>>

Claim(w) ==
  /\ At(w, "complete", "checked")
  /\ claim' = claim \cup {Sid(w)}
  /\ IF Sid(w) \in claim THEN Ends(w) ELSE Goes(w, "claimed")
  /\ UNCHANGED <<session, received, part, used, files, bytes, torn, merged, resent, vanished, faults, lapses>>

\* Mutant of ReserveQuota: what other completions hold is not looked at.
ReserveUnchecked(w) ==
  /\ At(w, "complete", "claimed")
  /\ \/ /\ MapThenSumSet(LAMBDA s : files[s] * Size[s], Sessions) + Size[Sid(w)] + Reserve <= Quota
        /\ used' = used + Size[Sid(w)]
        /\ Goes(w, "reserved")
     \/ UNCHANGED used /\ Goes(w, "refused")
  /\ UNCHANGED <<session, received, part, claim, files, bytes, torn, merged, resent, vanished, faults, lapses>>

\* Mutant of ReserveQuota: who is refused gives back what was never taken.
ReserveAndRefund(w) ==
  /\ At(w, "complete", "claimed")
  /\ \/ /\ used + Size[Sid(w)] + Reserve <= Quota
        /\ used' = used + Size[Sid(w)]
        /\ Goes(w, "reserved")
     \/ UNCHANGED used /\ Goes(w, "failed")
  /\ UNCHANGED <<session, received, part, claim, files, bytes, torn, merged, resent, vanished, faults, lapses>>

\* consume_quota; the upload may also be refused by its knowledge base before.
ReserveQuota(w) ==
  /\ At(w, "complete", "claimed")
  /\ \/ /\ used + Size[Sid(w)] + Reserve <= Quota
        /\ used' = used + Size[Sid(w)]
        /\ Goes(w, "reserved")
     \/ UNCHANGED used /\ Goes(w, "refused")
  /\ UNCHANGED <<session, received, part, claim, files, bytes, torn, merged, resent, vanished, faults, lapses>>

\* What is merged: the bytes of the chunks, if each of them is whole.
WholeParts(s) == \A i \in Chunks : part[s][i] = "whole"
Found(s) == IF WholeParts(s) THEN {Content[s]} ELSE 0..Content[s]

Merged(w) ==
  /\ torn' = IF WholeParts(Sid(w)) THEN torn ELSE torn \cup {Sid(w)}
  /\ \E n \in Found(Sid(w)) : merged' = [merged EXCEPT ![w] = n]
  /\ Goes(w, "merged")

\* Mutant of Merge: chunks that are not there are left out.
MergeAnyway(w) ==
  /\ At(w, "complete", "reserved")
  /\ Merged(w)
  /\ UNCHANGED <<session, received, part, claim, used, files, bytes, resent, vanished, faults, lapses>>

\* Every chunk file must be there; the result goes to the storage backend.
Merge(w) ==
  /\ At(w, "complete", "reserved")
  /\ IF \E i \in Chunks : part[Sid(w)][i] = "none"
     THEN Goes(w, "failed") /\ UNCHANGED <<torn, merged>>
     ELSE Merged(w)
  /\ UNCHANGED <<session, received, part, claim, used, files, bytes, resent, vanished, faults, lapses>>

\* create_upload_file: the record has the size of what was merged.
Filing(w) ==
  /\ files' = [files EXCEPT ![Sid(w)] = @ + 1]
  /\ bytes' = [bytes EXCEPT ![Sid(w)] = @ + merged[w]]

\* The record, which is deleted again if the document is refused.
Record(w) ==
  /\ At(w, "complete", "merged")
  /\ \/ Filing(w) /\ Goes(w, "recorded")
     \/ UNCHANGED <<files, bytes>> /\ Goes(w, "failed")
  /\ merged' = [merged EXCEPT ![w] = 0]
  /\ UNCHANGED <<session, received, part, claim, used, torn, resent, vanished, faults, lapses>>

Sweep(w) ==
  /\ At(w, "complete", "recorded") \/ At(w, "abort", "found")
  /\ part' = [part EXCEPT ![Sid(w)] = [i \in Chunks |-> "none"]]
  /\ Goes(w, "swept")
  /\ UNCHANGED <<session, received, claim, used, files, bytes, torn, merged, resent, vanished, faults, lapses>>

\* The session's keys are deleted, and nobody needs the claim any more.
Forget(w) ==
  /\ At(w, "complete", "swept") \/ At(w, "abort", "swept")
  /\ session' = [session EXCEPT ![Sid(w)] = "gone"]
  /\ received' = [received EXCEPT ![Sid(w)] = {}]
  /\ IF job[w].op = "complete" THEN Goes(w, "forgotten") ELSE Ends(w)
  /\ UNCHANGED <<part, claim, used, files, bytes, torn, merged, resent, vanished, faults, lapses>>

Register(w) ==
  /\ At(w, "complete", "forgotten")
  /\ Ends(w)
  /\ UNCHANGED <<session, received, part, claim, used, files, bytes, torn, merged, resent, vanished, faults, lapses>>

\* Whatever failed after the quota was taken gives it back, ...
Refund(w) ==
  /\ At(w, "complete", "failed")
  /\ used' = Max({used - Size[Sid(w)], 0})
  /\ Goes(w, "refused")
  /\ UNCHANGED <<session, received, part, claim, files, bytes, torn, merged, resent, vanished, faults, lapses>>

\* ... and whatever failed after the claim gives it up.
Unclaim(w) ==
  /\ At(w, "complete", "refused")
  /\ claim' = claim \ {Sid(w)}
  /\ Ends(w)
  /\ UNCHANGED <<session, received, part, used, files, bytes, torn, merged, resent, vanished, faults, lapses>>

-----------------------------------------------------------------------------
(* abort, the hourly cleaning, time and failures                             *)

AbortFind(w, s) ==
  /\ session[s] = "open"
  /\ Starts(w, "abort", s, "found")
  /\ UNCHANGED <<session, received, part, claim, used, files, bytes, torn, merged, resent, vanished, faults, lapses>>

\* Mutant of Clean: only sessions that became a file.
CleanFiled(s) ==
  /\ session[s] = "gone" /\ files[s] > 0
  /\ part[s] # [i \in Chunks |-> "none"]
  /\ part' = [part EXCEPT ![s] = [i \in Chunks |-> "none"]]
  /\ UNCHANGED <<session, received, claim, used, files, bytes, torn, merged, resent, vanished, job, faults, lapses>>

\* cleanup_stale_chunk_sessions
Clean(s) ==
  /\ session[s] = "gone"
  /\ part[s] # [i \in Chunks |-> "none"]
  /\ part' = [part EXCEPT ![s] = [i \in Chunks |-> "none"]]
  /\ UNCHANGED <<session, received, claim, used, files, bytes, torn, merged, resent, vanished, job, faults, lapses>>

SessionExpires(s) ==
  /\ session[s] = "open"
  /\ session' = [session EXCEPT ![s] = "gone"]
  /\ UNCHANGED <<received, part, claim, used, files, bytes, torn, merged, resent, vanished, job, faults, lapses>>

ClaimExpires(s) ==
  /\ s \in claim /\ Troubles < MaxTroubles
  /\ lapses' = lapses + 1
  /\ claim' = claim \ {s}
  /\ UNCHANGED <<session, received, part, used, files, bytes, torn, merged, resent, vanished, job, faults>>

\* A call fails: Redis after the file was recorded, the deletion of the record of
\* a refused document, or the database when the quota is given back.
CallFails(w) ==
  /\ Troubles < MaxTroubles
  /\ faults' = faults + 1
  /\ \/ /\ At(w, "complete", "swept") \/ At(w, "complete", "forgotten")
        /\ Goes(w, "failed") /\ UNCHANGED <<files, bytes, merged>>
     \/ /\ At(w, "complete", "merged")
        /\ Filing(w) /\ Goes(w, "failed") /\ merged' = [merged EXCEPT ![w] = 0]
     \/ /\ At(w, "complete", "failed")
        /\ Goes(w, "refused") /\ UNCHANGED <<files, bytes, merged>>
  /\ UNCHANGED <<session, received, part, claim, used, torn, resent, vanished, lapses>>

\* The process dies; whatever it holds stays as it is.
Crash(w) ==
  /\ job[w] # Idle /\ Troubles < MaxTroubles
  /\ faults' = faults + 1
  /\ Ends(w)
  /\ merged' = [merged EXCEPT ![w] = 0]
  /\ UNCHANGED <<session, received, part, claim, used, files, bytes, torn, resent, vanished, lapses>>

-----------------------------------------------------------------------------
Request(w, s) ==
  (\E i \in Chunks : SaveCheck(w, s, i)) \/ CompleteFind(w, s) \/ AbortFind(w, s)

Step(w) ==
  \/ SaveOpen(w) \/ SaveWrite(w) \/ SaveMark(w)
  \/ CompleteCheck(w) \/ Claim(w) \/ ReserveQuota(w) \/ Merge(w) \/ Record(w)
  \/ Sweep(w) \/ Forget(w) \/ Register(w) \/ Refund(w) \/ Unclaim(w)

Next ==
  \/ \E s \in Sessions : Begin(s) \/ Clean(s) \/ SessionExpires(s) \/ ClaimExpires(s)
  \/ \E w \in Workers, s \in Sessions : Request(w, s)
  \/ \E w \in Workers : Step(w) \/ CallFails(w) \/ Crash(w)

Spec == Init /\ [][Next]_vars

\* Workers go on until they die; the cleaning comes round every hour.
FairSpec ==
  /\ Spec
  /\ \A w \in Workers : WF_vars(Step(w))
  /\ \A s \in Sessions : WF_vars(Clean(s))

-----------------------------------------------------------------------------
TypeOK ==
  /\ session \in [Sessions -> {"none", "open", "gone"}]
  /\ received \in [Sessions -> SUBSET Chunks]
  /\ part \in [Sessions -> [Chunks -> {"none", "torn", "whole"}]]
  /\ claim \subseteq Sessions
  /\ used \in Nat
  /\ files \in [Sessions -> Nat] /\ bytes \in [Sessions -> Nat]
  /\ merged \in [Workers -> Nat]
  /\ torn \subseteq Sessions /\ resent \subseteq Sessions /\ vanished \subseteq Sessions
  /\ \A w \in Workers :
       \/ job[w] = Idle
       \/ job[w] \in [op : {"chunk"}, sid : Sessions, chunk : Chunks, pc : {"checked", "open", "written"}]
       \/ job[w] \in [op : {"complete", "abort"}, sid : Sessions, chunk : {0},
                      pc : {"found", "checked", "claimed", "reserved", "merged", "recorded",
                            "swept", "forgotten", "failed", "refused"}]
  /\ faults \in Nat /\ lapses \in Nat /\ Troubles <= MaxTroubles

\* Completions that run at the same time never take what the quota does not have,
\* and leave room for the frames of the last one.
WithinQuota == used = 0 \/ used + Reserve <= Quota

\* While nothing breaks, the quota is what was declared of the uploads that have
\* become files and of those whose completion holds it, to the byte: no completion
\* keeps what it took for nothing, and none gives back what it did not take.  What
\* the files really take may differ from it (UsedIsStored).
Holding == {w \in Workers : \E pc \in {"reserved", "merged", "failed"} : At(w, "complete", pc)}
QuotaExplained ==
  faults = 0 =>
    used = MapThenSumSet(LAMBDA s : files[s] * Size[s], Sessions)
             + MapThenSumSet(LAMBDA w : Size[Sid(w)], Holding)

\* While nothing breaks and no claim expires, an upload becomes one file,
\* however many requests complete it.
OneFile == faults = 0 /\ lapses = 0 => \A s \in Sessions : files[s] <= 1

\* A file lacks bytes only if a chunk was sent twice, or if the session ended
\* before a completion that had found it asked what was missing: not because it
\* was aborted, expired or cleaned away while it was merged.
WholeFile == torn \subseteq resent \cup vanished

\* A file never lacks bytes.
Whole == torn = {}

\* What the files take is taken from the quota, whatever failed on the way.
FilesPaid == used >= MapThenSumSet(LAMBDA s : bytes[s], Sessions)

\* While nothing breaks and no completion is under way, used_bytes is what the
\* files take.
UsedIsStored == faults = 0 /\ Holding = {} => used = MapThenSumSet(LAMBDA s : bytes[s], Sessions)

\* The chunks of an upload that is over do not stay on the disk, even those that
\* arrive afterwards.
Swept == \A s \in Sessions : session[s] = "gone" ~> part[s] = [i \in Chunks |-> "none"]
=============================================================================
