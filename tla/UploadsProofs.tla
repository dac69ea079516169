---------------------------- MODULE UploadsProofs ----------------------------
(***************************************************************************)
(* Uploads for any number of uploads, chunks and workers: the types, the   *)
(* quota that completions share, what it is made of, one file an upload,   *)
(* and the only two ways a file can lack bytes.                            *)
(***************************************************************************)
EXTENDS Uploads, Lemmas

USE UploadsAssumption

-----------------------------------------------------------------------------
(* Types.                                                                  *)

Pcs == {"found", "checked", "claimed", "reserved", "merged", "recorded",
        "swept", "forgotten", "failed", "refused"}
Jobs == {Idle}
     \cup [op : {"chunk"}, sid : Sessions, chunk : Chunks, pc : {"checked", "open", "written"}]
     \cup [op : {"complete", "abort"}, sid : Sessions, chunk : {0}, pc : Pcs]

(* TypeOK, and job is a function.                                          *)
Typed == TypeOK /\ job \in [Workers -> Jobs]

(* A worker that is serving a request is serving one of its uploads.       *)
LEMMA Busy ==
  ASSUME Typed, NEW w \in Workers, job[w].op # "none"
  PROVE  /\ Sid(w) \in Sessions
         /\ job[w].op = "chunk" => job[w].chunk \in Chunks
         /\ job[w].op \in {"chunk", "complete", "abort"}
  BY DEF Typed, Jobs, Idle, Sid

(* Going on, ending and starting keep the type of the jobs.                *)
LEMMA JobsType ==
  ASSUME Typed, NEW w \in Workers
  PROVE  /\ \A pc \in Pcs : job[w].op \in {"complete", "abort"} /\ Goes(w, pc) => job' \in [Workers -> Jobs]
         /\ \A pc \in {"open", "written"} : job[w].op = "chunk" /\ Goes(w, pc) => job' \in [Workers -> Jobs]
         /\ Ends(w) => job' \in [Workers -> Jobs]
         /\ \A s \in Sessions, op \in {"complete", "abort"} : Starts(w, op, s, "found") => job' \in [Workers -> Jobs]
<1>1. ASSUME NEW pc \in Pcs, job[w].op \in {"complete", "abort"}, Goes(w, pc) PROVE job' \in [Workers -> Jobs]
  <2>1. [job[w] EXCEPT !.pc = pc] \in Jobs
    BY <1>1 DEF Typed, Jobs, Idle
  <2> QED BY <1>1, <2>1 DEF Typed, Goes
<1>2. ASSUME NEW pc \in {"open", "written"}, job[w].op = "chunk", Goes(w, pc) PROVE job' \in [Workers -> Jobs]
  <2>1. [job[w] EXCEPT !.pc = pc] \in Jobs
    BY <1>2 DEF Typed, Jobs, Idle
  <2> QED BY <1>2, <2>1 DEF Typed, Goes
<1>3. ASSUME Ends(w) PROVE job' \in [Workers -> Jobs]
  BY <1>3 DEF Typed, Ends, Jobs
<1>4. ASSUME NEW s \in Sessions, NEW op \in {"complete", "abort"}, Starts(w, op, s, "found")
      PROVE  job' \in [Workers -> Jobs]
  <2>1. [Idle EXCEPT !.op = op, !.sid = s, !.pc = "found"] \in Jobs
    BY DEF Jobs, Idle, Pcs
  <2> QED BY <1>4, <2>1 DEF Typed, Starts
<1> QED BY <1>1, <1>2, <1>3, <1>4

LEMMA TypedJobs ==
  ASSUME NEW J \in [Workers -> Jobs]
  PROVE  \A w \in Workers :
       \/ J[w] = Idle
       \/ J[w] \in [op : {"chunk"}, sid : Sessions, chunk : Chunks, pc : {"checked", "open", "written"}]
       \/ J[w] \in [op : {"complete", "abort"}, sid : Sessions, chunk : {0}, pc : Pcs]
  BY DEF Jobs

(* The bound counts what it is meant to count.                             *)
LEMMA TroublesType ==
  ASSUME TypeOK
  PROVE  /\ Cardinality(resent) \in Nat /\ IsFiniteSet(resent)
         /\ \A s \in Sessions \ resent : Cardinality(resent \cup {s}) = Cardinality(resent) + 1
<1>1. IsFiniteSet(resent)
  BY FS_Subset DEF TypeOK
<1> QED BY <1>1, FS_CardinalityType, FS_AddElement

(* What is given back to the quota leaves no debt.                         *)
LEMMA MaxFacts ==
  ASSUME NEW n \in Int
  PROVE  Max({n, 0}) = IF n >= 0 THEN n ELSE 0
<1> DEFINE m == IF n >= 0 THEN n ELSE 0
<1>1. m \in {n, 0} /\ \A y \in {n, 0} : m >= y
  OBVIOUS
<1>2. \A x \in {n, 0} : (\A y \in {n, 0} : x >= y) => x = m
  OBVIOUS
<1> QED BY <1>1, <1>2 DEF Max

LEMMA InitTyped == Init => Typed
<1> SUFFICES ASSUME Init PROVE Typed
  OBVIOUS
<1>1. Cardinality(resent) = 0
  BY FS_EmptySet DEF Init
<1>2. Troubles <= MaxTroubles
  BY <1>1 DEF Init, Troubles
<1>3. job \in [Workers -> Jobs]
  BY DEF Init, Jobs
<1>4. part \in [Sessions -> [Chunks -> {"none", "torn", "whole"}]]
  BY DEF Init
<1> QED BY <1>2, <1>3, <1>4 DEF Init, Typed, TypeOK, Jobs

(* Everything but the jobs.                                                *)
Stored ==
  /\ session \in [Sessions -> {"none", "open", "gone"}]
  /\ received \in [Sessions -> SUBSET Chunks]
  /\ part \in [Sessions -> [Chunks -> {"none", "torn", "whole"}]]
  /\ claim \subseteq Sessions
  /\ used \in Nat
  /\ files \in [Sessions -> Nat] /\ bytes \in [Sessions -> Nat]
  /\ merged \in [Workers -> Nat]
  /\ torn \subseteq Sessions /\ resent \subseteq Sessions /\ vanished \subseteq Sessions
  /\ faults \in Nat /\ lapses \in Nat /\ Troubles <= MaxTroubles

LEMMA TypedParts == Typed <=> Stored /\ job \in [Workers -> Jobs]
<1>1. job \in [Workers -> Jobs] => (TypeOK <=> Stored)
  BY TypedJobs DEF TypeOK, Stored, Pcs
<1> QED BY <1>1 DEF Typed

(* A file more, and its bytes.                                             *)
LEMMA FilingType ==
  ASSUME files \in [Sessions -> Nat], bytes \in [Sessions -> Nat], merged \in [Workers -> Nat],
         NEW w \in Workers, Filing(w), Sid(w) \in Sessions
  PROVE  files' \in [Sessions -> Nat] /\ bytes' \in [Sessions -> Nat]
  BY DEF Filing

LEMMA NextTyped == Typed /\ [Next]_vars => Typed'
<1> SUFFICES ASSUME Typed, [Next]_vars PROVE Typed'
  OBVIOUS
<1>0. Stored /\ job \in [Workers -> Jobs]
  BY TypedParts
<1>1. Stored' /\ job' \in [Workers -> Jobs] => Typed'
  <2>1. ASSUME job' \in [Workers -> Jobs] PROVE TypeOK' <=> Stored'
    BY <2>1, TypedJobs DEF TypeOK, Stored, Pcs
  <2> QED BY <2>1 DEF Typed
<1> HIDE DEF Typed
<1>a. ASSUME UNCHANGED <<resent, faults, lapses>> PROVE Troubles' <= MaxTroubles
  BY <1>0, <1>a DEF Stored, Troubles
<1>b. Cardinality(resent) \in Nat /\ \A s \in Sessions \ resent : Cardinality(resent \cup {s}) = Cardinality(resent) + 1
  BY TroublesType DEF Typed
<1>2. CASE UNCHANGED vars
  BY <1>0, <1>1, <1>2, <1>a DEF vars, Stored
<1>3. ASSUME NEW s \in Sessions, Begin(s) \/ Clean(s) \/ SessionExpires(s) PROVE Typed'
  <2>1. UNCHANGED <<received, claim, used, files, bytes, torn, merged, resent, vanished, job, faults, lapses>>
    BY <1>3 DEF Begin, Clean, SessionExpires
  <2>2. session' \in [Sessions -> {"none", "open", "gone"}]
    BY <1>0, <1>3 DEF Begin, Clean, SessionExpires, Stored
  <2>3. part' \in [Sessions -> [Chunks -> {"none", "torn", "whole"}]]
    BY <1>0, <1>3 DEF Begin, Clean, SessionExpires, Stored
  <2> QED BY <1>0, <1>1, <1>a, <2>1, <2>2, <2>3 DEF Stored
<1>4. ASSUME NEW s \in Sessions, ClaimExpires(s) PROVE Typed'
  <2>1. Troubles' <= MaxTroubles
    BY <1>0, <1>4, <1>b DEF ClaimExpires, Troubles, Stored
  <2> QED BY <1>0, <1>1, <1>4, <2>1 DEF ClaimExpires, Stored
<1>5. ASSUME NEW w \in Workers, NEW s \in Sessions, NEW i \in Chunks, SaveCheck(w, s, i) PROVE Typed'
  <2>1. [op |-> "chunk", sid |-> s, chunk |-> i, pc |-> "checked"] \in Jobs
    BY DEF Jobs
  <2>2. job' \in [Workers -> Jobs]
    BY <1>0, <1>5, <2>1 DEF SaveCheck
  <2>3. Troubles' <= MaxTroubles
    <3> HIDE DEF Sent
    <3>1. faults \in Nat /\ lapses \in Nat /\ MaxTroubles \in Nat /\ Cardinality(resent) + faults + lapses <= MaxTroubles
      BY <1>0 DEF Stored, Troubles
    <3>2. /\ UNCHANGED <<faults, lapses>>
          /\ resent' = resent \/ (s \notin resent /\ resent' = resent \cup {s} /\ Cardinality(resent) + faults + lapses < MaxTroubles)
      BY <1>5 DEF SaveCheck, Troubles
    <3> QED BY <1>b, <3>1, <3>2 DEF Troubles
  <2> QED BY <1>0, <1>1, <1>5, <2>2, <2>3 DEF SaveCheck, Stored
<1>6. ASSUME NEW w \in Workers, NEW s \in Sessions, CompleteFind(w, s) \/ AbortFind(w, s) PROVE Typed'
  <2>1. job' \in [Workers -> Jobs]
    BY <1>6, JobsType DEF CompleteFind, AbortFind
  <2> QED BY <1>0, <1>1, <1>6, <1>a, <2>1 DEF CompleteFind, AbortFind, Stored
<1>7. ASSUME NEW w \in Workers, Step(w) \/ CallFails(w) \/ Crash(w) PROVE Typed'
  <2>1. job' \in [Workers -> Jobs]
    <3>1. /\ Ends(w) => job' \in [Workers -> Jobs]
          /\ \A pc \in Pcs : job[w].op \in {"complete", "abort"} /\ Goes(w, pc) => job' \in [Workers -> Jobs]
          /\ \A pc \in {"open", "written"} : job[w].op = "chunk" /\ Goes(w, pc) => job' \in [Workers -> Jobs]
      BY JobsType
    <3>2. \/ Ends(w)
          \/ \E pc \in Pcs : job[w].op \in {"complete", "abort"} /\ Goes(w, pc)
          \/ \E pc \in {"open", "written"} : job[w].op = "chunk" /\ Goes(w, pc)
      BY <1>7 DEF Step, CallFails, Crash, SaveOpen, SaveWrite, SaveMark, CompleteCheck, Claim,
           ReserveQuota, Merge, Merged, Record, Sweep, Forget, Register, Refund, Unclaim, At, Pcs
    <3> QED BY <3>1, <3>2
  <2>2. ASSUME CallFails(w) \/ Crash(w) PROVE Typed'
    <3>1. Troubles' <= MaxTroubles
      BY <1>0, <1>b, <2>2 DEF CallFails, Crash, Troubles, Stored
    <3>2. /\ files' \in [Sessions -> Nat] /\ bytes' \in [Sessions -> Nat]
          /\ merged' \in [Workers -> Nat]
      <4>1. ASSUME Filing(w), Sid(w) \in Sessions PROVE files' \in [Sessions -> Nat] /\ bytes' \in [Sessions -> Nat]
        BY <1>0, <4>1, FilingType DEF Stored
      <4>2. /\ (Filing(w) /\ At(w, "complete", "merged")) \/ UNCHANGED <<files, bytes>>
            /\ UNCHANGED merged \/ merged' = [merged EXCEPT ![w] = 0]
        BY <2>2 DEF CallFails, Crash
      <4>3. At(w, "complete", "merged") => Sid(w) \in Sessions
        BY Busy DEF At
      <4> QED BY <1>0, <4>1, <4>2, <4>3 DEF Stored
    <3>3. /\ UNCHANGED <<session, received, part, claim, used, torn, resent, vanished, lapses>>
          /\ faults' = faults + 1
      BY <2>2 DEF CallFails, Crash
    <3> QED BY <1>0, <1>1, <2>1, <3>1, <3>2, <3>3 DEF Stored
  <2>3. ASSUME Step(w) PROVE Typed'
    <3>1. UNCHANGED <<resent, faults, lapses>> /\ job[w].op # "none"
      BY <2>3 DEF Step, SaveOpen, SaveWrite, SaveMark, CompleteCheck, Claim, ReserveQuota, Merge,
           Record, Sweep, Forget, Register, Refund, Unclaim, At
    <3>2. Sid(w) \in Sessions /\ (job[w].op = "chunk" => job[w].chunk \in Chunks)
      BY <3>1, Busy
    <3> HIDE DEF Sid
    <3>3. session' \in [Sessions -> {"none", "open", "gone"}] /\ received' \in [Sessions -> SUBSET Chunks]
      <4>1. \/ UNCHANGED <<session, received>>
            \/ session' = session /\ At(w, "chunk", "written")
                 /\ received' = [received EXCEPT ![Sid(w)] = @ \cup {job[w].chunk}]
            \/ session' = [session EXCEPT ![Sid(w)] = "gone"] /\ received' = [received EXCEPT ![Sid(w)] = {}]
        BY <2>3 DEF Step, SaveOpen, SaveWrite, SaveMark, CompleteCheck, Claim, ReserveQuota,
           Merge, Record, Sweep, Forget, Register, Refund, Unclaim
      <4>2. \A i \in Chunks : received[Sid(w)] \cup {i} \in SUBSET Chunks
        BY <1>0, <3>2 DEF Stored
      <4>3. session \in [Sessions -> {"none", "open", "gone"}] /\ received \in [Sessions -> SUBSET Chunks]
        BY <1>0 DEF Stored
      <4>4. At(w, "chunk", "written") => job[w].chunk \in Chunks
        BY <3>2 DEF At
      <4> QED BY <3>2, <4>1, <4>2, <4>3, <4>4
    <3>4. part' \in [Sessions -> [Chunks -> {"none", "torn", "whole"}]]
      <4>1. CASE SaveWrite(w)
        <5>1. job[w].op = "chunk" /\ job[w].chunk \in Chunks
          BY <3>2, <4>1 DEF SaveWrite, At
        <5>2. \/ UNCHANGED part
              \/ \E c \in {part[Sid(w)][job[w].chunk], "whole"} :
                    part' = [part EXCEPT ![Sid(w)][job[w].chunk] = c]
          BY <4>1 DEF SaveWrite
        <5>3. part \in [Sessions -> [Chunks -> {"none", "torn", "whole"}]]
          BY <1>0 DEF Stored
        <5> QED BY <3>2, <5>1, <5>2, <5>3
      <4>2. CASE ~SaveWrite(w)
        <5>1. \/ UNCHANGED part
              \/ job[w].op = "chunk" /\ part' = [part EXCEPT ![Sid(w)][job[w].chunk] = "torn"]
              \/ part' = [part EXCEPT ![Sid(w)] = [i \in Chunks |-> "none"]]
          BY <2>3, <4>2 DEF Step, SaveOpen, SaveMark, CompleteCheck, Claim, ReserveQuota,
             Merge, Record, Sweep, Forget, Register, Refund, Unclaim, At
        <5>2. part \in [Sessions -> [Chunks -> {"none", "torn", "whole"}]]
          BY <1>0 DEF Stored
        <5> QED BY <3>2, <5>1, <5>2
      <4> QED BY <4>1, <4>2
    <3>5. claim' \subseteq Sessions /\ torn' \subseteq Sessions /\ vanished' \subseteq Sessions
      BY <1>0, <2>3, <3>2 DEF Step, SaveOpen, SaveWrite, SaveMark, CompleteCheck, Claim, ReserveQuota,
           Merge, Merged, Record, Sweep, Forget, Register, Refund, Unclaim, At, Stored
    <3>7. /\ files' \in [Sessions -> Nat] /\ bytes' \in [Sessions -> Nat]
          /\ merged' \in [Workers -> Nat]
      <4>1. ASSUME Filing(w), Sid(w) \in Sessions PROVE files' \in [Sessions -> Nat] /\ bytes' \in [Sessions -> Nat]
        BY <1>0, <4>1, FilingType DEF Stored
      <4>2. Found(Sid(w)) \subseteq Nat
        BY <3>2 DEF Found
      <4>3. /\ Filing(w) \/ UNCHANGED <<files, bytes>>
            /\ UNCHANGED merged \/ \E n \in Found(Sid(w)) \cup {0} : merged' = [merged EXCEPT ![w] = n]
        BY <2>3 DEF Step, SaveOpen, SaveWrite, SaveMark, CompleteCheck, Claim, ReserveQuota,
           Merge, Merged, Record, Sweep, Forget, Register, Refund, Unclaim
      <4> QED BY <1>0, <3>2, <4>1, <4>2, <4>3 DEF Stored
    <3>6. used' \in Nat
      <4>1. used \in Nat /\ Size[Sid(w)] \in Nat
        BY <1>0, <3>2 DEF Stored
      <4>2. Max({used - Size[Sid(w)], 0}) \in Nat
        BY <4>1, MaxFacts
      <4>3. \/ used' = used
            \/ used' = used + Size[Sid(w)]
            \/ used' = Max({used - Size[Sid(w)], 0})
        BY <2>3 DEF Step, SaveOpen, SaveWrite, SaveMark, CompleteCheck, Claim, ReserveQuota, Merge,
           Record, Sweep, Forget, Register, Refund, Unclaim
      <4> QED BY <4>1, <4>2, <4>3
    <3> QED BY <1>0, <1>1, <1>a, <2>1, <3>1, <3>3, <3>4, <3>5, <3>6, <3>7 DEF Stored
  <2> QED BY <1>7, <2>2, <2>3
<1> QED BY <1>2, <1>3, <1>4, <1>5, <1>6, <1>7 DEF Next, Request

-----------------------------------------------------------------------------
(* What a worker's next statement does to its own job and to the others'.  *)
LEMMA GoesOn ==
  ASSUME Typed, NEW w \in Workers, NEW pc, Goes(w, pc)
  PROVE  /\ job'[w].op = job[w].op /\ Sid(w)' = Sid(w) /\ job'[w].chunk = job[w].chunk
         /\ job'[w].pc = pc
         /\ \A v \in Workers \ {w} : job'[v] = job[v]
<1>1. job[w] = [op |-> job[w].op, sid |-> job[w].sid, chunk |-> job[w].chunk, pc |-> job[w].pc]
  BY DEF Typed, Jobs, Idle
<1>2. job'[w] = [job[w] EXCEPT !.pc = pc] /\ \A v \in Workers \ {w} : job'[v] = job[v]
  BY DEF Typed, Goes
<1> QED BY <1>1, <1>2 DEF Sid

LEMMA EndsOrStarts ==
  ASSUME Typed, NEW w \in Workers
  PROVE  /\ Ends(w) => job'[w].op = "none" /\ \A v \in Workers \ {w} : job'[v] = job[v]
         /\ \A op, s, pc : Starts(w, op, s, pc) =>
              /\ job'[w].op = op /\ job'[w].pc = pc
              /\ \A v \in Workers \ {w} : job'[v] = job[v]
<1>1. ASSUME Ends(w) PROVE job'[w].op = "none" /\ \A v \in Workers \ {w} : job'[v] = job[v]
  BY <1>1 DEF Typed, Ends, Idle
<1>2. ASSUME NEW op, NEW s, NEW pc, Starts(w, op, s, pc)
      PROVE  /\ job'[w].op = op /\ job'[w].pc = pc
             /\ \A v \in Workers \ {w} : job'[v] = job[v]
  BY <1>2 DEF Typed, Starts, Idle
<1> QED BY <1>1, <1>2

-----------------------------------------------------------------------------
(* While nothing breaks and no claim expires, one completion of an upload  *)
(* at a time is past its claim, it has recorded nothing yet when it is     *)
(* about to, and the claim of what it recorded stays.                      *)
Committed == {"claimed", "reserved", "merged", "recorded", "swept", "forgotten", "failed", "refused"}
Filed == {"recorded", "swept", "forgotten"}
Claims(w) == job[w].op = "complete" /\ job[w].pc \in Committed

Alone ==
  /\ \A w \in Workers : Claims(w) => Sid(w) \in claim
  /\ \A v, w \in Workers : Claims(v) /\ Claims(w) /\ Sid(v) = Sid(w) => v = w
  /\ \A w \in Workers : Claims(w) /\ job[w].pc \notin Filed => files[Sid(w)] = 0
  /\ \A s \in Sessions : files[s] > 0 => s \in claim
  /\ \A s \in Sessions : files[s] <= 1

OneInv == faults = 0 /\ lapses = 0 => Alone

LEMMA InitOneInv == Init => OneInv
  BY DEF Init, OneInv, Alone, Claims, Idle

(* A step that records nothing, gives up no claim and lets nobody past one. *)
LEMMA AloneKept ==
  ASSUME Typed, Alone, files' = files, claim \subseteq claim',
         \A w \in Workers : Claims(w)' => Claims(w) /\ Sid(w)' = Sid(w)
                                         /\ (job[w].pc \in Filed => job'[w].pc \in Filed)
  PROVE  Alone'
<1>1. \A w \in Workers : Claims(w)' => Sid(w)' \in claim'
  BY DEF Alone
<1>2. \A v, w \in Workers : Claims(v)' /\ Claims(w)' /\ Sid(v)' = Sid(w)' => v = w
  BY DEF Alone
<1>3. \A w \in Workers : Claims(w)' /\ job'[w].pc \notin Filed => files'[Sid(w)'] = 0
  BY DEF Alone
<1> QED BY <1>1, <1>2, <1>3 DEF Alone

(* The same of a step of one worker that has no claim afterwards, or had   *)
(* it already.                                                             *)
LEMMA AloneStep ==
  ASSUME Typed, Alone, files' = files, claim \subseteq claim', NEW w \in Workers,
         \A v \in Workers \ {w} : job'[v] = job[v],
         Claims(w)' => Claims(w) /\ Sid(w)' = Sid(w)
                       /\ (job[w].pc \in Filed => job'[w].pc \in Filed)
  PROVE  Alone'
<1>1. \A v \in Workers \ {w} : (Claims(v)' <=> Claims(v)) /\ Sid(v)' = Sid(v)
  BY DEF Claims, Sid
<1> QED BY <1>1, AloneKept

(* set nx: who gets the claim is alone, and the upload is no file yet.     *)
LEMMA ClaimAlone ==
  ASSUME Typed, Alone, NEW w \in Workers, Claim(w) PROVE Alone'
<1>1. claim' = claim \cup {Sid(w)} /\ files' = files /\ job[w].op = "complete"
  BY DEF Claim, At
<1>2. CASE Sid(w) \in claim
  <2>1. job'[w].op = "none" /\ \A v \in Workers \ {w} : job'[v] = job[v]
    BY <1>2, EndsOrStarts DEF Claim
  <2> QED BY <1>1, <2>1, AloneStep DEF Claims
<1>3. CASE Sid(w) \notin claim
  <2>1. /\ Sid(w)' = Sid(w) /\ job'[w].pc = "claimed"
        /\ \A v \in Workers \ {w} : job'[v] = job[v]
    BY <1>3, GoesOn DEF Claim
  <2>2. \A v \in Workers \ {w} : (Claims(v)' <=> Claims(v)) /\ Sid(v)' = Sid(v)
    BY <2>1 DEF Claims, Sid
  <2>3. \A v \in Workers \ {w} : Claims(v)' => Sid(v) # Sid(w) /\ Sid(v) \in claim
    BY <1>3, <2>2 DEF Alone
  <2>4. Sid(w) \in Sessions /\ files[Sid(w)] \in Nat
    BY <1>1, Busy DEF Typed, TypeOK
  <2>5. files[Sid(w)] = 0
    BY <1>3, <2>4 DEF Alone
  <2>6. \A v \in Workers : Claims(v)' => Sid(v)' \in claim'
    BY <1>1, <2>1, <2>2, <2>3
  <2>7. \A u, v \in Workers : Claims(u)' /\ Claims(v)' /\ Sid(u)' = Sid(v)' => u = v
    BY <2>1, <2>2, <2>3 DEF Alone
  <2>8. \A v \in Workers : Claims(v)' /\ job'[v].pc \notin Filed => files'[Sid(v)'] = 0
    BY <1>1, <2>1, <2>2, <2>5 DEF Alone
  <2>9. \A s \in Sessions : (files'[s] > 0 => s \in claim') /\ files'[s] <= 1
    BY <1>1 DEF Alone
  <2> QED BY <2>6, <2>7, <2>8, <2>9 DEF Alone
<1> QED BY <1>2, <1>3

(* The record of the file.                                                 *)
LEMMA RecordAlone ==
  ASSUME Typed, Alone, NEW w \in Workers, Record(w) PROVE Alone'
<1>1. claim' = claim /\ job[w].op = "complete" /\ job[w].pc = "merged" /\ Claims(w)
  BY DEF Record, At, Claims, Committed
<1>2. CASE UNCHANGED files /\ Goes(w, "failed")
  <2>1. Sid(w)' = Sid(w) /\ \A v \in Workers \ {w} : job'[v] = job[v]
    BY <1>2, GoesOn
  <2> QED BY <1>1, <1>2, <2>1, AloneStep DEF Filed
<1>3. CASE files' = [files EXCEPT ![Sid(w)] = @ + 1] /\ Goes(w, "recorded")
  <2>1. /\ Sid(w)' = Sid(w) /\ job'[w].pc = "recorded" /\ Claims(w)'
        /\ \A v \in Workers \ {w} : job'[v] = job[v]
    BY <1>1, <1>3, GoesOn DEF Claims, Committed
  <2>2. \A v \in Workers \ {w} : (Claims(v)' <=> Claims(v)) /\ Sid(v)' = Sid(v)
    BY <2>1 DEF Claims, Sid
  <2>3. Sid(w) \in Sessions /\ files \in [Sessions -> Nat]
    BY <1>1, Busy DEF Typed, TypeOK
  <2>4. files[Sid(w)] = 0 /\ Sid(w) \in claim
    BY <1>1 DEF Alone, Filed
  <2>5. files'[Sid(w)] = 1 /\ \A s \in Sessions \ {Sid(w)} : files'[s] = files[s]
    BY <1>3, <2>3, <2>4
  <2>6. \A v \in Workers : Claims(v)' => Sid(v)' \in claim'
    BY <1>1, <2>1, <2>2, <2>4 DEF Alone
  <2>7. \A u, v \in Workers : Claims(u)' /\ Claims(v)' /\ Sid(u)' = Sid(v)' => u = v
    BY <1>1, <2>1, <2>2 DEF Alone
  <2>8. ASSUME NEW v \in Workers, Claims(v)', job'[v].pc \notin Filed PROVE files'[Sid(v)'] = 0
    <3>1. v # w
      BY <2>1, <2>8 DEF Filed
    <3>2. Claims(v) /\ Sid(v)' = Sid(v) /\ job[v].pc \notin Filed
      BY <2>1, <2>2, <2>8, <3>1
    <3>3. Sid(v) # Sid(w) /\ files[Sid(v)] = 0
      BY <1>1, <3>1, <3>2 DEF Alone
    <3>4. Sid(v) \in Sessions
      BY <3>2, Busy DEF Claims
    <3> QED BY <2>5, <3>2, <3>3, <3>4
  <2>9. \A s \in Sessions : (files'[s] > 0 => s \in claim') /\ files'[s] <= 1
    BY <1>1, <2>4, <2>5 DEF Alone
  <2> QED BY <2>6, <2>7, <2>8, <2>9 DEF Alone
<1> QED BY <1>2, <1>3 DEF Record, Filing

(* Who gives up its claim has recorded nothing.                            *)
LEMMA UnclaimAlone ==
  ASSUME Typed, Alone, NEW w \in Workers, Unclaim(w) PROVE Alone'
<1>1. /\ claim' = claim \ {Sid(w)} /\ files' = files
      /\ job[w].op = "complete" /\ job[w].pc = "refused" /\ Claims(w)
  BY DEF Unclaim, At, Claims, Committed
<1>2. job'[w].op = "none" /\ \A v \in Workers \ {w} : job'[v] = job[v]
  BY EndsOrStarts DEF Unclaim
<1>3. ~Claims(w)' /\ \A v \in Workers \ {w} : (Claims(v)' <=> Claims(v)) /\ Sid(v)' = Sid(v)
  BY <1>2 DEF Claims, Sid
<1>4. files[Sid(w)] = 0
  BY <1>1 DEF Alone, Filed
<1>5. \A v \in Workers : Claims(v)' => Sid(v)' \in claim'
  BY <1>1, <1>3 DEF Alone
<1>6. \A u, v \in Workers : Claims(u)' /\ Claims(v)' /\ Sid(u)' = Sid(v)' => u = v
  BY <1>3 DEF Alone
<1>7. \A v \in Workers : Claims(v)' /\ job'[v].pc \notin Filed => files'[Sid(v)'] = 0
  BY <1>1, <1>2, <1>3 DEF Alone
<1>8. \A s \in Sessions : (files'[s] > 0 => s \in claim') /\ files'[s] <= 1
  BY <1>1, <1>4 DEF Alone
<1> QED BY <1>5, <1>6, <1>7, <1>8 DEF Alone

LEMMA NextOneInv == Typed /\ OneInv /\ [Next]_vars => OneInv'
<1> SUFFICES ASSUME Typed, OneInv, [Next]_vars, faults' = 0, lapses' = 0 PROVE Alone'
  BY DEF OneInv
<1>1. faults \in Nat /\ lapses \in Nat
  BY DEF Typed, TypeOK
<1>2. CASE UNCHANGED <<job, files, claim, faults, lapses>>
  <2>1. \A w \in Workers : (Claims(w)' <=> Claims(w)) /\ Sid(w)' = Sid(w)
    BY <1>2 DEF Claims, Sid
  <2> QED BY <1>2, <2>1, AloneKept DEF OneInv
<1>3. ASSUME NEW s \in Sessions, ClaimExpires(s) PROVE FALSE
  BY <1>1, <1>3 DEF ClaimExpires
<1>4. ASSUME NEW w \in Workers, CallFails(w) \/ Crash(w) PROVE FALSE
  BY <1>1, <1>4 DEF CallFails, Crash
<1>5. ASSUME NEW w \in Workers, NEW s \in Sessions, Request(w, s) PROVE Alone'
  <2>1. UNCHANGED <<files, claim, faults, lapses>>
    BY <1>5 DEF Request, SaveCheck, CompleteFind, AbortFind
  <2>2. /\ job'[w].op = "chunk" \/ job'[w].pc = "found"
        /\ \A v \in Workers \ {w} : job'[v] = job[v]
    <3>1. ASSUME NEW i \in Chunks, SaveCheck(w, s, i)
          PROVE  job'[w].op = "chunk" /\ \A v \in Workers \ {w} : job'[v] = job[v]
      BY <3>1 DEF SaveCheck, Typed
    <3>2. ASSUME CompleteFind(w, s) \/ AbortFind(w, s)
          PROVE  job'[w].pc = "found" /\ \A v \in Workers \ {w} : job'[v] = job[v]
      BY <3>2, EndsOrStarts DEF CompleteFind, AbortFind
    <3> QED BY <1>5, <3>1, <3>2 DEF Request
  <2> QED BY <2>1, <2>2, AloneStep DEF OneInv, Claims, Committed
<1>6. ASSUME NEW w \in Workers, Step(w) PROVE Alone'
  <2>1. UNCHANGED <<faults, lapses>> /\ Alone
    <3>1. UNCHANGED <<faults, lapses>>
      BY <1>6 DEF Step, SaveOpen, SaveWrite, SaveMark, CompleteCheck, Claim, ReserveQuota, Merge,
           Record, Sweep, Forget, Register, Refund, Unclaim
    <3> QED BY <3>1 DEF OneInv
  <2>2. ASSUME Ends(w), UNCHANGED <<files, claim>> PROVE Alone'
    BY <2>1, <2>2, EndsOrStarts, AloneStep DEF Claims
  <2>3. ASSUME NEW pc, Goes(w, pc), UNCHANGED <<files, claim>>,
               pc \in Committed /\ job[w].op = "complete" =>
                 Claims(w) /\ (job[w].pc \in Filed => pc \in Filed)
        PROVE  Alone'
    BY <2>1, <2>3, GoesOn, AloneStep DEF Claims
  <2>4. CASE SaveOpen(w) \/ SaveWrite(w)
    BY <2>3, <2>4 DEF SaveOpen, SaveWrite, At
  <2>5. CASE SaveMark(w) \/ Register(w)
    BY <2>2, <2>5 DEF SaveMark, Register
  <2>6. CASE CompleteCheck(w)
    <3>1. "checked" \notin Committed
      BY DEF Committed
    <3> QED BY <2>2, <2>3, <2>6, <3>1 DEF CompleteCheck
  <2>7. CASE ReserveQuota(w) \/ Merge(w) \/ Refund(w)
    <3>1. Claims(w) /\ job[w].pc \notin Filed
      BY <2>7 DEF ReserveQuota, Merge, Refund, At, Claims, Committed, Filed
    <3> QED BY <2>3, <2>7, <3>1 DEF ReserveQuota, Merge, Merged, Refund
  <2>8. CASE Sweep(w)
    BY <2>3, <2>8 DEF Sweep, At, Claims, Committed, Filed
  <2>9. CASE Forget(w)
    BY <2>2, <2>3, <2>9 DEF Forget, At, Claims, Committed, Filed
  <2> QED BY <1>6, <2>1, <2>4, <2>5, <2>6, <2>7, <2>8, <2>9, ClaimAlone, RecordAlone, UnclaimAlone DEF Step
<1> QED BY <1>2, <1>3, <1>4, <1>5, <1>6 DEF Next, Begin, Clean, SessionExpires, vars

-----------------------------------------------------------------------------
(* The chunk files of an upload no chunk of which was sent twice: a chunk   *)
(* is written by one request, and whole once it is marked; and what is      *)
(* about to be merged is whole, or gone, if the completion that asked what  *)
(* was missing still saw the session.                                       *)
Handles(w, s, i) == job[w].op = "chunk" /\ Sid(w) = s /\ job[w].chunk = i

Arrived(s) == s \notin resent =>
  \A i \in Chunks :
    /\ \A v, w \in Workers : Handles(v, s, i) /\ Handles(w, s, i) => v = w
    /\ i \in received[s] => part[s][i] # "torn" /\ \A w \in Workers : ~Handles(w, s, i)
    /\ \A w \in Workers : Handles(w, s, i) /\ job[w].pc = "written" /\ session[s] # "gone"
                            => part[s][i] # "torn"

Past(w, s) == job[w].op = "complete" /\ Sid(w) = s /\ job[w].pc \in {"checked", "claimed", "reserved"}

Ready(s, i) ==
  /\ part[s][i] # "torn"
  /\ \A v \in Workers : ~Handles(v, s, i)
  /\ session[s] = "gone" \/ i \in received[s]

Asked(s) ==
  s \notin resent \cup vanished => \A w \in Workers : Past(w, s) => \A i \in Chunks : Ready(s, i)

PartsInv == (\A s \in Sessions : Arrived(s) /\ Asked(s)) /\ WholeFile

LEMMA InitPartsInv == Init => PartsInv
  BY DEF Init, PartsInv, Arrived, Asked, Past, Handles, WholeFile, Idle

(* A step that neither writes nor marks a chunk of s, nor begins to, and    *)
(* lets nobody past the question what is missing.                           *)
LEMMA PartsKept ==
  ASSUME NEW s \in Sessions, Arrived(s), Asked(s),
         resent \subseteq resent', vanished \subseteq vanished',
         session[s] = "gone" => session'[s] = "gone",
         \A i \in Chunks : part'[s][i] = part[s][i] \/ part'[s][i] = "none",
         received'[s] = received[s] \/ (received'[s] = {} /\ session'[s] = "gone"),
         \A w \in Workers : /\ \A i \in Chunks : Handles(w, s, i)' => Handles(w, s, i) /\ job'[w].pc = job[w].pc
                            /\ Past(w, s)' => Past(w, s)
  PROVE  Arrived(s)' /\ Asked(s)'
<1>1. ASSUME s \notin resent', NEW i \in Chunks
      PROVE  /\ \A v, w \in Workers : Handles(v, s, i)' /\ Handles(w, s, i)' => v = w
             /\ i \in received'[s] => part'[s][i] # "torn" /\ \A w \in Workers : ~Handles(w, s, i)'
             /\ \A w \in Workers : Handles(w, s, i)' /\ job'[w].pc = "written" /\ session'[s] # "gone"
                            => part'[s][i] # "torn"
  <2>1. s \notin resent
    BY <1>1
  <2>2. /\ \A v, w \in Workers : Handles(v, s, i) /\ Handles(w, s, i) => v = w
        /\ i \in received[s] => part[s][i] # "torn" /\ \A w \in Workers : ~Handles(w, s, i)
        /\ \A w \in Workers : Handles(w, s, i) /\ job[w].pc = "written" /\ session[s] # "gone"
                            => part[s][i] # "torn"
    BY <2>1 DEF Arrived
  <2> HIDE DEF Handles
  <2> QED BY <2>2
<1>2. ASSUME s \notin resent' \cup vanished', NEW w \in Workers, Past(w, s)', NEW i \in Chunks
      PROVE  Ready(s, i)'
  <2>1. Ready(s, i)
    BY <1>2 DEF Asked
  <2> QED BY <2>1 DEF Ready
<1> QED BY <1>1, <1>2 DEF Arrived, Asked

(* The uploads a worker's step is not about.                                *)
LEMMA OthersKept ==
  ASSUME NEW s \in Sessions, Arrived(s), Asked(s), NEW w \in Workers,
         \A v \in Workers \ {w} : job'[v] = job[v],
         \A i \in Chunks : ~Handles(w, s, i)', ~Past(w, s)',
         resent \subseteq resent', vanished \subseteq vanished',
         session'[s] = session[s], part'[s] = part[s], received'[s] = received[s]
  PROVE  Arrived(s)' /\ Asked(s)'
<1>1. \A v \in Workers \ {w} : /\ \A i \in Chunks : Handles(v, s, i)' => Handles(v, s, i) /\ job'[v].pc = job[v].pc
                               /\ Past(v, s)' => Past(v, s)
  BY DEF Handles, Past, Sid
<1>2. \A v \in Workers : /\ \A i \in Chunks : Handles(v, s, i)' => Handles(v, s, i) /\ job'[v].pc = job[v].pc
                         /\ Past(v, s)' => Past(v, s)
  BY <1>1
<1> QED BY <1>2, PartsKept

(* A chunk is sent: for the first time, or the upload is among the resent.  *)
LEMMA SaveCheckParts ==
  ASSUME Typed, PartsInv, NEW w \in Workers, NEW s \in Sessions, NEW i \in Chunks, SaveCheck(w, s, i),
         NEW t \in Sessions
  PROVE  Arrived(t)' /\ Asked(t)'
<1>1. /\ job' = [job EXCEPT ![w] = [op |-> "chunk", sid |-> s, chunk |-> i, pc |-> "checked"]]
      /\ session[s] = "open"
      /\ UNCHANGED <<session, received, part, vanished>>
      /\ resent \subseteq resent'
      /\ s \notin resent' => ~Sent(s, i)
  BY DEF SaveCheck
<1>2. /\ job'[w].op = "chunk" /\ Sid(w)' = s /\ job'[w].chunk = i /\ job'[w].pc = "checked"
      /\ \A v \in Workers \ {w} : job'[v] = job[v]
  BY <1>1 DEF Typed, Sid
<1>3. Arrived(t) /\ Asked(t)
  BY DEF PartsInv
<1>4. ~Past(w, t)'
  BY <1>2 DEF Past
<1>5. CASE t # s
  <2>1. \A k \in Chunks : ~Handles(w, t, k)'
    BY <1>2, <1>5 DEF Handles
  <2> QED BY <1>1, <1>2, <1>3, <1>4, <2>1, OthersKept
<1>6. CASE t = s
  <2>1. \A v \in Workers \ {w}, k \in Chunks :
           (Handles(v, s, k)' <=> Handles(v, s, k)) /\ (Past(v, s)' <=> Past(v, s))
    BY <1>2 DEF Handles, Past, Sid
  <2>2. \A k \in Chunks : Handles(w, s, k)' <=> k = i
    BY <1>2 DEF Handles
  <2>3. s \notin resent' => i \notin received[s] /\ \A v \in Workers : ~Handles(v, s, i)
    BY <1>1 DEF Sent, Handles
  <2>4. ASSUME s \notin resent', NEW k \in Chunks
        PROVE  /\ \A u, v \in Workers : Handles(u, s, k)' /\ Handles(v, s, k)' => u = v
               /\ k \in received'[s] => part'[s][k] # "torn" /\ \A v \in Workers : ~Handles(v, s, k)'
               /\ \A v \in Workers : Handles(v, s, k)' /\ job'[v].pc = "written" /\ session'[s] # "gone"
                            => part'[s][k] # "torn"
    <3>1. s \notin resent
      BY <1>1, <2>4
    <3>2. /\ \A u, v \in Workers : Handles(u, s, k) /\ Handles(v, s, k) => u = v
          /\ k \in received[s] => part[s][k] # "torn" /\ \A v \in Workers : ~Handles(v, s, k)
          /\ \A v \in Workers : Handles(v, s, k) /\ job[v].pc = "written" /\ session[s] # "gone"
                            => part[s][k] # "torn"
      BY <1>3, <1>6, <3>1 DEF Arrived
    <3> HIDE DEF Handles
    <3> QED BY <1>1, <1>2, <2>1, <2>2, <2>3, <2>4, <3>2
  <2>5. ASSUME s \notin resent' \cup vanished', NEW v \in Workers, Past(v, s)' PROVE FALSE
    <3>1. v # w /\ Past(v, s)
      BY <1>4, <1>6, <2>1, <2>5
    <3>2. Ready(s, i)
      BY <1>1, <1>3, <1>6, <2>5, <3>1 DEF Asked
    <3> QED BY <1>1, <2>3, <2>5, <3>2 DEF Ready
  <2> QED BY <1>6, <2>4, <2>5 DEF Arrived, Asked
<1> QED BY <1>5, <1>6

(* The chunk file is emptied, then filled: nobody else is at it, and it is  *)
(* not marked.                                                              *)
LEMMA WriteParts ==
  ASSUME Typed, PartsInv, NEW w \in Workers, SaveOpen(w) \/ SaveWrite(w), NEW t \in Sessions
  PROVE  Arrived(t)' /\ Asked(t)'
<1> DEFINE s == Sid(w)
           i == job[w].chunk
<1>0. Arrived(t) /\ Asked(t) /\ job[w].op = "chunk" /\ s \in Sessions /\ i \in Chunks /\ job \in [Workers -> Jobs]
      /\ part \in [Sessions -> [Chunks -> {"none", "torn", "whole"}]]
  BY Busy DEF PartsInv, SaveOpen, SaveWrite, At, Typed, TypeOK
<1>1. UNCHANGED <<session, received, resent, vanished>>
  BY DEF SaveOpen, SaveWrite
<1>2. /\ job'[w].op = "chunk" /\ Sid(w)' = Sid(w) /\ job'[w].chunk = job[w].chunk
      /\ \A v \in Workers \ {w} : job'[v] = job[v]
  BY <1>0, GoesOn DEF SaveOpen, SaveWrite
<1>3. \A v \in Workers, r \in Sessions, k \in Chunks :
         (Handles(v, r, k)' <=> Handles(v, r, k)) /\ (Past(v, r)' <=> Past(v, r))
  BY <1>0, <1>2 DEF Handles, Past, Sid
<1>4. \A r \in Sessions, k \in Chunks : r # s \/ k # i => part'[r][k] = part[r][k]
  BY <1>0 DEF SaveOpen, SaveWrite
<1>5. Handles(w, s, i) /\ \A r \in Sessions, k \in Chunks : Handles(w, r, k) => r = s /\ k = i
  BY <1>0 DEF Handles
<1>6. ASSUME t \notin resent', NEW k \in Chunks
      PROVE  /\ \A u, v \in Workers : Handles(u, t, k)' /\ Handles(v, t, k)' => u = v
             /\ k \in received'[t] => part'[t][k] # "torn" /\ \A v \in Workers : ~Handles(v, t, k)'
             /\ \A v \in Workers : Handles(v, t, k)' /\ job'[v].pc = "written" /\ session'[t] # "gone"
                            => part'[t][k] # "torn"
  <2>1. /\ \A u, v \in Workers : Handles(u, t, k) /\ Handles(v, t, k) => u = v
        /\ k \in received[t] => part[t][k] # "torn" /\ \A v \in Workers : ~Handles(v, t, k)
        /\ \A v \in Workers : Handles(v, t, k) /\ job[v].pc = "written" /\ session[t] # "gone"
                            => part[t][k] # "torn"
    BY <1>0, <1>1, <1>6 DEF Arrived
  <2> HIDE DEF Handles
  <2>2. \A u, v \in Workers : Handles(u, t, k)' /\ Handles(v, t, k)' => u = v
    BY <1>3, <2>1
  <2>3. k \in received'[t] => part'[t][k] # "torn" /\ \A v \in Workers : ~Handles(v, t, k)'
    BY <1>1, <1>3, <1>4, <1>5, <2>1
  <2>4. ASSUME NEW v \in Workers, Handles(v, t, k)', job'[v].pc = "written", session'[t] # "gone"
        PROVE  part'[t][k] # "torn"
    <3>1. CASE v # w
      <4>1. ~Handles(w, t, k)
        BY <1>3, <2>1, <2>4, <3>1
      <4>2. part'[t][k] = part[t][k]
        BY <1>4, <1>5, <4>1
      <4> QED BY <1>1, <1>2, <1>3, <2>1, <2>4, <3>1, <4>2
    <3>2. CASE v = w
      <4>1. t = s /\ k = i /\ SaveWrite(w)
        <5>1. SaveOpen(w) => job'[w].pc = "open"
          BY GoesOn DEF SaveOpen
        <5> QED BY <1>3, <1>5, <2>4, <3>2, <5>1
      <4>2. ~ \E u \in Workers \ {w} : Writing(u, s, i)
        BY <1>5, <2>1, <4>1 DEF Writing, At, Handles
      <4>3. (part[s][i] = "none" /\ part' = part) \/ part' = [part EXCEPT ![s][i] = "whole"]
        BY <1>1, <2>4, <4>1, <4>2 DEF SaveWrite
      <4> QED BY <1>0, <4>1, <4>3
    <3> QED BY <3>1, <3>2
  <2> QED BY <2>2, <2>3, <2>4
<1>7. ASSUME t \notin resent' \cup vanished', NEW v \in Workers, Past(v, t)', NEW k \in Chunks
      PROVE  Ready(t, k)'
  <2>1. \A j \in Chunks : Ready(t, j)
    BY <1>0, <1>1, <1>3, <1>7 DEF Asked
  <2>2. t # s
    BY <1>0, <1>5, <2>1 DEF Ready
  <2> QED BY <1>0, <1>1, <1>3, <1>4, <2>1, <2>2 DEF Ready
<1> QED BY <1>6, <1>7 DEF Arrived, Asked

(* The chunk is marked, if the session is still there.                      *)
LEMMA MarkParts ==
  ASSUME Typed, PartsInv, NEW w \in Workers, SaveMark(w), NEW t \in Sessions
  PROVE  Arrived(t)' /\ Asked(t)'
<1> DEFINE s == Sid(w)
           i == job[w].chunk
<1>0. /\ Arrived(t) /\ Asked(t) /\ job[w].op = "chunk" /\ job[w].pc = "written"
      /\ s \in Sessions /\ i \in Chunks /\ received \in [Sessions -> SUBSET Chunks]
  BY Busy DEF PartsInv, SaveMark, At, Typed, TypeOK
<1>1. UNCHANGED <<session, part, resent, vanished>>
  BY DEF SaveMark
<1>2. job'[w].op = "none" /\ \A v \in Workers \ {w} : job'[v] = job[v]
  BY EndsOrStarts DEF SaveMark
<1>3. \A v \in Workers : /\ \A k \in Chunks : Handles(v, t, k)' => v # w /\ Handles(v, t, k) /\ job'[v].pc = job[v].pc
                         /\ Past(v, t)' => Past(v, t)
  BY <1>2 DEF Handles, Past, Sid
<1>4. CASE t # s \/ session[s] # "open"
  <2>1. received'[t] = received[t]
    BY <1>0, <1>4 DEF SaveMark
  <2> QED BY <1>0, <1>1, <1>3, <2>1, PartsKept
<1>5. CASE t = s /\ session[s] = "open"
  <2>1. received'[t] = received[t] \cup {i} /\ Handles(w, t, i)
    BY <1>0, <1>5 DEF SaveMark, Handles
  <2>2. ASSUME t \notin resent', NEW k \in Chunks
        PROVE  /\ \A u, v \in Workers : Handles(u, t, k)' /\ Handles(v, t, k)' => u = v
               /\ k \in received'[t] => part'[t][k] # "torn" /\ \A v \in Workers : ~Handles(v, t, k)'
               /\ \A v \in Workers : Handles(v, t, k)' /\ job'[v].pc = "written" /\ session'[t] # "gone"
                            => part'[t][k] # "torn"
    <3>1. /\ \A u, v \in Workers : Handles(u, t, k) /\ Handles(v, t, k) => u = v
          /\ k \in received[t] => part[t][k] # "torn" /\ \A v \in Workers : ~Handles(v, t, k)
          /\ \A v \in Workers : Handles(v, t, k) /\ job[v].pc = "written" /\ session[t] # "gone"
                            => part[t][k] # "torn"
      BY <1>0, <1>1, <2>2 DEF Arrived
    <3> HIDE DEF Handles, s, i
    <3>2. k = i => part[t][k] # "torn" /\ \A v \in Workers : ~Handles(v, t, k)'
      BY <1>0, <1>3, <1>5, <2>1, <3>1
    <3> QED BY <1>1, <1>3, <2>1, <3>1, <3>2
  <2>3. ASSUME t \notin resent' \cup vanished', NEW v \in Workers, Past(v, t)' PROVE FALSE
    <3>1. Ready(t, i)
      BY <1>0, <1>1, <1>3, <2>3 DEF Asked
    <3> QED BY <2>1, <3>1 DEF Ready
  <2> QED BY <2>2, <2>3 DEF Arrived, Asked
<1> QED BY <1>4, <1>5

(* uploaded_chunks: all chunks are marked, or the session is gone.          *)
LEMMA CheckParts ==
  ASSUME Typed, PartsInv, NEW w \in Workers, CompleteCheck(w), NEW t \in Sessions
  PROVE  Arrived(t)' /\ Asked(t)'
<1>0. Arrived(t) /\ Asked(t) /\ job[w].op = "complete" /\ job[w].pc = "found" /\ Sid(w) \in Sessions
  BY Busy DEF PartsInv, CompleteCheck, At
<1>1. UNCHANGED <<session, received, part, resent>> /\ vanished \subseteq vanished'
  BY DEF CompleteCheck
<1>2. /\ job'[w].op = "complete" => Sid(w)' = Sid(w) /\ Missing(Sid(w)) = {}
      /\ job'[w].op \in {"complete", "none"}
      /\ \A v \in Workers \ {w} : job'[v] = job[v]
  BY <1>0, GoesOn, EndsOrStarts DEF CompleteCheck
<1>3. /\ \A v \in Workers, k \in Chunks : Handles(v, t, k)' => v # w /\ Handles(v, t, k) /\ job'[v].pc = job[v].pc
      /\ \A v \in Workers \ {w} : Past(v, t)' => Past(v, t)
      /\ \A v \in Workers, k \in Chunks : Handles(v, t, k)' <=> Handles(v, t, k)
  BY <1>0, <1>2 DEF Handles, Past, Sid
<1>4. CASE ~Past(w, t)'
  BY <1>0, <1>1, <1>3, <1>4, PartsKept
<1>5. CASE Past(w, t)'
  <2>1. t = Sid(w) /\ Missing(t) = {}
    BY <1>2, <1>5 DEF Past
  <2>2. Arrived(t)'
    <3>1. ASSUME NEW k \in Chunks, t \notin resent
          PROVE  /\ \A u, v \in Workers : Handles(u, t, k)' /\ Handles(v, t, k)' => u = v
                 /\ k \in received'[t] => part'[t][k] # "torn" /\ \A v \in Workers : ~Handles(v, t, k)'
                 /\ \A v \in Workers : Handles(v, t, k)' /\ job'[v].pc = "written" /\ session'[t] # "gone"
                            => part'[t][k] # "torn"
      <4>1. /\ \A u, v \in Workers : Handles(u, t, k) /\ Handles(v, t, k) => u = v
            /\ k \in received[t] => part[t][k] # "torn" /\ \A v \in Workers : ~Handles(v, t, k)
            /\ \A v \in Workers : Handles(v, t, k) /\ job[v].pc = "written" /\ session[t] # "gone"
                            => part[t][k] # "torn"
        BY <1>0, <3>1 DEF Arrived
      <4> HIDE DEF Handles
      <4> QED BY <1>1, <1>3, <4>1
    <3> QED BY <1>1, <3>1 DEF Arrived
  <2>3. ASSUME t \notin resent' \cup vanished', NEW k \in Chunks PROVE Ready(t, k)'
    <3>1. session[t] = "open"
      BY <2>1, <2>3 DEF CompleteCheck
    <3>2. k \in received[t]
      BY <2>1, <3>1 DEF Missing
    <3>3. part[t][k] # "torn" /\ \A v \in Workers : ~Handles(v, t, k)
      BY <1>0, <1>1, <2>3, <3>2 DEF Arrived
    <3> QED BY <1>1, <1>3, <3>2, <3>3 DEF Ready
  <2> QED BY <2>2, <2>3 DEF Asked
<1> QED BY <1>4, <1>5

LEMMA NextPartsInv == Typed /\ PartsInv /\ [Next]_vars => PartsInv'
<1> SUFFICES ASSUME Typed, PartsInv, [Next]_vars PROVE PartsInv'
  OBVIOUS
<1>0. /\ \A s \in Sessions : Arrived(s) /\ Asked(s)
      /\ part \in [Sessions -> [Chunks -> {"none", "torn", "whole"}]]
      /\ session \in [Sessions -> {"none", "open", "gone"}]
      /\ received \in [Sessions -> SUBSET Chunks]
  BY DEF PartsInv, Typed, TypeOK
(* What is merged is whole. *)
<1>1. WholeFile'
  <2>1. CASE torn' = torn
    <3>1. resent \subseteq resent' /\ vanished \subseteq vanished'
      BY DEF Next, vars, Begin, Clean, SessionExpires, ClaimExpires, Request, SaveCheck, CompleteFind,
         AbortFind, Step, SaveOpen, SaveWrite, SaveMark, CompleteCheck, Claim, ReserveQuota, Merge,
         Record, Sweep, Forget, Register, Refund, Unclaim, CallFails, Crash
    <3> QED BY <2>1, <3>1 DEF PartsInv, WholeFile
  <2>2. ASSUME NEW w \in Workers, Merge(w), torn' # torn PROVE WholeFile'
    <3>1. /\ torn' = torn \cup {Sid(w)} /\ UNCHANGED <<resent, vanished>>
          /\ \A i \in Chunks : part[Sid(w)][i] # "none"
          /\ ~ \A i \in Chunks : part[Sid(w)][i] = "whole"
      BY <2>2 DEF Merge, Merged, WholeParts
    <3>2. Past(w, Sid(w)) /\ Sid(w) \in Sessions
      BY <2>2, Busy DEF Merge, At, Past
    <3>3. PICK i \in Chunks : part[Sid(w)][i] = "torn"
      BY <1>0, <3>1, <3>2
    <3>4. ~Ready(Sid(w), i)
      BY <3>3 DEF Ready
    <3>5. Sid(w) \in resent \cup vanished
      BY <1>0, <3>2, <3>4 DEF Asked
    <3> QED BY <3>1, <3>5 DEF PartsInv, WholeFile
  <2>3. torn' = torn \/ \E w \in Workers : Merge(w)
    BY DEF Next, vars, Begin, Clean, SessionExpires, ClaimExpires, Request, SaveCheck, CompleteFind,
         AbortFind, Step, SaveOpen, SaveWrite, SaveMark, CompleteCheck, Claim, ReserveQuota,
         Record, Sweep, Forget, Register, Refund, Unclaim, CallFails, Crash
  <2> QED BY <2>1, <2>2, <2>3
<1>2. ASSUME NEW t \in Sessions PROVE Arrived(t)' /\ Asked(t)'
  <2>1. ASSUME UNCHANGED <<resent, vanished, job>>,
               session[t] = "gone" => session'[t] = "gone",
               \A i \in Chunks : part'[t][i] = part[t][i] \/ part'[t][i] = "none",
               received' = received
        PROVE  Arrived(t)' /\ Asked(t)'
    <3>1. \A w \in Workers : /\ \A i \in Chunks : Handles(w, t, i)' => Handles(w, t, i) /\ job'[w].pc = job[w].pc
                             /\ Past(w, t)' => Past(w, t)
      BY <2>1 DEF Handles, Past, Sid
    <3> QED BY <1>0, <2>1, <3>1, PartsKept
  <2>2. CASE UNCHANGED vars
    BY <2>1, <2>2 DEF vars
  <2>3. ASSUME NEW s \in Sessions, Begin(s) \/ Clean(s) \/ SessionExpires(s) \/ ClaimExpires(s)
        PROVE  Arrived(t)' /\ Asked(t)'
    <3>1. UNCHANGED <<resent, vanished, job, received>>
      BY <2>3 DEF Begin, Clean, SessionExpires, ClaimExpires
    <3>2. session[t] = "gone" => session'[t] = "gone"
      BY <1>0, <2>3 DEF Begin, Clean, SessionExpires, ClaimExpires
    <3>3. \A i \in Chunks : part'[t][i] = part[t][i] \/ part'[t][i] = "none"
      BY <1>0, <2>3 DEF Begin, Clean, SessionExpires, ClaimExpires
    <3> QED BY <2>1, <3>1, <3>2, <3>3
  <2>4. ASSUME NEW w \in Workers, ~Past(w, t)' \/ Past(w, t),
               \A i \in Chunks : ~Handles(w, t, i)',
               \A v \in Workers \ {w} : job'[v] = job[v],
               UNCHANGED <<resent, vanished>>,
               session[t] = "gone" => session'[t] = "gone",
               \A i \in Chunks : part'[t][i] = part[t][i] \/ part'[t][i] = "none",
               received'[t] = received[t] \/ (received'[t] = {} /\ session'[t] = "gone")
        PROVE  Arrived(t)' /\ Asked(t)'
    <3>1. \A v \in Workers \ {w} : /\ \A i \in Chunks : Handles(v, t, i)' => Handles(v, t, i) /\ job'[v].pc = job[v].pc
                                   /\ Past(v, t)' => Past(v, t)
      BY <2>4 DEF Handles, Past, Sid
    <3>2. \A v \in Workers : /\ \A i \in Chunks : Handles(v, t, i)' => Handles(v, t, i) /\ job'[v].pc = job[v].pc
                             /\ Past(v, t)' => Past(v, t)
      BY <2>4, <3>1
    <3> QED BY <1>0, <2>4, <3>2, PartsKept
  <2>5. ASSUME NEW w \in Workers, NEW s \in Sessions, CompleteFind(w, s) \/ AbortFind(w, s)
        PROVE  Arrived(t)' /\ Asked(t)'
    <3>1. /\ job'[w].op \in {"complete", "abort"} /\ job'[w].pc = "found"
          /\ \A v \in Workers \ {w} : job'[v] = job[v]
      BY <2>5, EndsOrStarts DEF CompleteFind, AbortFind
    <3>2. ~Past(w, t)' /\ \A i \in Chunks : ~Handles(w, t, i)'
      BY <3>1 DEF Past, Handles
    <3> QED BY <2>4, <2>5, <3>1, <3>2 DEF CompleteFind, AbortFind
  <2>6. ASSUME NEW w \in Workers, CallFails(w) \/ Crash(w) PROVE Arrived(t)' /\ Asked(t)'
    <3>1. /\ \/ job'[w].op = "none"
             \/ job'[w].op = "complete" /\ job'[w].pc \in {"failed", "refused"}
          /\ \A v \in Workers \ {w} : job'[v] = job[v]
      BY <2>6, GoesOn, EndsOrStarts DEF CallFails, Crash, At
    <3>2. ~Past(w, t)' /\ \A i \in Chunks : ~Handles(w, t, i)'
      BY <3>1 DEF Past, Handles
    <3> QED BY <2>4, <2>6, <3>1, <3>2 DEF CallFails, Crash
  <2>7. ASSUME NEW w \in Workers,
               Claim(w) \/ ReserveQuota(w) \/ Merge(w) \/ Record(w) \/ Register(w) \/ Refund(w) \/ Unclaim(w)
        PROVE  Arrived(t)' /\ Asked(t)'
    <3>1. job[w].op = "complete" /\ UNCHANGED <<session, part, received, resent, vanished>>
      BY <2>7 DEF Claim, ReserveQuota, Merge, Record, Register, Refund, Unclaim, At
    <3>2. \/ Ends(w)
          \/ \E pc \in {"claimed", "reserved"} : Goes(w, pc) /\ job[w].pc \in {"checked", "claimed"}
          \/ \E pc \in {"merged", "recorded", "failed", "refused"} : Goes(w, pc)
      BY <2>7 DEF Claim, ReserveQuota, Merge, Merged, Record, Register, Refund, Unclaim, At
    <3>3. \/ job'[w].op = "none"
          \/ /\ job'[w].op = "complete" /\ Sid(w)' = Sid(w)
             /\ \/ job'[w].pc \in {"claimed", "reserved"} /\ job[w].pc \in {"checked", "claimed"}
                \/ job'[w].pc \in {"merged", "recorded", "failed", "refused"}
      BY <3>1, <3>2, GoesOn, EndsOrStarts
    <3>4. \A v \in Workers \ {w} : job'[v] = job[v]
      BY <3>2, GoesOn, EndsOrStarts
    <3>5. (~Past(w, t)' \/ Past(w, t)) /\ \A i \in Chunks : ~Handles(w, t, i)'
      BY <3>1, <3>3 DEF Past, Handles
    <3> QED BY <2>4, <3>1, <3>4, <3>5
  <2>8. ASSUME NEW w \in Workers, Sweep(w) \/ Forget(w) PROVE Arrived(t)' /\ Asked(t)'
    <3>1. /\ job'[w].op # "chunk" /\ job'[w].pc \notin {"checked", "claimed", "reserved"}
          /\ \A v \in Workers \ {w} : job'[v] = job[v]
      <4>1. ASSUME Goes(w, "swept") \/ Goes(w, "forgotten")
            PROVE  /\ job'[w].op # "chunk" /\ job'[w].pc \notin {"checked", "claimed", "reserved"}
                   /\ \A v \in Workers \ {w} : job'[v] = job[v]
        <5>1. job[w].op # "chunk"
          BY <2>8 DEF Sweep, Forget, At
        <5> QED BY <4>1, <5>1, GoesOn
      <4>2. ASSUME Ends(w)
            PROVE  /\ job'[w].op # "chunk" /\ job'[w].pc \notin {"checked", "claimed", "reserved"}
                   /\ \A v \in Workers \ {w} : job'[v] = job[v]
        BY <4>2 DEF Ends, Idle, Typed
      <4> QED BY <2>8, <4>1, <4>2 DEF Sweep, Forget
    <3>2. ~Past(w, t)' /\ \A i \in Chunks : ~Handles(w, t, i)'
      BY <3>1 DEF Past, Handles
    <3>3. /\ UNCHANGED <<resent, vanished>>
          /\ session[t] = "gone" => session'[t] = "gone"
          /\ received'[t] = received[t] \/ (received'[t] = {} /\ session'[t] = "gone")
      BY <1>0, <2>8 DEF Sweep, Forget
    <3>4. \A i \in Chunks : part'[t][i] = part[t][i] \/ part'[t][i] = "none"
      BY <1>0, <2>8 DEF Sweep, Forget
    <3> QED BY <2>4, <3>1, <3>2, <3>3, <3>4
  <2> QED
    BY <2>2, <2>3, <2>5, <2>6, <2>7, <2>8, SaveCheckParts, WriteParts, MarkParts, CheckParts
    DEF Next, Request, Step
<1> QED BY <1>1, <1>2 DEF PartsInv

-----------------------------------------------------------------------------
(* The room for the last frames is never given away.                       *)
LEMMA NextWithinQuota == Typed /\ WithinQuota /\ [Next]_vars => WithinQuota'
<1> SUFFICES ASSUME Typed, WithinQuota, [Next]_vars, used' # 0 PROVE used' + Reserve <= Quota
  BY DEF WithinQuota
<1>1. used \in Nat
  BY DEF Typed, TypeOK
<1>2. CASE used' = used
  BY <1>2 DEF WithinQuota
<1>3. ASSUME NEW w \in Workers, ReserveQuota(w), used' # used PROVE used' + Reserve <= Quota
  <2>1. Size[Sid(w)] \in Nat
    BY <1>3, Busy DEF ReserveQuota, At
  <2> QED BY <1>1, <1>3, <2>1 DEF ReserveQuota
<1>4. ASSUME NEW w \in Workers, Refund(w) PROVE used' + Reserve <= Quota
  <2>1. Size[Sid(w)] \in Nat
    BY <1>4, Busy DEF Refund, At
  <2>2. used' = IF used - Size[Sid(w)] >= 0 THEN used - Size[Sid(w)] ELSE 0
    BY <1>1, <1>4, <2>1, MaxFacts DEF Refund
  <2>3. used + Reserve <= Quota
    BY <1>1, <2>1, <2>2 DEF WithinQuota
  <2> QED BY <1>1, <2>1, <2>2, <2>3
<1>5. used' = used \/ \E w \in Workers : ReserveQuota(w) \/ Refund(w)
  BY DEF Next, vars, Begin, Clean, SessionExpires, ClaimExpires, Request, SaveCheck, CompleteFind,
     AbortFind, Step, SaveOpen, SaveWrite, SaveMark, CompleteCheck, Claim, Merge,
     Record, Sweep, Forget, Register, Unclaim, CallFails, Crash
<1> QED BY <1>2, <1>3, <1>4, <1>5

-----------------------------------------------------------------------------
(* What the quota is made of: QuotaExplained, as sums of functions.        *)
InFiles == [s \in Sessions |-> files[s] * Size[s]]
InHand == [w \in Workers |-> Size[Sid(w)]]

OnFile == SumOf(InFiles, Sessions)
Reserved == SumOf(InHand, Holding)

QuotaInv == faults = 0 => used = OnFile + Reserved

(* The sums QuotaExplained speaks of.                                      *)
LEMMA FileSum == MapThenSumSet(LAMBDA s : files[s] * Size[s], Sessions) = OnFile
<1> DEFINE Sums(g) ==
             g = [x \in SUBSET Sessions |->
                    IF x = {} THEN 0 ELSE files[First(x)] * Size[First(x)] + g[x \ {First(x)}]]
<1>1. ASSUME NEW x \in SUBSET Sessions, x # {}
      PROVE  InFiles[First(x)] = files[First(x)] * Size[First(x)]
  BY <1>1 DEF First, InFiles
<1>2. \A g : Adds(g, InFiles, Sessions) <=> Sums(g)
  BY <1>1 DEF Adds
<1>3. PICK g : g = CHOOSE h : Sums(h)
  OBVIOUS
<1>4. MapThenSumSet(LAMBDA s : files[s] * Size[s], Sessions) = g[Sessions]
  BY <1>3 DEF First, MapThenSumSet, MapThenFoldSet
<1>5. \E h : Adds(h, InFiles, Sessions)
  BY AddsExists
<1>6. Adds(g, InFiles, Sessions)
  <2> HIDE DEF Sums
  <2> QED BY <1>2, <1>3, <1>5
<1> QED BY <1>4, <1>6, SumOfAdds DEF OnFile

LEMMA HandSum == MapThenSumSet(LAMBDA w : Size[Sid(w)], Holding) = Reserved
<1> DEFINE Sums(g) ==
             g = [x \in SUBSET Holding |->
                    IF x = {} THEN 0 ELSE Size[Sid(First(x))] + g[x \ {First(x)}]]
<1>0. Holding \subseteq Workers /\ IsFiniteSet(Holding)
  BY FS_Subset DEF Holding
<1> HIDE DEF Holding
<1>1. ASSUME NEW x \in SUBSET Holding, x # {} PROVE InHand[First(x)] = Size[Sid(First(x))]
  <2>1. First(x) \in Workers
    BY <1>0, <1>1 DEF First
  <2> QED BY <2>1 DEF InHand
<1>2. \A g : Adds(g, InHand, Holding) <=> Sums(g)
  BY <1>1 DEF Adds
<1>3. PICK g : g = CHOOSE h : Sums(h)
  OBVIOUS
<1>4. MapThenSumSet(LAMBDA w : Size[Sid(w)], Holding) = g[Holding]
  BY <1>3 DEF First, MapThenSumSet, MapThenFoldSet
<1>5. \E h : Adds(h, InHand, Holding)
  BY <1>0, AddsExists
<1>6. Adds(g, InHand, Holding)
  <2> HIDE DEF Sums
  <2> QED BY <1>2, <1>3, <1>5
<1> QED BY <1>0, <1>4, <1>6, SumOfAdds DEF Reserved

(* What the completions hold.                                              *)
LEMMA HoldingFacts ==
  ASSUME Typed
  PROVE  /\ IsFiniteSet(Holding) /\ Holding \subseteq Workers
         /\ \A w \in Holding : InHand[w] \in Nat /\ Sid(w) \in Sessions
         /\ Numbers(InHand, Holding)
         /\ Reserved \in Nat /\ OnFile \in Nat
         /\ Numbers(InFiles, Sessions)
<1>1. Holding \subseteq Workers /\ IsFiniteSet(Holding)
  BY FS_Subset DEF Holding
<1>2. ASSUME NEW w \in Holding PROVE InHand[w] \in Nat /\ Sid(w) \in Sessions
  <2>1. w \in Workers /\ job[w].op = "complete"
    BY DEF Holding, At
  <2>2. Sid(w) \in Sessions
    BY <2>1, Busy
  <2> QED BY <2>1, <2>2 DEF InHand
<1>3. ASSUME NEW s \in Sessions PROVE InFiles[s] \in Nat
  <2>1. files[s] \in Nat /\ Size[s] \in Nat
    BY DEF Typed, TypeOK
  <2>2. \A m, n \in Nat : m * n \in Nat
    OBVIOUS
  <2> QED BY <2>1, <2>2 DEF InFiles
<1>4. Numbers(InHand, Holding) /\ Numbers(InFiles, Sessions)
  BY <1>2, <1>3 DEF Numbers
<1>5. Reserved \in Nat /\ OnFile \in Nat
  BY <1>1, <1>2, <1>3, SumNat DEF Reserved, OnFile
<1> QED BY <1>1, <1>2, <1>4, <1>5

(* A completion that takes its bytes, goes on with them, and lets them go. *)
LEMMA HandsKept ==
  ASSUME Typed, Holding' = Holding, \A w \in Holding : Sid(w)' = Sid(w)
  PROVE  Reserved' = Reserved
<1>1. \A w \in Holding : InHand'[w] = InHand[w]
  BY HoldingFacts DEF InHand
<1>2. SumOf(InHand', Holding) = SumOf(InHand, Holding)
  BY <1>1, HoldingFacts, SumSame
<1> QED BY <1>2 DEF Reserved

LEMMA HandsGain ==
  ASSUME Typed, NEW w \in Workers, w \notin Holding, Holding' = Holding \cup {w}, Sid(w) \in Sessions,
         \A v \in Holding \cup {w} : Sid(v)' = Sid(v)
  PROVE  Reserved' = Reserved + Size[Sid(w)]
<1>1. \A v \in Holding \cup {w} : InHand'[v] = InHand[v]
  BY HoldingFacts DEF InHand
<1>2. InHand[w] = Size[Sid(w)] /\ InHand[w] \in Int
  BY DEF InHand
<1>3. IsFiniteSet(Holding \cup {w})
  BY HoldingFacts, FS_AddElement
<1>4. SumOf(InHand', Holding \cup {w}) = SumOf(InHand, Holding \cup {w})
  BY <1>1, <1>3, SumSame
<1>5. SumOf(InHand, Holding \cup {w}) = InHand[w] + SumOf(InHand, Holding)
  BY <1>2, HoldingFacts, SumAdd
<1>6. Reserved' = InHand[w] + Reserved
  BY <1>4, <1>5 DEF Reserved
<1> QED BY <1>2, <1>6, HoldingFacts

LEMMA HandsLose ==
  ASSUME Typed, NEW w \in Holding, Holding' = Holding \ {w},
         \A v \in Holding \ {w} : Sid(v)' = Sid(v)
  PROVE  Reserved' = Reserved - Size[Sid(w)] /\ Reserved >= Size[Sid(w)]
<1>1. \A v \in Holding \ {w} : InHand'[v] = InHand[v]
  BY HoldingFacts DEF InHand
<1>2. InHand[w] = Size[Sid(w)] /\ InHand[w] \in Nat
  BY HoldingFacts DEF InHand
<1>3. IsFiniteSet(Holding \ {w})
  BY HoldingFacts, FS_RemoveElement
<1>4. SumOf(InHand', Holding \ {w}) = SumOf(InHand, Holding \ {w})
  BY <1>1, <1>3, SumSame
<1>5. SumOf(InHand, Holding) = InHand[w] + SumOf(InHand, Holding \ {w})
  BY HoldingFacts, SumRemove
<1>6. SumOf(InHand, Holding \ {w}) \in Nat
  BY <1>3, HoldingFacts, SumNat
<1>7. Reserved' = SumOf(InHand, Holding \ {w}) /\ Reserved = InHand[w] + SumOf(InHand, Holding \ {w})
  BY <1>4, <1>5 DEF Reserved
<1> QED BY <1>2, <1>6, <1>7

(* One more file of an upload.                                             *)
LEMMA FilesGain ==
  ASSUME Typed, NEW s \in Sessions, files' = [files EXCEPT ![s] = @ + 1]
  PROVE  OnFile' = OnFile + Size[s]
<1>1. files \in [Sessions -> Nat] /\ Size[s] \in Nat
  BY DEF Typed, TypeOK
<1>2. \A t \in Sessions \ {s} : InFiles'[t] = InFiles[t]
  BY <1>1 DEF InFiles
<1>3. \A m, n \in Nat : (m + 1) * n = m * n + n /\ m * n \in Nat
  OBVIOUS
<1>4. InFiles'[s] = InFiles[s] + Size[s] /\ InFiles[s] \in Int
  <2>1. InFiles[s] = files[s] * Size[s] /\ InFiles'[s] = files'[s] * Size[s]
    BY DEF InFiles
  <2>2. files'[s] = files[s] + 1 /\ files[s] \in Nat
    BY <1>1
  <2> QED BY <1>1, <1>3, <2>1, <2>2
<1>5. SumOf(InFiles', Sessions) = SumOf(InFiles, Sessions) + InFiles'[s] - InFiles[s]
  BY <1>1, <1>2, <1>4, HoldingFacts, SumChange
<1>6. OnFile' = OnFile + InFiles'[s] - InFiles[s]
  BY <1>5 DEF OnFile
<1> QED BY <1>1, <1>4, <1>6, HoldingFacts

LEMMA InitQuotaInv == Init => QuotaInv
<1> SUFFICES ASSUME Init PROVE used = OnFile + Reserved
  BY DEF QuotaInv
<1>1. Holding = {}
  BY DEF Init, Holding, At, Idle
<1>2. Reserved = 0
  BY <1>1, SumEmpty DEF Reserved
<1> DEFINE zero == [s \in Sessions |-> 0]
<1>3. \A s \in Sessions : InFiles[s] = zero[s]
  BY DEF Init, InFiles
<1>4. OnFile = SumOf(zero, Sessions)
  BY <1>3, SumSame DEF OnFile
<1>5. SumOf(zero, Sessions) = 0
  BY SumZero
<1> QED BY <1>2, <1>4, <1>5 DEF Init

LEMMA NextQuotaInv == Typed /\ QuotaInv /\ [Next]_vars => QuotaInv'
<1> SUFFICES ASSUME Typed, QuotaInv, [Next]_vars, faults' = 0 PROVE used' = OnFile' + Reserved'
  BY DEF QuotaInv
<1>1. faults = 0 /\ used = OnFile + Reserved
  <2>1. faults \in Nat /\ faults' \in {faults, faults + 1}
    BY DEF Typed, TypeOK, Next, vars, Begin, Clean, SessionExpires, ClaimExpires, Request, SaveCheck,
       CompleteFind, AbortFind, Step, SaveOpen, SaveWrite, SaveMark, CompleteCheck, Claim, ReserveQuota,
       Merge, Record, Sweep, Forget, Register, Refund, Unclaim, CallFails, Crash
  <2> QED BY <2>1 DEF QuotaInv
<1>2. OnFile \in Nat /\ Reserved \in Nat /\ Holding \subseteq Workers
  BY HoldingFacts
<1>3. files' = files => OnFile' = OnFile
  BY DEF OnFile, InFiles
<1>4. ASSUME UNCHANGED <<files, used>>, Holding' = Holding, \A w \in Holding : Sid(w)' = Sid(w)
      PROVE  used' = OnFile' + Reserved'
  BY <1>1, <1>3, <1>4, HandsKept
<1>5. CASE UNCHANGED <<files, used, job>>
  BY <1>4, <1>5 DEF Holding, At, Sid
(* A step of a worker that leaves what it holds as it is. *)
<1>6. ASSUME NEW w \in Workers, UNCHANGED <<files, used>>, \A v \in Workers \ {w} : job'[v] = job[v],
             w \in Holding <=> w \in Holding', w \in Holding => Sid(w)' = Sid(w)
      PROVE  used' = OnFile' + Reserved'
  <2>1. \A v \in Workers \ {w} : (v \in Holding' <=> v \in Holding) /\ Sid(v)' = Sid(v)
    BY <1>6 DEF Holding, At, Sid
  <2>2. Holding' = Holding
    BY <1>2, <1>6, <2>1 DEF Holding
  <2>3. \A v \in Holding : Sid(v)' = Sid(v)
    BY <1>2, <1>6, <2>1
  <2> QED BY <1>4, <1>6, <2>2, <2>3
<1>7. ASSUME NEW w \in Workers, NEW s \in Sessions, Request(w, s) PROVE used' = OnFile' + Reserved'
  <2>1. UNCHANGED <<files, used>> /\ job[w] = Idle
    BY <1>7 DEF Request, SaveCheck, CompleteFind, AbortFind, Starts
  <2>2. /\ job'[w].op = "chunk" \/ job'[w].pc = "found"
        /\ \A v \in Workers \ {w} : job'[v] = job[v]
    <3>1. ASSUME NEW i \in Chunks, SaveCheck(w, s, i)
          PROVE  job'[w].op = "chunk" /\ \A v \in Workers \ {w} : job'[v] = job[v]
      BY <3>1 DEF SaveCheck, Typed
    <3>2. ASSUME CompleteFind(w, s) \/ AbortFind(w, s)
          PROVE  job'[w].pc = "found" /\ \A v \in Workers \ {w} : job'[v] = job[v]
      BY <3>2, EndsOrStarts DEF CompleteFind, AbortFind
    <3> QED BY <1>7, <3>1, <3>2 DEF Request
  <2>3. w \notin Holding /\ w \notin Holding'
    BY <2>1, <2>2 DEF Holding, At, Idle
  <2> QED BY <1>6, <2>1, <2>2, <2>3
<1>8. ASSUME NEW w \in Workers, CallFails(w) \/ Crash(w) PROVE FALSE
  BY <1>1, <1>8 DEF CallFails, Crash
<1>9. ASSUME NEW w \in Workers, Step(w) PROVE used' = OnFile' + Reserved'
  <2>0. /\ \A v \in Workers \ {w} : job'[v] = job[v]
        /\ \A v \in Workers \ {w} : (v \in Holding' <=> v \in Holding) /\ Sid(v)' = Sid(v)
    <3>1. \A v \in Workers \ {w} : job'[v] = job[v]
      BY <1>9, EndsOrStarts, GoesOn DEF Step, SaveOpen, SaveWrite, SaveMark, CompleteCheck, Claim, ReserveQuota,
         Merge, Merged, Record, Sweep, Forget, Register, Refund, Unclaim
    <3> QED BY <3>1 DEF Holding, At, Sid
  <2>1. ASSUME w \in Holding, w \notin Holding'
        PROVE  Reserved' = Reserved - Size[Sid(w)] /\ Reserved >= Size[Sid(w)]
    <3>1. Holding' = Holding \ {w} /\ \A v \in Holding \ {w} : Sid(v)' = Sid(v)
      BY <1>2, <2>0, <2>1 DEF Holding
    <3> QED BY <2>1, <3>1, HandsLose
  <2>2. CASE SaveOpen(w) \/ SaveWrite(w) \/ SaveMark(w)
    <3>1. UNCHANGED <<files, used>> /\ job[w].op = "chunk"
      BY <2>2 DEF SaveOpen, SaveWrite, SaveMark, At
    <3>2. job'[w].op \in {"chunk", "none"}
      BY <2>2, <3>1, GoesOn, EndsOrStarts DEF SaveOpen, SaveWrite, SaveMark
    <3>3. w \notin Holding /\ w \notin Holding'
      BY <3>1, <3>2 DEF Holding, At
    <3> QED BY <1>6, <2>0, <3>1, <3>3
  <2>3. CASE CompleteCheck(w) \/ Claim(w) \/ Sweep(w) \/ Forget(w) \/ Register(w) \/ Unclaim(w)
    <3>1. /\ UNCHANGED <<files, used>>
          /\ job[w].pc \in {"found", "checked", "recorded", "swept", "forgotten", "refused"}
      BY <2>3 DEF CompleteCheck, Claim, Sweep, Forget, Register, Unclaim, At
    <3>2. Ends(w) \/ \E pc \in {"checked", "claimed", "swept", "forgotten"} : Goes(w, pc)
      BY <2>3 DEF CompleteCheck, Claim, Sweep, Forget, Register, Unclaim
    <3>3. job'[w].op = "none" \/ job'[w].pc \in {"checked", "claimed", "swept", "forgotten"}
      BY <3>2, GoesOn, EndsOrStarts
    <3>4. w \notin Holding /\ w \notin Holding'
      BY <3>1, <3>3 DEF Holding, At
    <3> QED BY <1>6, <2>0, <3>1, <3>4
  <2>4. CASE Merge(w)
    <3>1. /\ UNCHANGED <<files, used>> /\ job[w].op = "complete" /\ job[w].pc = "reserved"
          /\ Goes(w, "failed") \/ Goes(w, "merged")
      BY <2>4 DEF Merge, Merged, At
    <3>2. job'[w].op = "complete" /\ Sid(w)' = Sid(w) /\ job'[w].pc \in {"failed", "merged"}
      BY <3>1, GoesOn
    <3>3. w \in Holding /\ w \in Holding'
      BY <3>1, <3>2 DEF Holding, At
    <3> QED BY <1>6, <2>0, <3>1, <3>2, <3>3
  <2>5. CASE ReserveQuota(w)
    <3>1. /\ files' = files /\ job[w].op = "complete" /\ job[w].pc = "claimed"
          /\ \/ used' = used + Size[Sid(w)] /\ Goes(w, "reserved")
             \/ used' = used /\ Goes(w, "refused")
      BY <2>5 DEF ReserveQuota, At
    <3>2. w \notin Holding /\ Sid(w) \in Sessions
      BY <3>1, Busy DEF Holding, At
    <3>3. CASE used' = used + Size[Sid(w)] /\ Goes(w, "reserved")
      <4>1. job'[w].op = "complete" /\ Sid(w)' = Sid(w) /\ job'[w].pc = "reserved"
        BY <3>1, <3>3, GoesOn
      <4>2. w \in Holding'
        BY <4>1 DEF Holding, At
      <4>3. Holding' = Holding \cup {w} /\ \A v \in Holding \cup {w} : Sid(v)' = Sid(v)
        BY <1>2, <2>0, <4>1, <4>2 DEF Holding
      <4>4. Reserved' = Reserved + Size[Sid(w)]
        BY <3>2, <4>3, HandsGain
      <4>5. Size[Sid(w)] \in Nat
        BY <3>2
      <4> QED BY <1>1, <1>2, <1>3, <3>1, <3>3, <4>4, <4>5
    <3>4. CASE used' = used /\ Goes(w, "refused")
      <4>1. job'[w].pc = "refused"
        BY <3>4, GoesOn
      <4>2. w \notin Holding'
        BY <4>1 DEF Holding, At
      <4> QED BY <1>6, <2>0, <3>1, <3>2, <3>4, <4>2
    <3> QED BY <3>1, <3>3, <3>4
  <2>6. CASE Record(w)
    <3>1. /\ used' = used /\ job[w].op = "complete" /\ job[w].pc = "merged"
          /\ \/ files' = [files EXCEPT ![Sid(w)] = @ + 1] /\ Goes(w, "recorded")
             \/ files' = files /\ Goes(w, "failed")
      BY <2>6 DEF Record, Filing, At
    <3>2. w \in Holding /\ Sid(w) \in Sessions
      BY <3>1, Busy DEF Holding, At
    <3>3. CASE files' = [files EXCEPT ![Sid(w)] = @ + 1] /\ Goes(w, "recorded")
      <4>1. job'[w].pc = "recorded"
        BY <3>3, GoesOn
      <4>2. w \notin Holding'
        BY <4>1 DEF Holding, At
      <4>3. Reserved' = Reserved - Size[Sid(w)]
        BY <2>1, <3>2, <4>2
      <4>4. OnFile' = OnFile + Size[Sid(w)]
        BY <3>2, <3>3, FilesGain
      <4>5. Size[Sid(w)] \in Nat
        BY <3>2
      <4> QED BY <1>1, <1>2, <3>1, <4>3, <4>4, <4>5
    <3>4. CASE files' = files /\ Goes(w, "failed")
      <4>1. job'[w].op = "complete" /\ Sid(w)' = Sid(w) /\ job'[w].pc = "failed"
        BY <3>1, <3>4, GoesOn
      <4>2. w \in Holding'
        BY <4>1 DEF Holding, At
      <4> QED BY <1>6, <2>0, <3>1, <3>2, <3>4, <4>1, <4>2
    <3> QED BY <3>1, <3>3, <3>4
  <2>7. CASE Refund(w)
    <3>1. /\ files' = files /\ used' = Max({used - Size[Sid(w)], 0})
          /\ job[w].op = "complete" /\ job[w].pc = "failed" /\ Goes(w, "refused")
      BY <2>7 DEF Refund, At
    <3>2. w \in Holding /\ Sid(w) \in Sessions
      BY <3>1, Busy DEF Holding, At
    <3>3. job'[w].pc = "refused"
      BY <3>1, GoesOn
    <3>4. w \notin Holding'
      BY <3>3 DEF Holding, At
    <3>5. Reserved' = Reserved - Size[Sid(w)] /\ Reserved >= Size[Sid(w)]
      BY <2>1, <3>2, <3>4
    <3>6. Size[Sid(w)] \in Nat
      BY <3>2
    <3>7. used - Size[Sid(w)] >= 0 /\ used - Size[Sid(w)] \in Int
      BY <1>1, <1>2, <3>5, <3>6
    <3>8. used' = used - Size[Sid(w)]
      BY <3>1, <3>7, MaxFacts
    <3> QED BY <1>1, <1>2, <1>3, <3>1, <3>5, <3>6, <3>8
  <2> QED BY <1>9, <2>2, <2>3, <2>4, <2>5, <2>6, <2>7 DEF Step
<1> QED BY <1>5, <1>7, <1>8, <1>9 DEF Next, vars, Begin, Clean, SessionExpires, ClaimExpires

-----------------------------------------------------------------------------
(* Every variable keeps its type, for any number of uploads and workers.   *)
THEOREM TypeCorrect == Spec => []TypeOK
<1>1. Typed => TypeOK
  BY DEF Typed
<1> QED BY InitTyped, NextTyped, <1>1, PTL DEF Spec

(* While nothing breaks and no claim expires, an upload becomes one file,  *)
(* however many requests complete it.                                      *)
THEOREM OneFileEach == Spec => []OneFile
<1>1. OneInv => OneFile
  BY DEF OneInv, Alone, OneFile
<1> QED BY InitTyped, NextTyped, InitOneInv, NextOneInv, <1>1, PTL DEF Spec

(* A file lacks bytes only if a chunk was sent twice, or if the session    *)
(* ended before a completion that had found it asked what was missing:     *)
(* neither an abort, nor the expiry, nor the cleaning can tear what is     *)
(* being merged.                                                           *)
THEOREM TornExplained == Spec => []WholeFile
<1>1. PartsInv => WholeFile
  BY DEF PartsInv
<1> QED BY InitTyped, NextTyped, InitPartsInv, NextPartsInv, <1>1, PTL DEF Spec

(* Completions that run at the same time never take what the quota does    *)
(* not have, and leave room for the frames of the last one.                *)
THEOREM RoomLeft == Spec => []WithinQuota
<1>1. Init => WithinQuota
  BY DEF Init, WithinQuota
<1> QED BY InitTyped, NextTyped, NextWithinQuota, <1>1, PTL DEF Spec

(* While nothing breaks, used_bytes is what was declared of the uploads    *)
(* that have become files and of those whose completion holds it, to the   *)
(* byte.  It says nothing of what the files take.                          *)
THEOREM QuotaAccounted == Spec => []QuotaExplained
<1>1. QuotaInv => QuotaExplained
  BY FileSum, HandSum DEF QuotaInv, QuotaExplained
<1> QED BY InitTyped, NextTyped, InitQuotaInv, NextQuotaInv, <1>1, PTL DEF Spec
=============================================================================
