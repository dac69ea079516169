--------------------------- MODULE RecycleBinProofs ---------------------------
(***************************************************************************)
(* RecycleBin for any number of resources, rows, workers and runs of the   *)
(* purge: the types, that nothing is lost before its deadline, that a      *)
(* resource is in one place, and that nobody is charged for what is gone.  *)
(***************************************************************************)
EXTENDS RecycleBin, Lemmas

USE RecycleAssumption

-----------------------------------------------------------------------------
(* Types.                                                                  *)
Rows == [doc : born, status : {"pending", "restored", "expired", "gone"}, due : BOOLEAN]
Jobs == {Idle} \cup [op : {"delete"}, doc : born, item : {NoItem}]
               \cup [op : {"restore"}, doc : born, item : Items]
Scans == [pc : {"rest", "next", "object", "release"}, batch : SUBSET Items,
          item : Items \cup {NoItem}, marked : SUBSET Items,
          session : {"attached", "removed", "failed"}]

Typed ==
  /\ live \subseteq born /\ object \subseteq born /\ born \subseteq Docs
  /\ used \in 0 .. Quota
  /\ bin \in [Items -> {Absent} \cup Rows]
  /\ job \in [Workers -> Jobs]
  /\ scan \in [Scanners -> Scans]
  /\ faults \in 0 .. MaxFaults
  /\ doubled \subseteq born /\ straddled \subseteq born /\ unreleased \subseteq born

LEMMA TypedIsType == Typed => TypeOK
<1> SUFFICES ASSUME Typed PROVE TypeOK
  OBVIOUS
<1>1. \A i \in Items : bin[i] = Absent \/ bin[i] \in Rows
  BY DEF Typed
<1>2. ASSUME NEW w \in Workers
      PROVE  \/ job[w] = Idle
             \/ /\ job[w].doc \in born
                /\ \/ job[w].op = "delete" /\ job[w].item = NoItem
                   \/ job[w].op = "restore" /\ job[w].item \in Items
  BY DEF Typed, Jobs
<1> QED BY <1>1, <1>2 DEF Typed, TypeOK, Rows, Scans

(* A row that is there has a resource, and only such a row can be due.     *)
LEMMA RowFacts ==
  ASSUME Typed, NEW i \in Items
  PROVE  /\ bin[i] = Absent => bin[i].doc = NoDoc /\ bin[i].status = "absent" /\ bin[i].due = FALSE
         /\ bin[i] # Absent =>
              /\ bin[i].doc \in born /\ bin[i].doc # NoDoc /\ bin[i].doc \in Docs
              /\ bin[i].status \in {"pending", "restored", "expired", "gone"}
              /\ bin[i].due \in BOOLEAN
              /\ bin[i] = [doc |-> bin[i].doc, status |-> bin[i].status, due |-> bin[i].due]
  BY DEF Typed, Rows, Absent

LEMMA JobFacts ==
  ASSUME Typed, NEW w \in Workers
  PROVE  /\ job[w].op = "none" \/ (job[w].doc \in born /\ job[w].doc \in Docs)
         /\ job[w].op \in {"none", "delete", "restore"}
         /\ job[w].op = "restore" => job[w].item \in Items
  BY DEF Typed, Jobs, Idle

-----------------------------------------------------------------------------
(* The ids in use are the first ones.                                      *)
Filled == \E k \in 0 .. MaxItems : \A i \in Items : bin[i] # Absent <=> i <= k

(* A request that restores a row restores its resource, and is remembered  *)
(* if the deadline has passed since it looked.                             *)
Restores(w, i) == job[w].op = "restore" /\ job[w].item = i

Reading ==
  \A w \in Workers, i \in Items :
    Restores(w, i) => bin[i].doc = job[w].doc /\ (bin[i].due => job[w].doc \in straddled)

(* Rows that may be marked as destroyed without a release.                 *)
Spared(d) == Size[d] = 0 \/ d \in unreleased
SparedNow(d) == Size[d] = 0 \/ d \in unreleased'

(* The task has read, holds and marks due rows only; it marks rows without *)
(* a file, or whose release was missed, and destroys and gives back rows   *)
(* with one.                                                               *)
Scanned ==
  \A s \in Scanners :
    /\ \A i \in scan[s].batch \cup scan[s].marked : bin[i].due
    /\ \A i \in scan[s].marked : Spared(bin[i].doc)
    /\ scan[s].pc \in {"object", "release"} =>
         scan[s].item \in Items /\ bin[scan[s].item].due /\ Size[bin[scan[s].item].doc] > 0

(* Once a row of a resource is due, the resource is over.                  *)
Over ==
  \A d \in Docs \ (doubled \cup straddled), i \in Items :
    bin[i].doc = d /\ bin[i].due => ~Retained(d)

(* OnePlace, without counting.                                             *)
Single ==
  \A d \in Docs \ doubled :
    /\ \A i, j \in Items : Pending(i) /\ Pending(j) /\ bin[i].doc = d /\ bin[j].doc = d => i = j
    /\ d \in live => \A i \in Items : ~(Pending(i) /\ bin[i].doc = d)

(* A due row with a file waits to be taken: the commit that would mark it  *)
(* never comes, unless its release was missed.                             *)
Waiting ==
  straddled = {} => \A i \in Items :
    bin[i].due /\ Size[bin[i].doc] > 0 /\ bin[i].doc \notin unreleased => Pending(i)

(* What Charged counts.                                                    *)
Owed == {d \in born : d \in object \/ d \in unreleased \/ \E i \in PendingOf(d) : bin[i].due}

IInv == Typed /\ Filled /\ Reading /\ Scanned /\ Over /\ Single /\ Waiting /\ Kept /\ Charged

LEMMA SingleOnePlace == Single => OnePlace
<1> SUFFICES ASSUME Single, NEW d \in Docs \ doubled
             PROVE  Cardinality(PendingOf(d)) <= 1 /\ (d \in live => PendingOf(d) = {})
  BY DEF OnePlace
<1>1. \A i, j \in PendingOf(d) : i = j
  BY DEF Single, PendingOf
<1>2. d \in live => PendingOf(d) = {}
  BY DEF Single, PendingOf
<1> HIDE DEF PendingOf
<1>3. CASE PendingOf(d) = {}
  BY <1>2, <1>3, FS_EmptySet
<1>4. ASSUME NEW i \in PendingOf(d) PROVE Cardinality(PendingOf(d)) <= 1
  <2>1. PendingOf(d) = {i}
    BY <1>1, <1>4
  <2> QED BY <2>1, FS_Singleton
<1> QED BY <1>2, <1>3, <1>4

LEMMA BytesSum == \A ds : Bytes(ds) = SumOf(Size, ds)
  BY DEF Bytes, SumOf

LEMMA InitIInv == Init => IInv
<1> SUFFICES ASSUME Init PROVE IInv
  OBVIOUS
<1>1. /\ \A i \in Items : bin[i] = Absent
      /\ \A w \in Workers : job[w] = Idle
      /\ \A s \in Scanners : scan[s] = Resting
  BY DEF Init
<1>2. Typed
  <2>1. Resting \in Scans
    BY DEF Resting, Scans
  <2> QED BY <2>1 DEF Init, Typed, Jobs
<1>3. Filled
  <2>1. 0 \in 0 .. MaxItems /\ \A i \in Items : ~(i <= 0)
    BY DEF Items
  <2> QED BY <1>1, <2>1 DEF Filled
<1>4. Reading /\ Scanned
  BY <1>1 DEF Reading, Restores, Scanned, Idle, Resting
<1>5. Over /\ Single /\ Waiting
  BY <1>1 DEF Over, Single, Waiting, Pending, Absent
<1>6. Kept
  BY DEF Init, Kept
<1>7. Charged
  <2>1. Owed = {} /\ used = 0
    BY DEF Init, Owed
  <2>2. Bytes({}) = 0
    BY BytesSum, SumEmpty
  <2> QED BY <2>1, <2>2 DEF Charged, Owed
<1> QED BY <1>2, <1>3, <1>4, <1>5, <1>6, <1>7 DEF IInv

-----------------------------------------------------------------------------
(* The next id is that of no row.                                          *)
LEMMA NewRow ==
  ASSUME Typed, Filled, NewId \in Items
  PROVE  bin[NewId] = Absent /\ \E k \in 0 .. MaxItems :
           NewId = k + 1 /\ \A i \in Items : bin[i] # Absent <=> i <= k
<1>1. PICK k \in 0 .. MaxItems : \A i \in Items : bin[i] # Absent <=> i <= k
  BY DEF Filled
<1>2. {i \in Items : bin[i] # Absent} = 1 .. k
  BY <1>1 DEF Items
<1>3. Cardinality(1 .. k) = k
  BY <1>1, FS_Interval
<1>4. NewId = k + 1
  BY <1>2, <1>3 DEF NewId
<1>5. ~(NewId <= k)
  BY <1>1, <1>4
<1> QED BY <1>1, <1>4, <1>5

-----------------------------------------------------------------------------
(* A row that is there keeps its resource, and stays due once it is.       *)
RowsStay ==
  \A i \in Items : bin[i] # Absent => /\ bin'[i].doc = bin[i].doc
                                      /\ bin[i].due => bin'[i].due

(* The rows are the same ones; what stops waiting is due and has no file.  *)
Settles ==
  \A i \in Items :
    /\ bin'[i] = Absent <=> bin[i] = Absent
    /\ bin'[i].doc = bin[i].doc /\ bin'[i].due = bin[i].due
    /\ Pending(i)' => Pending(i)
    /\ Pending(i) => Pending(i)' \/ (bin[i].due /\ SparedNow(bin[i].doc))

(* Other scans are as they were, over rows that stay.                      *)
LEMMA ScannedStep ==
  ASSUME Typed, Scanned, RowsStay, NEW s \in Scanners, unreleased \subseteq unreleased',
         \A r \in Scanners \ {s} : scan'[r] = scan[r],
         scan'[s].batch \cup scan'[s].marked \subseteq Items,
         \A i \in scan'[s].batch \cup scan'[s].marked : bin[i].due,
         \A i \in scan'[s].marked : SparedNow(bin[i].doc),
         scan'[s].pc \in {"object", "release"} =>
           scan'[s].item \in Items /\ bin[scan'[s].item].due /\ Size[bin[scan'[s].item].doc] > 0
  PROVE  Scanned'
<1>1. \A i \in Items : bin[i].due => bin'[i].due /\ bin'[i].doc = bin[i].doc
  BY RowFacts DEF RowsStay
<1>2. ASSUME NEW r \in Scanners
      PROVE  /\ \A i \in scan'[r].batch \cup scan'[r].marked : bin'[i].due
             /\ \A i \in scan'[r].marked : SparedNow(bin'[i].doc)
             /\ scan'[r].pc \in {"object", "release"} =>
                  scan'[r].item \in Items /\ bin'[scan'[r].item].due /\ Size[bin'[scan'[r].item].doc] > 0
  <2>1. CASE r = s
    BY <1>1, <2>1
  <2>2. CASE r # s
    <3>1. scan'[r] = scan[r] /\ scan[r].batch \subseteq Items /\ scan[r].marked \subseteq Items
      BY <2>2 DEF Typed, Scans
    <3>2. /\ \A i \in scan[r].batch \cup scan[r].marked : bin[i].due
          /\ \A i \in scan[r].marked : Spared(bin[i].doc)
          /\ scan[r].pc \in {"object", "release"} =>
               scan[r].item \in Items /\ bin[scan[r].item].due /\ Size[bin[scan[r].item].doc] > 0
      BY DEF Scanned
    <3> QED BY <1>1, <3>1, <3>2 DEF Spared, SparedNow
  <2> QED BY <2>1, <2>2
<1> QED BY <1>2 DEF Scanned, Spared, SparedNow

LEMMA ScannedSame ==
  ASSUME Typed, Scanned, RowsStay, scan' = scan, UNCHANGED unreleased
  PROVE  Scanned'
<1>1. \A i \in Items : bin[i].due => bin'[i].due /\ bin'[i].doc = bin[i].doc
  BY RowFacts DEF RowsStay
<1>2. ASSUME NEW r \in Scanners
      PROVE  /\ \A i \in scan[r].batch \cup scan[r].marked : bin'[i].due
             /\ \A i \in scan[r].marked : SparedNow(bin'[i].doc)
             /\ scan[r].pc \in {"object", "release"} =>
                  scan[r].item \in Items /\ bin'[scan[r].item].due /\ Size[bin'[scan[r].item].doc] > 0
  <2>1. scan[r].batch \subseteq Items /\ scan[r].marked \subseteq Items
    BY DEF Typed, Scans
  <2>2. /\ \A i \in scan[r].batch \cup scan[r].marked : bin[i].due
        /\ \A i \in scan[r].marked : Spared(bin[i].doc)
        /\ scan[r].pc \in {"object", "release"} =>
             scan[r].item \in Items /\ bin[scan[r].item].due /\ Size[bin[scan[r].item].doc] > 0
    BY DEF Scanned
  <2> QED BY <1>1, <2>1, <2>2 DEF Spared, SparedNow
<1> QED BY <1>2 DEF Scanned, Spared, SparedNow

(* Requests that go on, or leave.                                          *)
LEMMA ReadingKept ==
  ASSUME Typed, Reading, straddled \subseteq straddled',
         \A i \in Items : bin[i] # Absent =>
           bin'[i].doc = bin[i].doc /\ (bin'[i].due => bin[i].due \/ (Restoring(i) => bin[i].doc \in straddled')),
         \A w \in Workers : job'[w] = job[w] \/ job'[w].op # "restore"
  PROVE  Reading'
<1> SUFFICES ASSUME NEW w \in Workers, NEW i \in Items, Restores(w, i)'
             PROVE  bin'[i].doc = job'[w].doc /\ (bin'[i].due => job'[w].doc \in straddled')
  BY DEF Reading
<1>1. job'[w] = job[w] /\ Restores(w, i)
  BY DEF Restores
<1>2. bin[i].doc = job[w].doc /\ (bin[i].due => job[w].doc \in straddled)
  BY <1>1 DEF Reading
<1>3. job[w].doc \in Docs
  BY <1>1, JobFacts DEF Restores
<1>4. bin[i] # Absent
  BY <1>2, <1>3 DEF Absent
<1>5. Restoring(i)
  BY <1>1 DEF Restoring, Restores
<1> QED BY <1>1, <1>2, <1>4, <1>5

-----------------------------------------------------------------------------
(* A step that leaves the resources alone, and lets go of what is due and  *)
(* has no file at most.                                                    *)
LEMMA QuietKept ==
  ASSUME IInv, Typed', Settles, used' <= used, unreleased \subseteq unreleased',
         UNCHANGED <<born, live, object, doubled, straddled>>
  PROVE  Filled' /\ Over' /\ Single' /\ Waiting' /\ Kept' /\ Charged'
<1>0. Typed /\ Filled /\ Over /\ Single /\ Waiting /\ Kept /\ Charged
  BY DEF IInv
<1>1. Filled'
  BY <1>0 DEF Filled, Settles
<1>2. \A d : Retained(d)' => Retained(d)
  <2>1. \A d : \A i \in PendingOf(d)' : i \in PendingOf(d) /\ bin'[i].due = bin[i].due
    BY DEF PendingOf, Settles
  <2> QED BY <2>1 DEF Retained
<1>3. Over'
  <2>1. \A i \in Items : bin'[i].doc = bin[i].doc /\ bin'[i].due = bin[i].due
    BY DEF Settles
  <2> QED BY <1>0, <1>2, <2>1 DEF Over
<1>4. Single'
  BY <1>0 DEF Single, Settles
<1>5. Waiting'
  <2> SUFFICES ASSUME straddled = {}, NEW i \in Items,
                      bin'[i].due, Size[bin'[i].doc] > 0, bin'[i].doc \notin unreleased'
               PROVE  Pending(i)'
    BY DEF Waiting
  <2>1. bin[i].due /\ bin'[i].doc = bin[i].doc
    BY DEF Settles
  <2>2. Pending(i) /\ ~SparedNow(bin[i].doc)
    BY <1>0, <2>1, RowFacts DEF Waiting, SparedNow
  <2> QED BY <2>2 DEF Settles
<1>6. Kept'
  <2> SUFFICES ASSUME NEW d \in born
               PROVE  /\ d \in live \/ \E i \in Items : bin'[i].doc = d /\ (Pending(i)' \/ bin'[i].due)
                      /\ d \notin doubled \cup straddled => Whole(d)'
    BY DEF Kept
  <2>1. d \in live \/ \E i \in Items : bin[i].doc = d /\ (Pending(i) \/ bin[i].due)
    BY <1>0 DEF Kept
  <2>2. d \in live \/ \E i \in Items : bin'[i].doc = d /\ (Pending(i)' \/ bin'[i].due)
    BY <2>1 DEF Settles
  <2>3. d \notin doubled \cup straddled => Whole(d)
    BY <1>0 DEF Kept
  <2> QED BY <1>2, <2>2, <2>3 DEF Whole
<1>7. Charged'
  <2> SUFFICES ASSUME straddled = {} PROVE used' <= Bytes(Owed')
    BY DEF Charged, Owed
  <2>1. used <= Bytes(Owed)
    BY <1>0 DEF Charged, Owed
  <2>2. Owed \subseteq Docs /\ Owed' \subseteq Docs
    BY <1>0 DEF Owed, Typed
  <2>3. ASSUME NEW d \in Owed \ Owed' PROVE Size[d] = 0
    <3>1. PICK i \in PendingOf(d) : bin[i].due /\ d \notin unreleased'
      BY <2>3 DEF Owed
    <3>2. i \in Items /\ Pending(i) /\ bin[i].doc = d
      BY <3>1 DEF PendingOf
    <3>3. ~Pending(i)'
      BY <2>3, <3>1, <3>2 DEF Owed, PendingOf, Settles
    <3> QED BY <3>1, <3>2, <3>3 DEF Settles, SparedNow
  <2>4. Bytes(Owed) <= Bytes(Owed') /\ Bytes(Owed) \in Int /\ Bytes(Owed') \in Int
    <3> HIDE DEF Owed
    <3>1. IsFiniteSet(Owed) /\ IsFiniteSet(Owed')
      BY <2>2, FS_Subset
    <3>2. \A d \in Owed \cup Owed' : Size[d] \in Nat
      BY <2>2
    <3>3. SumOf(Size, Owed) <= SumOf(Size, Owed') /\ SumOf(Size, Owed) \in Nat /\ SumOf(Size, Owed') \in Nat
      BY <2>3, <3>1, <3>2, SumCovers, SumNat
    <3> QED BY <3>3, BytesSum
  <2>5. used \in Int /\ used' \in Int
    BY <1>0 DEF Typed
  <2> QED BY <2>1, <2>4, <2>5
<1> QED BY <1>1, <1>3, <1>4, <1>5, <1>6, <1>7

(* The file of a resource that is over is destroyed, while its row still   *)
(* waits.                                                                  *)
LEMMA ObjectKept ==
  ASSUME IInv, NEW i \in Items, bin[i].due, Size[bin[i].doc] > 0,
         object' = object \ {bin[i].doc},
         UNCHANGED <<born, live, used, bin, doubled, straddled, unreleased>>
  PROVE  Kept' /\ Charged'
<1>0. Typed /\ Over /\ Waiting /\ Kept /\ Charged
  BY DEF IInv
<1>1. Kept'
  <2> SUFFICES ASSUME NEW d \in born
               PROVE  /\ d \in live \/ \E j \in Items : bin[j].doc = d /\ (Pending(j) \/ bin[j].due)
                      /\ d \notin doubled \cup straddled => Whole(d)'
    BY DEF Kept, Pending
  <2>1. d \in live \/ \E j \in Items : bin[j].doc = d /\ (Pending(j) \/ bin[j].due)
    BY <1>0 DEF Kept
  <2>2. Retained(d)' <=> Retained(d)
    BY DEF Retained, PendingOf, Pending
  <2>3. d \notin doubled \cup straddled => Whole(d)
    BY <1>0 DEF Kept
  <2>4. d = bin[i].doc => d \in doubled \cup straddled \/ ~Retained(d)
    BY <1>0 DEF Over, Typed
  <2> QED BY <2>1, <2>2, <2>3, <2>4 DEF Whole
<1>2. Charged'
  <2> SUFFICES ASSUME straddled = {} PROVE Owed' = Owed
    BY <1>0 DEF Charged, Owed
  <2>1. \A d : PendingOf(d)' = PendingOf(d)
    BY DEF PendingOf, Pending
  <2>2. bin[i].doc \in unreleased \/ i \in PendingOf(bin[i].doc)
    BY <1>0 DEF Waiting, PendingOf
  <2> QED BY <2>1, <2>2 DEF Owed
<1> QED BY <1>1, <1>2

-----------------------------------------------------------------------------
(* Requests.                                                               *)
LEMMA UploadKeeps == ASSUME IInv, NEW d \in Docs, Upload(d) PROVE IInv'
<1>0. Typed /\ Filled /\ Reading /\ Scanned /\ Over /\ Single /\ Waiting /\ Kept /\ Charged
  BY DEF IInv
<1>1. /\ d \notin born /\ born' = born \cup {d} /\ live' = live \cup {d}
      /\ object' = (IF Size[d] > 0 THEN object \cup {d} ELSE object)
      /\ used' = used + Size[d] /\ used + Size[d] <= Quota
      /\ UNCHANGED <<bin, job, scan, faults, doubled, straddled, unreleased>>
  BY DEF Upload, history
<1>2. Typed'
  <2>1. \A r \in Rows : r \in Rows'
    BY <1>1 DEF Rows
  <2>2. \A j \in Jobs : j \in Jobs'
    BY <1>1 DEF Jobs
  <2>3. bin' \in [Items -> {Absent} \cup Rows']
    BY <1>0, <1>1, <2>1 DEF Typed
  <2>4. job' \in [Workers -> Jobs']
    BY <1>0, <1>1, <2>2 DEF Typed
  <2>5. used' \in 0 .. Quota
    BY <1>0, <1>1 DEF Typed
  <2>6. live' \subseteq born' /\ object' \subseteq born' /\ born' \subseteq Docs
        /\ doubled' \subseteq born' /\ straddled' \subseteq born' /\ unreleased' \subseteq born'
    BY <1>0, <1>1 DEF Typed
  <2> QED BY <1>0, <1>1, <2>3, <2>4, <2>5, <2>6 DEF Typed
<1>3. \A i \in Items : bin[i].doc # d
  BY <1>0, <1>1, RowFacts DEF Absent
<1>4. \A e : PendingOf(e)' = PendingOf(e) /\ (e # d => (Retained(e)' <=> Retained(e)))
  BY <1>1 DEF PendingOf, Pending, Retained
<1>5. PendingOf(d) = {}
  BY <1>3 DEF PendingOf
<1>6. Filled' /\ Reading' /\ Scanned' /\ Waiting'
  BY <1>0, <1>1 DEF Filled, Reading, Restores, Scanned, Spared, Waiting, Pending
<1>7. Over'
  BY <1>0, <1>1, <1>3, <1>4 DEF Over
<1>8. Single'
  BY <1>0, <1>1, <1>3 DEF Single, Pending
<1>9. Kept'
  <2> SUFFICES ASSUME NEW e \in born'
               PROVE  /\ e \in live' \/ \E i \in Items : bin[i].doc = e /\ (Pending(i) \/ bin[i].due)
                      /\ e \notin doubled \cup straddled => Whole(e)'
    BY <1>1 DEF Kept, Pending
  <2>1. CASE e = d
    BY <1>1, <2>1 DEF Whole
  <2>2. CASE e # d
    <3>1. e \in born
      BY <1>1, <2>2
    <3> QED BY <1>0, <1>1, <1>4, <2>2, <3>1 DEF Kept, Whole
  <2> QED BY <2>1, <2>2
<1>10. Charged'
  <2> SUFFICES ASSUME straddled = {} PROVE used' <= Bytes(Owed')
    BY <1>1 DEF Charged, Owed
  <2>1. used <= Bytes(Owed) /\ used \in Int
    BY <1>0 DEF Charged, Owed, Typed
  <2>2. Owed \subseteq Docs /\ d \notin Owed
    BY <1>0, <1>1 DEF Owed, Typed
  <2>3. IsFiniteSet(Owed) /\ Numbers(Size, Owed) /\ Size[d] \in Nat
    BY <2>2, FS_Subset DEF Numbers
  <2>4. SumOf(Size, Owed) \in Int
    BY <2>3, SumInt
  <2>5. CASE Size[d] > 0
    <3>1. Owed' = Owed \cup {d}
      BY <1>0, <1>1, <1>4, <2>5 DEF Owed, Typed
    <3>2. SumOf(Size, Owed \cup {d}) = Size[d] + SumOf(Size, Owed)
      BY <2>2, <2>3, SumAdd
    <3>3. Bytes(Owed') = Size[d] + Bytes(Owed)
      BY <3>1, <3>2, BytesSum
    <3> QED BY <1>1, <2>1, <2>3, <2>4, <3>3, BytesSum
  <2>6. CASE Size[d] = 0
    <3>1. Owed' = Owed
      <4>1. object' = object /\ d \notin object
        BY <1>0, <1>1, <2>6 DEF Typed
      <4>2. d \notin unreleased /\ unreleased' = unreleased
        BY <1>0, <1>1 DEF Typed
      <4> QED BY <1>1, <1>4, <1>5, <4>1, <4>2 DEF Owed
    <3> QED BY <1>1, <2>1, <2>6, <3>1
  <2> QED BY <2>3, <2>5, <2>6
<1> QED BY <1>2, <1>6, <1>7, <1>8, <1>9, <1>10 DEF IInv

(* Reading, and leaving without having done anything.                      *)
LEMMA AsideKept ==
  ASSUME IInv, UNCHANGED <<data, bin, scan, history>>, job' \in [Workers -> Jobs],
         faults' \in 0 .. MaxFaults,
         \A w \in Workers : job'[w] = job[w] \/ job'[w].op # "restore"
  PROVE  IInv'
<1>0. Typed /\ Reading /\ Scanned
  BY DEF IInv
<1>1. Typed'
  BY <1>0 DEF Typed, Rows, Jobs, data, history
<1>2. RowsStay /\ Settles
  BY DEF RowsStay, Settles, Pending
<1>3. Reading'
  BY <1>0, ReadingKept DEF history
<1>4. Scanned'
  BY <1>0, <1>2, ScannedSame DEF history
<1>5. used' <= used
  BY <1>0 DEF Typed, data
<1> QED BY <1>1, <1>2, <1>3, <1>4, <1>5, QuietKept DEF IInv, data, history

LEMMA ReadKeeps ==
  ASSUME IInv, NEW w \in Workers,
         (\E d \in Docs : DeleteRead(w, d)) \/ RestoreRefused(w)
  PROVE  IInv'
<1>0. Typed
  BY DEF IInv
<1>1. job' \in [Workers -> Jobs]
  <2>1. ASSUME NEW d \in Docs, DeleteRead(w, d) PROVE job' \in [Workers -> Jobs]
    <3>1. [op |-> "delete", doc |-> d, item |-> NoItem] \in Jobs
      BY <1>0, <2>1 DEF DeleteRead, Jobs, Typed
    <3> QED BY <1>0, <2>1, <3>1 DEF DeleteRead, Holds, Typed
  <2>2. ASSUME RestoreRefused(w) PROVE job' \in [Workers -> Jobs]
    BY <1>0, <2>2 DEF RestoreRefused, Leave, Typed, Jobs
  <2> QED BY <2>1, <2>2
<1>2. \A v \in Workers : job'[v] = job[v] \/ job'[v].op # "restore"
  BY <1>0 DEF DeleteRead, RestoreRefused, Holds, Leave, Typed, Idle
<1>3. UNCHANGED <<data, bin, scan, faults, history>>
  BY DEF DeleteRead, RestoreRefused
<1> QED BY <1>0, <1>1, <1>2, <1>3, AsideKept DEF Typed

(* What is read for a restoration is not due.                              *)
LEMMA RestoreReadKeeps ==
  ASSUME IInv, NEW w \in Workers, NEW i \in Items, RestoreRead(w, i) PROVE IInv'
<1>0. Typed /\ Reading /\ Scanned
  BY DEF IInv
<1>1. /\ job' = [job EXCEPT ![w] = [op |-> "restore", doc |-> bin[i].doc, item |-> i]]
      /\ Pending(i) /\ bin[i].due # TRUE
      /\ UNCHANGED <<data, bin, scan, faults, history>>
  BY DEF RestoreRead, Holds
<1>2. bin[i].doc \in born
  BY <1>0, <1>1, RowFacts DEF Pending
<1>3. [op |-> "restore", doc |-> bin[i].doc, item |-> i] \in Jobs
  BY <1>2 DEF Jobs
<1>4. Typed'
  BY <1>0, <1>1, <1>3 DEF Typed, Rows, Jobs, data, history
<1>5. RowsStay /\ Settles
  BY <1>1 DEF RowsStay, Settles, Pending
<1>6. Reading'
  <2> SUFFICES ASSUME NEW v \in Workers, NEW j \in Items, Restores(v, j)'
               PROVE  bin[j].doc = job'[v].doc /\ (bin[j].due => job'[v].doc \in straddled)
    BY <1>1 DEF Reading, history
  <2>1. CASE v = w
    BY <1>0, <1>1, <2>1 DEF Restores, Typed
  <2>2. CASE v # w
    BY <1>0, <1>1, <2>2 DEF Restores, Reading, Typed
  <2> QED BY <2>1, <2>2
<1>7. Scanned'
  BY <1>0, <1>1, <1>5, ScannedSame DEF history
<1>8. used' <= used
  BY <1>0, <1>1 DEF Typed, data
<1> QED BY <1>1, <1>4, <1>5, <1>6, <1>7, <1>8, QuietKept DEF IInv, data, history

(* The new row takes the resource's place, or the resource was deleted     *)
(* twice.                                                                  *)
LEMMA DeleteKeeps ==
  ASSUME IInv, NEW w \in Workers, DeleteCommit(w) PROVE IInv'
<1>0. Typed /\ Filled /\ Reading /\ Scanned /\ Over /\ Single /\ Waiting /\ Kept /\ Charged
  BY DEF IInv
<1>a. PICK d \in Docs : d = job[w].doc /\ d \in born
  <2>1. job[w].op = "delete"
    BY DEF DeleteCommit
  <2> QED BY <1>0, <2>1, JobFacts
<1>b. PICK n \in Items : n = NewId
  BY DEF DeleteCommit
<1>1. /\ bin' = [bin EXCEPT ![n] = [doc |-> d, status |-> "pending", due |-> FALSE]]
      /\ live' = live \ {d}
      /\ doubled' = (IF d \in live THEN doubled ELSE doubled \cup {d})
      /\ job' = [job EXCEPT ![w] = Idle]
      /\ UNCHANGED <<born, object, used, scan, faults, straddled, unreleased>>
  BY <1>a, <1>b DEF DeleteCommit, Leave
<1>2. /\ bin[n] = Absent
      /\ \E k \in 0 .. MaxItems : n = k + 1 /\ \A i \in Items : bin[i] # Absent <=> i <= k
  BY <1>0, <1>b, NewRow
<1>3. /\ bin'[n].doc = d /\ bin'[n].status = "pending" /\ bin'[n].due = FALSE /\ bin'[n] # Absent
      /\ \A i \in Items \ {n} : bin'[i] = bin[i]
  BY <1>0, <1>1 DEF Typed, Absent
<1>4. Typed'
  <2>1. [doc |-> d, status |-> "pending", due |-> FALSE] \in Rows
    BY <1>a DEF Rows
  <2>2. bin' \in [Items -> {Absent} \cup Rows]
    BY <1>0, <1>1, <2>1 DEF Typed
  <2>3. job' \in [Workers -> Jobs]
    BY <1>0, <1>1 DEF Typed, Jobs
  <2>4. live' \subseteq born /\ doubled' \subseteq born
    BY <1>0, <1>a, <1>1 DEF Typed
  <2> QED BY <1>0, <1>1, <2>2, <2>3, <2>4 DEF Typed, Rows, Jobs
<1>5. Filled'
  <2>1. PICK k \in 0 .. MaxItems : n = k + 1 /\ \A i \in Items : bin[i] # Absent <=> i <= k
    BY <1>2
  <2>2. k + 1 \in 0 .. MaxItems
    BY <2>1 DEF Items
  <2>3. \A i \in Items : bin'[i] # Absent <=> i <= k + 1
    BY <1>3, <2>1 DEF Items
  <2> QED BY <2>2, <2>3 DEF Filled
<1>6. RowsStay
  BY <1>2, <1>3 DEF RowsStay
<1>7. Reading'
  <2>1. \A i \in Items : bin[i] # Absent => bin'[i] = bin[i]
    BY <1>2, <1>3
  <2>2. \A v \in Workers : job'[v] = job[v] \/ job'[v].op # "restore"
    BY <1>0, <1>1 DEF Typed, Idle
  <2> QED BY <1>0, <1>1, <2>1, <2>2, ReadingKept
<1>8. Scanned'
  BY <1>0, <1>1, <1>6, ScannedSame
<1>9. \A e \in Docs : e # d => (PendingOf(e)' = PendingOf(e) /\ (Retained(e)' <=> Retained(e)))
  <2>1. ASSUME NEW e \in Docs, e # d PROVE PendingOf(e)' = PendingOf(e)
    <3>1. \A i \in Items : (Pending(i)' /\ bin'[i].doc = e) <=> (Pending(i) /\ bin[i].doc = e)
      BY <1>2, <1>3, <2>1 DEF Pending, Absent
    <3> QED BY <3>1 DEF PendingOf
  <2>2. ASSUME NEW e \in Docs, e # d, NEW i \in PendingOf(e) PROVE bin'[i].due = bin[i].due
    <3>1. i \in Items /\ bin[i].status = "pending"
      BY DEF PendingOf, Pending
    <3>2. i # n
      BY <1>2, <3>1 DEF Absent
    <3> QED BY <1>3, <3>1, <3>2
  <2> QED BY <1>1, <2>1, <2>2 DEF Retained
<1>10. ~bin[n].due /\ ~Pending(n)
  BY <1>2 DEF Absent, Pending
<1>11. Over'
  <2> SUFFICES ASSUME NEW e \in Docs \ (doubled' \cup straddled'), NEW i \in Items,
                      bin'[i].doc = e, bin'[i].due
               PROVE  ~Retained(e)'
    BY DEF Over
  <2>1. i # n /\ bin[i].due /\ bin[i].doc = e
    BY <1>3
  <2>2. ~Retained(e)
    BY <1>0, <1>1, <2>1 DEF Over
  <2>3. e # d
    BY <1>1, <2>2 DEF Retained
  <2> QED BY <1>9, <2>2, <2>3
<1>12. Single'
  <2> SUFFICES ASSUME NEW e \in Docs \ doubled'
               PROVE  /\ \A i, j \in Items : Pending(i)' /\ Pending(j)' /\ bin'[i].doc = e /\ bin'[j].doc = e => i = j
                      /\ e \in live' => \A i \in Items : ~(Pending(i)' /\ bin'[i].doc = e)
    BY DEF Single
  <2>1. /\ \A i, j \in Items : Pending(i) /\ Pending(j) /\ bin[i].doc = e /\ bin[j].doc = e => i = j
        /\ e \in live => \A i \in Items : ~(Pending(i) /\ bin[i].doc = e)
    BY <1>0, <1>1 DEF Single
  <2>2. CASE e = d
    <3>1. d \in live
      BY <1>1, <2>2
    <3> QED BY <1>1, <1>3, <2>1, <2>2, <3>1 DEF Pending
  <2>3. CASE e # d
    BY <1>1, <1>3, <2>1, <2>3 DEF Pending
  <2> QED BY <2>2, <2>3
<1>13. Waiting'
  BY <1>0, <1>1, <1>3 DEF Waiting, Pending
<1>14. Kept'
  <2> SUFFICES ASSUME NEW e \in born
               PROVE  /\ e \in live' \/ \E i \in Items : bin'[i].doc = e /\ (Pending(i)' \/ bin'[i].due)
                      /\ e \notin doubled' \cup straddled => Whole(e)'
    BY <1>1 DEF Kept
  <2>1. /\ e \in live \/ \E i \in Items : bin[i].doc = e /\ (Pending(i) \/ bin[i].due)
        /\ e \notin doubled \cup straddled => Whole(e)
        /\ e \in Docs
    BY <1>0 DEF Kept, Typed
  <2>2. CASE e = d
    <3>1. Pending(n)'
      BY <1>3 DEF Pending
    <3>2. ASSUME d \notin doubled' \cup straddled PROVE Whole(d)'
      <4>1. Retained(d) /\ Whole(d)
        BY <1>1, <2>1, <2>2, <3>2 DEF Retained
      <4> QED BY <1>1, <4>1 DEF Whole
    <3> QED BY <1>3, <2>2, <3>1, <3>2
  <2>3. CASE e # d
    <3>1. e \in live' \/ \E i \in Items : bin'[i].doc = e /\ (Pending(i)' \/ bin'[i].due)
      BY <1>1, <1>3, <1>10, <2>1, <2>3 DEF Pending
    <3>2. e \notin doubled' \cup straddled => Whole(e)'
      BY <1>1, <1>9, <2>1, <2>3 DEF Whole
    <3> QED BY <3>1, <3>2
  <2> QED BY <2>2, <2>3
<1>15. Charged'
  <2>1. Owed' = Owed
    <3>1. \A e \in born : (\E i \in PendingOf(e)' : bin'[i].due) <=> (\E i \in PendingOf(e) : bin[i].due)
      BY <1>3, <1>10 DEF PendingOf, Pending
    <3> QED BY <1>1, <3>1 DEF Owed
  <2> QED BY <1>0, <1>1, <2>1 DEF Charged, Owed
<1> QED
  BY <1>4, <1>5, <1>7, <1>8, <1>11, <1>12, <1>13, <1>14, <1>15 DEF IInv

(* The resource is back, and its row is spent; a row that is due by now or *)
(* was spent before makes the resource one of the remembered ones.         *)
LEMMA RestoreKeeps ==
  ASSUME IInv, NEW w \in Workers, RestoreCommit(w) PROVE IInv'
<1>0. Typed /\ Filled /\ Reading /\ Scanned /\ Over /\ Single /\ Waiting /\ Kept /\ Charged
  BY DEF IInv
<1>a. PICK i \in Items : i = job[w].item /\ Restores(w, i)
  BY <1>0, JobFacts DEF RestoreCommit, Restores
<1>b. PICK d \in Docs : d = job[w].doc /\ d \in born /\ bin[i].doc = d /\ (bin[i].due => d \in straddled)
  BY <1>0, <1>a, JobFacts DEF Restores, Reading
<1>1. /\ bin' = [bin EXCEPT ![i].status = "restored"]
      /\ live' = live \cup {d}
      /\ doubled' = (IF Pending(i) THEN doubled ELSE doubled \cup {d})
      /\ job' = [job EXCEPT ![w] = Idle]
      /\ UNCHANGED <<born, object, used, scan, faults, straddled, unreleased>>
  BY <1>a, <1>b DEF RestoreCommit, Leave
<1>2. /\ bin[i] # Absent /\ bin[i] \in Rows
      /\ bin'[i].doc = d /\ bin'[i].status = "restored" /\ bin'[i].due = bin[i].due
      /\ bin'[i] # Absent /\ bin'[i] \in Rows
      /\ \A j \in Items \ {i} : bin'[j] = bin[j]
  <2>1. bin[i] # Absent /\ bin[i] \in Rows
    BY <1>0, <1>b DEF Absent, Typed
  <2>2. bin'[i] = [bin[i] EXCEPT !.status = "restored"] /\ \A j \in Items \ {i} : bin'[j] = bin[j]
    BY <1>0, <1>1 DEF Typed
  <2> QED BY <1>b, <2>1, <2>2 DEF Rows, Absent
<1>3. Typed'
  <2>1. bin' \in [Items -> {Absent} \cup Rows]
    BY <1>0, <1>1, <1>2 DEF Typed
  <2>2. job' \in [Workers -> Jobs]
    BY <1>0, <1>1 DEF Typed, Jobs
  <2>3. live' \subseteq born /\ doubled' \subseteq born
    BY <1>0, <1>b, <1>1 DEF Typed
  <2> QED BY <1>0, <1>1, <2>1, <2>2, <2>3 DEF Typed, Rows, Jobs
<1>4. Filled'
  BY <1>0, <1>2 DEF Filled
<1>5. RowsStay
  BY <1>b, <1>2 DEF RowsStay
<1>6. Reading'
  <2>1. \A j \in Items : bin[j] # Absent => bin'[j].doc = bin[j].doc /\ bin'[j].due = bin[j].due
    BY <1>b, <1>2
  <2>2. \A v \in Workers : job'[v] = job[v] \/ job'[v].op # "restore"
    BY <1>0, <1>1 DEF Typed, Idle
  <2> QED BY <1>0, <1>1, <2>1, <2>2, ReadingKept
<1>7. Scanned'
  BY <1>0, <1>1, <1>5, ScannedSame DEF history
<1>8. \A j \in Items : /\ bin'[j].doc = bin[j].doc /\ bin'[j].due = bin[j].due
                       /\ Pending(j)' <=> Pending(j) /\ j # i
  BY <1>b, <1>2 DEF Pending
<1>9. ASSUME NEW e \in Docs, e # d
      PROVE  PendingOf(e)' = PendingOf(e) /\ (Retained(e)' <=> Retained(e))
  <2>1. PendingOf(e)' = PendingOf(e)
    BY <1>b, <1>8, <1>9 DEF PendingOf
  <2>2. \A j \in PendingOf(e) : bin'[j].due = bin[j].due
    BY <1>8 DEF PendingOf
  <2> QED BY <1>1, <1>9, <2>1, <2>2 DEF Retained
<1>10. d \notin doubled' \cup straddled => Pending(i) /\ ~bin[i].due /\ Retained(d)
  BY <1>1, <1>b DEF Retained, PendingOf
<1>11. Over'
  <2> SUFFICES ASSUME NEW e \in Docs \ (doubled' \cup straddled'), NEW j \in Items,
                      bin'[j].doc = e, bin'[j].due
               PROVE  ~Retained(e)'
    BY DEF Over
  <2>1. ~Retained(e)
    BY <1>0, <1>1, <1>8 DEF Over
  <2> QED BY <1>1, <1>9, <1>10, <2>1
<1>12. Single'
  <2> SUFFICES ASSUME NEW e \in Docs \ doubled'
               PROVE  /\ \A j, k \in Items : Pending(j)' /\ Pending(k)' /\ bin'[j].doc = e /\ bin'[k].doc = e => j = k
                      /\ e \in live' => \A j \in Items : ~(Pending(j)' /\ bin'[j].doc = e)
    BY DEF Single
  <2>1. /\ \A j, k \in Items : Pending(j) /\ Pending(k) /\ bin[j].doc = e /\ bin[k].doc = e => j = k
        /\ e \in live => \A j \in Items : ~(Pending(j) /\ bin[j].doc = e)
    BY <1>0, <1>1 DEF Single
  <2>2. e = d => Pending(i)
    BY <1>1
  <2> QED BY <1>1, <1>b, <1>8, <2>1, <2>2
<1>13. Waiting'
  <2> SUFFICES ASSUME straddled = {}, NEW j \in Items,
                      bin'[j].due, Size[bin'[j].doc] > 0, bin'[j].doc \notin unreleased'
               PROVE  Pending(j)'
    BY <1>1 DEF Waiting
  <2>1. Pending(j)
    BY <1>0, <1>1, <1>8 DEF Waiting
  <2>2. j # i
    BY <1>b, <1>8
  <2> QED BY <1>8, <2>1, <2>2
<1>14. Kept'
  <2> SUFFICES ASSUME NEW e \in born
               PROVE  /\ e \in live' \/ \E j \in Items : bin'[j].doc = e /\ (Pending(j)' \/ bin'[j].due)
                      /\ e \notin doubled' \cup straddled => Whole(e)'
    BY <1>1 DEF Kept
  <2>1. /\ e \in live \/ \E j \in Items : bin[j].doc = e /\ (Pending(j) \/ bin[j].due)
        /\ e \notin doubled \cup straddled => Whole(e)
        /\ e \in Docs
    BY <1>0 DEF Kept, Typed
  <2>2. CASE e = d
    BY <1>1, <1>10, <2>1, <2>2 DEF Whole
  <2>3. CASE e # d
    <3>1. e \in live' \/ \E j \in Items : bin'[j].doc = e /\ (Pending(j)' \/ bin'[j].due)
      BY <1>1, <1>b, <1>8, <2>1, <2>3
    <3>2. e \notin doubled' \cup straddled => Whole(e)'
      BY <1>1, <1>9, <2>1, <2>3 DEF Whole
    <3> QED BY <3>1, <3>2
  <2> QED BY <2>2, <2>3
<1>15. Charged'
  <2> SUFFICES ASSUME straddled = {} PROVE Owed' = Owed
    BY <1>0, <1>1 DEF Charged, Owed
  <2>1. \A e \in born : (\E j \in PendingOf(e)' : bin'[j].due) <=> (\E j \in PendingOf(e) : bin[j].due)
    BY <1>b, <1>8 DEF PendingOf
  <2> QED BY <1>1, <2>1 DEF Owed
<1> QED
  BY <1>3, <1>4, <1>6, <1>7, <1>11, <1>12, <1>13, <1>14, <1>15 DEF IInv

-----------------------------------------------------------------------------
(* Time.                                                                   *)
LEMMA DeadlineKeeps ==
  ASSUME IInv, NEW i \in Items, Deadline(i) PROVE IInv'
<1>0. Typed /\ Filled /\ Reading /\ Scanned /\ Over /\ Single /\ Waiting /\ Kept /\ Charged
  BY DEF IInv
<1>a. PICK d \in Docs : bin[i].doc = d /\ d \in born /\ bin[i] # Absent /\ bin[i] \in Rows
  <2>1. bin[i] # Absent
    BY DEF Deadline, Pending, Absent
  <2> QED BY <1>0, <2>1, RowFacts DEF Typed
<1>1. /\ Pending(i) /\ ~bin[i].due
      /\ bin' = [bin EXCEPT ![i].due = TRUE]
      /\ straddled' = (IF Restoring(i) THEN straddled \cup {d} ELSE straddled)
      /\ UNCHANGED <<born, live, object, used, job, scan, faults, doubled, unreleased>>
  BY <1>a DEF Deadline, data
<1>2. /\ bin'[i].doc = d /\ bin'[i].status = "pending" /\ bin'[i].due = TRUE
      /\ bin'[i] # Absent /\ bin'[i] \in Rows
      /\ \A j \in Items \ {i} : bin'[j] = bin[j]
  <2>1. bin'[i] = [bin[i] EXCEPT !.due = TRUE] /\ \A j \in Items \ {i} : bin'[j] = bin[j]
    BY <1>0, <1>1 DEF Typed
  <2>2. bin[i].status = "pending" /\ bin[i].doc = d /\ bin[i] \in Rows
    BY <1>1, <1>a DEF Pending
  <2>3. bin'[i] = [doc |-> d, status |-> "pending", due |-> TRUE]
    BY <2>1, <2>2 DEF Rows
  <2>4. bin'[i] \in Rows
    BY <1>a, <2>3 DEF Rows
  <2>5. bin'[i] # Absent
    BY <2>3 DEF Absent
  <2> QED BY <2>1, <2>3, <2>4, <2>5
<1>3. Typed'
  <2>1. bin' \in [Items -> {Absent} \cup Rows]
    BY <1>0, <1>1, <1>2 DEF Typed
  <2>2. straddled' \subseteq born
    BY <1>0, <1>a, <1>1 DEF Typed
  <2> QED BY <1>0, <1>1, <2>1, <2>2 DEF Typed, Rows, Jobs
<1>4. Filled'
  BY <1>0, <1>a, <1>2 DEF Filled
<1>5. RowsStay
  BY <1>a, <1>2 DEF RowsStay
<1>6. \A j \in Items : /\ bin'[j].doc = bin[j].doc /\ (bin'[j].due <=> bin[j].due \/ j = i)
                       /\ Pending(j)' <=> Pending(j)
  BY <1>1, <1>a, <1>2 DEF Pending
<1>7. Reading'
  <2>1. straddled \subseteq straddled'
    BY <1>1
  <2>2. \A j \in Items : bin'[j].due => bin[j].due \/ (Restoring(j) => bin[j].doc \in straddled')
    BY <1>1, <1>a, <1>6
  <2> QED BY <1>0, <1>1, <1>6, <2>1, <2>2, ReadingKept
<1>8. Scanned'
  BY <1>0, <1>1, <1>5, ScannedSame
<1>9. ASSUME NEW e \in Docs PROVE PendingOf(e)' = PendingOf(e) /\ (Retained(e)' => Retained(e))
  <2>1. PendingOf(e)' = PendingOf(e)
    BY <1>6 DEF PendingOf
  <2>2. \A j \in PendingOf(e) : bin[j].due => bin'[j].due
    BY <1>6 DEF PendingOf
  <2> QED BY <1>1, <2>1, <2>2 DEF Retained
<1>10. d \notin doubled => ~Retained(d)'
  <2> SUFFICES ASSUME d \notin doubled PROVE ~Retained(d)'
    OBVIOUS
  <2>1. d \notin live
    BY <1>0, <1>1, <1>a DEF Single
  <2>2. \A j \in PendingOf(d) : j = i
    BY <1>0, <1>1, <1>a DEF Single, PendingOf
  <2>3. bin'[i].due
    BY <1>2
  <2> QED BY <1>1, <1>9, <2>1, <2>2, <2>3 DEF Retained
<1>11. Over'
  <2> SUFFICES ASSUME NEW e \in Docs \ (doubled' \cup straddled'), NEW j \in Items,
                      bin'[j].doc = e, bin'[j].due
               PROVE  ~Retained(e)'
    BY DEF Over
  <2>1. CASE e = d
    BY <1>1, <1>10, <2>1
  <2>2. CASE e # d
    <3>1. bin[j].doc = e /\ bin[j].due /\ e \notin doubled \cup straddled
      BY <1>1, <1>a, <1>6, <2>2
    <3>2. ~Retained(e)
      BY <1>0, <3>1 DEF Over
    <3> QED BY <1>9, <3>2
  <2> QED BY <2>1, <2>2
<1>12. Single'
  BY <1>0, <1>1, <1>6 DEF Single
<1>13. Waiting'
  <2> SUFFICES ASSUME straddled' = {}, NEW j \in Items,
                      bin'[j].due, Size[bin'[j].doc] > 0, bin'[j].doc \notin unreleased'
               PROVE  Pending(j)
    BY <1>6 DEF Waiting
  <2>1. straddled = {}
    BY <1>1
  <2> QED BY <1>0, <1>1, <1>6, <2>1 DEF Waiting
<1>14. Kept'
  <2> SUFFICES ASSUME NEW e \in born
               PROVE  /\ e \in live \/ \E j \in Items : bin'[j].doc = e /\ (Pending(j)' \/ bin'[j].due)
                      /\ e \notin doubled \cup straddled' => Whole(e)'
    BY <1>1 DEF Kept
  <2>1. /\ e \in live \/ \E j \in Items : bin[j].doc = e /\ (Pending(j) \/ bin[j].due)
        /\ e \notin doubled \cup straddled => Whole(e)
        /\ e \in Docs
    BY <1>0 DEF Kept, Typed
  <2>2. e \in live \/ \E j \in Items : bin'[j].doc = e /\ (Pending(j)' \/ bin'[j].due)
    BY <1>6, <2>1
  <2>3. e \notin straddled' => e \notin straddled
    BY <1>1
  <2> QED BY <1>1, <1>9, <2>1, <2>2, <2>3 DEF Whole
<1>15. Charged'
  <2> SUFFICES ASSUME straddled' = {} PROVE used <= Bytes(Owed')
    BY <1>1 DEF Charged, Owed
  <2>1. used <= Bytes(Owed) /\ used \in Int
    <3>1. straddled = {}
      BY <1>1
    <3> QED BY <1>0, <3>1 DEF Charged, Owed, Typed
  <2>2. Owed \subseteq Owed'
    BY <1>0, <1>1, <1>6, <1>9 DEF Owed, PendingOf, Typed
  <2>3. Owed' \subseteq Docs
    BY <1>0, <1>1 DEF Owed, Typed
  <2>4. Bytes(Owed) <= Bytes(Owed') /\ Bytes(Owed) \in Int /\ Bytes(Owed') \in Int
    <3> HIDE DEF Owed
    <3>1. IsFiniteSet(Owed) /\ IsFiniteSet(Owed')
      BY <2>2, <2>3, FS_Subset
    <3>2. \A e \in Owed \cup Owed' : Size[e] \in Nat
      BY <2>2, <2>3
    <3>3. SumOf(Size, Owed) <= SumOf(Size, Owed') /\ SumOf(Size, Owed) \in Nat /\ SumOf(Size, Owed') \in Nat
      BY <2>2, <3>1, <3>2, SumCovers, SumNat
    <3> QED BY <3>3, BytesSum
  <2> QED BY <2>1, <2>4
<1> QED
  BY <1>3, <1>4, <1>7, <1>8, <1>11, <1>12, <1>13, <1>14, <1>15 DEF IInv

(* The rows of what was destroyed are removed.                             *)
LEMMA CleanupKeeps ==
  ASSUME IInv, Cleanup PROVE IInv'
<1>0. Typed /\ Reading /\ Scanned
  BY DEF IInv
<1>1. /\ bin' = [i \in Items |-> IF bin[i].status = "expired" THEN [bin[i] EXCEPT !.status = "gone"] ELSE bin[i]]
      /\ UNCHANGED <<born, live, object, used, job, scan, faults, doubled, straddled, unreleased>>
  BY DEF Cleanup, data, history
<1>2. ASSUME NEW i \in Items
      PROVE  /\ bin'[i] \in {Absent} \cup Rows /\ (bin'[i] = Absent <=> bin[i] = Absent)
             /\ bin'[i].doc = bin[i].doc /\ bin'[i].due = bin[i].due
             /\ bin'[i].status = "pending" <=> bin[i].status = "pending"
  <2>1. bin[i] \in {Absent} \cup Rows
    BY <1>0 DEF Typed
  <2>2. CASE bin[i].status = "expired"
    <3>1. bin[i] \in Rows /\ bin[i] # Absent
      BY <2>1, <2>2 DEF Absent
    <3>2. bin'[i] = [bin[i] EXCEPT !.status = "gone"]
      BY <1>1, <2>2
    <3> QED BY <2>2, <3>1, <3>2 DEF Rows, Absent
  <2>3. CASE bin[i].status # "expired"
    BY <1>1, <2>1, <2>3
  <2> QED BY <2>2, <2>3
<1>3. Typed'
  <2>1. bin' \in [Items -> {Absent} \cup Rows]
    BY <1>1, <1>2
  <2> QED BY <1>0, <1>1, <2>1 DEF Typed, Rows, Jobs
<1>4. RowsStay /\ Settles
  BY <1>2 DEF RowsStay, Settles, Pending
<1>5. Reading'
  BY <1>0, <1>1, <1>2, ReadingKept
<1>6. Scanned'
  BY <1>0, <1>1, <1>4, ScannedSame
<1>7. used' <= used
  BY <1>0, <1>1 DEF Typed
<1> QED BY <1>1, <1>3, <1>4, <1>5, <1>6, <1>7, QuietKept DEF IInv

-----------------------------------------------------------------------------
(* The task.                                                               *)

(* A commit of a scan writes only rows that are due and have no file, or   *)
(* one whose release was missed.                                           *)
LEMMA FlushedRows ==
  ASSUME Typed, Scanned, NEW s \in Scanners, bin' = Flushed(scan[s].marked), UNCHANGED unreleased
  PROVE  bin' \in [Items -> {Absent} \cup Rows] /\ RowsStay /\ Settles
<1>1. scan[s].marked \subseteq Items
  BY DEF Typed, Scans
<1>2. ASSUME NEW i \in Items
      PROVE  /\ bin'[i] \in {Absent} \cup Rows /\ (bin'[i] = Absent <=> bin[i] = Absent)
             /\ bin'[i].doc = bin[i].doc /\ bin'[i].due = bin[i].due
             /\ bin'[i].status = "pending" => bin[i].status = "pending"
             /\ bin[i].status = "pending" =>
                  bin'[i].status = "pending" \/ (bin[i].due /\ SparedNow(bin[i].doc))
  <2>1. bin[i] \in {Absent} \cup Rows
    BY DEF Typed
  <2>2. CASE bin'[i] = bin[i]
    BY <2>1, <2>2
  <2>3. CASE bin'[i] # bin[i]
    <3>1. i \in scan[s].marked /\ bin'[i] = [bin[i] EXCEPT !.status = "expired"]
      BY <2>3 DEF Flushed
    <3>2. bin[i].due /\ SparedNow(bin[i].doc)
      BY <3>1 DEF Scanned, Spared, SparedNow
    <3>3. bin[i] \in Rows /\ bin[i] # Absent
      BY <2>1, <3>2 DEF Absent
    <3>4. bin'[i] = [doc |-> bin[i].doc, status |-> "expired", due |-> TRUE] /\ bin[i].doc \in born
      BY <3>1, <3>2, <3>3 DEF Rows
    <3> QED BY <3>2, <3>3, <3>4 DEF Rows, Absent
  <2> QED BY <2>2, <2>3
<1>3. bin' = [i \in Items |-> bin'[i]]
  BY DEF Flushed, Typed
<1> QED BY <1>2, <1>3 DEF RowsStay, Settles, Pending

(* A scan that moves on, and commits or gives back at most.                *)
LEMMA ScanKeeps ==
  ASSUME IInv, NEW s \in Scanners, NEW r \in Scans,
         scan' = [scan EXCEPT ![s] = r],
         \/ bin' = bin /\ unreleased \subseteq unreleased' /\ unreleased' \subseteq born
         \/ bin' = Flushed(scan[s].marked) /\ UNCHANGED unreleased,
         used' \in 0 .. used, faults' \in 0 .. MaxFaults,
         UNCHANGED <<born, live, object, job, doubled, straddled>>,
         \A i \in r.batch \cup r.marked : bin[i].due,
         \A i \in r.marked : SparedNow(bin[i].doc),
         r.pc \in {"object", "release"} => r.item \in Items /\ bin[r.item].due /\ Size[bin[r.item].doc] > 0
  PROVE  IInv'
<1>0. Typed /\ Reading /\ Scanned
  BY DEF IInv
<1>1. bin' \in [Items -> {Absent} \cup Rows] /\ RowsStay /\ Settles
  <2>1. CASE bin' = bin
    BY <1>0, <2>1 DEF Typed, RowsStay, Settles, Pending
  <2>2. CASE bin' = Flushed(scan[s].marked) /\ UNCHANGED unreleased
    BY <1>0, <2>2, FlushedRows
  <2> QED BY <2>1, <2>2
<1>2. scan' \in [Scanners -> Scans] /\ scan'[s] = r /\ \A q \in Scanners \ {s} : scan'[q] = scan[q]
  BY <1>0 DEF Typed
<1>3. used \in 0 .. Quota /\ used' \in 0 .. Quota /\ used' <= used
  BY <1>0 DEF Typed
<1>4. Typed'
  BY <1>0, <1>1, <1>2, <1>3 DEF Typed, Rows, Jobs
<1>5. Reading'
  <2>1. \A i \in Items : bin'[i].doc = bin[i].doc /\ (bin'[i].due => bin[i].due)
    BY <1>1 DEF Settles
  <2> QED BY <1>0, <2>1, ReadingKept
<1>6. Scanned'
  <2>1. r.batch \cup r.marked \subseteq Items
    BY DEF Scans
  <2> QED BY <1>0, <1>1, <1>2, <2>1, ScannedStep
<1> QED BY <1>1, <1>3, <1>4, <1>5, <1>6, QuietKept DEF IInv

(* The same while every release that was missed has been.                  *)
LEMMA ScanMoves ==
  ASSUME IInv, NEW s \in Scanners, NEW r \in Scans,
         scan' = [scan EXCEPT ![s] = r],
         bin' = bin \/ bin' = Flushed(scan[s].marked),
         used' \in 0 .. used, faults' \in 0 .. MaxFaults,
         UNCHANGED <<born, live, object, job, doubled, straddled, unreleased>>,
         \A i \in r.batch \cup r.marked : bin[i].due,
         \A i \in r.marked : Spared(bin[i].doc),
         r.pc \in {"object", "release"} => r.item \in Items /\ bin[r.item].due /\ Size[bin[r.item].doc] > 0
  PROVE  IInv'
<1>1. \A i \in r.marked : SparedNow(bin[i].doc)
  BY DEF Spared, SparedNow
<1>2. unreleased \subseteq unreleased' /\ unreleased' \subseteq born
  BY DEF IInv, Typed
<1> QED BY <1>1, <1>2, ScanKeeps

LEMMA PurgeReadKeeps ==
  ASSUME IInv, NEW s \in Scanners, PurgeRead(s) PROVE IInv'
<1>1. PICK due \in SUBSET Items : /\ due = {i \in Items : Pending(i) /\ bin[i].due}
                                  /\ scan' = [scan EXCEPT ![s] = [Resting EXCEPT !.pc = "next", !.batch = due, !.session = "attached"]]
  BY DEF PurgeRead, Going
<1> DEFINE r == [Resting EXCEPT !.pc = "next", !.batch = due, !.session = "attached"]
<1>2. r \in Scans /\ r.pc = "next" /\ r.batch = due /\ r.marked = {}
  BY DEF Resting, Scans
<1>3. \A i \in due : bin[i].due
  BY <1>1
<1>4. Typed /\ UNCHANGED <<born, live, object, used, bin, job, faults, doubled, straddled, unreleased>>
  BY DEF IInv, PurgeRead, data, history
<1>5. used' \in 0 .. used /\ faults' \in 0 .. MaxFaults
  BY <1>4 DEF Typed
<1> HIDE DEF r
<1> QED BY <1>1, <1>2, <1>3, <1>4, <1>5, ScanMoves DEF r

LEMMA PurgeNextKeeps ==
  ASSUME IInv, NEW s \in Scanners, NEW i \in Items, PurgeNext(s, i) PROVE IInv'
<1>0. Typed /\ Scanned
  BY DEF IInv
<1>1. /\ scan[s].pc = "next" /\ i \in scan[s].batch /\ scan[s] \in Scans
      /\ UNCHANGED <<born, live, object, used, bin, job, faults, doubled, straddled, unreleased>>
  BY <1>0 DEF PurgeNext, data, history, Typed
<1>2. /\ \A j \in scan[s].batch \cup scan[s].marked : bin[j].due
      /\ \A j \in scan[s].marked : Spared(bin[j].doc)
  BY <1>0 DEF Scanned
<1>3. used' \in 0 .. used /\ faults' \in 0 .. MaxFaults
  BY <1>0, <1>1 DEF Typed
<1> DEFINE rest == [scan[s] EXCEPT !.batch = scan[s].batch \ {i}]
<1>4. /\ rest \in Scans /\ rest.pc = "next" /\ rest.batch = scan[s].batch \ {i}
      /\ rest.marked = scan[s].marked /\ rest.session = scan[s].session
  BY <1>1 DEF Scans
<1>5. CASE Size[bin[i].doc] > 0
  <2> DEFINE r == [rest EXCEPT !.pc = "object", !.item = i]
  <2>1. scan' = [scan EXCEPT ![s] = r]
    BY <1>5 DEF PurgeNext, Going
  <2>2. r \in Scans /\ r.batch = rest.batch /\ r.marked = rest.marked /\ r.item = i
    BY <1>4 DEF Scans
  <2>3. bin[i].due
    BY <1>1, <1>2
  <2> HIDE DEF r, rest
  <2> QED BY <1>1, <1>2, <1>3, <1>4, <1>5, <2>1, <2>2, <2>3, ScanMoves
<1>6. CASE ~(Size[bin[i].doc] > 0) /\ rest.session = "attached"
  <2> DEFINE r == [rest EXCEPT !.marked = scan[s].marked \cup {i}]
  <2>1. scan' = [scan EXCEPT ![s] = r]
    BY <1>6 DEF PurgeNext, Going
  <2>2. r \in Scans /\ r.batch = rest.batch /\ r.marked = scan[s].marked \cup {i} /\ r.pc = "next"
    BY <1>1, <1>4 DEF Scans
  <2>3. bin[i].due /\ Spared(bin[i].doc)
    <3>1. bin[i].due
      BY <1>1, <1>2
    <3>2. bin[i].doc \in Docs
      BY <1>0, <3>1, RowFacts
    <3> QED BY <1>6, <3>1, <3>2 DEF Spared
  <2> HIDE DEF r, rest
  <2> QED BY <1>1, <1>2, <1>3, <1>4, <2>1, <2>2, <2>3, ScanMoves
<1>7. CASE ~(Size[bin[i].doc] > 0) /\ rest.session # "attached"
  <2>1. scan' = [scan EXCEPT ![s] = rest]
    BY <1>7 DEF PurgeNext, Going
  <2> HIDE DEF rest
  <2> QED BY <1>1, <1>2, <1>3, <1>4, <2>1, ScanMoves
<1> QED BY <1>5, <1>6, <1>7

(* The file is destroyed, or cannot be and its row stays.                  *)
LEMMA PurgeObjectKeeps ==
  ASSUME IInv, NEW s \in Scanners, PurgeObject(s) PROVE IInv'
<1>0. Typed /\ Filled /\ Reading /\ Scanned /\ Over /\ Single /\ Waiting
  BY DEF IInv
<1>1. /\ scan[s].pc = "object" /\ scan[s] \in Scans
      /\ UNCHANGED <<born, live, used, bin, job, doubled, straddled, unreleased>>
  BY <1>0 DEF PurgeObject, history, Typed
<1>2. /\ \A j \in scan[s].batch \cup scan[s].marked : bin[j].due
      /\ \A j \in scan[s].marked : Spared(bin[j].doc)
      /\ scan[s].item \in Items /\ bin[scan[s].item].due /\ Size[bin[scan[s].item].doc] > 0
  BY <1>0, <1>1 DEF Scanned
<1>3. CASE object' = object \ {bin[scan[s].item].doc} /\ UNCHANGED faults
           /\ Going(s, [scan[s] EXCEPT !.pc = "release"])
  <2> DEFINE r == [scan[s] EXCEPT !.pc = "release"]
  <2>1. scan' = [scan EXCEPT ![s] = r] /\ scan' \in [Scanners -> Scans]
        /\ scan'[s] = r /\ \A q \in Scanners \ {s} : scan'[q] = scan[q]
    <3>1. r \in Scans
      BY <1>1 DEF Scans
    <3> QED BY <1>0, <1>3, <3>1 DEF Going, Typed
  <2>2. r.batch = scan[s].batch /\ r.marked = scan[s].marked /\ r.item = scan[s].item
        /\ r.batch \cup r.marked \subseteq Items
    BY <1>1 DEF Scans
  <2>3. Typed'
    <3>1. object' \subseteq born
      BY <1>0, <1>3 DEF Typed
    <3> QED BY <1>0, <1>1, <1>3, <2>1, <3>1 DEF Typed, Rows, Jobs
  <2>4. Kept' /\ Charged'
    BY <1>1, <1>2, <1>3, ObjectKept
  <2>5. Scanned'
    <3>1. RowsStay
      BY <1>1 DEF RowsStay
    <3> HIDE DEF r
    <3>2. unreleased \subseteq unreleased' /\ \A i \in scan'[s].marked : SparedNow(bin[i].doc)
      BY <1>1, <1>2, <2>1, <2>2 DEF Spared, SparedNow
    <3> QED BY <1>0, <1>2, <2>1, <2>2, <3>1, <3>2, ScannedStep
  <2>6. Filled' /\ Reading' /\ Single' /\ Waiting'
    BY <1>0, <1>1 DEF Filled, Reading, Restores, Single, Waiting, Pending
  <2>7. Over'
    BY <1>0, <1>1 DEF Over, Retained, PendingOf, Pending
  <2> QED BY <2>3, <2>4, <2>5, <2>6, <2>7 DEF IInv
<1>4. CASE Fault /\ UNCHANGED object /\ Going(s, [scan[s] EXCEPT !.pc = "next", !.item = NoItem])
  <2> DEFINE r == [scan[s] EXCEPT !.pc = "next", !.item = NoItem]
  <2>1. scan' = [scan EXCEPT ![s] = r]
    BY <1>4 DEF Going
  <2>2. r \in Scans /\ r.batch = scan[s].batch /\ r.marked = scan[s].marked /\ r.pc = "next"
    BY <1>1 DEF Scans
  <2>3. used' \in 0 .. used /\ faults' \in 0 .. MaxFaults
    BY <1>0, <1>1, <1>4 DEF Typed, Fault
  <2> HIDE DEF r
  <2> QED BY <1>1, <1>2, <1>4, <2>1, <2>2, <2>3, ScanMoves
<1> QED BY <1>3, <1>4 DEF PurgeObject

LEMMA MaxOfTwo ==
  ASSUME NEW a \in Int, NEW b \in Int
  PROVE  Max({a, b}) \in Int /\ Max({a, b}) = IF a >= b THEN a ELSE b
<1> DEFINE m == IF a >= b THEN a ELSE b
<1>1. m \in {a, b} /\ \A y \in {a, b} : m >= y
  OBVIOUS
<1>2. \A x \in {a, b} : (\A y \in {a, b} : x >= y) => x = m
  OBVIOUS
<1> QED BY <1>1, <1>2 DEF Max

LEMMA ReleasedStep ==
  ASSUME Typed, NEW s \in Scanners
  PROVE  /\ scan[s] \in Scans /\ Released(s) \in Scans /\ Released(s).pc = "next"
         /\ Released(s).batch = scan[s].batch /\ Released(s).marked = scan[s].marked
  BY DEF Typed, Scans, Released

LEMMA PurgeReleaseKeeps ==
  ASSUME IInv, NEW s \in Scanners, PurgeRelease(s) \/ PurgeEnd(s) PROVE IInv'
<1>0. Typed /\ Scanned
  BY DEF IInv
<1>1. /\ scan[s] \in Scans /\ bin' = Flushed(scan[s].marked)
      /\ UNCHANGED <<born, live, object, job, faults, doubled, straddled, unreleased>>
  BY <1>0 DEF PurgeRelease, PurgeEnd, data, history, Typed
<1>2. /\ \A j \in scan[s].batch \cup scan[s].marked : bin[j].due
      /\ faults' \in 0 .. MaxFaults /\ used \in 0 .. Quota
  BY <1>0, <1>1 DEF Scanned, Typed
<1>3. ASSUME PurgeRelease(s) PROVE IInv'
  <2> DEFINE r == [Released(s) EXCEPT !.marked = {}, !.session = "removed"]
  <2>1. scan' = [scan EXCEPT ![s] = r]
    BY <1>3 DEF PurgeRelease, Going
  <2>2. r \in Scans /\ r.batch = scan[s].batch /\ r.marked = {} /\ r.pc = "next"
    BY <1>0, ReleasedStep DEF Scans
  <2>3. used' \in 0 .. used
    <3>1. PICK n \in Nat : n = Size[bin[scan[s].item].doc]
      <4>1. scan[s].item \in Items /\ bin[scan[s].item].due
        BY <1>0, <1>3 DEF Scanned, PurgeRelease
      <4>2. bin[scan[s].item].doc \in Docs
        BY <1>0, <4>1, RowFacts
      <4> QED BY <4>2
    <3>2. used' = Max({used - n, 0})
      BY <1>3, <3>1 DEF PurgeRelease
    <3> QED BY <1>2, <3>2, MaxOfTwo
  <2> HIDE DEF r
  <2> QED BY <1>1, <1>2, <2>1, <2>2, <2>3, ScanMoves
<1>4. ASSUME PurgeEnd(s) PROVE IInv'
  <2>1. scan' = [scan EXCEPT ![s] = Resting] /\ used' \in 0 .. used
    BY <1>2, <1>4 DEF PurgeEnd, Going, data
  <2>2. Resting \in Scans /\ Resting.batch = {} /\ Resting.marked = {} /\ Resting.pc = "rest"
    BY DEF Resting, Scans
  <2> QED BY <1>1, <1>2, <2>1, <2>2, ScanMoves
<1> QED BY <1>3, <1>4

(* A release that is missed is remembered with its resource; one whose     *)
(* transaction is lost marks nothing.                                      *)
LEMMA ReleaseFailsKeeps ==
  ASSUME IInv, NEW s \in Scanners, ReleaseMissed(s) \/ ReleaseAborted(s) PROVE IInv'
<1>0. Typed /\ Scanned
  BY DEF IInv
<1>1. /\ scan[s].pc = "release" /\ scan[s] \in Scans
      /\ UNCHANGED <<born, live, object, used, bin, job, doubled, straddled>>
  BY <1>0 DEF ReleaseMissed, ReleaseAborted, data, history, Typed
<1>2. /\ \A j \in scan[s].batch \cup scan[s].marked : bin[j].due
      /\ \A j \in scan[s].marked : Spared(bin[j].doc)
      /\ scan[s].item \in Items /\ bin[scan[s].item].due
  BY <1>0, <1>1 DEF Scanned
<1>3. used' \in 0 .. used /\ faults' \in 0 .. MaxFaults
  BY <1>0, <1>1 DEF ReleaseMissed, ReleaseAborted, Fault, Typed
<1>4. bin[scan[s].item].doc \in born
  BY <1>0, <1>2, RowFacts
<1>5. CASE ReleaseMissed(s) /\ scan[s].session = "attached"
  <2> DEFINE r == [Released(s) EXCEPT !.marked = scan[s].marked \cup {scan[s].item}]
  <2>1. scan' = [scan EXCEPT ![s] = r] /\ unreleased' = unreleased \cup {bin[scan[s].item].doc}
    BY <1>5 DEF ReleaseMissed, Going
  <2>2. r \in Scans /\ r.batch = scan[s].batch /\ r.marked = scan[s].marked \cup {scan[s].item} /\ r.pc = "next"
    BY <1>0, <1>2, ReleasedStep DEF Scans
  <2>3. unreleased \subseteq unreleased' /\ unreleased' \subseteq born
    BY <1>0, <1>4, <2>1 DEF Typed
  <2>4. \A i \in r.marked : SparedNow(bin[i].doc)
    BY <1>2, <2>1, <2>2 DEF Spared, SparedNow
  <2> HIDE DEF r
  <2> QED BY <1>1, <1>2, <1>3, <2>1, <2>2, <2>3, <2>4, ScanKeeps
<1>6. CASE ReleaseMissed(s) /\ scan[s].session # "attached"
  <2>1. scan' = [scan EXCEPT ![s] = Released(s)] /\ UNCHANGED unreleased
    BY <1>6 DEF ReleaseMissed, Going
  <2>2. unreleased' \subseteq born
    BY <1>0, <2>1 DEF Typed
  <2>3. \A i \in Released(s).marked : SparedNow(bin[i].doc)
    BY <1>0, <1>2, <2>1, ReleasedStep DEF Spared, SparedNow
  <2> QED BY <1>0, <1>1, <1>2, <1>3, <2>1, <2>2, <2>3, ReleasedStep, ScanKeeps
<1>7. CASE ReleaseAborted(s)
  <2>0. UNCHANGED unreleased /\ unreleased' \subseteq born
    BY <1>0, <1>7 DEF ReleaseAborted, history, Typed
  <2>1. CASE Going(s, Resting)
    <3>1. Resting \in Scans /\ Resting.batch = {} /\ Resting.marked = {} /\ Resting.pc = "rest"
      BY DEF Resting, Scans
    <3> QED BY <1>1, <1>3, <2>0, <2>1, <3>1, ScanKeeps DEF Going
  <2>2. CASE Going(s, [Released(s) EXCEPT !.marked = {}, !.session = "failed"])
    <3> DEFINE r == [Released(s) EXCEPT !.marked = {}, !.session = "failed"]
    <3>1. scan' = [scan EXCEPT ![s] = r]
      BY <2>2 DEF Going
    <3>2. r \in Scans /\ r.batch = scan[s].batch /\ r.marked = {} /\ r.pc = "next"
      BY <1>0, ReleasedStep DEF Scans
    <3> HIDE DEF r
    <3> QED BY <1>1, <1>2, <1>3, <2>0, <3>1, <3>2, ScanKeeps
  <2> QED BY <1>7, <2>1, <2>2 DEF ReleaseAborted
<1> QED BY <1>5, <1>6, <1>7

LEMMA ProcessLostKeeps ==
  ASSUME IInv, ProcessLost PROVE IInv'
<1>0. Typed
  BY DEF IInv
<1>1. /\ UNCHANGED <<born, live, object, used, bin, doubled, straddled, unreleased>>
      /\ faults' \in 0 .. MaxFaults /\ used' \in 0 .. used
  BY <1>0 DEF ProcessLost, data, history, Fault, Typed
<1>2. ASSUME NEW w \in Workers, Leave(w), UNCHANGED scan PROVE IInv'
  <2>1. job' \in [Workers -> Jobs] /\ \A v \in Workers : job'[v] = job[v] \/ job'[v].op # "restore"
    BY <1>0, <1>2 DEF Leave, Typed, Jobs, Idle
  <2> QED BY <1>1, <1>2, <2>1, AsideKept DEF data, history
<1>3. ASSUME NEW s \in Scanners, Going(s, Resting), UNCHANGED job PROVE IInv'
  <2>1. Resting \in Scans /\ Resting.batch = {} /\ Resting.marked = {} /\ Resting.pc = "rest"
    BY DEF Resting, Scans
  <2> QED BY <1>1, <1>3, <2>1, ScanMoves DEF Going
<1> QED BY <1>2, <1>3 DEF ProcessLost

-----------------------------------------------------------------------------
LEMMA NextIInv == IInv /\ [Next]_vars => IInv'
<1> SUFFICES ASSUME IInv, [Next]_vars PROVE IInv'
  OBVIOUS
<1>1. CASE UNCHANGED vars
  <2>1. Typed
    BY DEF IInv
  <2>2. job' \in [Workers -> Jobs] /\ faults' \in 0 .. MaxFaults
    BY <1>1, <2>1 DEF vars, Typed
  <2> QED BY <1>1, <2>2, AsideKept DEF vars
<1>2. ASSUME NEW w \in Workers, Request(w) PROVE IInv'
  BY <1>2, ReadKeeps, RestoreReadKeeps, DeleteKeeps, RestoreKeeps DEF Request
<1>3. ASSUME NEW s \in Scanners, Purge(s) PROVE IInv'
  BY <1>3, PurgeReadKeeps, PurgeNextKeeps, PurgeObjectKeeps, PurgeReleaseKeeps, ReleaseFailsKeeps DEF Purge
<1> QED
  BY <1>1, <1>2, <1>3, UploadKeeps, DeadlineKeeps, CleanupKeeps, ProcessLostKeeps DEF Next

(* What every request and the task find in the bin has its type.           *)
THEOREM TypeCorrect == Spec => []TypeOK
<1>1. IInv => TypeOK
  BY TypedIsType DEF IInv
<1> QED BY <1>1, InitIInv, NextIInv, PTL DEF Spec

(* Nothing is lost before its deadline, whoever deletes, restores and      *)
(* purges at the same time, whatever fails and is lost.  What is in use or *)
(* can be restored is whole, except a resource that two requests deleted   *)
(* or restored at once, or whose deadline passed while it was restored.    *)
THEOREM NothingLost == Spec => []Kept
<1>1. IInv => Kept
  BY DEF IInv
<1> QED BY <1>1, InitIInv, NextIInv, PTL DEF Spec

(* A resource is in use or once in the bin, unless two requests deleted or *)
(* restored it at once.                                                    *)
THEOREM InOnePlace == Spec => []OnePlace
<1>1. IInv => OnePlace
  BY SingleOnePlace DEF IInv
<1> QED BY <1>1, InitIInv, NextIInv, PTL DEF Spec

(* As long as no deadline passed during a restoration, nobody is charged   *)
(* for bytes that are neither stored, nor waiting to be given back, nor of *)
(* a file whose release was missed while its row was marked.               *)
THEOREM ChargedForWhatIsThere == Spec => []Charged
<1>1. IInv => Charged
  BY DEF IInv
<1> QED BY <1>1, InitIInv, NextIInv, PTL DEF Spec
=============================================================================
