---------------------------- MODULE CdBlockProofs ---------------------------
(* Proofs about the CD block's buffer, host interface and selector.          *)
(* CdBuffer's arrays keep data and addresses paired, and implement           *)
(* SectorStore, for every number and size of partitions.  CdHost's registers *)
(* keep a reply and lose no interrupt, for any set of commands and any       *)
(* length of the period.  CdSelector sends a sector where its filters say,   *)
(* for any bank of them.                                                     *)
EXTENDS CdBuffer, CdHost, CdSelector, SequenceTheorems, FiniteSetTheorems, WellFoundedInduction,
        TLAPS

IInv == TypeOK /\ DataMatchesFad

----------------------------------------------------------------------------
(* Lemmas about the operators. *)

\* A bounded, inhabited set of naturals has a greatest element.
LEMMA BoundedSetHasMax ==
  ASSUME NEW n \in Nat, NEW T \in SUBSET (0 .. n), T # {}
  PROVE  \E m \in T : \A k \in T : k <= m
<1> DEFINE R == {xy \in Nat \X Nat : xy[1] < xy[2]}
<1> DEFINE U == {n - m : m \in T}
<1>1. IsWellFoundedOn(R, Nat)
  BY NatLessThanWellFounded DEF OpToRel
<1>2. U \subseteq Nat /\ U # {}
  <2>1. ASSUME NEW u \in U PROVE u \in Nat
    <3>1. PICK m \in T : u = n - m
      OBVIOUS
    <3>2. m \in 0 .. n
      OBVIOUS
    <3>3. QED BY <3>1, <3>2
  <2>2. PICK m \in T : TRUE
    OBVIOUS
  <2>3. n - m \in U
    BY <2>2
  <2>4. QED BY <2>1, <2>3
<1>3. PICK e \in U : \A g \in U : <<g, e>> \notin R
  BY <1>1, <1>2, WFMin
<1>4. PICK m \in T : e = n - m
  BY <1>3
<1>5. ASSUME NEW k \in T PROVE k <= m
  <2>1. n - k \in U /\ n - k \in Nat /\ e \in Nat
    BY <1>2, <1>3
  <2>2. ~(n - k < e)
    BY <1>3, <2>1
  <2>3. QED BY <2>2, <1>4
<1>6. QED BY <1>5

\* A place in m * w words lies in one of m sectors, at one of w words of it.
LEMMA PlaceInRange ==
  ASSUME NEW m \in Nat, NEW w \in Nat \ {0}, NEW k \in 1 .. m * w
  PROVE  /\ (k - 1) \div w \in 0 .. m - 1
         /\ (k - 1) % w \in Nat
<1> DEFINE q == (k - 1) \div w
<1>1. k - 1 \in Nat /\ k - 1 < m * w /\ m * w \in Nat
  OBVIOUS
<1>2. q \in Nat /\ w * q <= k - 1 /\ (k - 1) % w \in Nat
  BY <1>1
<1>3. q < m
  <2>1. SUFFICES ASSUME m <= q PROVE FALSE
    BY <1>2
  <2>2. PICK d \in Nat : q = m + d
    BY <2>1, <1>2
  <2>3. w * q = w * m + w * d /\ w * d \in Nat /\ w * m = m * w
    BY <2>2
  <2>4. QED BY <2>3, <1>1, <1>2
<1>4. QED BY <1>2, <1>3

\* Clipping keeps a range inside what the partition holds.
LEMMA RangeInside ==
  ASSUME part_sectors \in [Parts -> 0 .. PartSectors],
         NEW p \in Parts, NEW off \in Nat, NEW cnt \in Nat
  PROVE  /\ First(p, off) \in Nat /\ HowMany(p, off, cnt) \in Nat
         /\ First(p, off) + HowMany(p, off, cnt) <= part_sectors[p]
<1>1. part_sectors[p] \in Nat
  BY BufferAssumption
<1>2. QED BY <1>1 DEF First, HowMany, Least

\* A raw read serves some first part of the range.
LEMMA RawServedType ==
  ASSUME NEW p \in Parts, NEW off \in Nat, NEW n \in Nat
  PROVE  /\ RawServed(p, off, n) \in 0 .. n
         /\ \A i \in 1 .. RawServed(p, off, n) : part_fad[p][off + i] \in RawFads
<1> DEFINE T == RawReady(p, off, n)
<1>1. XferWords \in Nat /\ 0 * RawWords = 0
  BY BufferAssumption DEF XferWords
<1>2. T \subseteq 0 .. n /\ 0 \in T
  BY <1>1 DEF RawReady
<1>3. \E m \in T : \A k \in T : k <= m
  BY <1>2, BoundedSetHasMax
<1>4. RawServed(p, off, n) \in T
  BY <1>3 DEF RawServed
<1>5. QED BY <1>4, <1>2 DEF RawReady

\* What is staged is a sequence of words of the slots in range.
LEMMA StagedType ==
  ASSUME NEW slots \in [1 .. PartSectors -> Slot], NEW off \in Nat, NEW m \in Nat,
         off + m <= PartSectors, NEW form \in {"cooked", "raw"}
  PROVE  Staged(slots, off, m, form) \in Seq(Word)
<1> DEFINE w == Width(form)
<1>1. w \in Nat \ {0} /\ m * w \in Nat /\ PartSectors \in Nat
  BY BufferAssumption DEF Width
<1>2. ASSUME NEW k \in 1 .. m * w
      PROVE  [sector |-> slots[off + (k - 1) \div w + 1], form |-> form,
              word |-> (k - 1) % w] \in Word
  <2>1. (k - 1) \div w \in 0 .. m - 1 /\ (k - 1) % w \in Nat
    BY <1>1, PlaceInRange
  <2>2. off + (k - 1) \div w + 1 \in 1 .. PartSectors
    BY <2>1, <1>1
  <2>3. QED BY <2>1, <2>2 DEF Word
<1>3. Staged(slots, off, m, form) \in [1 .. m * w -> Word]
  BY <1>2 DEF Staged
<1>4. QED BY <1>1, <1>3

----------------------------------------------------------------------------
(* The invariant. *)

LEMMA InitInvariant == Init => IInv
  BY BufferAssumption DEF Init, IInv, TypeOK, DataMatchesFad, Slot

LEMMA StoreInvariant ==
  ASSUME IInv, NEW q \in Parts, NEW f \in Fads, StoreSector(q, f)
  PROVE  IInv'
<1>1. part_sectors[q] + 1 \in 1 .. PartSectors /\ PartSectors \in Nat /\ part_sectors[q] \in Nat
  BY BufferAssumption DEF IInv, TypeOK, StoreSector
<1>2. TypeOK'
  BY <1>1, BufferAssumption DEF IInv, TypeOK, StoreSector, transfer, Slot
<1>3. DataMatchesFad'
  <2> SUFFICES ASSUME NEW p \in Parts, NEW i \in 1 .. part_sectors'[p]
               PROVE  part'[p][i] = part_fad'[p][i] /\ part'[p][i] \in Fads
    BY DEF DataMatchesFad
  <2>1. CASE p # q
    BY <2>1 DEF IInv, TypeOK, DataMatchesFad, StoreSector
  <2>2. CASE p = q /\ i = part_sectors[q] + 1
    BY <2>2, <1>1 DEF IInv, TypeOK, StoreSector
  <2>3. CASE p = q /\ i # part_sectors[q] + 1
    <3>1. i \in 1 .. part_sectors[q]
      BY <2>3, <1>1 DEF IInv, TypeOK, StoreSector
    <3>2. part'[p][i] = part[p][i] /\ part_fad'[p][i] = part_fad[p][i]
      BY <2>3, <3>1, <1>1 DEF IInv, TypeOK, StoreSector
    <3>3. QED BY <3>1, <3>2, <2>3 DEF IInv, DataMatchesFad
  <2>4. QED BY <2>1, <2>2, <2>3
<1>4. QED BY <1>2, <1>3 DEF IInv

\* Deleting a range inside a partition keeps data and addresses paired.
LEMMA DeleteKeeps ==
  ASSUME IInv, NEW p \in Parts, NEW off \in Nat, NEW n \in Nat,
         off + n <= part_sectors[p], DeleteRange(p, off, n)
  PROVE  /\ part' \in [Parts -> [1 .. PartSectors -> Slot]]
         /\ part_fad' \in [Parts -> [1 .. PartSectors -> Slot]]
         /\ part_sectors' \in [Parts -> 0 .. PartSectors]
         /\ DataMatchesFad'
<1>1. /\ part \in [Parts -> [1 .. PartSectors -> Slot]]
      /\ part_fad \in [Parts -> [1 .. PartSectors -> Slot]]
      /\ part_sectors \in [Parts -> 0 .. PartSectors]
      /\ PartSectors \in Nat
  BY BufferAssumption DEF IInv, TypeOK
<1>2. /\ part' = [part EXCEPT ![p] = Compact(part[p], off, n, part_sectors[p])]
      /\ part_fad' = [part_fad EXCEPT ![p] = Compact(part_fad[p], off, n, part_sectors[p])]
      /\ part_sectors' = [part_sectors EXCEPT ![p] = part_sectors[p] - n]
  BY DEF DeleteRange
<1>3. /\ Compact(part[p], off, n, part_sectors[p]) \in [1 .. PartSectors -> Slot]
      /\ Compact(part_fad[p], off, n, part_sectors[p]) \in [1 .. PartSectors -> Slot]
      /\ \A i \in 1 .. part_sectors[p] - n :
           /\ Compact(part[p], off, n, part_sectors[p])[i]
                = part[p][IF i <= off THEN i ELSE i + n]
           /\ Compact(part_fad[p], off, n, part_sectors[p])[i]
                = part_fad[p][IF i <= off THEN i ELSE i + n]
  <2> DEFINE count == part_sectors[p]
             data == part[p]
             fads == part_fad[p]
  <2>1. data \in [1 .. PartSectors -> Slot] /\ fads \in [1 .. PartSectors -> Slot]
        /\ count \in 0 .. PartSectors /\ off + n <= count
    BY <1>1
  <2> HIDE DEF count, data, fads
  <2>2. /\ Compact(data, off, n, count) \in [1 .. PartSectors -> Slot]
        /\ \A i \in 1 .. count - n :
             Compact(data, off, n, count)[i] = data[IF i <= off THEN i ELSE i + n]
    BY <2>1, <1>1 DEF Compact
  <2>3. /\ Compact(fads, off, n, count) \in [1 .. PartSectors -> Slot]
        /\ \A i \in 1 .. count - n :
             Compact(fads, off, n, count)[i] = fads[IF i <= off THEN i ELSE i + n]
    BY <2>1, <1>1 DEF Compact
  <2>4. QED BY <2>2, <2>3 DEF count, data, fads
<1>4. part_sectors[p] - n \in 0 .. PartSectors
  BY <1>1
<1>5. /\ part' \in [Parts -> [1 .. PartSectors -> Slot]]
      /\ part_fad' \in [Parts -> [1 .. PartSectors -> Slot]]
      /\ part_sectors' \in [Parts -> 0 .. PartSectors]
  BY <1>1, <1>2, <1>3, <1>4
<1>6. ASSUME NEW q \in Parts, NEW i \in 1 .. part_sectors'[q]
      PROVE  part'[q][i] = part_fad'[q][i] /\ part'[q][i] \in Fads
  <2>1. CASE q # p
    BY <2>1, <1>1, <1>2 DEF IInv, DataMatchesFad
  <2>2. CASE q = p
    <3> DEFINE j == IF i <= off THEN i ELSE i + n
    <3>1. i \in 1 .. part_sectors[p] - n
      BY <2>2, <1>1, <1>2
    <3>2. j \in 1 .. part_sectors[p]
      BY <3>1, <1>1
    <3>3. part'[q][i] = part[p][j] /\ part_fad'[q][i] = part_fad[p][j]
      BY <3>1, <2>2, <1>1, <1>2, <1>3
    <3>4. QED BY <3>2, <3>3 DEF IInv, DataMatchesFad
  <2>3. QED BY <2>1, <2>2
<1>7. QED BY <1>5, <1>6 DEF DataMatchesFad

\* The transfer part of a sector read.
LEMMA GetStages ==
  ASSUME IInv, NEW p \in Parts, NEW off \in Nat, NEW cnt \in Nat, NEW remove \in BOOLEAN,
         GetSectorData(p, off, cnt, remove)
  PROVE  xfer' \in Seq(Word)
<1> DEFINE first == First(p, off)
           n == HowMany(p, off, cnt)
<1>1. first \in Nat /\ n \in Nat /\ first + n <= part_sectors[p] /\ part_sectors[p] \in 0 .. PartSectors
      /\ PartSectors \in Nat
  BY RangeInside, BufferAssumption DEF IInv, TypeOK
<1>2. part[p] \in [1 .. PartSectors -> Slot] /\ part_fad[p] \in [1 .. PartSectors -> Slot]
  BY DEF IInv, TypeOK
<1>3. RawServed(p, first, n) \in 0 .. n
  BY <1>1, RawServedType
<1>4. CASE sec_len_get = RawWords
  <2>1. xfer' = Staged(part_fad[p], first, RawServed(p, first, n), "raw")
    BY <1>4 DEF GetSectorData
  <2>2. first + RawServed(p, first, n) <= PartSectors /\ RawServed(p, first, n) \in Nat
    BY <1>1, <1>3
  <2>3. QED BY <2>1, <2>2, <1>1, <1>2, StagedType
<1>5. CASE sec_len_get # RawWords
  <2>1. xfer' = Staged(part[p], first, n, "cooked")
    BY <1>5 DEF GetSectorData
  <2>2. first + n <= PartSectors
    BY <1>1
  <2>3. QED BY <2>1, <2>2, <1>1, <1>2, StagedType
<1>6. QED BY <1>4, <1>5

LEMMA GetInvariant ==
  ASSUME IInv, NEW p \in Parts, NEW off \in Nat, NEW cnt \in Nat, NEW remove \in BOOLEAN,
         GetSectorData(p, off, cnt, remove)
  PROVE  IInv'
<1> DEFINE first == First(p, off)
           n == HowMany(p, off, cnt)
<1>1. xfer' \in Seq(Word) /\ xfer_pos' = 0 /\ Len(xfer') \in Nat
  BY GetStages, LenProperties DEF GetSectorData
<1>2. first \in Nat /\ n \in Nat /\ first + n <= part_sectors[p]
  BY RangeInside DEF IInv, TypeOK
<1>3. /\ xfer_type' = "sector" /\ raised' = {"DRDY"}
      /\ sec_len_get' = sec_len_get /\ calc_words' = calc_words
  BY DEF GetSectorData
<1>4. /\ part' \in [Parts -> [1 .. PartSectors -> Slot]]
      /\ part_fad' \in [Parts -> [1 .. PartSectors -> Slot]]
      /\ part_sectors' \in [Parts -> 0 .. PartSectors]
      /\ DataMatchesFad'
  <2>1. CASE remove
    <3>1. DeleteRange(p, first, n)
      BY <2>1 DEF GetSectorData
    <3>2. QED BY <3>1, <1>2, DeleteKeeps
  <2>2. CASE ~remove
    BY <2>2 DEF GetSectorData, store, IInv, TypeOK, DataMatchesFad
  <2>3. QED BY <2>1, <2>2
<1>5. QED BY <1>1, <1>3, <1>4 DEF IInv, TypeOK

LEMMA DeleteInvariant ==
  ASSUME IInv, NEW p \in Parts, NEW off \in Nat, NEW cnt \in Nat,
         DeleteSectorData(p, off, cnt)
  PROVE  IInv'
<1> DEFINE first == First(p, off)
           n == HowMany(p, off, cnt)
<1>1. first \in Nat /\ n \in Nat /\ first + n <= part_sectors[p]
  BY RangeInside DEF IInv, TypeOK
<1>2. DeleteRange(p, first, n) /\ raised' = {"EHST"}
      /\ UNCHANGED <<xfer, xfer_pos, xfer_type, sec_len_get, calc_words>>
  BY DEF DeleteSectorData, transfer
<1>3. /\ part' \in [Parts -> [1 .. PartSectors -> Slot]]
      /\ part_fad' \in [Parts -> [1 .. PartSectors -> Slot]]
      /\ part_sectors' \in [Parts -> 0 .. PartSectors]
      /\ DataMatchesFad'
  BY <1>1, <1>2, DeleteKeeps
<1>4. QED BY <1>2, <1>3 DEF IInv, TypeOK

\* The commands that move no sector.
LEMMA OtherInvariant ==
  ASSUME IInv,
         \/ \E cleared \in {Parts} \cup {{q} : q \in Parts} : ResetSelector(cleared)
         \/ \E soft \in BOOLEAN : InitializeCDSystem(soft)
         \/ AbortFile \/ EndDataTransfer \/ StageReply \/ SetSectorLength
         \/ ReadDtr
         \/ UNCHANGED vars
  PROVE  IInv'
<1>1. CASE \E cleared \in {Parts} \cup {{q} : q \in Parts} : ResetSelector(cleared)
  BY <1>1, BufferAssumption DEF IInv, TypeOK, DataMatchesFad, ResetSelector, transfer
<1>2. CASE \E soft \in BOOLEAN : InitializeCDSystem(soft)
  BY <1>2, BufferAssumption, EmptySeq
     DEF IInv, TypeOK, DataMatchesFad, InitializeCDSystem
<1>3. CASE AbortFile
  BY <1>3, EmptySeq DEF IInv, TypeOK, DataMatchesFad, AbortFile, store
<1>4. CASE EndDataTransfer
  BY <1>4, EmptySeq DEF IInv, TypeOK, DataMatchesFad, EndDataTransfer, store
<1>5. CASE StageReply
  BY <1>5, BufferAssumption, LenProperties
     DEF IInv, TypeOK, DataMatchesFad, StageReply, store
<1>6. CASE SetSectorLength
  BY <1>6 DEF IInv, TypeOK, DataMatchesFad, SetSectorLength, store, transfer
<1>7. CASE ReadDtr
  <2>1. Len(xfer) \in Nat /\ xfer_pos' \in 0 .. Len(xfer)
    BY <1>7, LenProperties DEF IInv, TypeOK, ReadDtr
  <2>2. raised' \subseteq {"EHST"}
    BY <1>7 DEF ReadDtr
  <2>3. QED BY <2>1, <2>2, <1>7 DEF IInv, TypeOK, DataMatchesFad, ReadDtr, store
<1>8. CASE UNCHANGED vars
  BY <1>8 DEF IInv, TypeOK, DataMatchesFad, vars, store, transfer
<1>9. QED BY <1>1, <1>2, <1>3, <1>4, <1>5, <1>6, <1>7, <1>8

LEMMA QuoteInvariant ==
  ASSUME IInv, NEW p \in Parts, NEW off \in Nat, NEW cnt \in Nat,
         CalculateActualSize(p, off, cnt)
  PROVE  IInv'
<1>1. HowMany(p, off, cnt) \in Nat
  BY RangeInside DEF IInv, TypeOK
<1>2. (IF sec_len_get = 0 THEN SectorWords ELSE sec_len_get) \in Nat
  BY BufferAssumption DEF IInv, TypeOK
<1>3. calc_words' \in Nat
  BY <1>1, <1>2 DEF CalculateActualSize
<1>4. QED BY <1>3 DEF IInv, TypeOK, DataMatchesFad, CalculateActualSize, store, transfer

LEMMA StepInvariant == IInv /\ [Next]_vars => IInv'
<1> SUFFICES ASSUME IInv, [Next]_vars PROVE IInv'
  OBVIOUS
<1>1. Offsets \subseteq Nat /\ Counts \subseteq Nat /\ Queries \subseteq Offsets \X Counts
  BY BufferAssumption
<1>2. ASSUME NEW q \in Parts, NEW f \in Fads, StoreSector(q, f) PROVE IInv'
  BY <1>2, StoreInvariant
<1>3. ASSUME NEW p \in Parts, NEW off \in Offsets, NEW cnt \in Counts, NEW remove \in BOOLEAN,
             GetSectorData(p, off, cnt, remove)
      PROVE  IInv'
  BY <1>3, <1>1, GetInvariant
<1>4. ASSUME NEW p \in Parts, NEW off \in Offsets, NEW cnt \in Counts,
             DeleteSectorData(p, off, cnt)
      PROVE  IInv'
  BY <1>4, <1>1, DeleteInvariant
<1>5. ASSUME NEW p \in Parts, NEW query \in Queries,
             CalculateActualSize(p, query[1], query[2])
      PROVE  IInv'
  <2>1. query[1] \in Nat /\ query[2] \in Nat
    BY <1>1
  <2>2. QED BY <1>5, <2>1, QuoteInvariant
<1>6. QED BY <1>2, <1>3, <1>4, <1>5, OtherInvariant DEF Next

\* The two arrays of every partition stay paired, and every variable keeps its
\* type (TypeOK: counts within their partition, positions within the FIFO).
THEOREM BufferInvariance == Spec => []IInv
<1>1. QED BY InitInvariant, StepInvariant, PTL DEF Spec

\* Every variable of the buffer keeps its type, whatever the host asks for.
THEOREM BufferTypeCorrect == Spec => []TypeOK
<1>1. IInv => TypeOK
  BY DEF IInv
<1>2. QED BY <1>1, BufferInvariance, PTL

\* Data and frame address of every stored sector agree.
THEOREM ArraysAgree == Spec => []DataMatchesFad
<1>1. IInv => DataMatchesFad
  BY DEF IInv
<1>2. QED BY <1>1, BufferInvariance, PTL
----------------------------------------------------------------------------
(* The implementation of SectorStore. *)

\* The refinement mapping: a partition's queue is the used part of its slots,
\* and what is handed over is the unread rest of the FIFO.
Queue == [q \in Parts |-> [i \in 1 .. part_sectors[q] |-> part[q][i]]]
Unread == [i \in 1 .. Len(xfer) - xfer_pos |-> xfer[xfer_pos + i]]

LEMMA QueueFacts ==
  ASSUME IInv
  PROVE  /\ PartSectors \in Nat
         /\ \A q \in Parts : /\ part_sectors[q] \in 0 .. PartSectors
                             /\ part[q] \in [1 .. PartSectors -> Slot]
                             /\ Queue[q] \in Seq(Slot)
                             /\ Len(Queue[q]) = part_sectors[q]
<1>1. PartSectors \in Nat
  BY BufferAssumption
<1>2. ASSUME NEW q \in Parts
      PROVE  /\ part_sectors[q] \in 0 .. PartSectors
             /\ part[q] \in [1 .. PartSectors -> Slot]
             /\ Queue[q] \in Seq(Slot)
             /\ Len(Queue[q]) = part_sectors[q]
  <2>1. part_sectors[q] \in 0 .. PartSectors /\ part[q] \in [1 .. PartSectors -> Slot]
    BY DEF IInv, TypeOK
  <2>2. Queue[q] = [i \in 1 .. part_sectors[q] |-> part[q][i]]
    BY DEF Queue
  <2>3. Queue[q] \in [1 .. part_sectors[q] -> Slot]
    BY <2>1, <2>2, <1>1
  <2>4. QED BY <2>1, <2>3
<1>3. QED BY <1>1, <1>2

\* Words of slots and words of the queue they hold are the same words.
LEMMA StagedIsWords ==
  ASSUME NEW slots, NEW count \in Nat, NEW off \in Nat, NEW m \in Nat,
         off + m <= count, NEW form \in {"cooked", "raw"}
  PROVE  Staged(slots, off, m, form)
           = Abstract!WordsOf([i \in 1 .. count |-> slots[i]], off, m, form)
<1> DEFINE w == Width(form)
           s == [i \in 1 .. count |-> slots[i]]
<1>1. w \in Nat \ {0} /\ Abstract!Width(form) = w
  BY BufferAssumption DEF Width, Abstract!Width
<1>2. ASSUME NEW k \in 1 .. m * w
      PROVE  s[off + (k - 1) \div w + 1] = slots[off + (k - 1) \div w + 1]
  <2>1. (k - 1) \div w \in 0 .. m - 1
    BY <1>1, PlaceInRange
  <2>2. off + (k - 1) \div w + 1 \in 1 .. count
    BY <2>1
  <2>3. QED BY <2>2
<1> HIDE DEF s, w
<1>3. [k \in 1 .. m * w |->
         [sector |-> s[off + (k - 1) \div w + 1], form |-> form, word |-> (k - 1) % w]]
      = [k \in 1 .. m * w |->
         [sector |-> slots[off + (k - 1) \div w + 1], form |-> form, word |-> (k - 1) % w]]
  BY <1>2
<1>4. QED BY <1>1, <1>3 DEF Staged, Abstract!WordsOf, s, w

\* A fresh transfer is unread from its first word on.
LEMMA FreshUnread ==
  ASSUME xfer' \in Seq(Word), xfer_pos' = 0
  PROVE  Unread' = xfer'
  BY LenProperties DEF Unread

\* Storing a sector appends it to its queue.
LEMMA StoreImplements ==
  ASSUME IInv, NEW q \in Parts, NEW f \in Fads, StoreSector(q, f)
  PROVE  Abstract!Append1(q, f)
<1>1. /\ part_sectors[q] \in 0 .. PartSectors /\ part_sectors[q] < PartSectors
      /\ Len(Queue[q]) = part_sectors[q] /\ Queue[q] \in Seq(Slot)
      /\ PartSectors \in Nat
  BY QueueFacts DEF StoreSector
<1>2. Queue' = [Queue EXCEPT ![q] = Append(@, f)]
  <2>1. ASSUME NEW p \in Parts
        PROVE  Queue'[p] = IF p = q THEN Append(Queue[q], f) ELSE Queue[p]
    <3>1. CASE p # q
      BY <3>1 DEF Queue, StoreSector, IInv, TypeOK
    <3>2. CASE p = q
      <4>1. part_sectors'[q] = part_sectors[q] + 1
        BY DEF StoreSector, IInv, TypeOK
      <4>2. ASSUME NEW i \in 1 .. part_sectors[q] + 1
            PROVE  part'[q][i] = IF i = part_sectors[q] + 1 THEN f ELSE Queue[q][i]
        BY <1>1 DEF Queue, StoreSector, IInv, TypeOK
      <4>3. Queue'[q] = [i \in 1 .. part_sectors[q] + 1 |->
                           IF i = part_sectors[q] + 1 THEN f ELSE Queue[q][i]]
        BY <4>1, <4>2 DEF Queue
      <4>4. Append(Queue[q], f) = [i \in 1 .. part_sectors[q] + 1 |->
                           IF i = part_sectors[q] + 1 THEN f ELSE Queue[q][i]]
        BY <1>1
      <4>5. QED BY <3>2, <4>3, <4>4
    <3>3. QED BY <3>1, <3>2
  <2>2. QED BY <2>1 DEF Queue
<1>3. Unread' = Unread /\ dtr' = Dry
  BY DEF Unread, StoreSector, transfer
<1>4. QED BY <1>1, <1>2, <1>3 DEF Abstract!Append1, Queue, Unread

\* Deleting a range of slots removes it from the queue.
LEMMA DeleteImplements ==
  ASSUME IInv, NEW p \in Parts, NEW off \in Nat, NEW n \in Nat,
         off + n <= part_sectors[p], DeleteRange(p, off, n)
  PROVE  Queue' = [Queue EXCEPT ![p] = Abstract!Without(@, off, n)]
<1>1. /\ part_sectors[p] \in 0 .. PartSectors /\ PartSectors \in Nat
      /\ Len(Queue[p]) = part_sectors[p] /\ part[p] \in [1 .. PartSectors -> Slot]
  BY QueueFacts
<1>2. ASSUME NEW q \in Parts
      PROVE  Queue'[q] = IF q = p THEN Abstract!Without(Queue[p], off, n) ELSE Queue[q]
  <2>1. CASE q # p
    BY <2>1 DEF Queue, DeleteRange, IInv, TypeOK
  <2>2. CASE q = p
    <3>1. part_sectors'[p] = part_sectors[p] - n
      BY DEF DeleteRange, IInv, TypeOK
    <3>2. part'[p] = Compact(part[p], off, n, part_sectors[p])
      BY DEF DeleteRange, IInv, TypeOK
    <3>3. ASSUME NEW i \in 1 .. part_sectors[p] - n
          PROVE  part'[p][i] = IF i <= off THEN Queue[p][i] ELSE Queue[p][i + n]
      BY <1>1, <3>2 DEF Compact, Queue
    <3>4. Queue'[p] = [i \in 1 .. part_sectors[p] - n |->
                         IF i <= off THEN Queue[p][i] ELSE Queue[p][i + n]]
      BY <3>1, <3>3 DEF Queue
    <3>5. QED BY <3>4, <2>2, <1>1 DEF Abstract!Without
  <2>3. QED BY <2>1, <2>2
<1>3. QED BY <1>2 DEF Queue

LEMMA GetImplements ==
  ASSUME IInv, NEW p \in Parts, NEW off \in Nat, NEW cnt \in Nat, NEW remove \in BOOLEAN,
         GetSectorData(p, off, cnt, remove)
  PROVE  \E form \in {"cooked", "raw"}, o \in 0 .. PartSectors, n \in 0 .. PartSectors :
           Abstract!Hand(p, o, n, form, remove)
<1> DEFINE first == First(p, off)
           n == HowMany(p, off, cnt)
           form == IF sec_len_get = RawWords THEN "raw" ELSE "cooked"
           m == IF sec_len_get = RawWords THEN RawServed(p, first, n) ELSE n
<1>1. /\ first \in Nat /\ n \in Nat /\ first + n <= part_sectors[p]
      /\ part_sectors[p] \in 0 .. PartSectors /\ PartSectors \in Nat
      /\ Len(Queue[p]) = part_sectors[p]
  BY RangeInside, QueueFacts DEF IInv, TypeOK
<1>2. m \in 0 .. n /\ (form = "cooked" => m = n)
  <2>1. RawServed(p, first, n) \in 0 .. n
    BY <1>1, RawServedType
  <2>2. n \in 0 .. n
    BY <1>1
  <2>3. CASE sec_len_get = RawWords
    BY <2>1, <2>3
  <2>4. CASE sec_len_get # RawWords
    BY <2>2, <2>4
  <2>5. QED BY <2>3, <2>4
<1>3. Queue[p] = [i \in 1 .. part_sectors[p] |-> part[p][i]]
      /\ Queue[p] = [i \in 1 .. part_sectors[p] |-> part_fad[p][i]]
  BY DEF Queue, IInv, DataMatchesFad
<1>4. xfer' = Abstract!WordsOf(Queue[p], first, m, form)
  <2>1. first + m <= part_sectors[p] /\ m \in Nat /\ part_sectors[p] \in Nat
    BY <1>1, <1>2
  <2>2. CASE sec_len_get = RawWords
    <3>1. xfer' = Staged(part_fad[p], first, m, "raw")
      BY <2>2 DEF GetSectorData
    <3>2. Staged(part_fad[p], first, m, "raw")
            = Abstract!WordsOf([i \in 1 .. part_sectors[p] |-> part_fad[p][i]], first, m, "raw")
      BY <2>1, <1>1, StagedIsWords
    <3>3. QED BY <3>1, <3>2, <1>3, <2>2
  <2>3. CASE sec_len_get # RawWords
    <3>1. xfer' = Staged(part[p], first, m, "cooked")
      BY <2>3 DEF GetSectorData
    <3>2. Staged(part[p], first, m, "cooked")
            = Abstract!WordsOf([i \in 1 .. part_sectors[p] |-> part[p][i]], first, m, "cooked")
      <4> DEFINE slots == part[p]
      <4>1. first \in Nat /\ m \in Nat /\ part_sectors[p] \in Nat
        BY <2>1, <1>1
      <4>2. Staged(slots, first, m, "cooked")
              = Abstract!WordsOf([i \in 1 .. part_sectors[p] |-> slots[i]], first, m, "cooked")
        <5> HIDE DEF slots, first, m
        <5>1. QED BY <2>1, <4>1, StagedIsWords
      <4>3. QED BY <4>2
    <3>3. form = "cooked" /\ Queue[p] = [i \in 1 .. part_sectors[p] |-> part[p][i]]
      BY <1>3, <2>3
    <3>4. QED BY <3>1, <3>2, <3>3, Zenon
  <2>4. QED BY <2>2, <2>3
<1>5. Unread' = xfer' /\ dtr' = Dry
  BY GetStages, FreshUnread DEF GetSectorData
<1>6. Queue' = IF remove THEN [Queue EXCEPT ![p] = Abstract!Without(@, first, n)] ELSE Queue
  <2>1. CASE remove
    <3>1. DeleteRange(p, first, n)
      BY <2>1 DEF GetSectorData
    <3>2. QED BY <3>1, <2>1, <1>1, DeleteImplements
  <2>2. CASE ~remove
    BY <2>2 DEF GetSectorData, store, Queue
  <2>3. QED BY <2>1, <2>2
<1>7. PICK o \in 0 .. PartSectors, k \in 0 .. PartSectors, f \in {"cooked", "raw"} :
        o = first /\ k = n /\ f = form
  <2>1. first \in 0 .. PartSectors /\ n \in 0 .. PartSectors
    BY <1>1
  <2>2. form \in {"cooked", "raw"}
    OBVIOUS
  <2> HIDE DEF first, n, form
  <2>3. QED BY <2>1, <2>2
<1> HIDE DEF first, n, form, m
<1>8. Abstract!Hand(p, o, k, f, remove)
  BY <1>1, <1>2, <1>4, <1>5, <1>6, <1>7 DEF Abstract!Hand, Queue, Unread
<1>9. QED BY <1>8

LEMMA OtherImplements ==
  ASSUME IInv,
         \/ \E cleared \in {Parts} \cup {{q} : q \in Parts} : ResetSelector(cleared)
         \/ \E soft \in BOOLEAN : InitializeCDSystem(soft)
         \/ AbortFile \/ EndDataTransfer \/ SetSectorLength
         \/ \E p \in Parts, query \in Queries : CalculateActualSize(p, query[1], query[2])
  PROVE  \E cleared \in SUBSET Parts : Abstract!Clear(cleared)
<1>1. CASE \E cleared \in {Parts} \cup {{q} : q \in Parts} : ResetSelector(cleared)
  <2>1. PICK cleared \in {Parts} \cup {{q} : q \in Parts} : ResetSelector(cleared)
    BY <1>1
  <2>2. Queue' = [q \in Parts |-> IF q \in cleared THEN <<>> ELSE Queue[q]]
    <3>1. ASSUME NEW q \in Parts
          PROVE  [i \in 1 .. part_sectors'[q] |-> part'[q][i]]
                   = IF q \in cleared THEN <<>> ELSE [i \in 1 .. part_sectors[q] |-> part[q][i]]
      <4>1. CASE q \in cleared
        <5>1. part_sectors'[q] = 0
          BY <2>1, <4>1 DEF ResetSelector
        <5>2. QED BY <5>1, <4>1
      <4>2. CASE q \notin cleared
        BY <2>1, <4>2 DEF ResetSelector
      <4>3. QED BY <4>1, <4>2
    <3>2. QED BY <3>1 DEF Queue
  <2>3. Unread' = Unread /\ dtr' = Dry
    BY <2>1 DEF ResetSelector, transfer, Unread
  <2>4. cleared \in SUBSET Parts
    BY <2>1
  <2>5. Abstract!Clear(cleared)
    BY <2>2, <2>3 DEF Abstract!Clear, Queue, Unread
  <2>6. QED BY <2>4, <2>5
<1>2. CASE \E soft \in BOOLEAN : InitializeCDSystem(soft)
  <2>1. PICK soft \in BOOLEAN : InitializeCDSystem(soft)
    BY <1>2
  <2>2. Unread' = <<>> /\ dtr' = Dry
    BY <2>1 DEF InitializeCDSystem, Unread
  <2>3. CASE soft
    <3>1. Queue' = [q \in Parts |-> IF q \in Parts THEN <<>> ELSE Queue[q]]
      BY <2>1, <2>3 DEF InitializeCDSystem, Queue
    <3>2. Abstract!Clear(Parts)
      BY <3>1, <2>2 DEF Abstract!Clear, Queue, Unread
    <3>3. QED BY <3>2
  <2>4. CASE ~soft
    <3>1. Queue' = [q \in Parts |-> IF q \in {} THEN <<>> ELSE Queue[q]]
      BY <2>1, <2>4 DEF InitializeCDSystem, Queue
    <3>2. Abstract!Clear({})
      BY <3>1, <2>2 DEF Abstract!Clear, Queue, Unread
    <3>3. QED BY <3>2
  <2>5. QED BY <2>3, <2>4
<1>3. CASE AbortFile \/ EndDataTransfer
  <2>1. Unread' = <<>> /\ dtr' = Dry
    BY <1>3 DEF AbortFile, EndDataTransfer, Unread
  <2>2. Queue' = [q \in Parts |-> IF q \in {} THEN <<>> ELSE Queue[q]]
    BY <1>3 DEF AbortFile, EndDataTransfer, store, Queue
  <2>3. Abstract!Clear({})
    BY <2>1, <2>2 DEF Abstract!Clear, Queue, Unread
  <2>4. QED BY <2>3
<1>4. CASE SetSectorLength
           \/ \E p \in Parts, query \in Queries : CalculateActualSize(p, query[1], query[2])
  <2>1. Unread' = Unread /\ dtr' = Dry
    BY <1>4 DEF SetSectorLength, CalculateActualSize, transfer, Unread
  <2>2. Queue' = [q \in Parts |-> IF q \in {} THEN <<>> ELSE Queue[q]]
    BY <1>4 DEF SetSectorLength, CalculateActualSize, store, Queue
  <2>3. Abstract!Clear({})
    BY <2>1, <2>2 DEF Abstract!Clear, Queue, Unread
  <2>4. QED BY <2>3
<1>5. QED BY <1>1, <1>2, <1>3, <1>4

LEMMA ReplyImplements ==
  ASSUME IInv, StageReply
  PROVE  Abstract!HandOther
<1>1. xfer' \in Seq(Word) /\ xfer' \in OtherReplies /\ xfer_pos' = 0
  BY BufferAssumption DEF StageReply
<1>2. Unread' = xfer' /\ dtr' = Dry
  BY <1>1, FreshUnread DEF StageReply
<1>3. Queue' = Queue
  BY DEF StageReply, store, Queue
<1>4. QED BY <1>1, <1>2, <1>3 DEF Abstract!HandOther, Queue, Unread

\* One read of the data transfer register takes one word, or nothing.
LEMMA ReadImplements ==
  ASSUME IInv, ReadDtr
  PROVE  Abstract!Pull
<1>1. /\ xfer \in Seq(Word) /\ Len(xfer) \in Nat /\ xfer_pos \in 0 .. Len(xfer)
      /\ xfer' = xfer
  BY LenProperties DEF IInv, TypeOK, ReadDtr
<1>2. Queue' = Queue
  BY DEF ReadDtr, store, Queue
<1>3. CASE xfer_pos = Len(xfer)
  <2>1. Unread = <<>> /\ Unread' = <<>> /\ dtr' = Dry
    BY <1>1, <1>3 DEF ReadDtr, Unread
  <2>2. QED BY <2>1, <1>2 DEF Abstract!Pull, Queue, Unread
<1>4. CASE xfer_pos < Len(xfer)
  <2>1. xfer_pos' = xfer_pos + 1 /\ dtr' = xfer[xfer_pos + 1]
    BY <1>1, <1>4 DEF ReadDtr
  <2>2. Unread \in [1 .. Len(xfer) - xfer_pos -> Word]
    BY <1>1 DEF Unread
  <2>3. Len(Unread) = Len(xfer) - xfer_pos /\ Unread \in Seq(Word) /\ Unread # <<>>
    <3> DEFINE n == Len(xfer) - xfer_pos
    <3>1. n \in Nat /\ n > 0 /\ Unread \in [1 .. n -> Word]
      BY <2>2, <1>1, <1>4
    <3> HIDE DEF n
    <3>2. Unread \in Seq(Word) /\ Len(Unread) = n
      BY <3>1
    <3>3. Unread # <<>>
      BY <3>1, <3>2
    <3>4. QED BY <3>2, <3>3 DEF n
  <2>4. Head(Unread) = xfer[xfer_pos + 1]
    <3>1. Head(Unread) = Unread[1]
      BY <2>3
    <3>2. 1 \in 1 .. Len(xfer) - xfer_pos
      BY <1>1, <1>4
    <3>3. QED BY <3>1, <3>2 DEF Unread
  <2>5. /\ Tail(Unread) \in Seq(Word) /\ Len(Tail(Unread)) = Len(xfer) - xfer_pos - 1
        /\ \A i \in 1 .. Len(xfer) - xfer_pos - 1 : Tail(Unread)[i] = Unread[i + 1]
    BY <2>3, HeadTailProperties
  <2>6. ASSUME NEW i \in 1 .. Len(xfer) - xfer_pos - 1
        PROVE  Unread[i + 1] = xfer[xfer_pos + 1 + i]
    <3>1. i + 1 \in 1 .. Len(xfer) - xfer_pos /\ xfer_pos + (i + 1) = xfer_pos + 1 + i
      BY <1>1
    <3>2. Unread[i + 1] = xfer[xfer_pos + (i + 1)]
      BY <3>1 DEF Unread
    <3>3. QED BY <3>1, <3>2
  <2>7. Unread' = [i \in 1 .. Len(xfer) - xfer_pos - 1 |-> xfer[xfer_pos + 1 + i]]
    <3>1. Len(xfer) - (xfer_pos + 1) = Len(xfer) - xfer_pos - 1
      BY <1>1
    <3>2. QED BY <1>1, <2>1, <3>1 DEF Unread
  <2>8. Unread' = Tail(Unread)
    <3> DEFINE n == Len(xfer) - xfer_pos - 1
    <3>1. n \in Nat /\ \A i \in 1 .. n : xfer[xfer_pos + 1 + i] \in Word
      BY <1>1, <1>4
    <3>2. Unread' \in [1 .. n -> Word]
      BY <2>7, <3>1
    <3>3. \A i \in 1 .. n : Unread'[i] = Tail(Unread)[i]
      BY <2>5, <2>6, <2>7
    <3>4. Len(Tail(Unread)) = n
      BY <2>5
    <3> HIDE DEF n
    <3>5. Unread' \in Seq(Word) /\ Len(Unread') = n
      BY <3>1, <3>2
    <3>6. QED BY <2>5, <3>3, <3>4, <3>5, SeqEqual
  <2>9. QED BY <2>1, <2>3, <2>4, <2>8, <1>2 DEF Abstract!Pull, Queue, Unread
<1>5. QED BY <1>1, <1>3, <1>4

LEMMA InitImplements == Init => Abstract!StoreInit
<1> SUFFICES ASSUME Init PROVE Abstract!StoreInit
  OBVIOUS
<1>1. Queue = [q \in Parts |-> <<>>]
  BY DEF Init, Queue
<1>2. Unread = <<>>
  BY DEF Init, Unread
<1>3. QED BY <1>1, <1>2 DEF Init, Abstract!StoreInit, Queue, Unread

LEMMA StepImplements == IInv /\ [Next]_vars => [Abstract!StoreNext]_Abstract!store
<1> SUFFICES ASSUME IInv, [Next]_vars PROVE [Abstract!StoreNext]_Abstract!store
  OBVIOUS
<1>1. Offsets \subseteq Nat /\ Counts \subseteq Nat
  BY BufferAssumption
<1>2. ASSUME NEW q \in Parts, NEW f \in Fads, StoreSector(q, f) PROVE Abstract!StoreNext
  BY <1>2, StoreImplements DEF Abstract!StoreNext
<1>3. ASSUME NEW p \in Parts, NEW off \in Offsets, NEW cnt \in Counts, NEW remove \in BOOLEAN,
             GetSectorData(p, off, cnt, remove)
      PROVE  Abstract!StoreNext
  BY <1>1, <1>3, GetImplements DEF Abstract!StoreNext
<1>4. ASSUME NEW p \in Parts, NEW off \in Offsets, NEW cnt \in Counts,
             DeleteSectorData(p, off, cnt)
      PROVE  Abstract!StoreNext
  <2> DEFINE first == First(p, off)
             n == HowMany(p, off, cnt)
  <2>1. /\ first \in Nat /\ n \in Nat /\ first + n <= part_sectors[p]
        /\ part_sectors[p] \in 0 .. PartSectors /\ PartSectors \in Nat
        /\ Len(Queue[p]) = part_sectors[p]
    BY <1>1, RangeInside, QueueFacts DEF IInv, TypeOK
  <2>2. DeleteRange(p, first, n) /\ UNCHANGED transfer /\ dtr' = Dry
    BY <1>4 DEF DeleteSectorData
  <2>3. Queue' = [Queue EXCEPT ![p] = Abstract!Without(@, first, n)]
    BY <2>1, <2>2, DeleteImplements
  <2>4. Unread' = Unread
    BY <2>2 DEF Unread, transfer
  <2> HIDE DEF first, n
  <2>5. PICK o \in 0 .. PartSectors, k \in 0 .. PartSectors : o = first /\ k = n
    BY <2>1
  <2>6. Abstract!Remove(p, o, k)
    BY <2>1, <2>2, <2>3, <2>4, <2>5 DEF Abstract!Remove, Queue, Unread
  <2>7. QED BY <2>6 DEF Abstract!StoreNext
<1>5. CASE \/ \E cleared \in {Parts} \cup {{q} : q \in Parts} : ResetSelector(cleared)
           \/ \E soft \in BOOLEAN : InitializeCDSystem(soft)
           \/ AbortFile \/ EndDataTransfer \/ SetSectorLength
           \/ \E p \in Parts, query \in Queries : CalculateActualSize(p, query[1], query[2])
  BY <1>5, OtherImplements DEF Abstract!StoreNext
<1>6. CASE StageReply
  BY <1>6, ReplyImplements DEF Abstract!StoreNext
<1>7. CASE ReadDtr
  BY <1>7, ReadImplements DEF Abstract!StoreNext
<1>8. CASE UNCHANGED vars
  <2>1. Queue' = Queue /\ Unread' = Unread /\ dtr' = dtr
    BY <1>8 DEF vars, store, transfer, Queue, Unread
  <2>2. QED BY <2>1 DEF Abstract!store, Queue, Unread
<1>9. QED BY <1>2, <1>3, <1>4, <1>5, <1>6, <1>7, <1>8 DEF Next

\* The partition arrays, their memmoves and the transfer FIFO implement a store
\* of queues that hands out copies, whatever the drive stores meanwhile.
THEOREM BufferIsAStore == Spec => Implements
<1>1. QED BY InitInvariant, StepInvariant, InitImplements, StepImplements, PTL
          DEF Spec, Implements, Abstract!Store
----------------------------------------------------------------------------
(* The size quoted for a range. *)

\* What one sector counts in a quotation.
Unit == IF sec_len_get = 0 THEN SectorWords ELSE sec_len_get

\* A quotation that stands is for no more sectors than its range holds now, at
\* the length selected now.
QuoteStands ==
  quote # <<>> =>
    \E p \in Parts, off \in Nat, cnt \in Nat, n \in Nat :
      /\ quote = <<p, off, cnt>>
      /\ calc_words = n * Unit /\ n <= HowMany(p, off, cnt)

\* A clipped range of a partition that has grown has not shrunk.
LEMMA HowManyGrows ==
  ASSUME part_sectors \in [Parts -> 0 .. PartSectors], NEW p \in Parts,
         NEW off \in Nat, NEW cnt \in Nat,
         part_sectors'[p] \in Nat, part_sectors[p] <= part_sectors'[p]
  PROVE  HowMany(p, off, cnt) <= HowMany(p, off, cnt)'
<1>1. part_sectors[p] \in Nat
  BY BufferAssumption
<1>2. QED BY <1>1 DEF HowMany, First, Least

\* Multiplication is monotone.
LEMMA TimesGrows ==
  ASSUME NEW m \in Nat, NEW n \in Nat, m <= n, NEW w \in Nat
  PROVE  m * w <= n * w
<1>1. PICK d \in Nat : n = m + d
  <2>1. n - m \in Nat /\ n = m + (n - m)
    OBVIOUS
  <2>2. QED BY <2>1
<1>2. n * w = m * w + d * w /\ m * w \in Nat /\ d * w \in Nat
  BY <1>1
<1>3. QED BY <1>2

\* Until the length changes or sectors are removed, a quotation stands.
LEMMA QuoteKept ==
  ASSUME IInv, QuoteStands, UNCHANGED <<sec_len_get, calc_words, quote>>,
         \A p \in Parts : part_sectors'[p] \in Nat /\ part_sectors[p] <= part_sectors'[p]
  PROVE  QuoteStands'
<1> SUFFICES ASSUME quote' # <<>> PROVE QuoteStands'
  BY DEF QuoteStands
<1>1. PICK p \in Parts, off \in Nat, cnt \in Nat, n \in Nat :
        quote = <<p, off, cnt>> /\ calc_words = n * Unit /\ n <= HowMany(p, off, cnt)
  BY DEF QuoteStands
<1>2. HowMany(p, off, cnt) <= HowMany(p, off, cnt)' /\ HowMany(p, off, cnt) \in Nat
  BY HowManyGrows, RangeInside DEF IInv, TypeOK
<1>3. HowMany(p, off, cnt)' \in Nat
  <2>1. part_sectors'[p] \in Nat
    OBVIOUS
  <2>2. QED BY <2>1 DEF HowMany, First, Least
<1>4. n <= HowMany(p, off, cnt)'
  BY <1>1, <1>2, <1>3
<1>5. quote' = <<p, off, cnt>> /\ calc_words' = n * Unit'
  BY <1>1 DEF Unit
<1>6. QED BY <1>4, <1>5 DEF QuoteStands

LEMMA QuoteStep == IInv /\ QuoteStands /\ [Next]_vars => QuoteStands'
<1> SUFFICES ASSUME IInv, QuoteStands, [Next]_vars PROVE QuoteStands'
  OBVIOUS
<1>1. Offsets \subseteq Nat /\ Counts \subseteq Nat /\ Queries \subseteq Offsets \X Counts
  BY BufferAssumption
<1>2. /\ part_sectors \in [Parts -> 0 .. PartSectors] /\ PartSectors \in Nat
      /\ \A p \in Parts : part_sectors[p] \in Nat
  BY BufferAssumption DEF IInv, TypeOK
<1>3. CASE quote' = <<>>
  BY <1>3 DEF QuoteStands
<1>4. CASE UNCHANGED <<part_sectors, sec_len_get, calc_words, quote>>
  BY <1>4, <1>2, QuoteKept
<1>5. ASSUME NEW q \in Parts, NEW f \in Fads, StoreSector(q, f) PROVE QuoteStands'
  <2>1. \A p \in Parts : part_sectors'[p] \in Nat /\ part_sectors[p] <= part_sectors'[p]
    BY <1>5, <1>2 DEF StoreSector
  <2>2. UNCHANGED <<sec_len_get, calc_words, quote>>
    BY <1>5 DEF StoreSector
  <2>3. QED BY <2>1, <2>2, QuoteKept
<1>6. ASSUME NEW p \in Parts, NEW query \in Queries,
             CalculateActualSize(p, query[1], query[2])
      PROVE  QuoteStands'
  <2>1. PICK off \in Nat, cnt \in Nat : off = query[1] /\ cnt = query[2]
    BY <1>1
  <2>2. PICK n \in Nat : n = HowMany(p, off, cnt)
    BY <1>2, RangeInside
  <2>3. /\ quote' = <<p, off, cnt>> /\ calc_words' = n * Unit
        /\ Unit' = Unit /\ HowMany(p, off, cnt)' = n
    BY <1>6, <2>1, <2>2 DEF CalculateActualSize, store, Unit, HowMany, First
  <2>4. QED BY <2>3 DEF QuoteStands
<1>7. ASSUME NEW p \in Parts, NEW off \in Offsets, NEW cnt \in Counts,
             (\E remove \in BOOLEAN : GetSectorData(p, off, cnt, remove))
               \/ DeleteSectorData(p, off, cnt)
      PROVE  QuoteStands'
  <2>1. \/ quote' = <<>>
        \/ UNCHANGED <<part_sectors, sec_len_get, calc_words, quote>>
    BY <1>7 DEF GetSectorData, DeleteSectorData, store
  <2>2. QED BY <2>1, <1>3, <1>4
<1>8. CASE \/ \E cleared \in {Parts} \cup {{q} : q \in Parts} : ResetSelector(cleared)
           \/ \E soft \in BOOLEAN : InitializeCDSystem(soft)
           \/ AbortFile \/ EndDataTransfer \/ StageReply \/ SetSectorLength
           \/ ReadDtr \/ UNCHANGED vars
  <2>1. \/ quote' = <<>>
        \/ UNCHANGED <<part_sectors, sec_len_get, calc_words, quote>>
    BY <1>8 DEF ResetSelector, InitializeCDSystem, AbortFile, EndDataTransfer,
       StageReply, SetSectorLength, ReadDtr, vars, store
  <2>2. QED BY <2>1, <1>3, <1>4
<1>9. QED BY <1>5, <1>6, <1>7, <1>8 DEF Next

\* What a read of the quoted range stages.
LEMMA QuoteServed ==
  ASSUME IInv, QuoteStands, quote # <<>>, calc_words <= XferWords,
         sec_len_get = RawWords => RawFads = Fads,
         GetLengths \subseteq {SectorWords, RawWords}, NEW remove \in BOOLEAN,
         GetSectorData(quote[1], quote[2], quote[3], remove)
  PROVE  Len(xfer') >= calc_words
<1>1. PICK p \in Parts, off \in Nat, cnt \in Nat, n \in Nat :
        quote = <<p, off, cnt>> /\ calc_words = n * Unit /\ n <= HowMany(p, off, cnt)
  BY DEF QuoteStands
<1>2. PICK first \in Nat, h \in Nat :
        /\ first = First(p, off) /\ h = HowMany(p, off, cnt)
        /\ first + h <= part_sectors[p]
  BY RangeInside DEF IInv, TypeOK
<1>3. n <= h /\ GetSectorData(p, off, cnt, remove)
  BY <1>1, <1>2
<1>4. SectorWords \in Nat /\ RawWords \in Nat
  BY BufferAssumption
<1>5. CASE sec_len_get = RawWords
  <2>1. Unit = RawWords
    BY <1>5, BufferAssumption DEF Unit
  <2>2. n \in RawReady(p, first, h)
    <3>1. ASSUME NEW i \in 1 .. n PROVE part_fad[p][first + i] \in RawFads
      <4>1. first + i \in 1 .. part_sectors[p]
        <5>1. part_sectors[p] \in Nat
          BY BufferAssumption DEF IInv, TypeOK
        <5>2. QED BY <5>1, <1>2, <1>3
      <4>2. QED BY <4>1, <1>5 DEF IInv, DataMatchesFad
    <3>2. n \in 0 .. h /\ n * RawWords <= XferWords
      BY <1>1, <1>3, <2>1
    <3>3. QED BY <3>1, <3>2 DEF RawReady
  <2>3. RawServed(p, first, h) \in 0 .. h /\ n <= RawServed(p, first, h)
    <3>1. RawReady(p, first, h) \subseteq 0 .. h
      BY DEF RawReady
    <3>2. \E m \in RawReady(p, first, h) : \A k \in RawReady(p, first, h) : k <= m
      BY <3>1, <2>2, <1>2, BoundedSetHasMax
    <3>3. \A k \in RawReady(p, first, h) : k <= RawServed(p, first, h)
      BY <3>2 DEF RawServed
    <3>4. QED BY <3>3, <2>2, <1>2, RawServedType
  <2>4. PICK m \in Nat : m = RawServed(p, first, h)
    BY <2>3
  <2>5. xfer' = Staged(part_fad[p], first, m, "raw")
    BY <1>2, <1>3, <1>5, <2>4 DEF GetSectorData
  <2>6. m * RawWords \in Nat /\ Len(xfer') = m * RawWords
    BY <2>5, <1>4 DEF Staged, Width
  <2>7. n * RawWords <= m * RawWords
    BY <2>3, <2>4, <1>4, TimesGrows
  <2>8. QED BY <1>1, <2>1, <2>6, <2>7, <1>4
<1>6. CASE sec_len_get # RawWords
  <2>1. Unit = SectorWords
    BY <1>6 DEF Unit, IInv, TypeOK
  <2>2. xfer' = Staged(part[p], first, h, "cooked")
    BY <1>2, <1>3, <1>6 DEF GetSectorData
  <2>3. h * SectorWords \in Nat /\ Len(xfer') = h * SectorWords
    BY <2>2, <1>4 DEF Staged, Width
  <2>4. n * SectorWords <= h * SectorWords
    BY <1>3, <1>4, TimesGrows
  <2>5. QED BY <1>1, <2>1, <2>3, <2>4, <1>4
<1>7. QED BY <1>5, <1>6

\* A size the host computed stays good while the drive goes on storing: a read
\* of the range never stages less.  The lengths are the two at which the code
\* stages what it quotes: at 2336 and 2340 bytes it does not
\* (ServesSelectedLength).
THEOREM QuotedSizeAlwaysServed ==
  ASSUME GetLengths \subseteq {SectorWords, RawWords}
  PROVE  Spec => QuotedSizeIsServed
<1> DEFINE A == quote # <<>> /\ calc_words <= XferWords /\ (sec_len_get = RawWords => RawFads = Fads) =>
                  \A remove \in BOOLEAN :
                    GetSectorData(quote[1], quote[2], quote[3], remove) => Len(xfer') >= calc_words
<1>1. Init => QuoteStands
  BY DEF Init, QuoteStands
<1>2. IInv /\ QuoteStands => [A]_vars
  BY QuoteServed
<1>3. QED BY <1>1, <1>2, QuoteStep, BufferInvariance, PTL DEF Spec, QuotedSizeIsServed

-----------------------------------------------------------------------------
(* The host interface. *)


(***************************************************************************)
(* Why a report cannot replace a reply early.  An answer that no read has  *)
(* shown is still fresh, so no report lands on it; from the first read on, *)
(* the report timer is never ahead of the time the answer has been shown.  *)
(***************************************************************************)
FreshUntilShown == first_cmd_seen /\ shown = NotShown => resp_fresh
TimerBehind == shown # NotShown => since <= shown
PowerOn == ~first_cmd_seen => shown = NotShown /\ cr = answer

HostInv == HostTypeOK /\ AnswerStays /\ FreshUntilShown /\ TimerBehind /\ PowerOn

\* The messages as the type invariant needs them.
LEMMA MessageFacts ==
  /\ Signature \in Messages /\ Report \in Messages
  /\ \A c \in Commands : Reply(c) \in Messages
BY DEF Messages

\* A read leaves the types alone.
LEMMA PeriodicTypes ==
  ASSUME HostTypeOK, Periodic, shown' = Shown
  PROVE  /\ cr' \in Messages /\ resp_fresh' \in BOOLEAN
         /\ since' \in 0 .. Interval /\ ipend' \in BOOLEAN
         /\ hirq' \in SUBSET Causes /\ hmsk' \in SUBSET Causes
         /\ shown' \in {NotShown} \cup 0 .. Interval
<1>1. shown' \in {NotShown} \cup 0 .. Interval
  BY HostAssumption DEF HostTypeOK, Shown
<1>2. CASE Reporting /\ ~resp_fresh /\ since = Interval
  <2>1. cr' = Report /\ resp_fresh' = TRUE /\ since' = 0 /\ HirqSet({"CMOK", "SCDQ"})
    BY <1>2, HostAssumption DEF Periodic
  <2>2. hirq' \in SUBSET Causes /\ hmsk' \in SUBSET Causes /\ ipend' \in BOOLEAN
    BY <2>1 DEF HirqSet, UpdateInterrupts, HostTypeOK, Causes
  <2> QED
    BY <1>1, <2>1, <2>2, HostAssumption, MessageFacts
<1>3. CASE Reporting /\ resp_fresh
  <2>1. /\ resp_fresh' = FALSE /\ since' = 0
        /\ UNCHANGED <<cr, hirq, hmsk, ipend>>
    BY <1>3 DEF Periodic
  <2>2. since' \in 0 .. Interval
    BY <2>1, HostAssumption
  <2>3. ipend' \in BOOLEAN /\ resp_fresh' \in BOOLEAN
    BY <2>1, Zenon DEF HostTypeOK
  <2> QED
    BY <1>1, <2>1, <2>2, <2>3, Zenon DEF HostTypeOK
<1>4. CASE ~Reporting \/ (~resp_fresh /\ since < Interval)
  BY <1>1, <1>4, HostAssumption DEF Periodic, HostTypeOK
<1> QED
  BY <1>2, <1>3, <1>4, HostAssumption DEF HostTypeOK

\* What a read does to the answer: it stays, it starts to be shown, or it has
\* been shown for a whole period.
LEMMA PeriodicKeepsAnswer ==
  ASSUME HostInv, Periodic, shown' = Shown, UNCHANGED <<answer, first_cmd_seen>>
  PROVE  (AnswerStays /\ FreshUntilShown /\ TimerBehind /\ PowerOn)'
<1> USE HostAssumption DEF HostInv, AnswerStays, FreshUntilShown, TimerBehind, PowerOn,
        Reporting, NotShown
<1>1. CASE ~Reporting
  BY <1>1 DEF Periodic, Shown
<1>2. CASE Reporting /\ resp_fresh
  <2>1. cr' = cr /\ resp_fresh' = FALSE /\ since' = 0
    BY <1>2 DEF Periodic
  <2>2. shown' = IF shown = -1 THEN 0 ELSE shown
    BY <1>2 DEF Shown
  <2> QED
    BY <1>2, <2>1, <2>2 DEF HostTypeOK
<1>3. CASE Reporting /\ ~resp_fresh
  <2>1. shown # -1 /\ shown' = shown
    BY <1>3 DEF Shown
  <2>2. CASE since < Interval
    BY <1>3, <2>1, <2>2 DEF Periodic, HostTypeOK
  <2>3. CASE since = Interval
    <3>1. resp_fresh' = TRUE /\ since' = 0
      BY <1>3, <2>3 DEF Periodic
    <3>2. shown = Interval
      BY <2>1, <2>3 DEF HostTypeOK
    <3> QED
      BY <1>3, <2>1, <3>1, <3>2
  <2> QED
    BY <2>2, <2>3 DEF HostTypeOK
<1> QED
  BY <1>1, <1>2, <1>3

LEMMA HostTypeInit == HostInit => HostTypeOK
<1> SUFFICES ASSUME HostInit PROVE HostTypeOK
  OBVIOUS
<1>1. since \in 0 .. Interval
  BY HostAssumption DEF HostInit
<1> QED
  BY <1>1, MessageFacts DEF HostInit, HostTypeOK, Causes

LEMMA HostTypeNext == HostTypeOK /\ [HostNext]_interface => HostTypeOK'
<1> SUFFICES ASSUME HostTypeOK, [HostNext]_interface PROVE HostTypeOK'
  OBVIOUS
<1>1. ASSUME NEW c \in Commands, WriteCR1(c) PROVE HostTypeOK'
  BY <1>1 DEF WriteCR1, history, HostTypeOK
<1>2. ASSUME NEW bits \in Bits, WriteCR4(bits) PROVE HostTypeOK'
  <2>1. Reply(staged) \in Messages
    BY MessageFacts DEF HostTypeOK
  <2>2. hirq' \in SUBSET Causes /\ hmsk' \in SUBSET Causes /\ ipend' \in BOOLEAN
    BY <1>2 DEF WriteCR4, HirqSet, UpdateInterrupts, HostTypeOK, Causes, Bits
  <2> QED
    BY <1>2, <2>1, <2>2 DEF WriteCR4, HostTypeOK
<1>3. ASSUME NEW bits \in Bits, DriveTick(bits) PROVE HostTypeOK'
  <2>1. hirq' \in SUBSET Causes /\ hmsk' \in SUBSET Causes /\ ipend' \in BOOLEAN
    BY <1>3 DEF DriveTick, HirqSet, UpdateInterrupts, HostTypeOK, Causes, Bits
  <2> QED
    BY <1>3, <2>1 DEF DriveTick, drive, history, HostTypeOK
<1>4. CASE ReadRegister
  BY <1>4, PeriodicTypes DEF ReadRegister, HostTypeOK
<1>5. CASE ReadCR4
  BY <1>5, PeriodicTypes DEF ReadCR4, HostTypeOK
<1>6. CASE Clock
  <2>1. \A n \in 0 .. Interval : Cycle(n) \in 0 .. Interval
    BY HostAssumption DEF Cycle
  <2> QED
    BY <1>6, <2>1 DEF Clock, HostTypeOK
<1>7. ASSUME NEW keep \in SUBSET Causes, WriteHirq(keep) PROVE HostTypeOK'
  BY <1>7 DEF WriteHirq, UpdateInterrupts, drive, history, HostTypeOK
<1>8. ASSUME NEW mask \in SUBSET Causes, WriteHirqMask(mask) PROVE HostTypeOK'
  BY <1>8 DEF WriteHirqMask, UpdateInterrupts, drive, history, HostTypeOK
<1>9. CASE TakeInterrupt
  BY <1>9 DEF TakeInterrupt, drive, history, HostTypeOK
<1>10. CASE UNCHANGED interface
  BY <1>10 DEF interface, HostTypeOK
<1> QED
  BY <1>1, <1>2, <1>3, <1>4, <1>5, <1>6, <1>7, <1>8, <1>9, <1>10 DEF HostNext

\* The registers, the packet and the flags keep the types they are declared
\* with, whatever the host accesses and whenever.
THEOREM HostTypeCorrect == HostSpec => []HostTypeOK
BY HostTypeInit, HostTypeNext, PTL DEF HostSpec

LEMMA HostInductive == HostInv /\ [HostNext]_interface => HostInv'
<1> SUFFICES ASSUME HostInv, [HostNext]_interface PROVE HostInv'
  OBVIOUS
<1>1. HostTypeOK'
  BY HostTypeNext DEF HostInv
<1> DEFINE Rest == AnswerStays /\ FreshUntilShown /\ TimerBehind /\ PowerOn
<1> SUFFICES Rest'
  BY <1>1 DEF HostInv
<1> USE DEF HostInv, AnswerStays, FreshUntilShown, TimerBehind, PowerOn
<1>2. ASSUME NEW c \in Commands, WriteCR1(c) PROVE Rest'
  BY <1>2 DEF WriteCR1, history
<1>3. ASSUME NEW bits \in Bits, WriteCR4(bits) PROVE Rest'
  BY <1>3 DEF WriteCR4
<1>4. ASSUME NEW bits \in Bits, DriveTick(bits) PROVE Rest'
  BY <1>4 DEF DriveTick, drive, history
<1>5. CASE ReadRegister
  BY <1>5, PeriodicKeepsAnswer DEF ReadRegister
<1>6. CASE ReadCR4
  BY <1>6, PeriodicKeepsAnswer DEF ReadCR4
<1>7. CASE Clock
  BY <1>7, HostAssumption DEF Clock, Cycle, HostTypeOK, NotShown
<1>8. ASSUME NEW keep \in SUBSET Causes, WriteHirq(keep) PROVE Rest'
  BY <1>8 DEF WriteHirq, drive, history
<1>9. ASSUME NEW mask \in SUBSET Causes, WriteHirqMask(mask) PROVE Rest'
  BY <1>9 DEF WriteHirqMask, drive, history
<1>10. CASE TakeInterrupt
  BY <1>10 DEF TakeInterrupt, drive, history
<1>11. CASE UNCHANGED interface
  BY <1>11 DEF interface
<1> QED
  BY <1>2, <1>3, <1>4, <1>5, <1>6, <1>7, <1>8, <1>9, <1>10, <1>11 DEF HostNext

\* A reply stays readable until it has been shown for a whole sector period, for
\* every period and every order of accesses.
THEOREM ReplySurvivesReports == HostSpec => []AnswerStays
<1>1. HostInit => HostInv
  BY HostTypeInit DEF HostInit, HostInv, AnswerStays, FreshUntilShown, TimerBehind, PowerOn
<1>2. HostInv => AnswerStays
  BY DEF HostInv
<1> QED
  BY <1>1, <1>2, HostInductive, PTL DEF HostSpec

\* An enabled interrupt cause is never left without a pending interrupt or a
\* handler that has still to acknowledge, for every set of causes.
THEOREM InterruptsNotLost == HostSpec => []NoLostInterrupt
<1>1. HostInit => NoLostInterrupt
  BY DEF HostInit, NoLostInterrupt
<1>2. NoLostInterrupt /\ [HostNext]_interface => NoLostInterrupt'
  <2> SUFFICES ASSUME NoLostInterrupt, [HostNext]_interface PROVE NoLostInterrupt'
    OBVIOUS
  <2> USE DEF NoLostInterrupt
  <2>1. ASSUME NEW c \in Commands, WriteCR1(c) PROVE NoLostInterrupt'
    BY <2>1 DEF WriteCR1
  <2>2. ASSUME NEW bits \in Bits, WriteCR4(bits) \/ DriveTick(bits) PROVE NoLostInterrupt'
    BY <2>2 DEF WriteCR4, DriveTick, HirqSet, UpdateInterrupts
  <2>3. CASE ReadRegister \/ ReadCR4
    BY <2>3 DEF ReadRegister, ReadCR4, Periodic, HirqSet, UpdateInterrupts
  <2>4. CASE Clock
    BY <2>4 DEF Clock
  <2>5. ASSUME NEW keep \in SUBSET Causes, WriteHirq(keep) PROVE NoLostInterrupt'
    BY <2>5 DEF WriteHirq, UpdateInterrupts
  <2>6. ASSUME NEW mask \in SUBSET Causes, WriteHirqMask(mask) PROVE NoLostInterrupt'
    BY <2>6 DEF WriteHirqMask, UpdateInterrupts
  <2>7. CASE TakeInterrupt
    BY <2>7 DEF TakeInterrupt
  <2>8. CASE UNCHANGED interface
    BY <2>8 DEF interface
  <2> QED
    BY <2>1, <2>2, <2>3, <2>4, <2>5, <2>6, <2>7, <2>8 DEF HostNext
<1> QED
  BY <1>1, <1>2, PTL DEF HostSpec

----------------------------------------------------------------------------
(* The selector: where a sector goes, for any bank of filters, any sectors   *)
(* and any sequence of selector commands.                                    *)

-----------------------------------------------------------------------------
(* The chain of filters.                                                     *)

\* A set of numbers that is not empty has a least one.
LEMMA LeastNumber ==
  ASSUME NEW T, T \subseteq Nat, T # {}
  PROVE  \E e \in T : \A g \in T : e <= g
<1> DEFINE R == {xy \in Nat \X Nat : xy[1] < xy[2]}
<1>1. IsWellFoundedOn(R, Nat)
  BY NatLessThanWellFounded DEF OpToRel
<1>2. PICK e \in T : \A g \in T : <<g, e>> \notin R
  BY <1>1, WFMin
<1>3. ASSUME NEW g \in T PROVE e <= g
  <2>1. e \in Nat /\ g \in Nat /\ <<g, e>> \notin R /\ <<g, e>> \in Nat \X Nat
    BY <1>2
  <2> QED
    BY <2>1
<1> QED
  BY <1>3

FailOf(f) == IF f \in Filters THEN filter[f].fail_out ELSE Disconnected
Walk(n, g) == g = [hop \in 0 .. n |-> IF hop = 0 THEN cd_conn ELSE FailOf(g[hop - 1])]

\* A walk of any length exists: each is the one before and a step more.
LEMMA WalkExists ==
  ASSUME NEW n \in Nat
  PROVE  \E g : Walk(n, g)
<1> DEFINE Bad == {m \in Nat : ~ \E g : Walk(m, g)}
<1>1. SUFFICES ASSUME Bad # {} PROVE FALSE
  OBVIOUS
<1>2. PICK m \in Bad : \A k \in Bad : m <= k
  BY <1>1, LeastNumber
<1>3. m # 0
  <2>1. Walk(0, [hop \in 0 .. 0 |-> cd_conn])
    BY DEF Walk
  <2> QED
    BY <2>1
<1>4. m - 1 \in Nat /\ m - 1 \notin Bad
  BY <1>2, <1>3
<1>5. PICK g : Walk(m - 1, g)
  BY <1>4
<1> DEFINE longer == [hop \in 0 .. m |-> IF hop = m THEN FailOf(g[m - 1]) ELSE g[hop]]
<1>6. \A hop \in 0 .. m - 1 : longer[hop] = g[hop]
  BY <1>4
<1>7. \A hop \in 0 .. m - 1 : g[hop] = IF hop = 0 THEN cd_conn ELSE FailOf(g[hop - 1])
  BY <1>5, <1>4 DEF Walk
<1>8. ASSUME NEW hop \in 0 .. m
      PROVE  longer[hop] = IF hop = 0 THEN cd_conn ELSE FailOf(longer[hop - 1])
  <2>1. CASE hop = m
    BY <1>3, <1>4, <1>6, <2>1
  <2>2. CASE hop # m
    <3>1. hop \in 0 .. m - 1 /\ (hop # 0 => hop - 1 \in 0 .. m - 1)
      BY <1>4, <2>2
    <3> QED
      BY <1>6, <1>7, <3>1
  <2> QED
    BY <2>1, <2>2
<1>9. Walk(m, longer)
  BY <1>8 DEF Walk
<1> QED
  BY <1>9

LEMMA ChainSteps ==
  /\ Chain[0] = cd_conn
  /\ \A hop \in 1 .. NumFilters : Chain[hop] = FailOf(Chain[hop - 1])
<1>1. NumFilters \in Nat
  BY SelectorAssumption
<1>2. \E g : Walk(NumFilters, g)
  BY <1>1, WalkExists
<1>3. Chain = CHOOSE g : Walk(NumFilters, g)
  BY DEF Chain, Walk, FailOf
<1>4. Walk(NumFilters, Chain)
  BY <1>2, <1>3
<1> QED
  BY <1>1, <1>4 DEF Walk

LEMMA FilterFacts ==
  /\ NumFilters \in Nat \ {0} /\ Filters = 0 .. NumFilters - 1
  /\ Partitions \subseteq Filters /\ Disconnected \notin Filters /\ Disconnected \notin Partitions
BY SelectorAssumption DEF Filters, Partitions

\* A walk that left the bank does not come back.
LEMMA ChainBefore ==
  ASSUME NEW hop \in 0 .. NumFilters, Chain[hop] \in Filters, NEW k \in 0 .. hop
  PROVE  Chain[k] \in Filters
<1> DEFINE Bad == {j \in k .. NumFilters : Chain[j] \in Filters}
<1>1. SUFFICES ASSUME Chain[k] \notin Filters PROVE FALSE
  OBVIOUS
<1>2. NumFilters \in Nat /\ hop \in Bad /\ Bad \subseteq Nat
  BY FilterFacts
<1>3. PICK j \in Bad : \A i \in Bad : j <= i
  BY <1>2, LeastNumber
<1>4. j # k /\ j - 1 \in k .. NumFilters /\ j - 1 \notin Bad /\ j \in 1 .. NumFilters
  BY <1>1, <1>2, <1>3
<1>5. Chain[j - 1] \notin Filters
  BY <1>4
<1>6. Chain[j] = Disconnected
  BY <1>4, <1>5, ChainSteps DEF FailOf
<1> QED
  BY <1>3, <1>6, FilterFacts

\* The pigeonhole of the hop limit: a walk still in the bank after as many hops
\* as there are filters is at a filter it has met.
LEMMA Revisit ==
  ASSUME Chain[NumFilters] \in Filters
  PROVE  \E h \in 0 .. NumFilters - 1 : Chain[h] = Chain[NumFilters]
<1> DEFINE walk == [k \in 0 .. NumFilters |-> Chain[k]]
<1>1. NumFilters \in Nat /\ NumFilters > 0 /\ NumFilters - 1 \in Int
  BY FilterFacts
<1>2. walk \in [0 .. NumFilters -> Filters]
  BY <1>1, ChainBefore
<1>3. /\ IsFiniteSet(0 .. NumFilters) /\ Cardinality(0 .. NumFilters) = NumFilters + 1
      /\ IsFiniteSet(Filters) /\ Cardinality(Filters) = NumFilters
  BY <1>1, FS_Interval, FilterFacts
<1>4. PICK x, y \in 0 .. NumFilters : x # y /\ walk[x] = walk[y]
  <2>1. Cardinality(Filters) < Cardinality(0 .. NumFilters)
    BY <1>1, <1>3
  <2> HIDE DEF walk
  <2> QED
    BY <1>2, <1>3, <2>1, FS_PigeonHole
<1>5. PICK i \in 0 .. NumFilters, j \in 0 .. NumFilters : i < j /\ Chain[i] = Chain[j]
  <2>1. Chain[x] = Chain[y] /\ (x < y \/ y < x)
    BY <1>1, <1>4
  <2> QED
    BY <2>1
<1> DEFINE d == j - i
           Bad == {k \in j .. NumFilters : Chain[k] # Chain[k - d]}
<1>6. d \in 1 .. NumFilters /\ j - d = i
  BY <1>1, <1>5
<1>7. Bad = {}
  <2>1. SUFFICES ASSUME Bad # {} PROVE FALSE
    OBVIOUS
  <2>2. Bad \subseteq Nat
    BY <1>1
  <2>3. PICK k \in Bad : \A m \in Bad : k <= m
    BY <2>1, <2>2, LeastNumber
  <2>4. k # j
    BY <1>5, <1>6, <2>3
  <2>5. k - 1 \in j .. NumFilters /\ k - 1 \notin Bad
    BY <1>1, <1>5, <2>2, <2>3, <2>4
  <2>6. Chain[k - 1] = Chain[(k - 1) - d]
    BY <2>5
  <2>7. k \in 1 .. NumFilters /\ k - d \in 1 .. NumFilters /\ (k - d) - 1 = (k - 1) - d
    BY <1>1, <1>5, <1>6, <2>3, <2>5
  <2>8. Chain[k] = FailOf(Chain[k - 1]) /\ Chain[k - d] = FailOf(Chain[(k - d) - 1])
    BY <2>7, ChainSteps
  <2> QED
    BY <2>3, <2>6, <2>7, <2>8
<1>8. NumFilters \in j .. NumFilters /\ NumFilters - d \in 0 .. NumFilters - 1
  BY <1>1, <1>5, <1>6
<1>9. Chain[NumFilters] = Chain[NumFilters - d]
  BY <1>7, <1>8
<1> QED
  BY <1>8, <1>9

-----------------------------------------------------------------------------
(* The filters a sector is offered to.                                       *)

LEMMA OfferedClosed ==
  ASSUME NEW sec
  PROVE  ClosedFor(sec, Offered(sec))
<1>1. cd_conn \in Filters => cd_conn \in Offered(sec)
  BY DEF Offered, ClosedFor
<1>2. ASSUME NEW f \in Offered(sec), filter[f].fail_out \in Filters \ Offered(sec)
      PROVE  FilterTest(f, sec)
  <2>1. PICK S \in SUBSET (Filters \ {filter[f].fail_out}) : ClosedFor(sec, S)
    BY <1>2 DEF Offered
  <2>2. f \in S
    BY <2>1 DEF Offered
  <2> QED
    BY <1>2, <2>1, <2>2 DEF ClosedFor
<1> QED
  BY <1>1, <1>2 DEF ClosedFor

LEMMA OfferedLeast ==
  ASSUME NEW sec, NEW S \in SUBSET Filters, ClosedFor(sec, S)
  PROVE  Offered(sec) \subseteq S
BY DEF Offered

\* A walk that no filter stopped so far is offered to every filter on it.
LEMMA OnTheWay ==
  ASSUME NEW sec, NEW p \in 0 .. NumFilters, Chain[p] \in Filters,
         \A h \in 0 .. NumFilters : h < p => ~FilterTest(Chain[h], sec),
         NEW h \in 0 .. p
  PROVE  Chain[h] \in Offered(sec)
<1> DEFINE Bad == {k \in 0 .. p : Chain[k] \notin Offered(sec)}
<1>1. SUFFICES ASSUME Bad # {} PROVE FALSE
  OBVIOUS
<1>2. Bad \subseteq Nat /\ NumFilters \in Nat
  BY FilterFacts
<1>3. PICK k \in Bad : \A i \in Bad : k <= i
  BY <1>1, <1>2, LeastNumber
<1>4. Chain[k] \in Filters
  BY <1>3, ChainBefore
<1>5. k # 0
  BY <1>3, <1>4, ChainSteps, OfferedClosed DEF ClosedFor
<1>6. k - 1 \in 0 .. p /\ k - 1 \notin Bad /\ k - 1 \in 0 .. NumFilters /\ k - 1 < p
      /\ k \in 1 .. NumFilters
  BY <1>2, <1>3, <1>5
<1>7. Chain[k - 1] \in Offered(sec) /\ Chain[k - 1] \in Filters /\ ~FilterTest(Chain[k - 1], sec)
  BY <1>6, ChainBefore
<1>8. Chain[k] = filter[Chain[k - 1]].fail_out
  BY <1>6, <1>7, ChainSteps DEF FailOf
<1>9. Chain[k] \in Offered(sec)
  BY <1>4, <1>7, <1>8, OfferedClosed DEF ClosedFor
<1> QED
  BY <1>3, <1>9

Winners(sec) == {f \in Offered(sec) : FilterTest(f, sec)}

\* The first hop that passes is the only filter that does.
LEMMA OneWinner ==
  ASSUME NEW sec, NEW p \in PassingHops(sec), \A h \in PassingHops(sec) : p <= h
  PROVE  Winners(sec) = {Chain[p]}
<1> DEFINE met == {Chain[h] : h \in 0 .. p}
<1>1. /\ NumFilters \in Nat /\ p \in 0 .. NumFilters - 1 /\ p \in 0 .. NumFilters
      /\ Chain[p] \in Filters /\ FilterTest(Chain[p], sec)
  BY FilterFacts DEF PassingHops
<1>2. \A h \in 0 .. p : Chain[h] \in Filters
  BY <1>1, ChainBefore
<1>3. ASSUME NEW h \in 0 .. NumFilters, h < p
      PROVE  ~FilterTest(Chain[h], sec)
  <2>1. h \in 0 .. NumFilters - 1 /\ h \in 0 .. p /\ ~(p <= h)
    BY <1>1, <1>3
  <2> QED
    BY <1>2, <2>1 DEF PassingHops
<1>4. ClosedFor(sec, met)
  <2>1. cd_conn \in Filters => cd_conn \in met
    <3>1. 0 \in 0 .. p
      BY <1>1
    <3> QED
      BY <3>1, ChainSteps
  <2>2. ASSUME NEW h \in 0 .. p, ~FilterTest(Chain[h], sec)
        PROVE  filter[Chain[h]].fail_out \in met
    <3>1. h # p
      BY <1>1, <2>2
    <3>2. h + 1 \in 0 .. p /\ h + 1 \in 1 .. NumFilters /\ (h + 1) - 1 = h
      BY <1>1, <3>1
    <3>3. Chain[h + 1] = filter[Chain[h]].fail_out
      BY <1>2, <3>2, ChainSteps DEF FailOf
    <3> QED
      BY <3>2, <3>3
  <2> QED
    BY <2>1, <2>2 DEF ClosedFor
<1>5. met \in SUBSET Filters
  BY <1>2
<1>6. Offered(sec) \subseteq met
  BY <1>4, <1>5, OfferedLeast
<1>7. Chain[p] \in Offered(sec)
  BY <1>1, <1>3, OnTheWay
<1>8. ASSUME NEW f \in Winners(sec)
      PROVE  f = Chain[p]
  <2>1. PICK h \in 0 .. p : f = Chain[h]
    BY <1>6 DEF Winners
  <2>2. h = p
    BY <1>1, <1>3, <2>1 DEF Winners
  <2> QED
    BY <2>1, <2>2
<1> QED
  BY <1>1, <1>7, <1>8 DEF Winners

\* If no hop within the limit passes, no filter a sector is offered to does.
LEMMA NoWinner ==
  ASSUME NEW sec, PassingHops(sec) = {}
  PROVE  Winners(sec) = {}
<1> DEFINE met == {f \in Filters : \E h \in 0 .. NumFilters - 1 : f = Chain[h]}
<1>1. NumFilters \in Nat /\ NumFilters > 0
  BY FilterFacts
<1>2. ClosedFor(sec, met)
  <2>1. cd_conn \in Filters => cd_conn \in met
    <3>1. 0 \in 0 .. NumFilters - 1
      BY <1>1
    <3> QED
      BY <3>1, ChainSteps
  <2>2. ASSUME NEW f \in met, filter[f].fail_out \in Filters
        PROVE  filter[f].fail_out \in met
    <3>1. PICK h \in 0 .. NumFilters - 1 : f = Chain[h]
      OBVIOUS
    <3>2. h + 1 \in 1 .. NumFilters /\ (h + 1) - 1 = h
      BY <1>1
    <3>3. Chain[h + 1] = filter[f].fail_out
      BY <3>1, <3>2, ChainSteps DEF FailOf
    <3>4. CASE h + 1 \in 0 .. NumFilters - 1
      BY <2>2, <3>3, <3>4
    <3>5. CASE h + 1 = NumFilters
      BY <2>2, <3>3, <3>5, Revisit
    <3> QED
      BY <1>1, <3>4, <3>5
  <2> QED
    BY <2>1, <2>2 DEF ClosedFor
<1>3. Offered(sec) \subseteq met
  BY <1>2, OfferedLeast
<1> QED
  BY <1>3 DEF Winners, PassingHops

\* The walk of route_sector does what the definition without a limit says.
LEMMA RouteIs ==
  ASSUME NEW sec
  PROVE  /\ Cardinality(Winners(sec)) <= 1
         /\ Route(sec) = IF Winners(sec) = {} THEN NotRouted
                         ELSE OutOf(CHOOSE f \in Winners(sec) : TRUE)
         /\ \A f, g \in Winners(sec) : f = g
<1>1. CASE PassingHops(sec) = {}
  BY <1>1, NoWinner, FS_EmptySet DEF Route
<1>2. CASE PassingHops(sec) # {}
  <2>1. PassingHops(sec) \subseteq Nat
    BY FilterFacts DEF PassingHops
  <2> DEFINE p == CHOOSE hop \in PassingHops(sec) : \A other \in PassingHops(sec) : hop <= other
  <2>2. p \in PassingHops(sec) /\ \A other \in PassingHops(sec) : p <= other
    BY <1>2, <2>1, LeastNumber
  <2>3. Route(sec) = OutOf(Chain[p])
    BY <1>2 DEF Route
  <2> HIDE DEF p
  <2>4. Winners(sec) = {Chain[p]}
    BY <2>2, OneWinner
  <2>5. Cardinality(Winners(sec)) = 1
    BY <2>4, FS_Singleton
  <2>6. (CHOOSE f \in Winners(sec) : TRUE) = Chain[p]
    BY <2>4
  <2> QED
    BY <2>3, <2>4, <2>5, <2>6
<1> QED
  BY <1>1, <1>2

\* The hop limit costs nothing, whatever cycles the fail outputs form
\* (route_sector).
THEOREM RouteAlwaysFirstPass == SelectorSpec => []RouteIsFirstPass
<1>1. RouteIsFirstPass
  BY RouteIs DEF RouteIsFirstPass, Winners
<1> QED
  BY <1>1, PTL

\* The same of any state, and so of the state after a step.
RouteDefined(sec) ==
  /\ Route(sec) = IF Winners(sec) = {} THEN NotRouted
                  ELSE OutOf(CHOOSE f \in Winners(sec) : TRUE)
  /\ \A f, g \in Winners(sec) : f = g

LEMMA RoutesDefined == (\A sec \in Sectors : RouteDefined(sec))'
<1>1. \A sec \in Sectors : RouteDefined(sec)
  BY RouteIs DEF RouteDefined
<1> QED
  BY <1>1, PTL

\* filter_test of one filter's settings.
Passes(e, sec) ==
  LET s == e.sub
      m == e.mode
      matches == /\ 0 \in m => sec.file = s.file
                 /\ 1 \in m => sec.chan = s.chan
                 /\ 2 \in m => sec.submode \cap s.submode_mask = s.submode
                 /\ 3 \in m => sec.coding \cap s.coding_mask = s.coding
  IN  /\ matches # (4 \in m)
      /\ 6 \in m => e.range[1] <= sec.fad
                    /\ sec.fad < e.range[1] + e.range[2]

LEMMA TestReadsFilter ==
  ASSUME NEW f, NEW sec
  PROVE  /\ FilterTest(f, sec) <=> Passes(filter[f], sec)
         /\ FilterTest(f, sec)' <=> Passes(filter'[f], sec)
<1>1. FilterTest(f, sec) <=> Passes(filter[f], sec)
  BY DEF FilterTest, Passes
<1>2. FilterTest(f, sec)' <=> Passes(filter'[f], sec)
  BY DEF FilterTest, Passes
<1> QED
  BY <1>1, <1>2

\* A route is made of the filters the sector is offered to and of nothing else.
LEMMA SameRoute ==
  ASSUME NEW sec \in Sectors, cd_conn' = cd_conn,
         \A f \in Offered(sec) : filter'[f] = filter[f]
  PROVE  Route(sec)' = Route(sec)
<1>1. PICK V : V = Offered(sec)
  OBVIOUS
<1>2. ClosedFor(sec, V) /\ V \in SUBSET Filters
  BY <1>1, OfferedClosed DEF Offered
<1>3. ASSUME NEW f \in V
      PROVE  /\ filter'[f] = filter[f]
             /\ FilterTest(f, sec)' <=> FilterTest(f, sec)
             /\ OutOf(f)' = OutOf(f)
  <2>1. filter'[f] = filter[f]
    BY <1>1
  <2>2. FilterTest(f, sec)' <=> FilterTest(f, sec)
    BY <2>1, TestReadsFilter
  <2> QED
    BY <2>1, <2>2 DEF OutOf
<1>4. ClosedFor(sec, V)'
  BY <1>2, <1>3 DEF ClosedFor
<1>5. Offered(sec)' \subseteq V
  BY <1>2, <1>4 DEF Offered
<1>6. ASSUME NEW f \in V, NEW S \in SUBSET (Filters \ {f}), ClosedFor(sec, S)'
      PROVE  FALSE
  <2>1. ClosedFor(sec, S \cap V)
    BY <1>2, <1>3, <1>6 DEF ClosedFor
  <2>2. V \subseteq S \cap V
    BY <1>1, <2>1, OfferedLeast
  <2> QED
    BY <2>2
<1>7. Offered(sec)' = V
  BY <1>2, <1>5, <1>6 DEF Offered
<1>8. PICK W : W = Winners(sec)
  OBVIOUS
<1>9. Winners(sec)' = W /\ W \subseteq V
  BY <1>1, <1>3, <1>7, <1>8 DEF Winners
<1>10. /\ Route(sec)' = IF W = {} THEN NotRouted ELSE OutOf(CHOOSE f \in W : TRUE)'
       /\ Route(sec) = IF W = {} THEN NotRouted ELSE OutOf(CHOOSE f \in W : TRUE)
  BY <1>8, <1>9, RoutesDefined, RouteIs DEF RouteDefined
<1>11. CASE W # {}
  <2>1. (CHOOSE f \in W : TRUE) \in V
    BY <1>9, <1>11
  <2> QED
    BY <1>3, <1>10, <1>11, <2>1
<1> QED
  BY <1>10, <1>11

-----------------------------------------------------------------------------
(* The commands.                                                             *)

Filter == [range : Nat \X Nat, sub : Subheader, mode : SUBSET (ByteBits \ {5, 7}),
           pass_out : Nat, fail_out : Nat]
Types == SelectorTypeOK /\ filter \in [Filters -> Filter] /\ pristine \in BOOLEAN

\* A bank whose conditions and pass outputs were reset, and not set since.
PristineBank == pristine => \A f \in Filters : filter[f].mode = {} /\ filter[f].pass_out = f

\* What a command to one filter makes of it.
Programmed(f, new) ==
  /\ filter' = [filter EXCEPT ![f] = new] /\ new \in Filter
  /\ new.pass_out \in {f} \cup UNION {c[2] : c \in Connections}
  /\ new.fail_out \in {Disconnected} \cup UNION {c[3] : c \in Connections}
  /\ UNCHANGED cd_conn

LEMMA ResetFacts ==
  ASSUME NEW f \in Filters
  PROVE  /\ Reset(f) \in Filter /\ Reset(f).pass_out = f /\ Reset(f).mode = {}
         /\ Reset(f).fail_out = Disconnected
BY FilterFacts, SelectorAssumption DEF Reset, Filter, NoConditions, Subheader, ByteBits

LEMMA CommandPrograms ==
  ASSUME Types, NEW f \in Filters, FilterCommand(f)
  PROVE  \E new : /\ Programmed(f, new)
                  /\ pristine' => /\ pristine /\ new.mode = filter[f].mode
                                  /\ new.pass_out = filter[f].pass_out
                  /\ pristine' \in BOOLEAN
<1> USE DEF Types
<1>1. /\ filter[f] \in Filter
      /\ filter[f].pass_out \in {f} \cup UNION {c[2] : c \in Connections}
      /\ filter[f].fail_out \in {Disconnected} \cup UNION {c[3] : c \in Connections}
      /\ filter \in [Filters -> Filter]
  BY DEF SelectorTypeOK
<1>2. ASSUME NEW input \in FadRanges, f = input[1], SetFilterRange(f, input[2])
      PROVE  /\ Programmed(f, [filter[f] EXCEPT !.range = input[2]]) /\ pristine' = FALSE
  <2>1. input[2] \in Nat \X Nat
    BY SelectorAssumption
  <2>2. filter' = [filter EXCEPT ![f] = [filter[f] EXCEPT !.range = input[2]]]
        /\ pristine' = FALSE /\ UNCHANGED cd_conn
    BY <1>2 DEF SetFilterRange
  <2> QED
    BY <1>1, <2>1, <2>2 DEF Programmed, Filter
<1>3. ASSUME NEW input \in Subheaders, f = input[1], SetFilterSubheaderConditions(f, input[2])
      PROVE  Programmed(f, [filter[f] EXCEPT !.sub = input[2]]) /\ pristine' = FALSE
  <2>1. input[2] \in Subheader
    BY SelectorAssumption
  <2>2. filter' = [filter EXCEPT ![f] = [filter[f] EXCEPT !.sub = input[2]]]
        /\ pristine' = FALSE /\ UNCHANGED cd_conn
    BY <1>3 DEF SetFilterSubheaderConditions
  <2> QED
    BY <1>1, <2>1, <2>2 DEF Programmed, Filter
<1>4. ASSUME NEW mode \in Modes, SetFilterMode(f, mode)
      PROVE  /\ \E new : Programmed(f, new)
             /\ pristine' = FALSE
  <2> DEFINE kept == IF 7 \in mode
                     THEN [Reset(f) EXCEPT !.pass_out = filter[f].pass_out,
                                           !.fail_out = filter[f].fail_out]
                     ELSE filter[f]
             new == [kept EXCEPT !.mode = mode \ {5, 7}]
  <2>1. mode \ {5, 7} \in SUBSET (ByteBits \ {5, 7})
    BY SelectorAssumption
  <2>2. kept \in Filter /\ kept.pass_out = filter[f].pass_out /\ kept.fail_out = filter[f].fail_out
    <3>1. CASE 7 \in mode
      <4>1. PICK cleared \in Filter : cleared = Reset(f)
        BY ResetFacts
      <4>2. kept = [cleared EXCEPT !.pass_out = filter[f].pass_out,
                                   !.fail_out = filter[f].fail_out]
        BY <3>1, <4>1
      <4>3. filter[f].pass_out \in Nat /\ filter[f].fail_out \in Nat
        BY <1>1 DEF Filter
      <4> HIDE DEF kept
      <4> QED
        BY <4>2, <4>3 DEF Filter
    <3>2. CASE 7 \notin mode
      BY <1>1, <3>2
    <3> QED
      BY <3>1, <3>2
  <2>3. filter' = [filter EXCEPT ![f] = new] /\ pristine' = FALSE /\ UNCHANGED cd_conn
    BY <1>4 DEF SetFilterMode
  <2> HIDE DEF kept
  <2>4. Programmed(f, new)
    BY <1>1, <2>1, <2>2, <2>3 DEF Programmed, Filter
  <2> QED
    BY <2>3, <2>4
<1>5. ASSUME NEW input \in Connections, f = input[1],
             SetFilterConnection(f, input[2], input[3])
      PROVE  \E new : /\ Programmed(f, new)
                      /\ pristine' => /\ pristine /\ new.mode = filter[f].mode
                                      /\ new.pass_out = filter[f].pass_out
                      /\ pristine' \in BOOLEAN
  <2> DEFINE pass == IF input[2] = {} THEN filter[f].pass_out ELSE CHOOSE p \in input[2] : TRUE
             fail == IF input[3] = {} THEN filter[f].fail_out ELSE CHOOSE g \in input[3] : TRUE
             new == [filter[f] EXCEPT !.pass_out = pass, !.fail_out = fail]
  <2>1. /\ pass \in {f} \cup UNION {c[2] : c \in Connections}
        /\ fail \in {Disconnected} \cup UNION {c[3] : c \in Connections}
    BY <1>1
  <2>2. pass \in Nat /\ fail \in Nat
    <3>1. input[2] \subseteq Nat /\ input[3] \subseteq Nat
      BY SelectorAssumption
    <3> QED
      BY <1>1, <3>1 DEF Filter
  <2>3. filter' = [filter EXCEPT ![f] = new]
        /\ pristine' = (pristine /\ input[2] = {}) /\ UNCHANGED cd_conn
    BY <1>1, <1>5 DEF SetFilterConnection, Filter
  <2>4. new.mode = filter[f].mode /\ (input[2] = {} => new.pass_out = filter[f].pass_out)
    BY <1>1 DEF Filter
  <2> HIDE DEF pass, fail
  <2>5. Programmed(f, new)
    BY <1>1, <2>1, <2>2, <2>3 DEF Programmed, Filter
  <2> QED
    BY <2>3, <2>4, <2>5
<1> QED
  BY <1>2, <1>3, <1>4, <1>5 DEF FilterCommand

LEMMA ProgrammedBank ==
  ASSUME Types, NEW f \in Filters, NEW new, Programmed(f, new)
  PROVE  /\ SelectorTypeOK' /\ filter' \in [Filters -> Filter]
         /\ filter'[f] = new
         /\ \A g \in Filters : g # f => filter'[g] = filter[g]
<1>1. /\ filter' \in [Filters -> Filter] /\ filter'[f] = new
      /\ \A g \in Filters : g # f => filter'[g] = filter[g]
  BY DEF Types, Programmed
<1>2. ASSUME NEW g \in Filters
      PROVE  /\ filter'[g].range \in Nat \X Nat /\ filter'[g].sub \in Subheader
             /\ filter'[g].mode \in SUBSET (ByteBits \ {5, 7})
             /\ filter'[g].pass_out \in {g} \cup UNION {c[2] : c \in Connections}
             /\ filter'[g].fail_out \in {Disconnected} \cup UNION {c[3] : c \in Connections}
  <2>1. filter'[g] \in Filter
    BY <1>1
  <2>2. /\ filter'[g].pass_out \in {g} \cup UNION {c[2] : c \in Connections}
        /\ filter'[g].fail_out \in {Disconnected} \cup UNION {c[3] : c \in Connections}
    BY <1>1 DEF Types, SelectorTypeOK, Programmed
  <2> QED
    BY <2>1, <2>2 DEF Filter
<1>3. SelectorTypeOK'
  BY <1>2 DEF Types, SelectorTypeOK, Programmed
<1> QED
  BY <1>1, <1>3

\* What SelectorReset makes of one filter.
ResetTo(f, flags) ==
  [range |-> IF 4 \in flags THEN <<0, 0>> ELSE filter[f].range,
   sub |-> IF 4 \in flags THEN NoConditions ELSE filter[f].sub,
   mode |-> IF 4 \in flags THEN {} ELSE filter[f].mode,
   pass_out |-> IF 6 \in flags THEN f ELSE filter[f].pass_out,
   fail_out |-> IF {5, 7} \cap flags # {} THEN Disconnected ELSE filter[f].fail_out]

LEMMA ResetBank ==
  ASSUME Types, NEW flags \in ResetFlags, SelectorReset(flags)
  PROVE  /\ SelectorTypeOK' /\ filter' \in [Filters -> Filter] /\ pristine' \in BOOLEAN
         /\ filter' = [f \in Filters |-> ResetTo(f, flags)]
<1>1. /\ filter' = [f \in Filters |-> ResetTo(f, flags)]
      /\ cd_conn' = (IF 5 \in flags THEN Disconnected ELSE cd_conn)
      /\ pristine' = (pristine \/ {4, 6} \subseteq flags)
  BY DEF SelectorReset, ResetTo
<1>2. ASSUME NEW f \in Filters
      PROVE  /\ ResetTo(f, flags) \in Filter
             /\ ResetTo(f, flags).pass_out \in {f} \cup UNION {c[2] : c \in Connections}
             /\ ResetTo(f, flags).fail_out \in {Disconnected} \cup UNION {c[3] : c \in Connections}
  <2>1. filter[f] \in Filter
    BY DEF Types
  <2>2. /\ <<0, 0>> \in Nat \X Nat /\ NoConditions \in Subheader /\ Disconnected \in Nat
        /\ f \in Nat
    BY SelectorAssumption, FilterFacts DEF NoConditions, Subheader
  <2> QED
    BY <2>1, <2>2 DEF ResetTo, Filter, Types, SelectorTypeOK
<1>3. SelectorTypeOK'
  <2>1. \A f \in Filters : filter'[f] = ResetTo(f, flags)
    BY <1>1
  <2>2. cd_conn' \in Partitions \cup {Disconnected}
    BY <1>1 DEF Types, SelectorTypeOK
  <2> QED
    BY <1>2, <2>1, <2>2 DEF SelectorTypeOK, Filter
<1> QED
  BY <1>1, <1>2, <1>3

BankInv == Types /\ PristineBank

LEMMA InitBank == SelectorInit => BankInv
<1> SUFFICES ASSUME SelectorInit PROVE BankInv
  OBVIOUS
<1>1. \A f \in Filters : filter[f] = Reset(f)
  BY DEF SelectorInit
<1>2. filter \in [Filters -> Filter] /\ pristine = TRUE /\ cd_conn = 0
  BY ResetFacts DEF SelectorInit
<1>3. 0 \in Partitions
  BY SelectorAssumption DEF Partitions
<1>4. \A f \in Filters : filter[f] \in Filter /\ filter[f].pass_out = f /\ filter[f].mode = {}
                         /\ filter[f].fail_out = Disconnected
  BY <1>1, ResetFacts
<1>5. SelectorTypeOK
  BY <1>2, <1>3, <1>4 DEF SelectorTypeOK, Filter
<1> QED
  BY <1>2, <1>4, <1>5 DEF BankInv, Types, PristineBank

LEMMA StepBank ==
  ASSUME BankInv, [SelectorNext]_selectorVars
  PROVE  BankInv'
<1> USE DEF BankInv
<1>1. ASSUME NEW f \in Filters, FilterCommand(f)
      PROVE  BankInv'
  <2>1. PICK new : /\ Programmed(f, new)
                   /\ pristine' => /\ pristine /\ new.mode = filter[f].mode
                                   /\ new.pass_out = filter[f].pass_out
                   /\ pristine' \in BOOLEAN
    BY <1>1, CommandPrograms
  <2>2. /\ SelectorTypeOK' /\ filter' \in [Filters -> Filter] /\ filter'[f] = new
        /\ \A g \in Filters : g # f => filter'[g] = filter[g]
    BY <2>1, ProgrammedBank
  <2>3. PristineBank'
    BY <2>1, <2>2 DEF PristineBank
  <2> QED
    BY <2>1, <2>2, <2>3 DEF Types
<1>2. CASE UNCHANGED <<filter, cd_conn, pristine>>
  BY <1>2 DEF Types, SelectorTypeOK, PristineBank
<1>3. ASSUME NEW f \in DeviceFilters, SetDeviceConnection(f)
      PROVE  BankInv'
  <2>1. cd_conn' \in Partitions /\ UNCHANGED <<filter, pristine>>
    BY <1>3, SelectorAssumption DEF SetDeviceConnection, Partitions
  <2> QED
    BY <2>1 DEF Types, SelectorTypeOK, PristineBank
<1>4. ASSUME NEW flags \in ResetFlags, SelectorReset(flags)
      PROVE  BankInv'
  <2>1. /\ SelectorTypeOK' /\ filter' \in [Filters -> Filter] /\ pristine' \in BOOLEAN
        /\ filter' = [f \in Filters |-> ResetTo(f, flags)]
    BY <1>4, ResetBank
  <2>2. pristine' = (pristine \/ {4, 6} \subseteq flags)
    BY <1>4 DEF SelectorReset
  <2>3. PristineBank'
    <3> SUFFICES ASSUME pristine', NEW f \in Filters
                 PROVE  filter'[f].mode = {} /\ filter'[f].pass_out = f
      BY DEF PristineBank
    <3>1. /\ filter'[f].mode = (IF 4 \in flags THEN {} ELSE filter[f].mode)
          /\ filter'[f].pass_out = (IF 6 \in flags THEN f ELSE filter[f].pass_out)
      BY <2>1 DEF ResetTo
    <3>2. pristine \/ (4 \in flags /\ 6 \in flags)
      BY <2>2
    <3> QED
      BY <3>1, <3>2 DEF PristineBank
  <2> QED
    BY <2>1, <2>3 DEF Types
<1>5. ASSUME NEW f, GetFilterRange(f)
      PROVE  BankInv'
  BY <1>2, <1>5 DEF GetFilterRange
<1>6. CASE UNCHANGED selectorVars
  BY <1>2, <1>6 DEF selectorVars
<1> QED
  BY <1>1, <1>3, <1>4, <1>5, <1>6 DEF SelectorNext

\* Every filter keeps its type, and an output is a filter's own partition or
\* one that a connection command named.
THEOREM TypeCorrect == SelectorSpec => []SelectorTypeOK
<1>1. BankInv => SelectorTypeOK
  BY DEF BankInv, Types
<1>2. BankInv /\ [SelectorNext]_selectorVars => BankInv'
  BY StepBank
<1> QED
  BY InitBank, <1>1, <1>2, PTL DEF SelectorSpec

\* Conditions and pass outputs reset, the routing is the power-on one for any
\* chain of fail outputs (SelectorReset, route_sector).
THEOREM PristineAlwaysRoutes == SelectorSpec => []PristineRouting
<1>1. BankInv => PristineRouting
  <2> SUFFICES ASSUME BankInv, pristine, NEW sec \in Sectors
               PROVE  Route(sec) = IF cd_conn \in Partitions THEN cd_conn ELSE NotRouted
    BY DEF PristineRouting
  <2>1. \A f \in Filters : filter[f].mode = {} /\ filter[f].pass_out = f
    BY DEF BankInv, PristineBank
  <2>2. ASSUME NEW f \in Filters
        PROVE  FilterTest(f, sec)
    BY <2>1 DEF FilterTest
  <2>3. CASE cd_conn \in Partitions
    <3>1. 0 \in PassingHops(sec) /\ \A h \in PassingHops(sec) : 0 <= h
      BY <2>2, <2>3, FilterFacts, ChainSteps DEF PassingHops
    <3>2. Winners(sec) = {cd_conn}
      BY <3>1, OneWinner, ChainSteps
    <3>3. Route(sec) = OutOf(cd_conn)
      <4>1. (CHOOSE f \in Winners(sec) : TRUE) = cd_conn /\ Winners(sec) # {}
        BY <3>2
      <4> QED
        BY <4>1, RouteIs
    <3> QED
      BY <2>1, <2>3, <3>3, FilterFacts DEF OutOf
  <2>4. CASE cd_conn \notin Partitions
    <3>1. cd_conn \notin Filters
      BY <2>4, FilterFacts DEF BankInv, Types, SelectorTypeOK
    <3>2. \A h \in 0 .. NumFilters : Chain[h] \notin Filters
      <4>1. ASSUME NEW h \in 0 .. NumFilters, Chain[h] \in Filters
            PROVE  Chain[0] \in Filters
        <5>1. 0 \in 0 .. h
          BY FilterFacts
        <5> QED
          BY <4>1, <5>1, ChainBefore
      <4> QED
        BY <3>1, <4>1, ChainSteps
    <3>3. PassingHops(sec) = {}
      BY <3>2, FilterFacts DEF PassingHops
    <3> QED
      BY <2>4, <3>3 DEF Route
  <2> QED
    BY <2>3, <2>4
<1>2. BankInv /\ [SelectorNext]_selectorVars => BankInv'
  BY StepBank
<1> QED
  BY InitBank, <1>1, <1>2, PTL DEF SelectorSpec

\* A filter can be programmed while the drive streams without moving a sector
\* that is never offered to it (the filter commands, route_sector).
THEOREM ProgrammingAlwaysLocal == SelectorSpec => ProgrammingIsLocal
<1>1. BankInv /\ [SelectorNext]_selectorVars =>
        [\A sec \in Sectors : Route(sec)' # Route(sec) =>
           \A f \in Filters \ Offered(sec) : ~FilterCommand(f)]_selectorVars
  <2> SUFFICES ASSUME BankInv, NEW sec \in Sectors,
                      NEW f \in Filters \ Offered(sec), FilterCommand(f)
               PROVE  Route(sec)' = Route(sec)
    OBVIOUS
  <2>1. PICK new : Programmed(f, new)
    BY CommandPrograms DEF BankInv
  <2>2. cd_conn' = cd_conn /\ \A g \in Filters : g # f => filter'[g] = filter[g]
    BY <2>1, ProgrammedBank DEF BankInv, Programmed
  <2>3. \A g \in Offered(sec) : filter'[g] = filter[g]
    BY <2>2 DEF Offered
  <2> QED
    BY <2>2, <2>3, SameRoute
<1>2. BankInv /\ [SelectorNext]_selectorVars => BankInv'
  BY StepBank
<1> QED
  BY InitBank, <1>1, <1>2, PTL DEF SelectorSpec, ProgrammingIsLocal

\* Emptying partitions never reroutes the stream (SelectorReset).
THEOREM RecyclingAlwaysKeepsRoutes == SelectorSpec => RecyclingKeepsRoutes
<1>1. BankInv /\ [SelectorNext]_selectorVars =>
        [\A flags \in {{}, {2}} :
           SelectorReset(flags) => \A sec \in Sectors : Route(sec)' = Route(sec)]_selectorVars
  <2> SUFFICES ASSUME BankInv, NEW flags \in {{}, {2}}, SelectorReset(flags),
                      NEW sec \in Sectors
               PROVE  Route(sec)' = Route(sec)
    OBVIOUS
  <2>1. 4 \notin flags /\ 5 \notin flags /\ 6 \notin flags /\ {5, 7} \cap flags = {}
    OBVIOUS
  <2>2. cd_conn' = cd_conn
    BY <2>1 DEF SelectorReset
  <2>3. ASSUME NEW f \in Filters
        PROVE  filter'[f] = filter[f]
    <3>1. filter[f] \in Filter
      BY DEF BankInv, Types
    <3>2. filter'[f] = [range |-> filter[f].range, sub |-> filter[f].sub,
                        mode |-> filter[f].mode, pass_out |-> filter[f].pass_out,
                        fail_out |-> filter[f].fail_out]
      BY <2>1 DEF SelectorReset
    <3> QED
      BY <3>1, <3>2 DEF Filter
  <2> QED
    BY <2>2, <2>3, SameRoute DEF Offered
<1>2. BankInv /\ [SelectorNext]_selectorVars => BankInv'
  BY StepBank
<1> QED
  BY InitBank, <1>1, <1>2, PTL DEF SelectorSpec, RecyclingKeepsRoutes
=============================================================================
