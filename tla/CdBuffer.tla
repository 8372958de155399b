------------------------------ MODULE CdBuffer ------------------------------
(***************************************************************************)
(* The buffer half of the CD block (runner/src/cdblock.c): 24 partitions   *)
(* of sector slots that the drive fills, the commands that hand sectors to *)
(* the host and delete them, and the one data transfer register (DTR) that *)
(* sector data, the TOC and directory records all pass through.            *)
(*                                                                         *)
(* A partition is two parallel arrays (the sectors' data and their frame   *)
(* addresses) and a count; slots past the count keep stale contents.  The  *)
(* data of a sector is its frame address; a word is a sector, a form and   *)
(* a place in it.  Lengths and positions count 16-bit words.               *)
(***************************************************************************)
EXTENDS Integers, Sequences

CONSTANTS
  NumParts, PartSectors,        \* CD_NUM_PARTS, CD_PART_SECTORS
  SectorWords, RawWords,        \* 2048 and 2352 bytes
  GetLengths,                   \* lengths SetSectorLength may select
  Fads, RawFads,                \* frame addresses, those kept raw on the image
  Offsets, Counts,              \* CR2 and CR4 of the sector commands
  Queries,                      \* <<CR2, CR4>> of CalculateActualSize
  OtherReplies,                 \* TOC and directory replies, as words
  Blank, Toc, Dry               \* a slot never filled, what other replies
                                \* carry, a read of nothing

Parts == 0 .. NumParts - 1
XferWords == PartSectors * SectorWords
Slot == Fads \cup {Blank}
Word == [sector : Slot \cup {Toc}, form : {"cooked", "raw"}, word : Nat]

ASSUME BufferAssumption ==
  /\ NumParts \in Nat \ {0} /\ PartSectors \in Nat \ {0}
  /\ SectorWords \in Nat \ {0} /\ RawWords \in Nat \ {0}
  /\ SectorWords < RawWords
  /\ GetLengths \subseteq Nat
  /\ RawFads \subseteq Fads /\ Blank \notin Fads
  /\ Offsets \subseteq Nat /\ Counts \subseteq Nat
  /\ OtherReplies \subseteq Seq(Word)
  /\ Queries \subseteq Offsets \X Counts

VARIABLES
  part, part_fad, part_sectors,
  xfer, xfer_pos, xfer_type,    \* the staged words; xfer_size is their number
  sec_len_get, calc_words,
  dtr, raised,                  \* what a step returned from DTR, raised in HIRQ
  quote                         \* history: the range calc_words was asked for

store == <<part, part_fad, part_sectors>>
transfer == <<xfer, xfer_pos, xfer_type>>
vars == <<store, transfer, sec_len_get, calc_words, dtr, raised, quote>>

Least(a, b) == IF a <= b THEN a ELSE b

Init ==
  /\ part = [q \in Parts |-> [i \in 1 .. PartSectors |-> Blank]]
  /\ part_fad = [q \in Parts |-> [i \in 1 .. PartSectors |-> Blank]]
  /\ part_sectors = [q \in Parts |-> 0]
  /\ xfer = <<>> /\ xfer_pos = 0 /\ xfer_type = "none"
  /\ sec_len_get = 0 /\ calc_words = 0
  /\ dtr = Dry /\ raised = {} /\ quote = <<>>

----------------------------------------------------------------------------
(* The drive.  cdb_tick stores a sector it has routed to partition q. *)

StoreSector(q, f) ==
  /\ part_sectors[q] < PartSectors
  /\ part' = [part EXCEPT ![q][part_sectors[q] + 1] = f]
  /\ part_fad' = [part_fad EXCEPT ![q][part_sectors[q] + 1] = f]
  /\ part_sectors' = [part_sectors EXCEPT ![q] = @ + 1]
  /\ dtr' = Dry /\ raised' = {"CSCT"}
  /\ UNCHANGED <<transfer, sec_len_get, calc_words, quote>>

----------------------------------------------------------------------------
(* Ranges.  The sector commands clip what the host asks to what is there. *)

First(p, off) == Least(off, part_sectors[p])
HowMany(p, off, cnt) ==
  Least(IF cnt = 0 THEN 1 ELSE cnt, part_sectors[p] - First(p, off))

Width(form) == IF form = "raw" THEN RawWords ELSE SectorWords

\* m sectors of slots, from place off on, laid out in the FIFO.
Staged(slots, off, m, form) ==
  [k \in 1 .. m * Width(form) |->
     [sector |-> slots[off + (k - 1) \div Width(form) + 1], form |-> form,
      word |-> (k - 1) % Width(form)]]

\* Raw sectors are read again from the disc until one fails or the FIFO is full.
RawReady(p, off, n) ==
  {m \in 0 .. n : /\ m * RawWords <= XferWords
                  /\ \A i \in 1 .. m : part_fad[p][off + i] \in RawFads}
RawServed(p, off, n) ==
  CHOOSE m \in RawReady(p, off, n) : \A k \in RawReady(p, off, n) : k <= m

\* Mutant: the remainder is moved one slot too far down.
CompactShort(slots, off, n, count) ==
  [i \in 1 .. PartSectors |->
     IF off < i /\ i <= count - n THEN slots[i + n - 1] ELSE slots[i]]

\* memmove of the slots behind the range over it; the tail keeps its contents.
Compact(slots, off, n, count) ==
  [i \in 1 .. PartSectors |->
     IF off < i /\ i <= count - n THEN slots[i + n] ELSE slots[i]]

\* Mutant: the frame addresses are left where they were.
DeleteRangeDataOnly(p, off, n) ==
  /\ part' = [part EXCEPT ![p] = Compact(@, off, n, part_sectors[p])]
  /\ part_sectors' = [part_sectors EXCEPT ![p] = @ - n]
  /\ UNCHANGED part_fad

DeleteRange(p, off, n) ==
  /\ part' = [part EXCEPT ![p] = Compact(@, off, n, part_sectors[p])]
  /\ part_fad' = [part_fad EXCEPT ![p] = Compact(@, off, n, part_sectors[p])]
  /\ part_sectors' = [part_sectors EXCEPT ![p] = @ - n]

----------------------------------------------------------------------------
(* Commands. *)

\* GetSectorData (0x61) and GetThenDeleteSectorData (0x63).
GetSectorData(p, off, cnt, remove) ==
  LET first == First(p, off)
      n == HowMany(p, off, cnt)
      raw == sec_len_get = RawWords
  IN
  /\ xfer' = IF raw THEN Staged(part_fad[p], first, RawServed(p, first, n), "raw")
             ELSE Staged(part[p], first, n, "cooked")
  /\ xfer_pos' = 0 /\ xfer_type' = "sector"
  /\ dtr' = Dry /\ raised' = {"DRDY"}
  /\ IF remove THEN DeleteRange(p, first, n) /\ quote' = <<>>
               ELSE UNCHANGED <<store, quote>>
  /\ UNCHANGED <<sec_len_get, calc_words>>

DeleteSectorData(p, off, cnt) ==
  /\ DeleteRange(p, First(p, off), HowMany(p, off, cnt))
  /\ dtr' = Dry /\ raised' = {"EHST"} /\ quote' = <<>>
  /\ UNCHANGED <<transfer, sec_len_get, calc_words>>

\* ResetSelector: one partition (flags 0), or all of them (bit 2).  A transfer
\* under way goes on.
ResetSelector(cleared) ==
  /\ part_sectors' = [q \in Parts |-> IF q \in cleared THEN 0 ELSE part_sectors[q]]
  /\ dtr' = Dry /\ raised' = {"ESEL"} /\ quote' = <<>>
  /\ UNCHANGED <<part, part_fad, transfer, sec_len_get, calc_words>>

InitializeCDSystem(soft) ==
  /\ xfer' = <<>> /\ xfer_pos' = 0 /\ xfer_type' = "none"
  /\ IF soft THEN part_sectors' = [q \in Parts |-> 0] /\ quote' = <<>>
             ELSE UNCHANGED <<part_sectors, quote>>
  /\ dtr' = Dry /\ raised' = {"ESEL", "EHST", "ECPY", "EFLS"}
  /\ UNCHANGED <<part, part_fad, sec_len_get, calc_words>>

\* AbortFile drops the staged words but not the transfer's type.
AbortFile ==
  /\ xfer' = <<>> /\ xfer_pos' = 0
  /\ dtr' = Dry /\ raised' = {"EFLS"}
  /\ UNCHANGED <<store, xfer_type, sec_len_get, calc_words, quote>>

EndDataTransfer ==
  /\ xfer' = <<>> /\ xfer_pos' = 0 /\ xfer_type' = "none"
  /\ dtr' = Dry /\ raised' = IF xfer_type = "sector" THEN {"EHST"} ELSE {}
  /\ UNCHANGED <<store, sec_len_get, calc_words, quote>>

\* GetTOC and GetFileInfo.
StageReply ==
  /\ xfer' \in OtherReplies /\ xfer_pos' = 0 /\ xfer_type' = "other"
  /\ dtr' = Dry /\ raised' = {"DRDY"}
  /\ UNCHANGED <<store, sec_len_get, calc_words, quote>>

\* A selector out of range leaves the length as it is.
SetSectorLength ==
  /\ sec_len_get' \in GetLengths \cup {sec_len_get}
  /\ dtr' = Dry /\ raised' = {"ESEL"} /\ quote' = <<>>
  /\ UNCHANGED <<store, transfer, calc_words>>

\* Mutant: the size of the whole partition, as the code once answered.
CalculateWholeSize(p, off, cnt) ==
  /\ calc_words' = part_sectors[p]
                     * (IF sec_len_get = 0 THEN SectorWords ELSE sec_len_get)
  /\ quote' = <<p, off, cnt>>
  /\ dtr' = Dry /\ raised' = {"ESEL"}
  /\ UNCHANGED <<store, transfer, sec_len_get>>

CalculateActualSize(p, off, cnt) ==
  /\ calc_words' = HowMany(p, off, cnt)
                     * (IF sec_len_get = 0 THEN SectorWords ELSE sec_len_get)
  /\ quote' = <<p, off, cnt>>
  /\ dtr' = Dry /\ raised' = {"ESEL"}
  /\ UNCHANGED <<store, transfer, sec_len_get>>

----------------------------------------------------------------------------
(* The host reads the data transfer register. *)

ReadDtr ==
  /\ IF xfer_pos >= Len(xfer)
     THEN dtr' = Dry /\ xfer_pos' = Len(xfer) /\ raised' = {}
     ELSE /\ dtr' = xfer[xfer_pos + 1]
          /\ xfer_pos' = xfer_pos + 1
          /\ raised' = IF xfer_pos' = Len(xfer) /\ xfer_type = "sector"
                       THEN {"EHST"} ELSE {}
  /\ UNCHANGED <<store, xfer, xfer_type, sec_len_get, calc_words, quote>>

Next ==
  \/ \E q \in Parts, f \in Fads : StoreSector(q, f)
  \/ \E p \in Parts, off \in Offsets, cnt \in Counts :
       \/ \E remove \in BOOLEAN : GetSectorData(p, off, cnt, remove)
       \/ DeleteSectorData(p, off, cnt)
  \/ \E p \in Parts, query \in Queries : CalculateActualSize(p, query[1], query[2])
  \/ \E cleared \in {Parts} \cup {{q} : q \in Parts} : ResetSelector(cleared)
  \/ \E soft \in BOOLEAN : InitializeCDSystem(soft)
  \/ AbortFile
  \/ EndDataTransfer
  \/ StageReply
  \/ SetSectorLength
  \/ ReadDtr

Spec == Init /\ [][Next]_vars

----------------------------------------------------------------------------
(* Properties. *)

TypeOK ==
  /\ part \in [Parts -> [1 .. PartSectors -> Slot]]
  /\ part_fad \in [Parts -> [1 .. PartSectors -> Slot]]
  /\ part_sectors \in [Parts -> 0 .. PartSectors]
  /\ xfer \in Seq(Word)
  /\ xfer_pos \in 0 .. Len(xfer)
  /\ xfer_type \in {"none", "sector", "other"}
  /\ sec_len_get \in GetLengths \cup {0} /\ calc_words \in Nat
  /\ raised \subseteq {"CSCT", "DRDY", "EHST", "ESEL", "ECPY", "EFLS"}

\* The two arrays of a partition move together: a raw transfer, which goes
\* back to the disc by frame address, hands over the sectors a cooked one would.
DataMatchesFad ==
  \A q \in Parts : \A i \in 1 .. part_sectors[q] :
    part[q][i] = part_fad[q][i] /\ part[q][i] \in Fads

\* The buffer is a store of queues, whatever the drive adds while a transfer is
\* read out: sectors leave in order, complete, once, and a staged transfer is
\* a copy.  (An implementation of SectorStore.)
Abstract == INSTANCE SectorStore WITH
  Capacity <- PartSectors,
  queue <- [q \in Parts |-> [i \in 1 .. part_sectors[q] |-> part[q][i]]],
  handed <- [i \in 1 .. Len(xfer) - xfer_pos |-> xfer[xfer_pos + i]],
  out <- dtr
Implements == Abstract!Store

\* A size the host computed for a range, if the FIFO can hold it, stays good
\* until sectors are removed or the sector length changes: what a read of that
\* range then stages is never shorter, though the drive has stored more since.
\* (On an image without raw sectors a raw read stages nothing.)
QuotedSizeIsServed ==
  [][ quote # <<>> /\ calc_words <= XferWords /\ (sec_len_get = RawWords => RawFads = Fads) =>
        \A remove \in BOOLEAN :
          GetSectorData(quote[1], quote[2], quote[3], remove) => Len(xfer') >= calc_words ]_vars

\* EHST says that the host is done with sectors: outside deletion and
\* initialisation it is raised only for a sector transfer, and only when none
\* of its words is left to read.
EhstEndsSectors ==
  [][ "EHST" \in raised' /\ UNCHANGED store /\ "ECPY" \notin raised'
        /\ ~(\E p \in Parts, off \in Offsets, cnt \in Counts : DeleteSectorData(p, off, cnt))
        => xfer_type = "sector" /\ xfer_pos' = Len(xfer') ]_vars

----------------------------------------------------------------------------
(* What comments of the code say and the code does not do. *)

\* "GetThenDeleteSectorData removes ONLY the sectors just handed over"
\* (cdblock.c).
RemovesOnlyHandedOver ==
  [][ \A p \in Parts, off \in Offsets, cnt \in Counts :
        GetSectorData(p, off, cnt, TRUE) =>
          (part_sectors[p] - part_sectors'[p])
            * Width(IF sec_len_get = RawWords THEN "raw" ELSE "cooked") = Len(xfer') ]_vars

\* "CR1's low byte selects the ""get"" sector size" (cdblock.c, SetSectorLength):
\* what is staged is whole sectors of that size.
ServesSelectedLength ==
  [][ \A p \in Parts, off \in Offsets, cnt \in Counts, remove \in BOOLEAN :
        GetSectorData(p, off, cnt, remove) /\ sec_len_get # 0 =>
          Len(xfer') % sec_len_get = 0 ]_vars
=============================================================================
