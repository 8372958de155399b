----------------------------- MODULE SectorStore -----------------------------
(***************************************************************************)
(* What the CD block's buffer promises its host, with no memory layout:    *)
(* every partition is a queue of sectors that the drive appends to and     *)
(* only the host takes from, at any place; a transfer hands over a copy    *)
(* of consecutive sectors, word by word, and later changes of the          *)
(* partition do not reach it.                                              *)
(***************************************************************************)
EXTENDS Integers, Sequences

CONSTANTS
  Parts, Capacity,              \* partitions, sectors one can hold
  Fads,                         \* sectors, known by their frame address
  SectorWords, RawWords,        \* words of a sector: cooked, raw
  OtherReplies,                 \* word sequences of TOC and directory replies
  Dry                           \* what a read with nothing staged returns

VARIABLES
  queue, handed,                \* the partitions, the words still to be read
  out                           \* the word the last step returned

store == <<queue, handed, out>>

Width(form) == IF form = "raw" THEN RawWords ELSE SectorWords

\* The words of the n sectors of s from place off on.
WordsOf(s, off, n, form) ==
  [k \in 1 .. n * Width(form) |->
     [sector |-> s[off + (k - 1) \div Width(form) + 1], form |-> form,
      word |-> (k - 1) % Width(form)]]

\* s without the n sectors after place off.
Without(s, off, n) ==
  [i \in 1 .. Len(s) - n |-> IF i <= off THEN s[i] ELSE s[i + n]]

StoreInit == queue = [q \in Parts |-> <<>>] /\ handed = <<>> /\ out = Dry

Append1(q, f) ==
  /\ Len(queue[q]) < Capacity
  /\ queue' = [queue EXCEPT ![q] = Append(@, f)]
  /\ UNCHANGED handed /\ out' = Dry

\* The host is handed sectors of q; a raw transfer may stop short of the
\* range.  It may ask for the whole range to be removed at the same time.
Hand(q, off, n, form, remove) ==
  /\ off + n <= Len(queue[q])
  /\ \E m \in 0 .. n :
       /\ form = "cooked" => m = n
       /\ handed' = WordsOf(queue[q], off, m, form)
  /\ queue' = IF remove THEN [queue EXCEPT ![q] = Without(@, off, n)] ELSE queue
  /\ out' = Dry

Remove(q, off, n) ==
  /\ off + n <= Len(queue[q])
  /\ queue' = [queue EXCEPT ![q] = Without(@, off, n)]
  /\ UNCHANGED handed /\ out' = Dry

\* Partitions are emptied; a transfer under way goes on or is dropped.
Clear(cleared) ==
  /\ queue' = [q \in Parts |-> IF q \in cleared THEN <<>> ELSE queue[q]]
  /\ handed' \in {handed, <<>>}
  /\ out' = Dry

HandOther ==
  /\ handed' \in OtherReplies
  /\ UNCHANGED queue /\ out' = Dry

Pull ==
  /\ IF handed = <<>> THEN out' = Dry /\ UNCHANGED handed
                      ELSE out' = Head(handed) /\ handed' = Tail(handed)
  /\ UNCHANGED queue

StoreNext ==
  \/ \E q \in Parts, f \in Fads : Append1(q, f)
  \/ \E q \in Parts, form \in {"cooked", "raw"}, remove \in BOOLEAN :
       \E off \in 0 .. Capacity, n \in 0 .. Capacity : Hand(q, off, n, form, remove)
  \/ \E q \in Parts : \E off \in 0 .. Capacity, n \in 0 .. Capacity : Remove(q, off, n)
  \/ \E cleared \in SUBSET Parts : Clear(cleared)
  \/ HandOther
  \/ Pull

Store == StoreInit /\ [][StoreNext]_store
=============================================================================
