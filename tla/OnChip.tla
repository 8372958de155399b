------------------------------- MODULE OnChip -------------------------------
(***************************************************************************)
(* The units on the SH-2's die that the runner models in                   *)
(* src/runner/src/bus.c: the division unit, the DMA controller and the     *)
(* free-running timer with its input capture, the doorbell one core rings  *)
(* at the other.  The first two are done when the write that starts them   *)
(* is: they are operators on their registers, and the state keeps what     *)
(* they were last given.  The timer lives on.                              *)
(***************************************************************************)
EXTENDS Integers, Sequences
CONSTANTS
  HalfWord,         \* half of what a register of the divider can hold
  Counts,           \* what the timer's counter can hold
  FullCount,        \* what a transfer count of zero stands for
  Dividers,         \* clocks of a tick by TCR, 0 for the external pin
  Spans,            \* clocks the timer is given at a time
  CountsWritten, TiersWritten,          \* what software writes to it
  Levels16,         \* interrupt levels and masks
  Operands,         \* what software divides
  Addresses, Contents, Channels         \* memory and channels of a transfer

Flags == {"ICF", "OCFA", "OCFB", "OVF"}
Word == 2 * HalfWord

ASSUME OnChipAssumption ==
  /\ HalfWord \in Nat /\ HalfWord > 0 /\ HalfWord = 4 * (HalfWord \div 4)
  /\ Counts \in Nat /\ Counts > 0 /\ FullCount \in Nat /\ FullCount > 0
  /\ Dividers \in [1..4 -> Nat] /\ Spans \subseteq Nat
  /\ CountsWritten \subseteq 0..(Counts - 1) /\ TiersWritten \subseteq SUBSET Flags
  /\ Levels16 \subseteq Nat /\ Operands \subseteq 0..(2 * HalfWord - 1)
  /\ Addresses \subseteq Nat /\ \A m \in Contents : m \in [Addresses -> Nat]
  /\ Channels \subseteq [de : {TRUE}, te : {FALSE}, ie : {TRUE}, ts : 0..3, sm : {1}, dm : {1},
                         sar : Nat, dar : Nat, tcr : Nat]

VARIABLES
  frt,              \* the timer of one core
  base, since,      \* history: the timer at the last access, and the clocks since
  seen, unseen,     \* history: flags last read; the doorbell rang after that
  given             \* history: what the divider or a channel was last given

(***************************************************************************)
(* The division unit.  Operands and results are unsigned words; OVF is     *)
(* sticky, and OVFIE decides between a saturated and a partial quotient.   *)
(***************************************************************************)
AsInt(v, half) == IF v >= half THEN v - 2 * half ELSE v
Unsigned(v, half) == v % (2 * half)
MaxInt == HalfWord - 1
MinInt == 0 - HalfWord
HalfLong == HalfWord * Word         \* of a double register

(* C divides towards zero. *)
Abs(v) == IF v < 0 THEN 0 - v ELSE v
Quot(a, b) == LET q == Abs(a) \div Abs(b) IN IF (a < 0) = (b < 0) THEN q ELSE 0 - q
Rem(a, b) == a - b * Quot(a, b)

Result(q, r, ovf) == [q |-> Unsigned(q, HalfWord), r |-> Unsigned(r, HalfWord), ovf |-> ovf]
Saturated(negative) == IF negative THEN MinInt ELSE MaxInt

Divu32(dividend, divisor, ovfie) ==
    LET a == AsInt(dividend, HalfWord)
        b == AsInt(divisor, HalfWord)
    IN  IF b # 0 THEN Result(Quot(a, b), Rem(a, b), FALSE)
        ELSE Result(IF ovfie THEN a * 8 + (IF a < 0 THEN 0 ELSE 1) ELSE Saturated(a < 0),
                    a \div (Word \div 8), TRUE)

(* Three steps of shift and subtract, on a double word that wraps. *)
Wrapped(v) == AsInt(Unsigned(v, HalfLong), HalfLong)
DivSteps(a, b) ==
    LET Step(s) == LET t == Wrapped(IF s.q = (b < 0) THEN s.d - b * Word ELSE s.d + b * Word)
                   IN  [d |-> Wrapped(2 * t + (IF (t < 0) = (b < 0) THEN 1 ELSE 0)), q |-> t < 0]
    IN  Step(Step(Step([d |-> a, q |-> a < 0]))).d

Divu64(high, low, divisor, ovfie) ==
    LET a == AsInt(high, HalfWord) * Word + low
        b == AsInt(divisor, HalfWord)
        q == Quot(a, b)
        edge == Rem(a, b) = 0 /\ ((q = MinInt /\ b > 0) \/ (q = -MinInt /\ b < 0))
        partial == DivSteps(a, b)
        Overflow == Result(IF ovfie THEN partial
                           ELSE Saturated((AsInt(high, HalfWord) < 0) # (b < 0)),
                           partial \div Word, TRUE)
    IN  CASE b = 0 -> Overflow
          [] b # 0 /\ (edge \/ q \in MinInt..MaxInt) -> Result(q, Rem(a, b), FALSE)
          [] OTHER -> Overflow

(***************************************************************************)
(* A DMA channel runs to its end as soon as it is armed.  Units are bytes, *)
(* words, longwords, or bursts of four longwords; the count of a burst     *)
(* channel is in longwords, and what is left over costs a whole burst.     *)
(***************************************************************************)
UnitBytes == <<1, 2, 4, 16>>
Moved(a, mode, unit) == CASE mode = 1 -> a + unit [] mode = 2 -> a - unit [] OTHER -> a
Runs(ch, dme) == ch.de /\ dme /\ ~ch.te
Units(ch) == LET count == IF ch.tcr = 0 THEN FullCount ELSE ch.tcr
             IN  IF ch.ts = 3 THEN (count + 3) \div 4 ELSE count

(* One unit, a piece at a time: a burst is four longword copies. *)
CopyPiece(mem, src, dst, n) ==
    [a \in DOMAIN mem |-> IF a - dst \in 0..(n - 1) THEN mem[src + (a - dst)] ELSE mem[a]]
CopyUnit(mem, src, dst, unit) ==
    LET Longword(m, j) == CopyPiece(m, src + 4 * j, dst + 4 * j, 4)
    IN  IF unit = 16 THEN Longword(Longword(Longword(Longword(mem, 0), 1), 2), 3)
        ELSE CopyPiece(mem, src, dst, unit)

(* What a unit leaves: memory, and where the next one comes from and goes. *)
UnitDone(ch, b) ==
    LET unit == UnitBytes[ch.ts + 1]
    IN  [mem |-> CopyUnit(b.mem, b.sar, b.dar, unit),
         sar |-> Moved(b.sar, ch.sm, unit), dar |-> Moved(b.dar, ch.dm, unit)]

DmacRun(ch, dme, mem) ==
    LET after[k \in 0..Units(ch)] ==
            IF k = 0 THEN [mem |-> mem, sar |-> ch.sar, dar |-> ch.dar] ELSE UnitDone(ch, after[k-1])
        end == after[Units(ch)]
    IN  IF ~Runs(ch, dme) THEN [ch |-> ch, mem |-> mem]
        ELSE [ch |-> [ch EXCEPT !.sar = end.sar, !.dar = end.dar, !.tcr = 0,
                                !.de = FALSE, !.te = TRUE],
              mem |-> end.mem]

(* The transfer-end interrupt: the level of the channel that asks, or none. *)
DmacLevel(channels, dme, level, mask) ==
    IF level > mask /\ dme /\ \E j \in DOMAIN channels : channels[j].ie /\ channels[j].te
    THEN level ELSE 0

(***************************************************************************)
(* The free-running timer.  flags and tier are sets of ICF, OCFA, OCFB and *)
(* OVF; cclra says that a match with OCRA clears the counter; div is the   *)
(* clocks of a tick and 0 the external pin.  pend caches whether an        *)
(* enabled flag is up, and irqOn is the switch for the master's delivery.  *)
(***************************************************************************)
FrtUpdatePend(f) == [f EXCEPT !.pend = f.irqOn /\ (f.tier \cap f.flags # {})]

FrtTick(f) ==
    LET next == (f.frc + 1) % Counts
        matches == next = f.ocra
        clears == matches /\ f.cclra
        now == IF clears THEN 0 ELSE next
    IN  FrtUpdatePend(
          [f EXCEPT !.frc = now, !.pre = IF clears THEN 0 ELSE @,
                    !.flags = @ \cup (IF next = 0 THEN {"OVF"} ELSE {})
                                \cup (IF matches THEN {"OCFA"} ELSE {})
                                \cup (IF now = f.ocrb THEN {"OCFB"} ELSE {})])

(* Mutant: a quiet span that may end on a match. *)
FrtQuietToMatch(f, ticks) ==
    /\ ticks > 1
    /\ ticks < Counts - f.frc
    /\ ticks <= (f.ocra - f.frc) % Counts
    /\ ticks <= (f.ocrb - f.frc) % Counts

(* A span without a match or a wrap is added at once. *)
FrtQuiet(f, ticks) ==
    /\ ticks > 1
    /\ ticks < Counts - f.frc
    /\ ticks <= (f.ocra - f.frc - 1) % Counts
    /\ ticks <= (f.ocrb - f.frc - 1) % Counts

(* Any other span goes tick by tick. *)
FrtTicks(f, ticks) ==
    LET after[k \in 0..ticks] == IF k = 0 THEN f ELSE FrtTick(after[k-1])
    IN  after[ticks]

FrtAdvance(f, cycles) ==
    LET ticks == (f.pre + cycles) \div f.div
        rest  == [f EXCEPT !.pre = (f.pre + cycles) % f.div]
    IN  CASE f.div = 0 -> f
          [] f.div # 0 /\ ticks = 0 -> [f EXCEPT !.pre = @ + cycles]
          [] f.div # 0 /\ ticks # 0 /\ FrtQuiet(rest, ticks) ->
                FrtUpdatePend([rest EXCEPT !.frc = @ + ticks])
          [] OTHER -> FrtTicks(rest, ticks)

(* The doorbell: the other core's write to its mail slot captures the counter. *)
FrtCapture(f) ==
    LET rung == FrtUpdatePend([f EXCEPT !.ficr = f.frc, !.flags = @ \cup {"ICF"}])
    IN  IF f.div = 0 THEN [rung EXCEPT !.frc = (@ + 1) % Counts] ELSE rung

(* Register writes.  A flag written as 0 goes down, one written as 1 keeps what it had. *)
FrtWriteStatus(f, flags, cclra) ==
    FrtUpdatePend([f EXCEPT !.flags = @ \cap flags, !.cclra = cclra])
FrtWriteTier(f, tier) == FrtUpdatePend([f EXCEPT !.tier = tier])
FrtWriteCount(f, v) == [f EXCEPT !.frc = v, !.pre = 0]
FrtWriteCompare(f, v) == IF f.ocrs THEN [f EXCEPT !.ocrb = v] ELSE [f EXCEPT !.ocra = v]
FrtWriteControl(f, div) == [f EXCEPT !.div = div]
FrtWriteSelect(f, ocrs) == [f EXCEPT !.ocrs = ocrs]

(* The vector the core would take, and none below its mask; the slave cannot be switched off. *)
FrtVector(f, slave, level, mask) ==
    LET up == f.tier \cap f.flags
    IN  CASE ~f.irqOn /\ ~slave -> "none"
          [] level = 0 \/ level <= mask -> "none"
          [] "ICF" \in up -> "capture"
          [] "ICF" \notin up /\ up \cap {"OCFA", "OCFB"} # {} -> "compare"
          [] up = {"OVF"} -> "overflow"
          [] OTHER -> "none"

(***************************************************************************)
(* The timer of one core: clocks come in spans, the other core rings, and  *)
(* software reads the status and writes the registers, in any order.       *)
(***************************************************************************)
FrtReset(irqOn) ==
    [frc |-> 0, ocra |-> 0, ocrb |-> 0, pre |-> 0, div |-> Dividers[1], tier |-> {}, flags |-> {},
     cclra |-> FALSE, ficr |-> 0, ocrs |-> FALSE, irqOn |-> irqOn, pend |-> FALSE]

NoClocks == -1
frtVars == <<frt, base, since, seen, unseen>>

FrtStart(f) == frt = f /\ base = f /\ since = NoClocks /\ seen = {} /\ unseen = FALSE
FrtInit == \E irqOn \in BOOLEAN : FrtStart(FrtReset(irqOn))

Advance(n) == /\ frt' = FrtAdvance(frt, n)
              /\ since' = IF since = NoClocks THEN n ELSE since + n
              /\ UNCHANGED <<base, seen, unseen>>

Access(f) == frt' = f /\ base' = f /\ since' = NoClocks

Ring == Access(FrtCapture(frt)) /\ unseen' = TRUE /\ UNCHANGED seen

ReadStatus == seen' = frt.flags /\ unseen' = FALSE /\ UNCHANGED <<frt, base, since>>

\* Software writes back what it read, all of it or without a flag it is done with.
WriteStatus(done, cclra) == Access(FrtWriteStatus(frt, seen \ done, cclra)) /\ UNCHANGED <<seen, unseen>>

WriteRegister ==
  /\ \/ \E v \in CountsWritten : Access(FrtWriteCount(frt, v)) \/ Access(FrtWriteCompare(frt, v))
     \/ \E tier \in TiersWritten : Access(FrtWriteTier(frt, tier))
     \/ \E tcr \in 1..4 : Access(FrtWriteControl(frt, Dividers[tcr]))
     \/ \E ocrs \in BOOLEAN : Access(FrtWriteSelect(frt, ocrs))
  /\ UNCHANGED <<seen, unseen>>

FrtNext ==
  \/ \E n \in Spans : Advance(n)
  \/ Ring
  \/ ReadStatus
  \/ \E done \in {{}, {"ICF"}}, cclra \in BOOLEAN : WriteStatus(done, cclra)
  \/ WriteRegister

(* A division, or a transfer; nothing of them is left but their results. *)
Nothing == [unit |-> "none"]
Divide == \E hi, lo, d \in Operands : given' = [unit |-> "divu", hi |-> hi, lo |-> lo, d |-> d]
Transfer == \E ch \in Channels, m \in Contents : given' = [unit |-> "dmac", ch |-> ch, mem |-> m]

OnChipInit == FrtInit /\ given = Nothing
OnChipNext == \/ FrtNext /\ UNCHANGED given
              \/ (Divide \/ Transfer) /\ UNCHANGED frtVars
OnChipSpec == OnChipInit /\ [][OnChipNext]_<<frt, base, since, seen, unseen, given>>

----------------------------------------------------------------------------
(* Properties. *)

Timers == [frc : 0..(Counts - 1), ocra : 0..(Counts - 1), ocrb : 0..(Counts - 1), pre : Nat,
           div : Nat, tier : SUBSET Flags, flags : SUBSET Flags, cclra : BOOLEAN,
           ficr : 0..(Counts - 1), ocrs : BOOLEAN, irqOn : BOOLEAN, pend : BOOLEAN]

OnChipTypeOK ==
  /\ frt \in Timers /\ base \in Timers /\ since \in Nat \cup {NoClocks}
  /\ seen \subseteq Flags /\ unseen \in BOOLEAN
  /\ \/ given = Nothing
     \/ given \in [unit : {"divu"}, hi : Operands, lo : Operands, d : Operands]
     \/ given \in [unit : {"dmac"}, ch : Channels, mem : Contents]

\* The timer some ticks on, and the timer after n clocks, told at once.
Passes(f, ticks, x) == \E j \in 1..ticks : (f.frc + j) % Counts = x
FlagsOn(f, ticks) == f.flags \cup (IF Passes(f, ticks, 0) THEN {"OVF"} ELSE {})
                             \cup (IF Passes(f, ticks, f.ocra) THEN {"OCFA"} ELSE {})
                             \cup (IF Passes(f, ticks, f.ocrb) THEN {"OCFB"} ELSE {})
TicksOn(f, ticks) == [f EXCEPT !.frc = (f.frc + ticks) % Counts, !.flags = FlagsOn(f, ticks),
                               !.pend = f.irqOn /\ f.tier \cap FlagsOn(f, ticks) # {}]
Counted(f, n) == IF f.div = 0 THEN f
                 ELSE [TicksOn(f, (f.pre + n) \div f.div) EXCEPT !.pre = (f.pre + n) % f.div]

Cause == [none |-> {}, capture |-> {"ICF"}, compare |-> {"OCFA", "OCFB"}, overflow |-> {"OVF"}]

\* Clocks reach the timer in slices of any length.  While a match does not clear
\* the counter, how they are cut makes no difference to the counter or to any flag,
\* though a quiet span is added in one piece; the cached flag the fast paths
\* look at is never stale; and there is a vector to take exactly when that flag
\* says so, of a flag that is up and enabled (frt_advance, frt_capture,
\* frt_write8, frt_pending).
TimerIsExact ==
  /\ frt.pend = (frt.irqOn /\ frt.tier \cap frt.flags # {})
  /\ ~base.cclra => frt = IF since = NoClocks THEN base ELSE Counted(base, since)
  /\ \A slave \in BOOLEAN, level, mask \in Levels16 :
       LET vector == FrtVector(frt, slave, level, mask)
       IN  /\ level > mask /\ frt.irqOn => (vector # "none") = frt.pend
           /\ vector # "none" => frt.tier \cap frt.flags \cap Cause[vector] # {}

\* What is not an overflow multiplies back; an overflow has no quotient that would;
\* and both widths agree (divu_calc32, divu_calc64).
Divides(q, rest, num, den) ==
    /\ num = q * den + rest
    /\ Abs(rest) < Abs(den) /\ (rest = 0 \/ (rest < 0) = (num < 0))
DividerIsExact(hi, lo, d) ==
    LET r == Divu64(hi, lo, d, TRUE)
        num == AsInt(hi, HalfWord) * Word + lo
        den == AsInt(d, HalfWord)
        Same32(ovfie) == Divu32(lo, d, ovfie)
                           = Divu64(IF lo >= HalfWord THEN Word - 1 ELSE 0, lo, d, ovfie)
    IN  /\ ~r.ovf => \E q \in {AsInt(r.q, HalfWord), r.q} :
                         Divides(q, AsInt(r.r, HalfWord), num, den)
        /\ r.ovf => \A q \in MinInt..MaxInt : ~Divides(q, num - q * den, num, den)
        /\ Same32(FALSE) /\ (d # 0 => Same32(TRUE))

\* A DMA channel in burst mode moves what longword mode would move for its count
\* rounded up to bursts, and no byte beyond it; and it stops there, asking for its
\* interrupt (dmac_run, dmac_pending).
BurstsAreLongwords(ch, m) ==
    LET n == IF ch.tcr = 0 THEN FullCount ELSE ch.tcr
        bursts == (n + 3) \div 4
        burst == DmacRun([ch EXCEPT !.ts = 3], TRUE, m)
        long  == DmacRun([ch EXCEPT !.ts = 2, !.tcr = 4 * bursts], TRUE, m)
        bytes == DmacRun([ch EXCEPT !.ts = 0], TRUE, m)
    IN  /\ burst.mem = long.mem /\ burst.ch.sar = long.ch.sar /\ burst.ch.dar = long.ch.dar
        /\ \A a \in Addresses :
              /\ burst.mem[a] # m[a] => a \in ch.dar..(ch.dar + 16 * bursts - 1)
              /\ bytes.mem[a] # m[a] => a \in ch.dar..(ch.dar + n - 1)
        /\ DmacRun(burst.ch, TRUE, burst.mem) = burst
        /\ \A level, mask \in Levels16 : level > mask => DmacLevel(<<burst.ch>>, TRUE, level, mask) = level

\* The units beside the core, whatever software gives them and however the clocks
\* come: the timer, the divider and the DMA controller are exact.
OnChipIsExact ==
  /\ TimerIsExact
  /\ given.unit = "divu" => DividerIsExact(given.hi, given.lo, given.d)
  /\ given.unit = "dmac" => BurstsAreLongwords(given.ch, given.mem)

\* bus.c:1701 "a read-modify-write that sets an unrelated bit cannot clear a flag
\* that set between the read and the write": a doorbell rung before its owner has
\* seen it stays up.
DoorbellIsKept == unseen => "ICF" \in frt.flags
=============================================================================
